------------------------------ MODULE MCParts ------------------------------
(***************************************************************************)
(* Six parts that share no state with each other, one of them in each      *)
(* behaviour: the package manager, the line, the editor and the memory stay*)
(* where they begin and the variables of the others are Off.               *)
(***************************************************************************)
EXTENDS Packages, ShellLine, Editor, Memory

CONSTANTS
    \* Http
    Answers, RawCapacity, BodyCapacity,
    \* Prism
    LocalsMax, CodeMax, DataMax, FloatScale, StackMax, CallDepthMax, MaxSteps,
    ArraySlots, ArrayCells, StringSlots, StringBytes, Numbers, Texts, MaxAnswers, Programs

VARIABLES part, http, vm

Client == INSTANCE Http
Compiler == INSTANCE Prism

Off == "off"

vars == <<part, pm, http, shell, ed, mem, vm>>

InitManager == part = "packages" /\ http = Off /\ vm = Off

InitClient == part = "http" /\ Client!Init /\ vm = Off

InitLine == part = "line" /\ http = Off /\ vm = Off

InitText == part = "editor" /\ http = Off /\ vm = Off

InitPhysical == part = "memory" /\ http = Off /\ vm = Off

InitCompiler == part = "prism" /\ Compiler!Init /\ http = Off

Init ==
    /\ ManagerInit /\ LineInit /\ EditorInit /\ MemoryInit
    /\ InitManager \/ InitClient \/ InitLine \/ InitText \/ InitPhysical \/ InitCompiler

NextManager == part = "packages" /\ ManagerNext /\ UNCHANGED <<part, http, shell, ed, mem, vm>>

NextClient == part = "http" /\ Client!Next /\ UNCHANGED <<part, pm, shell, ed, mem, vm>>

NextLine == part = "line" /\ LineNext /\ UNCHANGED <<part, pm, http, ed, mem, vm>>

NextText == part = "editor" /\ EditorNext /\ UNCHANGED <<part, pm, http, shell, mem, vm>>

NextPhysical == part = "memory" /\ MemoryNext /\ UNCHANGED <<part, pm, http, shell, ed, vm>>

NextCompiler == part = "prism" /\ Compiler!Next /\ UNCHANGED <<part, pm, http, shell, ed, mem>>

Next == NextManager \/ NextClient \/ NextLine \/ NextText \/ NextPhysical \/ NextCompiler

Spec == Init /\ [][Next]_vars

-----------------------------------------------------------------------------
(* The types and bounds of the part that runs.                             *)
TypeOK ==
    /\ part = "packages" => ManagerTypes
    /\ part = "http" => Client!TypeOK
    /\ LineTypes
    /\ EditorTypes
    /\ MemoryTypes
    /\ part = "prism" => Compiler!TypeOK

(* "HTTP supports Content-Length, chunked, and close-delimited response    *)
(* bodies": a request that succeeds has the whole body of a server that    *)
(* says how long it is, wherever the stream was cut, and the beginning of  *)
(* the body of one that does not; unless the header that says it is the    *)
(* last one, which loses its last character.                               *)
WholeBody == part = "http" => Client!WholeBody

(* A source that the language allows is compiled, any other is refused,    *)
(* and the run of the image prints what the program means, with the same   *)
(* answers, and ends as it does: normally, or in a fault for a division by *)
(* zero, an index out of range, a file that is not there or calls nested   *)
(* too deep.  A run that Esc ends has printed a beginning of it.  Only a   *)
(* program that never ends uses up the budget.                             *)
CompiledTrue == part = "prism" => Compiler!CompiledTrue

-----------------------------------------------------------------------------
(* The instances that are checked.                                         *)
(* Two rows, one with another artifact, and two that cannot be installed   *)
(* before a third that is refused.                                         *)
TestCatalogs ==
    LET Row(key, build) == [key |-> key, build |-> build]
    IN  {<<Row("a", "app"), Row("b", "app2")>>, <<Row("b", "app")>>,
         <<Row("a", "driver"), Row("b", "big"), Row("b", "app2")>>}

(* A body of twelve bytes with its length, in chunks, or until the server  *)
(* closes; one byte too long for the caller, and too long for the buffer.  *)
TestAnswers ==
    LET Answer(headers, chunks, length) ==
            [headers |-> headers, chunks |-> chunks, length |-> length]
    IN  {Answer(headers, <<>>, 12) :
            headers \in {<<"other">>, <<"length", "other">>, <<"other", "length">>}}
        \cup {Answer(headers, <<7, 5>>, 12) :
                headers \in {<<"encoding", "other">>, <<"other", "encoding">>}}
        \cup {Answer(<<"length", "other">>, <<>>, length) : length \in {13, 30}}

(* Reserved memory beside and after usable memory, out of order, and a     *)
(* region inside another; framebuffers behind, at the end and within.      *)
TestMachines ==
    LET Region(start, length, available) ==
            [start |-> start, length |-> length, available |-> available]
        Machine(map, framebuffer) ==
            [map |-> map, info |-> <<17, 18>>, kernel |-> <<6, 11>>,
             framebuffer |-> framebuffer]
    IN  {Machine(<<Region(0, 3, TRUE), Region(3, 1, FALSE), Region(4, 34, TRUE)>>, <<43, 46>>),
         Machine(<<Region(4, 26, TRUE), Region(0, 3, TRUE), Region(60, 4, FALSE)>>, <<60, 64>>),
         Machine(<<Region(4, 50, TRUE), Region(20, 10, FALSE)>>, <<26, 30>>)}

TestFiles == {<<"a", "n", "a">>}

TestClipboards == {<<"a">>}

Samples == INSTANCE MCPrograms

TestPrograms == Samples!TestPrograms

TestTexts == Samples!TestTexts
=============================================================================
