----------------------------- MODULE BytecodeVm -----------------------------
(***************************************************************************)
(* The virtual machine that runs what PrismCC compiles: one action per     *)
(* group of opcodes of the switch in bytecode_vm_run, for the opcodes that *)
(* the compiler emits.  The bytes of an image are decoded as they are.     *)
(* Numbers are meant to stay inside 32 bits.                               *)
(***************************************************************************)
EXTENDS PrismCC

CONSTANTS
    StackMax,       \* BCVM_STACK_MAX
    CallDepthMax,   \* BCVM_CALL_DEPTH_MAX
    MaxSteps,       \* BCVM_MAX_STEPS
    ArraySlots,     \* BCVM_HEAP_ARRAY_MAX
    ArrayCells,     \* BCVM_HEAP_ARRAY_CELLS
    StringSlots,    \* BCVM_HEAP_STRING_MAX
    StringBytes,    \* BCVM_HEAP_STRING_BYTES
    Numbers,        \* what is typed where a number is read
    Texts,          \* what is typed where a line is read
    MaxAnswers      \* bound: answers of the world that one run is followed for

VARIABLE vm

Slot == [used |-> FALSE, offset |-> 0, length |-> 0]

EmptyHeap(slots, cells, blank) ==
    [slots |-> [s \in 0 .. slots - 1 |-> Slot], cells |-> [i \in 0 .. cells - 1 |-> blank],
     offset |-> 0, slot |-> 0]

EmptyFrame == [i \in 0 .. LocalsMax - 1 |-> 0]

(* answers are those of the user and of the file system, in their order.   *)
Loaded(code, data, entry) ==
    [phase |-> "running", code |-> code, data |-> data, pc |-> entry, stack |-> <<>>,
     frames |-> <<EmptyFrame>>, returns |-> <<>>, steps |-> 0, fullscreen |-> FALSE,
     arrays |-> EmptyHeap(ArraySlots, ArrayCells, 0),
     strings |-> EmptyHeap(StringSlots, StringBytes, " "),
     input |-> <<>>, out |-> <<>>, files |-> <<>>, answers |-> <<>>]

Stopped(v, how) == [v EXCEPT !.phase = how]

Fault(v) == Stopped(v, "fault")

-----------------------------------------------------------------------------
(* Fetching, operands and the stack.                                       *)
Fetched == [vm EXCEPT !.pc = @ + 1, !.steps = IF @ < MaxSteps THEN @ + 1 ELSE @]

Running == vm.phase = "running"

InCode == vm.pc < Len(vm.code)

InBudget == vm.fullscreen \/ Fetched.steps < MaxSteps

U16At(v, i) == v.code[v.pc + i + 1] + 256 * v.code[v.pc + i + 2]

U32At(v) == U16At(v, 0) + 65536 * U16At(v, 2)

Skip(v, n) == [v EXCEPT !.pc = @ + n]

PushOn(v, x) == [v EXCEPT !.stack = Append(@, x)]

Drop(v, n) == [v EXCEPT !.stack = SubSeq(@, 1, Len(@) - n)]

(* The value with n others above it.                                       *)
Under(v, n) == v.stack[Len(v.stack) - n]

Top(v) == Under(v, 0)

Write(v, kind, value) == [v EXCEPT !.out = Append(@, <<kind, value>>)]

Answered(v, kind, value) == [v EXCEPT !.answers = Append(@, <<kind, value>>)]

(* An opcode with so many operand bytes that takes so many values and puts *)
(* so many: a fault where the image or the stack does not hold them.       *)
Instruction(ops, bytes, values, puts, Do(_)) ==
    /\ Running
    /\ InCode
    /\ InBudget
    /\ vm.code[vm.pc + 1] \in ops
    /\ vm' = LET v == Fetched
             IN  IF /\ v.pc + bytes <= Len(v.code)
                    /\ Len(v.stack) >= values
                    /\ Len(v.stack) - values + puts <= StackMax
                 THEN Do(v)
                 ELSE Fault(v)

-----------------------------------------------------------------------------
(* Numbers.                                                                *)
Quotient(a, b) ==
    LET Size(n) == IF n < 0 THEN -n ELSE n
        q == Size(a) \div Size(b)
    IN  IF (a < 0) = (b < 0) THEN q ELSE -q

Remainder(a, b) == a - b * Quotient(a, b)

PushI32 == Instruction({Op.PUSH_I32}, 4, 0, 1, LAMBDA v : PushOn(Skip(v, 4), U32At(v)))

Calculated(op, l, r) ==
    CASE op = Op.ADD -> l + r
      [] op = Op.SUB -> l - r
      [] op = Op.MUL -> l * r
      [] op = Op.DIV -> Quotient(l, r)
      [] op = Op.MOD -> Remainder(l, r)

Arithmetic ==
    LET op == vm.code[vm.pc + 1]
        Do(v) == IF op \in {Op.DIV, Op.MOD} /\ Top(v) = 0 THEN Fault(v)
                 ELSE PushOn(Drop(v, 2), Calculated(op, Under(v, 1), Top(v)))
    IN  Instruction({Op.ADD, Op.SUB, Op.MUL, Op.DIV, Op.MOD}, 0, 2, 1, Do)

(* Whole and fraction of the left side are taken apart, so that the        *)
(* products are smaller.                                                   *)
FloatArithmetic ==
    LET op == vm.code[vm.pc + 1]
        Times(l, r) == Quotient(l, FloatScale) * r
                         + Quotient(Remainder(l, FloatScale) * r, FloatScale)
        Over(l, r) == Quotient(l, r) * FloatScale
                        + Quotient(Remainder(l, r) * FloatScale, r)
        Do(v) == IF op = Op.FDIV /\ Top(v) = 0 THEN Fault(v)
                 ELSE PushOn(Drop(v, 2), IF op = Op.FMUL THEN Times(Under(v, 1), Top(v))
                                         ELSE Over(Under(v, 1), Top(v)))
    IN  Instruction({Op.FMUL, Op.FDIV}, 0, 2, 1, Do)

Negate == Instruction({Op.NEG}, 0, 1, 1, LAMBDA v : PushOn(Drop(v, 1), -Top(v)))

Holds(op, l, r) ==
    CASE op = Op.EQ -> l = r
      [] op = Op.NE -> l # r
      [] op = Op.LT -> l < r
      [] op = Op.LE -> l <= r
      [] op = Op.GT -> l > r
      [] op = Op.GE -> l >= r

Truth(holds) == IF holds THEN 1 ELSE 0

Compare ==
    LET op == vm.code[vm.pc + 1]
        Do(v) == PushOn(Drop(v, 2), Truth(Holds(op, Under(v, 1), Top(v))))
    IN  Instruction({Op.EQ, Op.NE, Op.LT, Op.LE, Op.GT, Op.GE}, 0, 2, 1, Do)

-----------------------------------------------------------------------------
(* Locals, jumps and calls.                                                *)
Depth(v) == Len(v.frames)

LoadsLocal ==
    LET Do(v) == IF U16At(v, 0) >= LocalsMax THEN Fault(v)
                 ELSE PushOn(Skip(v, 2), v.frames[Depth(v)][U16At(v, 0)])
    IN  Instruction({Op.LOAD_LOCAL}, 2, 0, 1, Do)

StoresLocal ==
    LET Do(v) == IF U16At(v, 0) >= LocalsMax THEN Fault(v)
                 ELSE Drop([Skip(v, 2) EXCEPT !.frames[Depth(v)][U16At(v, 0)] = Top(v)], 1)
    IN  Instruction({Op.STORE_LOCAL}, 2, 1, 0, Do)

JumpTo(v, target) == IF target >= Len(v.code) THEN Fault(v) ELSE [v EXCEPT !.pc = target]

Jump == Instruction({Op.JMP}, 4, 0, 0, LAMBDA v : JumpTo(v, U32At(v)))

JumpIfZero ==
    LET Do(v) == IF Top(v) = 0 THEN JumpTo(Drop(v, 1), U32At(v)) ELSE Skip(Drop(v, 1), 4)
    IN  Instruction({Op.JMP_IF_ZERO}, 4, 1, 0, Do)

TooDeepByOne(v) == Depth(v) > CallDepthMax + 1

TooDeep(v) == Depth(v) > CallDepthMax

(* The arguments become the first locals of a cleared frame.               *)
FrameOf(v, count) ==
    [i \in DOMAIN EmptyFrame |-> IF i < count THEN Under(v, count - 1 - i) ELSE 0]

CallArgs ==
    LET Count(v) == v.code[v.pc + 5]
        Do(v) == IF TooDeep(v) \/ U32At(v) >= Len(v.code) \/ Len(v.stack) < Count(v)
                 THEN Fault(v)
                 ELSE [Drop(v, Count(v)) EXCEPT !.returns = Append(@, v.pc + 5),
                                                !.frames = Append(@, FrameOf(v, Count(v))),
                                                !.pc = U32At(v)]
    IN  Instruction({Op.CALL_ARGS}, 5, 0, 0, Do)

Return ==
    LET Do(v) == IF Depth(v) = 1 THEN Stopped(v, "ended")
                 ELSE [v EXCEPT !.frames = Front(@), !.returns = Front(@),
                                !.pc = Last(v.returns)]
    IN  Instruction({Op.RET}, 0, 1, 1, Do)

PopValue == Instruction({Op.POP}, 0, 1, 0, LAMBDA v : Drop(v, 1))

-----------------------------------------------------------------------------
(* The two heaps: a slot after the other, cells after cells.               *)
Cells(heap, s) ==
    [i \in 1 .. heap.slots[s].length |-> heap.cells[heap.slots[s].offset + i - 1]]

(* content in the next slot of a heap that has room for it.                *)
Filled(heap, slots, content) ==
    LET s == IF heap.slot >= slots THEN 0 ELSE heap.slot
        n == Len(content)
    IN  [heap EXCEPT !.slots[s] = [used |-> TRUE, offset |-> heap.offset, length |-> n],
                     !.cells = [i \in DOMAIN @ |-> IF i - heap.offset \in 0 .. n - 1
                                                   THEN content[i - heap.offset + 1]
                                                   ELSE @[i]],
                     !.offset = @ + n,
                     !.slot = s + 1]

(* The slot that Filled took.                                              *)
LastSlot(heap) == heap.slot - 1

NoSlots(heap) == [s \in DOMAIN heap.slots |-> [heap.slots[s] EXCEPT !.used = FALSE]]

CreateArray(v, length) ==
    LET room == v.arrays.offset + length <= ArrayCells
        heap == IF room THEN v.arrays
                ELSE [v.arrays EXCEPT !.offset = 0, !.slot = 0, !.slots = NoSlots(v.arrays)]
    IN  [v EXCEPT !.arrays = Filled(heap, ArraySlots, [i \in 1 .. length |-> 0])]

StoreString(v, text) ==
    LET room == v.strings.offset + Len(text) <= StringBytes
        heap == IF room THEN v.strings
                ELSE [v.strings EXCEPT !.offset = 0, !.slots = NoSlots(v.strings)]
    IN  [v EXCEPT !.strings = Filled(heap, StringSlots, text)]

(* VM_STRING_DESC_HEAP_MASK, as a signed number.                           *)
HeapMask == -2147483647 - 1

IsText(v, d) ==
    IF d < 0 THEN (d - HeapMask) % 256 < StringSlots
                  /\ v.strings.slots[(d - HeapMask) % 256].used
    ELSE (d \div 65536) + (d % 65536) <= Len(v.data)

TextOf(v, d) ==
    IF d < 0 THEN Cells(v.strings, (d - HeapMask) % 256)
    ELSE SubSeq(v.data, (d \div 65536) + 1, (d \div 65536) + (d % 65536))

PushText(v, text) ==
    IF Len(text) > StringBytes THEN Fault(v)
    ELSE LET stored == StoreString(v, text)
         IN  PushOn(stored, HeapMask + LastSlot(stored.strings))

NewArray ==
    LET Do(v) == IF U16At(v, 0) \notin 1 .. ArrayCells THEN Fault(v)
                 ELSE LET made == CreateArray(v, U16At(v, 0))
                      IN  PushOn(Skip(made, 2), LastSlot(made.arrays))
    IN  Instruction({Op.ARR_NEW}, 2, 0, 1, Do)

IsCell(v, handle, index) ==
    /\ handle \in DOMAIN v.arrays.slots
    /\ v.arrays.slots[handle].used
    /\ index \in 0 .. v.arrays.slots[handle].length - 1

CellOf(v, handle, index) == v.arrays.slots[handle].offset + index

ArrayGet ==
    LET Do(v) == IF ~IsCell(v, Under(v, 1), Top(v)) THEN Fault(v)
                 ELSE PushOn(Drop(v, 2), v.arrays.cells[CellOf(v, Under(v, 1), Top(v))])
    IN  Instruction({Op.ARR_GET}, 0, 2, 1, Do)

ArraySet ==
    LET Do(v) == IF ~IsCell(v, Under(v, 2), Under(v, 1)) THEN Fault(v)
                 ELSE Drop([v EXCEPT !.arrays.cells[CellOf(v, Under(v, 2), Under(v, 1))] =
                                        Top(v)], 3)
    IN  Instruction({Op.ARR_SET}, 0, 3, 0, Do)

-----------------------------------------------------------------------------
(* The console and the keyboard.                                           *)
PrintNumber ==
    LET kind == CASE vm.code[vm.pc + 1] = Op.PRINT_INT -> "int"
                  [] vm.code[vm.pc + 1] = Op.PRINT_FLOAT -> "float"
                  [] OTHER -> "char"
    IN  Instruction({Op.PRINT_INT, Op.PRINT_FLOAT, Op.PRINT_CHAR}, 0, 1, 0,
                    LAMBDA v : Drop(Write(v, kind, Top(v)), 1))

PrintText ==
    LET Do(v) == IF ~IsText(v, Top(v)) THEN Fault(v)
                 ELSE Drop(Write(v, "text", TextOf(v, Top(v))), 1)
    IN  Instruction({Op.PRINT_STR_VAL}, 0, 1, 0, Do)

PrintColour ==
    LET Do(v) == IF ~IsText(v, Top(v)) THEN Fault(v)
                 ELSE Drop(Write(v, "colour", <<Under(v, 1) % 16, TextOf(v, Top(v))>>), 2)
    IN  Instruction({Op.PRINT_COLOR_STR_VAL}, 0, 2, 0, Do)

PrintNewLine == Instruction({Op.PRINT_NL}, 0, 0, 0, LAMBDA v : Write(v, "newline", 0))

PrintInput ==
    Instruction({Op.PRINT_INPUT}, 0, 0, 0, LAMBDA v : Write(v, "text", v.input))

(* Colours are held between the first and the last.                        *)
DrawPixel ==
    LET Clamped(n) == IF n < 0 THEN 0 ELSE IF n > 15 THEN 15 ELSE n
    IN  Instruction({Op.DRAW_PIXEL}, 0, 3, 0,
            LAMBDA v : Drop(Write(v, "pixel", <<Under(v, 2), Under(v, 1), Clamped(Top(v))>>), 3))

ReadInt ==
    \E n \in Numbers : Instruction({Op.READ_INT}, 0, 0, 1,
        LAMBDA v : PushOn(Answered(v, "int", n), n))

ReadsText ==
    \E text \in Texts : Instruction({Op.READ_TEXT}, 0, 0, 1,
        LAMBDA v : PushText(Answered([v EXCEPT !.input = text], "text", text), text))

InputLength ==
    Instruction({Op.INPUT_LEN}, 0, 0, 1, LAMBDA v : PushOn(v, Len(v.input)))

InputEquals ==
    LET Do(v) == IF U16At(v, 0) + U16At(v, 2) > Len(v.data) THEN Fault(v)
                 ELSE PushOn(Skip(v, 4), Truth(v.input =
                        SubSeq(v.data, U16At(v, 0) + 1, U16At(v, 0) + U16At(v, 2))))
    IN  Instruction({Op.INPUT_EQ}, 4, 0, 1, Do)

StringLength ==
    LET Do(v) == IF ~IsText(v, Top(v)) THEN Fault(v)
                 ELSE PushOn(Drop(v, 1), Len(TextOf(v, Top(v))))
    IN  Instruction({Op.STR_LEN}, 0, 1, 1, Do)

StringEquals ==
    LET Do(v) == IF ~(IsText(v, Under(v, 1)) /\ IsText(v, Top(v))) THEN Fault(v)
                 ELSE PushOn(Drop(v, 2), Truth(TextOf(v, Under(v, 1)) = TextOf(v, Top(v))))
    IN  Instruction({Op.STR_EQ}, 0, 2, 1, Do)

-----------------------------------------------------------------------------
(* Files, by name; a write may fail.  A full stack is refused before the   *)
(* operands are taken, by all but FILE_READ.                               *)
FileRead ==
    LET Do(v) == IF ~IsText(v, Top(v)) \/ TextOf(v, Top(v)) \notin DOMAIN v.files
                 THEN Fault(v)
                 ELSE PushText(Drop(v, 1), v.files[TextOf(v, Top(v))])
    IN  Instruction({Op.FILE_READ}, 0, 1, 1, Do)

FileText(v, name) == IF name \in DOMAIN v.files THEN v.files[name] ELSE <<>>

FileWrite ==
    \E status \in {0, -1} :
        LET append == vm.code[vm.pc + 1] = Op.FILE_APPEND
            Kept(v) == IF append THEN FileText(v, TextOf(v, Under(v, 1))) ELSE <<>>
            Named(v) == IsText(v, Under(v, 1)) /\ IsText(v, Top(v))
            Saved(v) == IF status = 0 /\ Named(v)
                        THEN [v EXCEPT !.files = (TextOf(v, Under(v, 1)) :>
                                                    (Kept(v) \o TextOf(v, Top(v)))) @@ @]
                        ELSE v
            Do(v) == PushOn(Drop(Saved(Answered(v, "int", status)), 2),
                            IF Named(v) THEN status ELSE -1)
        IN  Instruction({Op.FILE_WRITE, Op.FILE_APPEND}, 0, 2, 3, Do)

FileExists ==
    Instruction({Op.FILE_EXISTS}, 0, 1, 2,
        LAMBDA v : PushOn(Drop(v, 1), Truth(IsText(v, Top(v))
                                            /\ TextOf(v, Top(v)) \in DOMAIN v.files)))

-----------------------------------------------------------------------------
(* The screen of the program, and the ways it ends.                        *)
SetFullscreen ==
    Instruction({Op.SET_FULLSCREEN}, 0, 1, 0,
        LAMBDA v : Drop([v EXCEPT !.fullscreen = Top(v) # 0], 1))

AppShouldQuit ==
    \E quit \in {0, 1} :
        /\ Running
        /\ Len(vm.answers) >= MaxAnswers => quit = 1
        /\ Instruction({Op.APP_SHOULD_QUIT}, 0, 0, 1,
               LAMBDA v : PushOn(Answered(v, "int", quit), quit))

AppExit == Instruction({Op.APP_EXIT}, 0, 0, 0, LAMBDA v : Stopped(v, "ended"))

(* Esc, looked for before every instruction of a program in fullscreen.    *)
QuitShortcut ==
    /\ Running
    /\ InCode
    /\ vm.fullscreen
    /\ vm' = Stopped(Fetched, "quit")

(* The budget of steps is used up, or the code has no more instructions.   *)
Abort ==
    /\ Running
    /\ ~InCode \/ ~InBudget
    /\ vm' = Stopped(vm, "aborted")

Step ==
    \/ PushI32 \/ LoadsLocal \/ StoresLocal \/ Arithmetic \/ FloatArithmetic \/ Negate
    \/ Compare \/ Jump \/ JumpIfZero \/ CallArgs \/ Return \/ PopValue
    \/ NewArray \/ ArrayGet \/ ArraySet
    \/ PrintNumber \/ PrintText \/ PrintColour \/ PrintNewLine \/ PrintInput \/ DrawPixel
    \/ ReadInt \/ ReadsText \/ InputLength \/ InputEquals \/ StringLength \/ StringEquals
    \/ FileRead \/ FileWrite \/ FileExists
    \/ SetFullscreen \/ AppShouldQuit \/ AppExit \/ QuitShortcut \/ Abort
=============================================================================
