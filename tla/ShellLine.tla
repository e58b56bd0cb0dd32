----------------------------- MODULE ShellLine ------------------------------
(***************************************************************************)
(* The shell's input line: text, cursor, selection, history and the copy   *)
(* and paste of the clipboard.  One key event is one step.                 *)
(***************************************************************************)
EXTENDS Selection, SequencesExt

CONSTANTS
    MaxInput,       \* SHELL_MAX_INPUT
    HistorySize,
    TabWidth

ASSUME ShellAssumption ==
    Space \in Chars /\ MaxInput \in Nat /\ HistorySize \in Nat \ {0} /\ TabWidth \in Nat

VARIABLE shell

Line == UNION {[1 .. n -> Chars] : n \in 0 .. MaxInput}

(* A history variable: a "stray" anchor is one that a deletion without a    *)
(* selection left where it was.                                             *)
Prompt(history, clipboard) ==
    [line |-> <<>>, cursor |-> 0, anchor |-> None, clipboard |-> clipboard,
     history |-> history, index |-> None, draft |-> <<>>, stray |-> FALSE]

LineInit == shell = Prompt(<<>>, <<>>)

Upto(s, n) == SubSeq(s.line, 1, n)

From(s, n) == SubSeq(s.line, n + 1, Len(s.line))

(* Takes the text between two places out; the cursor goes to the first.    *)
CutOut(s, first, last) ==
    [s EXCEPT !.line = Upto(s, first) \o From(s, last), !.cursor = first]

\* Mutant: the anchor is not forgotten with the text.
DeleteSelectionOnly(s) ==
    IF HasSelection(s) THEN CutOut(s, SelectionStart(s), SelectionEnd(s)) ELSE s

DeleteSelection(s) ==
    IF HasSelection(s)
    THEN [CutOut(s, SelectionStart(s), SelectionEnd(s)) EXCEPT !.anchor = None, !.stray = FALSE]
    ELSE s

(* As many characters as there is room for; the rest is dropped.  The       *)
(* first one takes the place of the selection.                             *)
InsertAll(s, text) ==
    LET t == DeleteSelection(s)
        room == MaxInput - Len(t.line)
        put == IF Len(text) <= room THEN text ELSE SubSeq(text, 1, room)
    IN  IF text = <<>> THEN s
        ELSE IF room = 0 THEN t
        ELSE [t EXCEPT !.line = Upto(t, t.cursor) \o put \o From(t, t.cursor),
                       !.cursor = @ + Len(put), !.anchor = None, !.stray = FALSE]

InsertChar(s, c) == InsertAll(s, <<c>>)

(* Backspace and Delete remove the selection or one character; then they   *)
(* leave an anchor without a selection where it was.                       *)
Erase(s, first, last) ==
    IF HasSelection(s) THEN DeleteSelection(s)
    ELSE IF first < 0 \/ last > Len(s.line) THEN s
    ELSE [CutOut(s, first, last) EXCEPT !.stray = s.anchor # None]

(* With Ctrl the cursor crosses the spaces and then the word next to it.   *)
WordLeft(s) ==
    LET spaces == {n \in 0 .. s.cursor : \A i \in n + 1 .. s.cursor : s.line[i] = Space}
        edge == Min(spaces)
        word == {n \in 0 .. edge : \A i \in n + 1 .. edge : s.line[i] # Space}
    IN  Min(word)

WordRight(s) ==
    LET end == Len(s.line)
        spaces == {n \in s.cursor .. end : \A i \in s.cursor + 1 .. n : s.line[i] = Space}
        edge == Max(spaces)
        word == {n \in edge .. end : \A i \in edge + 1 .. n : s.line[i] # Space}
    IN  Max(word)

(* An arrow with Shift starts a selection, without it ends one.            *)
Anchored(s, shift) ==
    [s EXCEPT !.anchor = IF ~shift THEN None ELSE IF @ = None THEN s.cursor ELSE @,
              !.stray = @ /\ shift]

SetLine(s, text) == [s EXCEPT !.line = text, !.cursor = Len(text), !.anchor = None,
                                    !.stray = FALSE]

-----------------------------------------------------------------------------
(* A selection that reaches behind the end of the line, as a stray anchor   *)
(* makes it, moves what is not part of the line: such keys are not followed. *)
SelectionInLine == shell.anchor <= Len(shell.line)

Insert ==
    /\ SelectionInLine
    /\ \/ \E c \in Chars : shell' = InsertChar(shell, c)
       \/ shell' = InsertAll(shell, [i \in 1 .. TabWidth |-> Space])

Backspace == SelectionInLine /\ shell' = Erase(shell, shell.cursor - 1, shell.cursor)

DeleteAtCursor ==
    /\ SelectionInLine
    /\ shell' = Erase(shell, shell.cursor, shell.cursor + 1)

Left ==
    \E shift, word \in BOOLEAN :
        shell' = [Anchored(shell, shift) EXCEPT
                     !.cursor = IF word THEN WordLeft(shell) ELSE IF @ > 0 THEN @ - 1 ELSE @]

Right ==
    \E shift, word \in BOOLEAN :
        shell' = [Anchored(shell, shift) EXCEPT
                     !.cursor = IF word THEN WordRight(shell)
                                ELSE IF @ < Len(shell.line) THEN @ + 1 ELSE @]

HomeOrEnd ==
    \E n \in {0, Len(shell.line)} :
        shell' = [shell EXCEPT !.anchor = None, !.stray = FALSE, !.cursor = n]

Copy ==
    /\ SelectionInLine /\ HasSelection(shell)
    /\ shell' = [shell EXCEPT !.clipboard =
                    SubSeq(shell.line, SelectionStart(shell) + 1, SelectionEnd(shell))]

(* The clipboard may hold more than fits behind what is left of the line.  *)
Paste ==
    /\ SelectionInLine
    /\ LET s == DeleteSelection(shell)
           room == MaxInput - Len(s.line)
       IN  shell' = InsertAll(s, IF Len(s.clipboard) > room
                                 THEN SubSeq(s.clipboard, 1, room) ELSE s.clipboard)

HistoryUp ==
    /\ shell.history # <<>>
    /\ LET s == IF shell.index = None
                THEN [shell EXCEPT !.draft = shell.line, !.index = Len(shell.history)]
                ELSE [shell EXCEPT !.index = IF @ > 1 THEN @ - 1 ELSE @]
       IN  shell' = SetLine(s, s.history[s.index])

(* The draft is not read again before it is replaced.                      *)
HistoryDown ==
    /\ shell.index # None
    /\ IF shell.index < Len(shell.history)
       THEN shell' = SetLine([shell EXCEPT !.index = @ + 1], shell.history[shell.index + 1])
       ELSE shell' = SetLine([shell EXCEPT !.index = None, !.draft = <<>>], shell.draft)

StoreHistory(history, line) ==
    IF line = <<>> \/ (history # <<>> /\ Last(history) = line) THEN history
    ELSE IF Len(history) < HistorySize THEN Append(history, line)
    ELSE Append(Tail(history), line)

(* Enter runs the line and shows a new prompt.                             *)
Enter == shell' = Prompt(StoreHistory(shell.history, shell.line), shell.clipboard)

LineNext ==
    \/ Insert \/ Backspace \/ DeleteAtCursor \/ Left \/ Right \/ HomeOrEnd
    \/ Copy \/ Paste \/ HistoryUp \/ HistoryDown \/ Enter

LineSpec == LineInit /\ [][LineNext]_shell

-----------------------------------------------------------------------------
LineTypes ==
    /\ {shell.line, shell.draft} \cup Range(shell.history) \subseteq Line
    /\ shell.clipboard \in Line /\ shell.anchor \in None .. MaxInput
    /\ Len(shell.history) <= HistorySize

(* Whatever is typed, deleted, pasted and fetched from the history, the      *)
(* cursor stays within the line and so does the selection, except where a    *)
(* deletion without a selection left the anchor behind the shorter line.     *)
LineKept ==
    /\ shell.cursor \in 0 .. Len(shell.line)
    /\ shell.anchor <= Len(shell.line) \/ shell.stray
    /\ shell.index # None => shell.index \in DOMAIN shell.history
=============================================================================
