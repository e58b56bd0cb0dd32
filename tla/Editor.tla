------------------------------- MODULE Editor -------------------------------
(***************************************************************************)
(* The text editor: buffer, cursor, selection, and what it draws.  A key   *)
(* and the drawing that follows it, before the next key is read, are one   *)
(* step.  The text area is redrawn row by row where its signature differs  *)
(* from that of the row drawn before; the signature, a hash of what is     *)
(* seen of the row, stands here for exactly that.                          *)
(***************************************************************************)
EXTENDS Selection, SequencesExt, FiniteSetsExt

CONSTANTS
    NewLine,
    MaxText,        \* EDITOR_MAX_TEXT
    TabSpaces,      \* what the tabulator inserts
    Rows,           \* of the text area
    Columns,
    Files,          \* contents of the file that is opened
    Clipboards      \* what other programs have copied

ASSUME EditorAssumption ==
    /\ Space \in Chars /\ MaxText \in Nat /\ TabSpaces \in Nat
    /\ Rows \in Nat \ {0} /\ Columns \in Nat
    /\ Files \cup Clipboards \subseteq Seq(Chars \cup {NewLine})

VARIABLE ed

Letters == Chars \cup {NewLine}

EditorInit ==
    \E file \in Files, clip \in Clipboards :
        ed = [at |-> "shell", file |-> file, clip |-> clip, text |-> <<>>, cursor |-> 0,
              anchor |-> None, preferred |-> 0, scroll |-> 0, modified |-> FALSE,
              title |-> FALSE, drawn |-> None,
              screen |-> [r \in 1 .. Rows |-> [text |-> <<>>, marked |-> {}]]]

-----------------------------------------------------------------------------
(* Lines of the text.  Places are between characters, from 0 on.           *)

LineStart(text, at) ==
    Max({n \in 0 .. at : n = 0 \/ text[n] = NewLine})

LineEnd(text, at) ==
    Min({n \in at .. Len(text) : n = Len(text) \/ text[n + 1] = NewLine})

Column(text, at) == at - LineStart(text, at)

RowOf(text, at) == Cardinality({i \in 1 .. at : text[i] = NewLine})

(* The place where a row begins; the end of the text for one behind it.    *)
RowStart(text, row) ==
    IF row > RowOf(text, Len(text)) THEN Len(text)
    ELSE Min({n \in 0 .. Len(text) : RowOf(text, n) = row})

(* What is seen of a row.                                                  *)
RowText(text, row) ==
    LET start == RowStart(text, row)
        end == LineEnd(text, start)
    IN  SubSeq(text, start + 1, Min({end, start + Columns}))

Cells(s) ==
    {[row |-> RowOf(s.text, i) - s.scroll + 1, column |-> Column(s.text, i) + 1] :
        i \in {j \in SelectionStart(s) .. SelectionEnd(s) - 1 :
                  j < Len(s.text) /\ s.text[j + 1] # NewLine}}

SelectedColumns(s, r) ==
    IF ~HasSelection(s) THEN {}
    ELSE {c.column : c \in {x \in Cells(s) : x.row = r /\ x.column <= Columns}}

-----------------------------------------------------------------------------
(* draw_editor                                                             *)

Scrolled(s) ==
    LET row == RowOf(s.text, s.cursor)
    IN  IF row < s.scroll THEN row
        ELSE IF row >= s.scroll + Rows THEN row - Rows + 1 ELSE s.scroll

(* Rows whose characters are the same keep what was on them.               *)
DrawTextArea(s, force) ==
    [r \in 1 .. Rows |->
        LET text == RowText(s.text, s.scroll + r - 1)
        IN  IF force \/ s.screen[r].text # text THEN [text |-> text, marked |-> {}]
            ELSE s.screen[r]]

\* Mutant: a change of the text is noticed by its length.
NeedsTextByLength(old, s, dirty, full) ==
    full \/ s.scroll # old.scroll \/ s.title # s.modified \/ s.drawn # Len(s.text)

NeedsText(old, s, dirty, full) ==
    dirty \/ full \/ s.scroll # old.scroll \/ s.title # s.modified \/ s.drawn # Len(s.text)

Draw(old, dirty, full) ==
    LET s == [old EXCEPT !.scroll = Scrolled(old)]
        drawn == [s EXCEPT !.screen = DrawTextArea(s, full \/ s.scroll # old.scroll),
                           !.title = s.modified, !.drawn = Len(s.text)]
        t == IF NeedsText(old, s, dirty, full) THEN drawn ELSE s
    IN  [t EXCEPT !.screen = [r \in 1 .. Rows |->
                                 [t.screen[r] EXCEPT !.marked = @ \cup SelectedColumns(t, r)]]]

-----------------------------------------------------------------------------
(* Changes of the text.                                                    *)

Preferring(s) == [s EXCEPT !.preferred = Column(s.text, s.cursor)]

Removed(s, first, last) ==
    [s EXCEPT !.text = SubSeq(@, 1, first) \o SubSeq(@, last + 1, Len(@)), !.cursor = first]

DropSelection(s) ==
    [Removed(s, SelectionStart(s), SelectionEnd(s)) EXCEPT !.anchor = None]

Room(s) == MaxText - Len(s.text)

(* As many characters as there is room for, the first in place of the       *)
(* selection; the rest is dropped.                                         *)
InsertText(s, text) ==
    LET t == IF s.anchor = None THEN s ELSE DropSelection(s)
        put == SubSeq(text, 1, Min({Room(t), Len(text)}))
    IN  IF text = <<>> THEN s
        ELSE IF put = <<>> THEN t
        ELSE [t EXCEPT !.text = SubSeq(@, 1, t.cursor) \o put
                                \o SubSeq(@, t.cursor + 1, Len(@)),
                       !.cursor = @ + Len(put), !.modified = TRUE]

EditorInsert(s, c) == InsertText(s, <<c>>)

EraseSelection(s) == [DropSelection(s) EXCEPT !.modified = TRUE]

(* Without a selection the anchor stays where it is.                       *)
EraseText(s, first, last) ==
    IF HasSelection(s) THEN EraseSelection(s)
    ELSE IF first < 0 \/ last > Len(s.text) THEN s
    ELSE [Removed(s, first, last) EXCEPT !.modified = TRUE]

(* With Ctrl the cursor crosses space and then goes to the next blank.     *)
White == {Space, NewLine}

WordBefore(s) ==
    LET edge == Min({n \in 0 .. s.cursor : \A i \in n + 1 .. s.cursor : s.text[i] \in White})
    IN  Min({n \in 0 .. edge : \A i \in n + 1 .. edge : s.text[i] # Space})

WordAfter(s) ==
    LET end == Len(s.text)
        edge == Max({n \in s.cursor .. end :
                        \A i \in s.cursor + 1 .. n : s.text[i] \in White})
    IN  Max({n \in edge .. end : \A i \in edge + 1 .. n : s.text[i] # Space})

Shifted(s, shift) ==
    [s EXCEPT !.anchor = IF ~shift THEN None ELSE IF @ = None THEN s.cursor ELSE @]

-----------------------------------------------------------------------------
(* A Shift arrow that cannot move, and then Backspace, leave an anchor      *)
(* behind the end of the text, and the next key counts characters out of   *)
(* the text that were not in it: such keys are not followed.               *)
Editing == ed.at = "edit" /\ ed.anchor <= Len(ed.text)

OpenFile ==
    /\ ed.at = "shell"
    /\ LET s == [ed EXCEPT !.at = "edit"]
           loaded == [s EXCEPT !.text = ed.file, !.cursor = Len(ed.file)]
       IN  \/ Len(ed.file) <= MaxText /\ ed' = Draw(loaded, TRUE, TRUE)
           \/ ed' = Draw(s, TRUE, TRUE)     \* it is too long or cannot be read

Type ==
    /\ Editing
    /\ \/ \E c \in Letters : ed' = Draw(Preferring(EditorInsert(ed, c)), TRUE, FALSE)
       \/ ed' = Draw(Preferring(InsertText(ed, [i \in 1 .. TabSpaces |-> Space])), TRUE, FALSE)

EditorBackspace ==
    Editing /\ ed' = Draw(Preferring(EraseText(ed, ed.cursor - 1, ed.cursor)), TRUE, FALSE)

EditorDelete ==
    Editing /\ ed' = Draw(Preferring(EraseText(ed, ed.cursor, ed.cursor + 1)), TRUE, FALSE)

MoveLeft ==
    /\ Editing
    /\ \E shift, word \in BOOLEAN :
         LET to == IF word THEN WordBefore(ed) ELSE Max({0, ed.cursor - 1})
         IN  ed' = Draw(Preferring([Shifted(ed, shift) EXCEPT !.cursor = to]), FALSE, TRUE)

MoveRight ==
    /\ Editing
    /\ \E shift, word \in BOOLEAN :
         LET to == IF word THEN WordAfter(ed) ELSE Min({Len(ed.text), ed.cursor + 1})
         IN  ed' = Draw(Preferring([Shifted(ed, shift) EXCEPT !.cursor = to]), FALSE, TRUE)

(* editor_move_vertical to the line that begins at start, in the column    *)
(* that the cursor was last put in, or one farther to the right.           *)
ToLine(s, start) ==
    LET preferred == Max({s.preferred, Column(s.text, s.cursor)})
        width == LineEnd(s.text, start) - start
    IN  [s EXCEPT !.preferred = preferred, !.cursor = start + Min({preferred, width})]

MoveVertical ==
    /\ Editing
    /\ LET s == Shifted(ed, FALSE)
           start == LineStart(s.text, s.cursor)
           end == LineEnd(s.text, s.cursor)
       IN  \/ ed' = Draw(IF start = 0 THEN s
                         ELSE ToLine(s, LineStart(s.text, start - 1)), FALSE, TRUE)
           \/ ed' = Draw(IF end = Len(s.text) THEN s ELSE ToLine(s, end + 1), FALSE, TRUE)

MoveHomeOrEnd ==
    /\ Editing
    /\ \E to \in {LineStart(ed.text, ed.cursor), LineEnd(ed.text, ed.cursor)} :
         ed' = Draw(Preferring([Shifted(ed, FALSE) EXCEPT !.cursor = to]), FALSE, TRUE)

CopySelection ==
    /\ Editing /\ HasSelection(ed)
    /\ ed' = Draw([ed EXCEPT !.clip = SubSeq(ed.text, SelectionStart(ed) + 1,
                                             SelectionEnd(ed))], FALSE, FALSE)

PasteClipboard ==
    /\ Editing
    /\ LET s == IF HasSelection(ed) THEN EraseSelection(ed) ELSE ed
       IN  ed' = Draw(InsertText(s, ed.clip), TRUE, TRUE)

Escape == ed.at = "edit" /\ ed' = [ed EXCEPT !.at = "menu"]

Cancel == ed.at \in {"menu", "failed"} /\ ed' = Draw([ed EXCEPT !.at = "edit"], TRUE, TRUE)

Close == ed.at = "menu" /\ ed' = [ed EXCEPT !.at = "closed"]

(* What a write that fails leaves of the file is not followed.             *)
Save ==
    /\ ed.at = "menu"
    /\ \/ ed' = [ed EXCEPT !.at = "closed", !.file = ed.text, !.modified = FALSE]
       \/ ed' = [ed EXCEPT !.at = "failed"]

EditorNext ==
    \/ OpenFile \/ Type \/ EditorBackspace \/ EditorDelete
    \/ MoveLeft \/ MoveRight \/ MoveVertical \/ MoveHomeOrEnd
    \/ CopySelection \/ PasteClipboard \/ Escape \/ Cancel \/ Close \/ Save

EditorSpec == EditorInit /\ [][EditorNext]_ed

-----------------------------------------------------------------------------
EditorTypes ==
    /\ ed.at \in {"shell", "edit", "menu", "failed", "closed"}
    /\ ed.text \in Seq(Letters) /\ Len(ed.text) <= MaxText
    /\ ed.cursor \in 0 .. Len(ed.text) /\ ed.anchor \in None .. MaxText

(* Whenever the editor waits for a key, the rows on the screen are those of *)
(* the text around the cursor, all that is selected is marked, and the      *)
(* title says whether there is something to save: the tests for what needs  *)
(* drawing miss nothing.                                                    *)
ScreenShowsText ==
    ed.at = "edit" =>
        /\ ed.title = ed.modified
        /\ RowOf(ed.text, ed.cursor) - ed.scroll \in 0 .. Rows - 1
        /\ \A r \in 1 .. Rows :
              /\ ed.screen[r].text = RowText(ed.text, ed.scroll + r - 1)
              /\ SelectedColumns(ed, r) \subseteq ed.screen[r].marked
=============================================================================
