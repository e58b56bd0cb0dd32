----------------------------- MODULE Selection ------------------------------
(***************************************************************************)
(* What the line of the shell and the editor have in common: characters,   *)
(* and a selection from an anchor to the cursor.  Both keep it in a record *)
(* with the fields anchor and cursor.                                      *)
(***************************************************************************)
EXTENDS Integers

CONSTANTS
    Chars,          \* printable characters; the space is one of them
    Space

None == -1

HasSelection(s) == s.anchor # None /\ s.anchor # s.cursor

SelectionStart(s) == IF s.anchor < s.cursor THEN s.anchor ELSE s.cursor

SelectionEnd(s) == IF s.anchor > s.cursor THEN s.anchor ELSE s.cursor
=============================================================================
