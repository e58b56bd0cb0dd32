----------------------------- MODULE PartsProofs -----------------------------
(***************************************************************************)
(* The line of the shell, for every length of the line and of the history: *)
(* whatever keys arrive, the cursor, the selection and the place in the    *)
(* history stay where there is something.                                  *)
(*                                                                         *)
(* Physical memory, for every memory map, number and size of pages: what   *)
(* is free or handed out is usable memory that nothing else occupies.  The *)
(* operators take a record and leave one, so there is one lemma for each   *)
(* about what it does to the fields (ReserveProperties, MapProperties).    *)
(*                                                                         *)
(* For any number of packages, names of files, artifacts and chunks, and   *)
(* whatever the repository serves: a record always has its file.  The calls*)
(* of the model are sets of the records they may leave, so the invariant   *)
(* is a predicate of such a record.                                        *)
(***************************************************************************)
EXTENDS Packages, ShellLine, Memory,
        SequenceTheorems, FiniteSetTheorems, WellFoundedInduction, TLAPS

-----------------------------------------------------------------------------
(* Sets of numbers.                                                        *)
LEMMA LeastExists ==
    ASSUME NEW S \in SUBSET Nat, S # {}
    PROVE  \E m \in S : \A n \in S : m <= n
<1> DEFINE F == {0 .. n : n \in S}
<1>1. IsWellFoundedOn(StrictSubsetOrdering(Nat), FiniteSubsetsOf(Nat))
  BY FS_StrictSubsetOrderingWellFounded
<1>2. F \subseteq FiniteSubsetsOf(Nat) /\ F # {}
  <2>1. \A n \in S : 0 .. n \in SUBSET Nat /\ IsFiniteSet(0 .. n)
    BY FS_Interval
  <2> QED
    BY <2>1 DEF FiniteSubsetsOf
<1>3. PICK T \in F : \A U \in F : <<U, T>> \notin StrictSubsetOrdering(Nat)
  <2> HIDE DEF F
  <2> QED
    BY <1>1, <1>2, WFMin
<1>4. PICK m \in S : T = 0 .. m
  OBVIOUS
<1>5. ASSUME NEW n \in S, ~ (m <= n) PROVE FALSE
  <2>1. n \in Nat /\ m \in Nat /\ n < m
    BY <1>5
  <2>2. /\ 0 .. n \in SUBSET Nat /\ 0 .. m \in SUBSET Nat
        /\ 0 .. n \subseteq 0 .. m /\ 0 .. n # 0 .. m
    <3>1. m \in 0 .. m /\ m \notin 0 .. n
      BY <2>1
    <3> QED
      BY <2>1, <3>1
  <2>3. <<0 .. n, 0 .. m>> \in StrictSubsetOrdering(Nat)
    BY <2>2 DEF StrictSubsetOrdering
  <2>4. 0 .. n \in F
    OBVIOUS
  <2> QED
    BY <1>3, <1>4, <2>3, <2>4
<1> QED
  BY <1>5

LEMMA MinProperties ==
    ASSUME NEW S \in SUBSET Nat, S # {}
    PROVE  Min(S) \in S /\ \A n \in S : Min(S) <= n
BY LeastExists DEF Min

LEMMA MaxProperties ==
    ASSUME NEW S \in SUBSET Nat, S # {}, NEW b \in Nat, \A n \in S : n <= b
    PROVE  Max(S) \in S /\ \A n \in S : Max(S) >= n
<1> DEFINE T == {b - n : n \in S}
<1>1. T \in SUBSET Nat /\ T # {}
  <2>1. \A n \in S : b - n \in Nat
    OBVIOUS
  <2> QED
    BY <2>1
<1>2. PICK t \in T : \A u \in T : t <= u
  BY <1>1, LeastExists
<1>3. PICK m \in S : t = b - m
  BY <1>2
<1>4. ASSUME NEW n \in S PROVE m >= n
  <2>1. b - m <= b - n
    BY <1>2, <1>3
  <2>2. b \in Nat /\ m \in Nat /\ n \in Nat
    OBVIOUS
  <2> QED
    BY <2>1, <2>2
<1>5. \E x \in S : \A y \in S : x >= y
  BY <1>4
<1> QED
  BY <1>5 DEF Max

-----------------------------------------------------------------------------
(* Lines.                                                                  *)

LEMMA LineIs == \A s : s \in Line <=> s \in Seq(Chars) /\ Len(s) <= MaxInput
<1>1. ASSUME NEW s \in Line PROVE s \in Seq(Chars) /\ Len(s) <= MaxInput
  <2>1. PICK n \in 0 .. MaxInput : s \in [1 .. n -> Chars]
    BY <1>1 DEF Line
  <2>2. n \in Nat /\ n <= MaxInput
    BY <2>1, ShellAssumption
  <2> QED
    BY <2>1, <2>2
<1>2. ASSUME NEW s \in Seq(Chars), Len(s) <= MaxInput PROVE s \in Line
  <2>1. Len(s) \in 0 .. MaxInput /\ s \in [1 .. Len(s) -> Chars]
    BY <1>2, ShellAssumption
  <2> QED
    BY <2>1 DEF Line
<1> QED
  BY <1>1, <1>2

LEMMA EmptyLine == <<>> \in Line /\ <<>> \in Seq(Line) /\ Len(<<>>) = 0
<1>1. <<>> \in Seq(Chars) /\ <<>> \in Seq(Line) /\ Len(<<>>) = 0 /\ 0 <= MaxInput
  BY EmptySeq, ShellAssumption
<1> QED
  BY <1>1, LineIs

(* What is left when the text between two places is taken out.             *)
LEMMA CutProperties ==
    ASSUME NEW s \in Line, NEW i \in 0 .. Len(s), NEW j \in i .. Len(s)
    PROVE  /\ SubSeq(s, 1, i) \o SubSeq(s, j + 1, Len(s)) \in Line
           /\ Len(SubSeq(s, 1, i) \o SubSeq(s, j + 1, Len(s))) = Len(s) - (j - i)
<1>1. s \in Seq(Chars) /\ Len(s) <= MaxInput /\ Len(s) \in Nat /\ MaxInput \in Nat
  BY LineIs, ShellAssumption
<1>2. SubSeq(s, 1, i) \in Seq(Chars) /\ Len(SubSeq(s, 1, i)) = i
  BY <1>1, SubSeqProperties
<1>3. SubSeq(s, j + 1, Len(s)) \in Seq(Chars) /\ Len(SubSeq(s, j + 1, Len(s))) = Len(s) - j
  BY <1>1, SubSeqProperties
<1> DEFINE a == SubSeq(s, 1, i)
           b == SubSeq(s, j + 1, Len(s))
<1> HIDE DEF a, b
<1>4. a \o b \in Seq(Chars) /\ Len(a \o b) = i + (Len(s) - j)
  BY <1>2, <1>3, ConcatProperties DEF a, b
<1>5. Len(a \o b) <= MaxInput /\ i + (Len(s) - j) = Len(s) - (j - i)
  BY <1>1, <1>4
<1> QED
  BY <1>4, <1>5, LineIs DEF a, b

(* A line with a text put in at a place.                                   *)
LEMMA PutProperties ==
    ASSUME NEW s \in Line, NEW i \in 0 .. Len(s), NEW t \in Seq(Chars),
           Len(s) + Len(t) <= MaxInput
    PROVE  /\ SubSeq(s, 1, i) \o t \o SubSeq(s, i + 1, Len(s)) \in Line
           /\ Len(SubSeq(s, 1, i) \o t \o SubSeq(s, i + 1, Len(s))) = Len(s) + Len(t)
<1>1. s \in Seq(Chars) /\ Len(s) \in Nat /\ Len(t) \in Nat
  BY LineIs
<1>2. SubSeq(s, 1, i) \in Seq(Chars) /\ Len(SubSeq(s, 1, i)) = i
  BY <1>1, SubSeqProperties
<1>3. SubSeq(s, i + 1, Len(s)) \in Seq(Chars) /\ Len(SubSeq(s, i + 1, Len(s))) = Len(s) - i
  BY <1>1, SubSeqProperties
<1> DEFINE a == SubSeq(s, 1, i)
           b == SubSeq(s, i + 1, Len(s))
<1> HIDE DEF a, b
<1>4. a \o t \in Seq(Chars) /\ Len(a \o t) = i + Len(t)
  BY <1>2, ConcatProperties DEF a
<1> DEFINE front == a \o t
<1> HIDE DEF front
<1>5. /\ front \in Seq(Chars) /\ Len(front) = i + Len(t)
      /\ b \in Seq(Chars) /\ Len(b) = Len(s) - i
  BY <1>3, <1>4 DEF b, front
<1>6. i + Len(t) + (Len(s) - i) = Len(s) + Len(t)
  BY <1>1
<1>7. front \o b \in Seq(Chars) /\ Len(front \o b) = Len(front) + Len(b)
  BY <1>5, ConcatProperties
<1>8. Len(front \o b) = Len(s) + Len(t)
  BY <1>5, <1>6, <1>7
<1>9. front \o b \in Line
  BY <1>7, <1>8, LineIs
<1> QED
  BY <1>8, <1>9 DEF a, b, front

-----------------------------------------------------------------------------
(* What holds between two keys.                                            *)
Fields == [line : Line, cursor : Nat, anchor : None .. MaxInput, clipboard : Line,
           history : Seq(Line), index : Int, draft : Line, stray : BOOLEAN]

GoodLine(s) ==
    /\ s \in Fields /\ s.cursor <= Len(s.line) /\ (s.anchor <= Len(s.line) \/ s.stray)
    /\ Len(s.history) <= HistorySize /\ (s.index # None => s.index \in 1 .. Len(s.history))

Edit(s, line, cursor, anchor, stray) ==
    [s EXCEPT !.line = line, !.cursor = cursor, !.anchor = anchor, !.stray = stray]

LEMMA Edited ==
    ASSUME NEW s \in Fields, NEW line \in Line, NEW cursor \in Nat, NEW stray \in BOOLEAN,
           NEW anchor \in None .. MaxInput
    PROVE  LET t == Edit(s, line, cursor, anchor, stray)
           IN  /\ t \in Fields /\ t.line = line /\ t.cursor = cursor /\ t.anchor = anchor
               /\ t.stray = stray /\ t.history = s.history /\ t.index = s.index
               /\ t.draft = s.draft /\ t.clipboard = s.clipboard
BY Zenon DEF Fields, Edit

(* A line without a selection.                                             *)
LEMMA Cleared ==
    ASSUME NEW s \in Fields, NEW line \in Line, NEW cursor \in Nat
    PROVE  LET t == Edit(s, line, cursor, None, FALSE)
           IN  /\ t \in Fields /\ t.line = line /\ t.cursor = cursor /\ t.anchor = None
               /\ t.history = s.history /\ t.index = s.index
               /\ t.draft = s.draft /\ t.clipboard = s.clipboard
<1>1. None \in None .. MaxInput
  BY ShellAssumption DEF None
<1> QED
  BY Zenon, <1>1 DEF Fields, Edit

(* A line with another text, cursor and selection.                         *)
LEMMA OtherLine ==
    ASSUME NEW s, NEW t, GoodLine(s), t \in Fields,
           t.cursor <= Len(t.line), t.anchor <= Len(t.line) \/ t.stray,
           t.history = s.history, t.index = s.index
    PROVE  GoodLine(t)
BY DEF GoodLine

LEMMA DeleteKeeps ==
    ASSUME NEW s, GoodLine(s), s.anchor <= Len(s.line)
    PROVE  /\ GoodLine(DeleteSelection(s))
           /\ DeleteSelection(s).anchor <= Len(DeleteSelection(s).line)
           /\ DeleteSelection(s).clipboard = s.clipboard
<1>1. CASE ~ HasSelection(s)
  BY <1>1 DEF DeleteSelection
<1>2. CASE HasSelection(s)
  <2> DEFINE t == DeleteSelection(s)
             first == SelectionStart(s)
             last == SelectionEnd(s)
             rest == SubSeq(s.line, 1, first) \o SubSeq(s.line, last + 1, Len(s.line))
  <2>1. s \in Fields /\ s.line \in Line /\ s.cursor \in 0 .. Len(s.line)
        /\ s.anchor \in 0 .. Len(s.line) /\ Len(s.line) \in Nat
    BY <1>2, LineIs, ShellAssumption DEF GoodLine, Fields, HasSelection, None
  <2>2. first \in 0 .. Len(s.line) /\ last \in first .. Len(s.line)
    BY <2>1 DEF SelectionStart, SelectionEnd
  <2>3. rest \in Line /\ Len(rest) = Len(s.line) - (last - first)
    <3> HIDE DEF first, last
    <3> QED
      BY <2>1, <2>2, CutProperties
  <2>4. t = Edit(s, rest, first, None, FALSE)
    BY <1>2 DEF DeleteSelection, CutOut, Upto, From, Edit
  <2> HIDE DEF t, first, last, rest
  <2>5. /\ t \in Fields /\ t.line = rest /\ t.cursor = first /\ t.anchor = None
        /\ t.history = s.history /\ t.index = s.index /\ t.clipboard = s.clipboard
    <3>1. first \in Nat
      BY <2>2
    <3>2. s \in Fields /\ rest \in Line
      BY <2>1, <2>3
    <3> QED
      BY Zenon, <2>4, <3>1, <3>2, Cleared
  <2>6. first <= Len(rest) /\ None <= Len(rest)
    BY <2>1, <2>2, <2>3 DEF None
  <2>7. GoodLine(t)
    BY <2>5, <2>6, OtherLine
  <2> QED
    BY <2>5, <2>6, <2>7 DEF t
<1> QED
  BY <1>1, <1>2

LEMMA InsertKeeps ==
    ASSUME NEW s, GoodLine(s), s.anchor <= Len(s.line), NEW text \in Seq(Chars)
    PROVE  GoodLine(InsertAll(s, text))
<1> DEFINE t == DeleteSelection(s)
           room == MaxInput - Len(t.line)
           put == IF Len(text) <= room THEN text ELSE SubSeq(text, 1, room)
           new == SubSeq(t.line, 1, t.cursor) \o put \o SubSeq(t.line, t.cursor + 1, Len(t.line))
<1>1. GoodLine(t)
  BY DeleteKeeps
<1>2. /\ t \in Fields /\ t.line \in Line /\ Len(t.line) \in Nat /\ t.cursor \in 0 .. Len(t.line)
      /\ room \in Nat
  <2> HIDE DEF t
  <2>1. t \in Fields /\ t.cursor <= Len(t.line)
    BY <1>1 DEF GoodLine
  <2>2. t.line \in Line /\ t.cursor \in Nat
    BY <2>1 DEF Fields
  <2>3. Len(t.line) \in Nat /\ Len(t.line) <= MaxInput
    BY <2>2, LineIs
  <2> QED
    BY <2>1, <2>2, <2>3, ShellAssumption
<1>3. put \in Seq(Chars) /\ Len(put) \in Nat /\ Len(put) <= room
  <2>1. CASE Len(text) <= room
    BY <2>1
  <2>2. CASE ~ (Len(text) <= room)
    <3> HIDE DEF room
    <3>1. \A i \in 1 .. room : text[i] \in Chars
      BY <1>2, <2>2
    <3>2. SubSeq(text, 1, room) \in Seq(Chars) /\ Len(SubSeq(text, 1, room)) <= room
      BY <1>2, <3>1, SubSeqProperties
    <3> QED
      BY <1>2, <2>2, <3>2
  <2> QED
    BY <2>1, <2>2
<1>4. new \in Line /\ Len(new) = Len(t.line) + Len(put)
  <2>1. Len(t.line) + Len(put) <= MaxInput
    <3> HIDE DEF t, put
    <3> QED
      BY <1>2, <1>3, ShellAssumption
  <2> HIDE DEF t, put
  <2> QED
    BY <1>2, <1>3, <2>1, PutProperties
<1>5. CASE text = <<>>
  BY <1>5 DEF InsertAll
<1>6. CASE text # <<>> /\ room = 0
  BY <1>1, <1>6 DEF InsertAll
<1>7. CASE text # <<>> /\ room # 0
  <2> DEFINE u == Edit(t, new, t.cursor + Len(put), None, FALSE)
  <2>1. InsertAll(s, text) = u
    BY <1>7 DEF InsertAll, Upto, From, Edit
  <2> HIDE DEF t, put, new
  <2>2. /\ u \in Fields /\ u.line = new /\ u.cursor = t.cursor + Len(put) /\ u.anchor = None
        /\ u.history = t.history /\ u.index = t.index
    <3>1. t.cursor + Len(put) \in Nat
      BY <1>2, <1>3
    <3>2. t \in Fields /\ new \in Line
      BY <1>2, <1>4
    <3> QED
      BY Zenon, <3>1, <3>2, Cleared
  <2>3. t.cursor + Len(put) <= Len(new) /\ None <= Len(new)
    BY <1>2, <1>3, <1>4 DEF None
  <2> HIDE DEF u
  <2>4. GoodLine(u)
    BY <1>1, <2>2, <2>3, OtherLine
  <2> QED
    BY <2>1, <2>4
<1> QED
  BY <1>5, <1>6, <1>7

-----------------------------------------------------------------------------
(* Backspace and Delete.                                                   *)
Shorten(s, line, cursor, stray) ==
    [[s EXCEPT !.line = line, !.cursor = cursor] EXCEPT !.stray = stray]

LEMMA Shortened ==
    ASSUME NEW s \in Fields, NEW line \in Line, NEW cursor \in Nat, NEW stray \in BOOLEAN
    PROVE  LET t == Shorten(s, line, cursor, stray)
           IN  /\ t \in Fields /\ t.line = line /\ t.cursor = cursor /\ t.anchor = s.anchor
               /\ t.stray = stray /\ t.history = s.history /\ t.index = s.index
BY Zenon DEF Fields, Shorten

LEMMA EraseKeeps ==
    ASSUME NEW s, GoodLine(s), s.anchor <= Len(s.line), NEW first \in Int,
           first \in {s.cursor - 1, s.cursor}
    PROVE  GoodLine(Erase(s, first, first + 1))
<1>1. CASE HasSelection(s)
  BY <1>1, DeleteKeeps DEF Erase
<1>2. CASE ~ HasSelection(s) /\ (first < 0 \/ first + 1 > Len(s.line))
  BY <1>2 DEF Erase
<1>3. CASE ~ HasSelection(s) /\ ~ (first < 0 \/ first + 1 > Len(s.line))
  <2> DEFINE last == first + 1
             rest == SubSeq(s.line, 1, first) \o SubSeq(s.line, last + 1, Len(s.line))
             stray == s.anchor # None
             t == Shorten(s, rest, first, stray)
  <2>1. /\ s \in Fields /\ s.line \in Line /\ Len(s.line) \in Nat /\ s.anchor \in Int
        /\ first \in 0 .. Len(s.line) /\ last \in first .. Len(s.line) /\ last - first = 1
    BY <1>3, LineIs, ShellAssumption DEF GoodLine, Fields, None
  <2>2. rest \in Line /\ Len(rest) = Len(s.line) - 1
    <3> HIDE DEF last
    <3>1. rest \in Line /\ Len(rest) = Len(s.line) - (last - first)
      BY <2>1, CutProperties
    <3> QED
      BY <2>1, <3>1
  <2>3. Erase(s, first, first + 1) = t
    BY <1>3 DEF Erase, CutOut, Upto, From, Shorten
  <2>4. stray \in BOOLEAN
    OBVIOUS
  <2>5. first \in Nat
    BY <2>1
  <2> HIDE DEF rest, stray, last
  <2>6. /\ t \in Fields /\ t.line = rest /\ t.cursor = first /\ t.anchor = s.anchor
        /\ t.stray = stray /\ t.history = s.history /\ t.index = s.index
    BY <2>1, <2>2, <2>4, <2>5, Shortened
  <2> HIDE DEF t
  <2>7. t.cursor <= Len(t.line)
    BY <2>1, <2>2, <2>6
  <2>8. t.anchor <= Len(t.line) \/ t.stray
    <3>1. CASE s.anchor = None
      BY <2>1, <2>2, <2>6, <3>1 DEF None
    <3>2. CASE s.anchor # None
      BY <2>6, <3>2 DEF stray
    <3> QED
      BY <3>1, <3>2
  <2> QED
    BY <2>3, <2>6, <2>7, <2>8, OtherLine
<1> QED
  BY <1>1, <1>2, <1>3

-----------------------------------------------------------------------------
(* Movements of the cursor.                                                *)

LEMMA MovedTo ==
    ASSUME NEW s, GoodLine(s), NEW n \in 0 .. Len(s.line)
    PROVE  GoodLine([s EXCEPT !.cursor = n])
<1> DEFINE t == [s EXCEPT !.cursor = n]
<1>1. s \in Fields /\ Len(s.line) \in Nat /\ n \in Nat /\ n <= Len(s.line)
  BY LineIs DEF GoodLine, Fields
<1>2. /\ t \in Fields /\ t.cursor = n /\ t.line = s.line /\ t.anchor = s.anchor
      /\ t.stray = s.stray /\ t.history = s.history /\ t.index = s.index
  BY Zenon, <1>1 DEF Fields
<1> HIDE DEF t
<1>3. t.anchor <= Len(t.line) \/ t.stray
  BY <1>2 DEF GoodLine
<1>4. GoodLine(t)
  BY <1>1, <1>2, <1>3, OtherLine
<1> QED
  BY <1>4 DEF t

LEMMA AnchoredKeeps ==
    ASSUME NEW s, GoodLine(s), NEW shift \in BOOLEAN
    PROVE  GoodLine(Anchored(s, shift)) /\ Anchored(s, shift).line = s.line
           /\ Anchored(s, shift).cursor = s.cursor
<1> DEFINE anchor == IF ~ shift THEN None ELSE IF s.anchor = None THEN s.cursor ELSE s.anchor
           stray == s.stray /\ shift
           t == Anchored(s, shift)
<1>1. /\ s \in Fields /\ s.line \in Line /\ Len(s.line) \in 0 .. MaxInput
      /\ s.cursor \in 0 .. Len(s.line) /\ s.anchor \in None .. MaxInput
      /\ (s.anchor <= Len(s.line) \/ s.stray)
  <2>1. s \in Fields /\ s.line \in Line
    BY DEF GoodLine, Fields
  <2>2. Len(s.line) \in 0 .. MaxInput
    BY <2>1, LineIs, ShellAssumption
  <2> QED
    BY <2>1, <2>2 DEF GoodLine, Fields
<1>2. anchor \in None .. MaxInput
  BY <1>1, ShellAssumption DEF None
<1>3. stray \in BOOLEAN
  BY <1>1 DEF Fields
<1>4. t = [s EXCEPT !.anchor = anchor, !.stray = stray]
  BY <1>1 DEF Anchored, Fields
<1>5. anchor <= Len(s.line) \/ stray
  BY <1>1 DEF None
<1> HIDE DEF anchor, stray, t
<1>6. /\ t \in Fields /\ t.anchor = anchor /\ t.stray = stray /\ t.line = s.line
      /\ t.cursor = s.cursor /\ t.history = s.history /\ t.index = s.index
  BY Zenon, <1>1, <1>2, <1>3, <1>4 DEF Fields
<1>7. t.cursor <= Len(t.line) /\ (t.anchor <= Len(t.line) \/ t.stray)
  BY <1>1, <1>5, <1>6
<1>8. GoodLine(t)
  BY <1>6, <1>7, OtherLine
<1> QED
  BY <1>6, <1>8 DEF t

(* A word to the left and to the right is within the line.                 *)
LEMMA WordLeftInLine ==
    ASSUME NEW s, s.cursor \in Nat
    PROVE  WordLeft(s) \in 0 .. s.cursor
<1> DEFINE spaces == {n \in 0 .. s.cursor : \A i \in n + 1 .. s.cursor : s.line[i] = Space}
           edge == Min(spaces)
           word == {n \in 0 .. edge : \A i \in n + 1 .. edge : s.line[i] # Space}
<1>1. spaces \in SUBSET Nat /\ s.cursor \in spaces
  <2>1. \A i \in s.cursor + 1 .. s.cursor : FALSE
    OBVIOUS
  <2> QED
    BY <2>1
<1>2. edge \in 0 .. s.cursor
  <2>1. edge \in spaces
    <3> HIDE DEF spaces
    <3> QED
      BY <1>1, MinProperties
  <2> QED
    BY <2>1
<1> HIDE DEF spaces, edge
<1>3. word \in SUBSET Nat /\ edge \in word
  <2>1. \A i \in edge + 1 .. edge : FALSE
    BY <1>2
  <2> QED
    BY <1>2, <2>1
<1>4. Min(word) \in word
  <2> HIDE DEF word
  <2> QED
    BY <1>3, MinProperties
<1>5. Min(word) \in 0 .. s.cursor
  BY <1>2, <1>4
<1> QED
  BY <1>5 DEF WordLeft, spaces, edge

LEMMA WordRightInLine ==
    ASSUME NEW s, Len(s.line) \in Nat, s.cursor \in 0 .. Len(s.line)
    PROVE  WordRight(s) \in 0 .. Len(s.line)
<1> DEFINE end == Len(s.line)
           spaces == {n \in s.cursor .. end : \A i \in s.cursor + 1 .. n : s.line[i] = Space}
           edge == Max(spaces)
           word == {n \in edge .. end : \A i \in edge + 1 .. n : s.line[i] # Space}
<1> HIDE DEF end
<1>0. end \in Nat /\ s.cursor \in 0 .. end
  BY DEF end
<1>1. spaces \in SUBSET Nat /\ s.cursor \in spaces /\ \A n \in spaces : n <= end
  <2>1. \A i \in s.cursor + 1 .. s.cursor : FALSE
    BY <1>0
  <2> QED
    BY <1>0, <2>1
<1>2. edge \in s.cursor .. end
  <2>1. edge \in spaces
    <3> HIDE DEF spaces
    <3> QED
      BY <1>0, <1>1, MaxProperties
  <2> QED
    BY <2>1
<1> HIDE DEF spaces, edge
<1>3. word \in SUBSET Nat /\ edge \in word /\ \A n \in word : n <= end
  <2>1. \A i \in edge + 1 .. edge : FALSE
    BY <1>0, <1>2
  <2> QED
    BY <1>0, <1>2, <2>1
<1>4. Max(word) \in word
  <2> HIDE DEF word
  <2> QED
    BY <1>0, <1>3, MaxProperties
<1>5. Max(word) \in 0 .. end
  <2>1. Max(word) \in Nat /\ Max(word) <= end
    BY <1>3, <1>4
  <2> HIDE DEF word, end
  <2> QED
    BY <1>0, <2>1
<1> QED
  BY <1>5 DEF WordRight, spaces, edge, end

-----------------------------------------------------------------------------
(* The history.                                                            *)

LEMMA SetLineKeeps ==
    ASSUME NEW s, GoodLine(s), NEW text \in Line
    PROVE  GoodLine(SetLine(s, text))
<1> DEFINE t == Edit(s, text, Len(text), None, FALSE)
<1>1. SetLine(s, text) = t
  BY DEF SetLine, Edit
<1>2. Len(text) \in Nat /\ s \in Fields /\ None <= Len(text)
  BY LineIs DEF GoodLine, None
<1>3. /\ t \in Fields /\ t.line = text /\ t.cursor = Len(text) /\ t.anchor = None
      /\ t.history = s.history /\ t.index = s.index
  BY <1>2, Cleared
<1> HIDE DEF t
<1>4. t.cursor <= Len(t.line) /\ t.anchor <= Len(t.line)
  BY <1>2, <1>3
<1>5. GoodLine(t)
  BY <1>3, <1>4, OtherLine
<1> QED
  BY <1>1, <1>5

(* Another place in the history, and another draft.                        *)
LEMMA TurnedTo ==
    ASSUME NEW s, GoodLine(s), NEW index \in Int, NEW draft \in Line,
           index # None => index \in 1 .. Len(s.history)
    PROVE  LET t == [s EXCEPT !.draft = draft, !.index = index]
           IN  GoodLine(t) /\ t.index = index /\ t.history = s.history
<1> DEFINE t == [s EXCEPT !.draft = draft, !.index = index]
<1>1. s \in Fields
  BY DEF GoodLine
<1>2. /\ t \in Fields /\ t.index = index /\ t.line = s.line /\ t.cursor = s.cursor
      /\ t.anchor = s.anchor /\ t.stray = s.stray /\ t.history = s.history
  BY Zenon, <1>1 DEF Fields
<1> HIDE DEF t
<1>3. GoodLine(t)
  BY <1>2 DEF GoodLine
<1> QED
  BY <1>2, <1>3 DEF t

LEMMA IndexTo ==
    ASSUME NEW s, GoodLine(s), NEW index \in 1 .. Len(s.history)
    PROVE  LET t == [s EXCEPT !.index = index]
           IN  GoodLine(t) /\ t.index = index /\ t.history = s.history
<1> DEFINE t == [s EXCEPT !.index = index]
<1>1. s \in Fields /\ index \in Int
  BY DEF GoodLine, Fields
<1>2. /\ t \in Fields /\ t.index = index /\ t.line = s.line /\ t.cursor = s.cursor
      /\ t.anchor = s.anchor /\ t.stray = s.stray /\ t.history = s.history
  BY Zenon, <1>1 DEF Fields
<1> HIDE DEF t
<1>3. GoodLine(t)
  BY <1>2 DEF GoodLine
<1> QED
  BY <1>2, <1>3 DEF t

LEMMA StoreProperties ==
    ASSUME NEW history \in Seq(Line), Len(history) <= HistorySize, NEW line \in Line
    PROVE  StoreHistory(history, line) \in Seq(Line) /\ Len(StoreHistory(history, line)) <= HistorySize
<1> DEFINE same == line = <<>> \/ (history # <<>> /\ Last(history) = line)
<1>1. Len(history) \in Nat /\ HistorySize \in Nat /\ HistorySize > 0
  BY ShellAssumption
<1>2. CASE same
  BY <1>2 DEF StoreHistory
<1>3. CASE ~ same /\ Len(history) < HistorySize
  <2>1. StoreHistory(history, line) = Append(history, line)
    BY <1>3 DEF StoreHistory
  <2>2. Append(history, line) \in Seq(Line) /\ Len(Append(history, line)) = Len(history) + 1
    BY AppendProperties
  <2> QED
    BY <1>1, <1>3, <2>1, <2>2
<1>4. CASE ~ same /\ ~ (Len(history) < HistorySize)
  <2> DEFINE rest == Tail(history)
  <2>1. StoreHistory(history, line) = Append(rest, line)
    BY <1>4 DEF StoreHistory
  <2>2. rest \in Seq(Line) /\ Len(rest) = Len(history) - 1
    BY <1>1, <1>4, HeadTailProperties
  <2> HIDE DEF rest
  <2>3. Append(rest, line) \in Seq(Line) /\ Len(Append(rest, line)) = Len(rest) + 1
    BY <2>2, AppendProperties
  <2> QED
    BY <1>1, <2>1, <2>2, <2>3
<1> QED
  BY <1>2, <1>3, <1>4

LEMMA PromptGood ==
    ASSUME NEW history \in Seq(Line), Len(history) <= HistorySize, NEW clipboard \in Line
    PROVE  GoodLine(Prompt(history, clipboard))
<1>1. <<>> \in Line /\ Len(<<>>) = 0
  BY EmptyLine
<1>2. None \in None .. MaxInput /\ None \in Int /\ None <= 0
  BY ShellAssumption DEF None
<1> DEFINE t == Prompt(history, clipboard)
<1>3. /\ t \in Fields /\ t.line = <<>> /\ t.cursor = 0 /\ t.anchor = None
      /\ t.history = history /\ t.index = None
  BY <1>1, <1>2 DEF Prompt, Fields
<1> HIDE DEF t
<1>4. GoodLine(t)
  BY <1>1, <1>2, <1>3 DEF GoodLine
<1> QED
  BY <1>4 DEF t

-----------------------------------------------------------------------------
(* One lemma for each key.                                                 *)

LineInv == GoodLine(shell)

LEMMA Basics ==
    ASSUME LineInv
    PROVE  /\ shell \in Fields /\ shell.line \in Line /\ Len(shell.line) \in Nat
           /\ shell.cursor \in 0 .. Len(shell.line) /\ shell.clipboard \in Line
           /\ shell.history \in Seq(Line) /\ Len(shell.history) \in Nat /\ shell.draft \in Line
           /\ shell.anchor \in Int /\ shell.index \in Int
BY LineIs DEF LineInv, GoodLine, Fields, None

LEMMA InsertStep == ASSUME LineInv, Insert PROVE LineInv'
<1>1. shell.anchor <= Len(shell.line) /\ GoodLine(shell)
  BY DEF Insert, SelectionInLine, LineInv
<1>2. CASE \E c \in Chars : shell' = InsertChar(shell, c)
  <2>1. PICK c \in Chars : shell' = InsertChar(shell, c)
    BY <1>2
  <2>2. <<c>> \in Seq(Chars)
    OBVIOUS
  <2>3. GoodLine(InsertAll(shell, <<c>>))
    BY <1>1, <2>2, InsertKeeps
  <2> QED
    BY <2>1, <2>3 DEF InsertChar, LineInv
<1>3. CASE shell' = InsertAll(shell, [i \in 1 .. TabWidth |-> Space])
  <2> DEFINE tab == [i \in 1 .. TabWidth |-> Space]
  <2>1. tab \in Seq(Chars)
    BY ShellAssumption
  <2> HIDE DEF tab
  <2>2. GoodLine(InsertAll(shell, tab))
    BY <1>1, <2>1, InsertKeeps
  <2> QED
    BY <1>3, <2>2 DEF LineInv, tab
<1> QED
  BY <1>2, <1>3 DEF Insert

LEMMA BackspaceStep == ASSUME LineInv, Backspace PROVE LineInv'
<1>1. shell.anchor <= Len(shell.line) /\ GoodLine(shell) /\ shell.cursor - 1 \in Int
      /\ (shell.cursor - 1) + 1 = shell.cursor
  BY Basics DEF Backspace, SelectionInLine, LineInv
<1>2. GoodLine(Erase(shell, shell.cursor - 1, (shell.cursor - 1) + 1))
  BY <1>1, EraseKeeps
<1> QED
  BY <1>1, <1>2 DEF Backspace, LineInv

LEMMA DeleteStep == ASSUME LineInv, DeleteAtCursor PROVE LineInv'
<1>1. shell.anchor <= Len(shell.line) /\ GoodLine(shell) /\ shell.cursor \in Int
  BY Basics DEF DeleteAtCursor, SelectionInLine, LineInv
<1>2. GoodLine(Erase(shell, shell.cursor, shell.cursor + 1))
  BY <1>1, EraseKeeps
<1> QED
  BY <1>2 DEF DeleteAtCursor, LineInv

LEMMA LeftStep == ASSUME LineInv, Left PROVE LineInv'
<1>1. PICK shift \in BOOLEAN, word \in BOOLEAN :
          shell' = [Anchored(shell, shift) EXCEPT
                       !.cursor = IF word THEN WordLeft(shell) ELSE IF @ > 0 THEN @ - 1 ELSE @]
  BY DEF Left
<1> DEFINE t == Anchored(shell, shift)
           n == IF word THEN WordLeft(shell) ELSE IF t.cursor > 0 THEN t.cursor - 1 ELSE t.cursor
<1>2. GoodLine(t) /\ t.line = shell.line /\ t.cursor = shell.cursor
  BY AnchoredKeeps DEF LineInv
<1> HIDE DEF t
<1>3. WordLeft(shell) \in 0 .. shell.cursor
  BY Basics, WordLeftInLine
<1>4. n \in 0 .. Len(t.line)
  BY <1>2, <1>3, Basics
<1>5. shell' = [t EXCEPT !.cursor = n]
  BY <1>1 DEF t
<1> HIDE DEF n
<1> QED
  BY <1>2, <1>4, <1>5, MovedTo DEF LineInv

LEMMA RightStep == ASSUME LineInv, Right PROVE LineInv'
<1>1. PICK shift \in BOOLEAN, word \in BOOLEAN :
          shell' = [Anchored(shell, shift) EXCEPT
                       !.cursor = IF word THEN WordRight(shell)
                                  ELSE IF @ < Len(shell.line) THEN @ + 1 ELSE @]
  BY DEF Right
<1> DEFINE t == Anchored(shell, shift)
           n == IF word THEN WordRight(shell)
                ELSE IF t.cursor < Len(shell.line) THEN t.cursor + 1 ELSE t.cursor
<1>2. GoodLine(t) /\ t.line = shell.line /\ t.cursor = shell.cursor
  BY AnchoredKeeps DEF LineInv
<1> HIDE DEF t
<1>3. WordRight(shell) \in 0 .. Len(shell.line)
  BY Basics, WordRightInLine
<1>4. n \in 0 .. Len(t.line)
  BY <1>2, <1>3, Basics
<1>5. shell' = [t EXCEPT !.cursor = n]
  BY <1>1 DEF t
<1> HIDE DEF n
<1> QED
  BY <1>2, <1>4, <1>5, MovedTo DEF LineInv

LEMMA HomeOrEndStep == ASSUME LineInv, HomeOrEnd PROVE LineInv'
<1>1. PICK n \in {0, Len(shell.line)} :
          shell' = [shell EXCEPT !.anchor = None, !.stray = FALSE, !.cursor = n]
  BY DEF HomeOrEnd
<1>2. n \in Nat /\ n <= Len(shell.line) /\ None <= Len(shell.line) /\ shell \in Fields
  BY Basics DEF None
<1>3. None \in None .. MaxInput
  BY ShellAssumption DEF None
<1>4. /\ shell' \in Fields /\ shell'.line = shell.line /\ shell'.cursor = n
      /\ shell'.anchor = None /\ shell'.history = shell.history /\ shell'.index = shell.index
  BY Zenon, <1>1, <1>2, <1>3 DEF Fields
<1> QED
  BY <1>2, <1>4, OtherLine DEF LineInv

LEMMA CopyStep == ASSUME LineInv, Copy PROVE LineInv'
<1> DEFINE copy == SubSeq(shell.line, SelectionStart(shell) + 1, SelectionEnd(shell))
<1>1. /\ shell.anchor \in 0 .. Len(shell.line) /\ shell.cursor \in 0 .. Len(shell.line)
      /\ shell.line \in Seq(Chars) /\ Len(shell.line) <= MaxInput /\ Len(shell.line) \in Nat
      /\ shell \in Fields
  BY Basics, LineIs, ShellAssumption
     DEF Copy, SelectionInLine, HasSelection, LineInv, GoodLine, Fields, None
<1>2. copy \in Line
  <2> DEFINE first == SelectionStart(shell)
             last == SelectionEnd(shell)
  <2>1. first \in 0 .. Len(shell.line) /\ last \in 0 .. Len(shell.line)
    BY <1>1 DEF SelectionStart, SelectionEnd
  <2> HIDE DEF first, last
  <2>2. \A i \in first + 1 .. last : shell.line[i] \in Chars
    BY <1>1, <2>1
  <2>3. /\ SubSeq(shell.line, first + 1, last) \in Seq(Chars)
        /\ Len(SubSeq(shell.line, first + 1, last)) <= Len(shell.line)
    BY <1>1, <2>1, <2>2, SubSeqProperties
  <2>4. Len(SubSeq(shell.line, first + 1, last)) <= MaxInput
    BY <1>1, <2>3, ShellAssumption
  <2> QED
    BY <2>3, <2>4, LineIs DEF first, last
<1> HIDE DEF copy
<1>3. shell' = [shell EXCEPT !.clipboard = copy]
  BY DEF Copy, copy
<1>4. /\ shell' \in Fields /\ shell'.line = shell.line /\ shell'.cursor = shell.cursor
      /\ shell'.anchor = shell.anchor /\ shell'.stray = shell.stray
      /\ shell'.history = shell.history /\ shell'.index = shell.index
  BY Zenon, <1>1, <1>2, <1>3 DEF Fields
<1> QED
  BY <1>4 DEF LineInv, GoodLine

LEMMA PasteStep == ASSUME LineInv, Paste PROVE LineInv'
<1> DEFINE s == DeleteSelection(shell)
           room == MaxInput - Len(s.line)
           text == IF Len(s.clipboard) > room THEN SubSeq(s.clipboard, 1, room) ELSE s.clipboard
<1>1. GoodLine(s) /\ s.anchor <= Len(s.line) /\ s.clipboard \in Line
  BY Basics, DeleteKeeps DEF Paste, SelectionInLine, LineInv
<1>2. shell' = InsertAll(s, text)
  BY DEF Paste
<1> HIDE DEF s
<1>3. room \in Int /\ s.clipboard \in Seq(Chars) /\ Len(s.clipboard) \in Nat
  BY <1>1, LineIs, ShellAssumption DEF GoodLine, Fields
<1>4. text \in Seq(Chars)
  <2> HIDE DEF room
  <2>1. CASE Len(s.clipboard) > room
    <3>1. \A i \in 1 .. room : s.clipboard[i] \in Chars
      BY <1>3, <2>1
    <3>2. SubSeq(s.clipboard, 1, room) \in Seq(Chars)
      BY <1>3, <3>1, SubSeqProperties
    <3> QED
      BY <2>1, <3>2
  <2>2. CASE ~ (Len(s.clipboard) > room)
    BY <1>3, <2>2
  <2> QED
    BY <2>1, <2>2
<1> HIDE DEF text
<1> QED
  BY <1>1, <1>2, <1>4, InsertKeeps DEF LineInv

LEMMA HistoryUpStep == ASSUME LineInv, HistoryUp PROVE LineInv'
<1> DEFINE s == IF shell.index = None
                THEN [shell EXCEPT !.draft = shell.line, !.index = Len(shell.history)]
                ELSE [shell EXCEPT !.index = IF @ > 1 THEN @ - 1 ELSE @]
<1>1. Len(shell.history) \in Nat \ {0} /\ shell.history # <<>>
  BY Basics DEF HistoryUp
<1>2. GoodLine(s) /\ s.index \in 1 .. Len(shell.history) /\ s.history = shell.history
  <2>1. CASE shell.index = None
    <3>1. Len(shell.history) \in 1 .. Len(shell.history) /\ Len(shell.history) \in Int
      BY <1>1
    <3> DEFINE t == [shell EXCEPT !.draft = shell.line, !.index = Len(shell.history)]
    <3>2. GoodLine(t) /\ t.index = Len(shell.history) /\ t.history = shell.history
      BY Zenon, <3>1, Basics, TurnedTo DEF LineInv
    <3>3. s = t
      BY Zenon, <2>1
    <3> HIDE DEF s, t
    <3> QED
      BY <3>1, <3>2, <3>3
  <2>2. CASE shell.index # None
    <3> DEFINE n == IF shell.index > 1 THEN shell.index - 1 ELSE shell.index
    <3>1. n \in 1 .. Len(shell.history)
      BY <2>2, Basics DEF LineInv, GoodLine
    <3> HIDE DEF n
    <3>2. s = [shell EXCEPT !.index = n]
      BY <2>2 DEF n
    <3> HIDE DEF s
    <3> QED
      BY <3>1, <3>2, IndexTo DEF LineInv
  <2> QED
    BY <2>1, <2>2
<1>3. shell' = SetLine(s, s.history[s.index])
  BY DEF HistoryUp
<1> HIDE DEF s
<1>4. s.history[s.index] \in Line
  BY <1>2, Basics
<1> QED
  BY <1>2, <1>3, <1>4, SetLineKeeps DEF LineInv

LEMMA HistoryDownStep == ASSUME LineInv, HistoryDown PROVE LineInv'
<1>1. CASE shell.index < Len(shell.history)
  <2> DEFINE n == shell.index + 1
             s == [shell EXCEPT !.index = n]
  <2>1. n \in 1 .. Len(shell.history)
    BY <1>1, Basics DEF HistoryDown, LineInv, GoodLine
  <2>2. GoodLine(s)
    <3> HIDE DEF n
    <3> QED
      BY <2>1, IndexTo DEF LineInv
  <2>3. shell' = SetLine(s, shell.history[n])
    BY <1>1 DEF HistoryDown
  <2>4. shell.history[n] \in Line
    BY <2>1, Basics
  <2> HIDE DEF s, n
  <2> QED
    BY <2>2, <2>3, <2>4, SetLineKeeps DEF LineInv
<1>2. CASE ~ (shell.index < Len(shell.history))
  <2> DEFINE s == [shell EXCEPT !.index = None, !.draft = <<>>]
  <2>1. <<>> \in Line /\ None \in Int
    BY EmptyLine DEF None
  <2>2. s = [shell EXCEPT !.draft = <<>>, !.index = None]
    BY Basics DEF Fields
  <2>3. shell' = SetLine(s, shell.draft)
    BY <1>2 DEF HistoryDown
  <2> HIDE DEF s
  <2>4. GoodLine(s)
    BY <2>1, <2>2, TurnedTo DEF LineInv
  <2> QED
    BY <2>3, <2>4, Basics, SetLineKeeps DEF LineInv
<1> QED
  BY <1>1, <1>2

LEMMA EnterStep == ASSUME LineInv, Enter PROVE LineInv'
<1>1. Len(shell.history) <= HistorySize
  BY DEF LineInv, GoodLine
<1>2. LET h == StoreHistory(shell.history, shell.line)
      IN  h \in Seq(Line) /\ Len(h) <= HistorySize
  BY <1>1, Basics, StoreProperties
<1> QED
  BY <1>2, Basics, PromptGood DEF Enter, LineInv

-----------------------------------------------------------------------------
(* The buffer of the line is never exceeded and the cursor, the selection  *)
(* and the place in the history stay where there is something, whatever    *)
(* keys of shell_handle_event arrive.                                      *)
THEOREM LineInvariant == LineSpec => []LineInv
<1>1. LineInit => LineInv
  <2>1. Len(<<>>) <= HistorySize
    BY EmptyLine, ShellAssumption
  <2>2. GoodLine(Prompt(<<>>, <<>>))
    BY <2>1, EmptyLine, PromptGood
  <2> QED
    BY <2>2 DEF LineInit, LineInv
<1>2. LineInv /\ [LineNext]_shell => LineInv'
  <2> SUFFICES ASSUME LineInv, [LineNext]_shell PROVE LineInv'
    OBVIOUS
  <2>1. CASE LineNext
    BY <2>1, InsertStep, BackspaceStep, DeleteStep, LeftStep, RightStep, HomeOrEndStep,
       CopyStep, PasteStep, HistoryUpStep, HistoryDownStep, EnterStep DEF LineNext
  <2>2. CASE UNCHANGED shell
    BY <2>2 DEF LineInv
  <2> QED
    BY <2>1, <2>2
<1> QED
  BY <1>1, <1>2, PTL DEF LineSpec

(* The line, the draft, the clipboard and every line of the history fit    *)
(* into their buffers, and the history into its own.                       *)
THEOREM LineTypesHold == LineSpec => []LineTypes
<1>1. LineInv => LineTypes
  <2> SUFFICES ASSUME LineInv PROVE LineTypes
    OBVIOUS
  <2>1. Range(shell.history) \subseteq Line
    BY Basics DEF Range
  <2> QED
    BY <2>1, Basics DEF LineTypes, LineInv, GoodLine, Fields
<1> QED
  BY <1>1, LineInvariant, PTL

(* The cursor stays within the line and so does the selection, except      *)
(* where a deletion without a selection left the anchor behind the line;   *)
(* a place in the history is one of the lines it has.                      *)
THEOREM LineIsKept == LineSpec => []LineKept
<1>1. LineInv => LineKept
  <2> SUFFICES ASSUME LineInv PROVE LineKept
    OBVIOUS
  <2>1. DOMAIN shell.history = 1 .. Len(shell.history)
    BY Basics
  <2> QED
    BY <2>1, Basics DEF LineKept, LineInv, GoodLine
<1> QED
  BY <1>1, LineInvariant, PTL

-----------------------------------------------------------------------------
(* Addresses and pages.                                                    *)

LEMMA Division ==
    ASSUME NEW n \in Nat, NEW d \in Nat \ {0}
    PROVE  /\ n \div d \in Nat /\ n % d \in 0 .. d - 1
           /\ n = ((n \div d) * d) + (n % d)
OBVIOUS

LEMMA DivideBelow ==
    ASSUME NEW n \in Nat, NEW d \in Nat \ {0}, NEW p \in Nat
    PROVE  p < n \div d <=> (p + 1) * d <= n
<1> DEFINE q == n \div d
           r == n % d
<1>1. q \in Nat /\ r \in Nat /\ r < d /\ n = q * d + r
  BY Division
<1> HIDE DEF q, r
<1>2. ASSUME p < q PROVE (p + 1) * d <= n
  <2>1. (p + 1) * d <= q * d
    BY <1>1, <1>2
  <2> QED
    BY <1>1, <2>1
<1>3. ASSUME ~ (p < q) PROVE ~ ((p + 1) * d <= n)
  <2>1. q * d <= p * d
    BY <1>1, <1>3
  <2>2. (p + 1) * d = p * d + d
    OBVIOUS
  <2> QED
    BY <1>1, <2>1, <2>2
<1> QED
  BY <1>2, <1>3 DEF q

LEMMA Sizes ==
    /\ Limit \in Nat \ {0} /\ LastPage \in Nat /\ Limit = LastPage + PageSize
    /\ PageSize \in Nat \ {0} /\ Pages \in Nat \ {0}
    /\ BootEnd <= LastPage /\ LowEnd <= BootEnd /\ BootEnd \in Nat /\ LowEnd \in Nat
<1>1. PageSize \in Nat \ {0} /\ Pages \in Nat \ {0} /\ Pages - 1 \in Nat
  BY MemoryAssumption
<1>2. Pages * PageSize = (Pages - 1) * PageSize + PageSize
  BY <1>1
<1>3. (Pages - 1) * PageSize \in Nat
  BY <1>1
<1> QED
  BY <1>1, <1>2, <1>3, MemoryAssumption DEF Limit, LastPage

LEMMA WordProperties ==
    ASSUME NEW n \in Nat
    PROVE  Word(n) \in Nat /\ (n < Limit => Word(n) = n) /\ Word(Limit) = 0
<1>1. Limit \in Nat \ {0}
  BY Sizes
<1>2. n % Limit \in Nat /\ (n < Limit => n % Limit = n) /\ Limit % Limit = 0
  BY <1>1
<1> QED
  BY <1>2 DEF Word

LEMMA DownProperties ==
    ASSUME NEW n \in Nat
    PROVE  AlignDown(n) \in Nat /\ AlignDown(n) \div PageSize = n \div PageSize
<1> DEFINE d == PageSize
           q == n \div d
           r == n % d
<1>1. d \in Nat \ {0}
  BY Sizes
<1>2. q \in Nat /\ r \in Nat /\ r < d /\ n = q * d + r
  BY <1>1, Division
<1> HIDE DEF q, r, d
<1>3. n - r = q * d /\ q * d \in Nat
  BY <1>1, <1>2
<1>4. (q * d) \div d = q
  BY <1>1, <1>2
<1>5. AlignDown(n) = n - r
  BY DEF AlignDown, r, d
<1> QED
  BY <1>3, <1>4, <1>5 DEF q, d

(* Rounding up does not wrap below the last page.                          *)
LEMMA UpProperties ==
    ASSUME NEW n \in Nat, n <= LastPage
    PROVE  AlignUp(n) \in Nat /\ AlignUp(n) \div PageSize = (n + PageSize - 1) \div PageSize
<1>1. n + PageSize - 1 \in Nat /\ n + PageSize - 1 < Limit
  BY Sizes
<1>2. Word(n + PageSize - 1) = n + PageSize - 1
  BY <1>1, WordProperties
<1> QED
  BY <1>1, <1>2, DownProperties DEF AlignUp

LEMMA AlignedNumbers == \A n \in Nat : AlignDown(n) \in Nat /\ AlignUp(n) \in Nat
<1>1. ASSUME NEW n \in Nat PROVE AlignDown(n) \in Nat /\ AlignUp(n) \in Nat
  <2>1. n + PageSize - 1 \in Nat
    BY Sizes
  <2> QED
    BY <2>1, DownProperties, WordProperties DEF AlignUp
<1> QED
  BY <1>1

(* The pages within a range, and those that it touches.                    *)
LEMMA PagesWithin ==
    ASSUME NEW first \in Nat, first <= LastPage, NEW end \in Nat, NEW p \in Page,
           p \in PagesIn(AlignUp(first), AlignDown(end))
    PROVE  first <= p * PageSize /\ (p + 1) * PageSize <= end
<1> DEFINE d == PageSize
<1>1. d \in Nat \ {0} /\ p \in Nat /\ p * d \in Nat /\ (p + 1) * d = p * d + d
  BY Sizes DEF Page
<1>2. p < end \div d /\ ~ (p < (first + d - 1) \div d)
  <2>1. AlignUp(first) \div d \in Nat
    BY <1>1, Division, AlignedNumbers
  <2>2. first + d - 1 \in Nat
    BY <1>1
  <2>3. (first + d - 1) \div d \in Nat
    BY <1>1, <2>2, Division
  <2> QED
    BY <1>1, <2>3, DownProperties, UpProperties DEF PagesIn
<1> HIDE DEF d
<1>3. first + d - 1 \in Nat
  BY <1>1
<1>4. (p + 1) * d <= end /\ ~ ((p + 1) * d <= first + d - 1)
  BY <1>1, <1>2, <1>3, DivideBelow
<1> QED
  BY <1>1, <1>4 DEF d

LEMMA PagesTouched ==
    ASSUME NEW first \in Nat, NEW end \in Nat, end <= LastPage, NEW p \in Page
    PROVE  p \in Touched(first, end) <=> first < (p + 1) * PageSize /\ p * PageSize < end
<1> DEFINE d == PageSize
<1>1. d \in Nat \ {0} /\ p \in Nat /\ p * d \in Nat /\ (p + 1) * d = p * d + d
  BY Sizes DEF Page
<1>2. p \in Touched(first, end) <=> ~ (p < first \div d) /\ p < (end + d - 1) \div d
  <2>1. first \div d \in Nat
    BY <1>1, Division
  <2> QED
    BY <1>1, <2>1, DownProperties, UpProperties DEF PagesIn, Touched
<1> HIDE DEF d
<1>3. end + d - 1 \in Nat
  BY <1>1
<1>4. /\ p < first \div d <=> (p + 1) * d <= first
      /\ p < (end + d - 1) \div d <=> (p + 1) * d <= end + d - 1
  BY <1>1, <1>3, DivideBelow
<1> QED
  BY <1>1, <1>2, <1>4 DEF d

(* What a page and a range have in common.                                 *)
LEMMA TouchedBytes ==
    ASSUME NEW first \in Nat, NEW end \in Nat, end <= LastPage, NEW p \in Page
    PROVE  p \in Touched(first, end) \/ Bytes(p) \cap (first .. end - 1) = {}
<1>1. p \in Nat /\ p * PageSize \in Nat /\ (p + 1) * PageSize \in Nat
  BY Sizes DEF Page
<1>2. CASE first < (p + 1) * PageSize /\ p * PageSize < end
  BY <1>2, PagesTouched
<1>3. CASE ~ (first < (p + 1) * PageSize /\ p * PageSize < end)
  <2> DEFINE low == p * PageSize
             high == (p + 1) * PageSize
  <2>1. \A b \in low .. high - 1 : ~ (b \in first .. end - 1)
    <3>1. low \in Nat /\ high \in Nat /\ ~ (first < high /\ low < end)
      BY <1>1, <1>3
    <3> HIDE DEF low, high
    <3> QED
      BY <3>1
  <2> QED
    BY <2>1 DEF Bytes
<1> QED
  BY <1>2, <1>3

LEMMA BytesBelowLimit ==
    ASSUME NEW p \in Page
    PROVE  \A b \in Bytes(p) : b \in 0 .. Limit - 1
<1> DEFINE low == p * PageSize
           high == (p + 1) * PageSize
<1>1. p \in Nat /\ p + 1 <= Pages /\ PageSize \in Nat /\ Pages \in Nat
  BY Sizes DEF Page
<1>2. low \in Nat /\ high \in Nat /\ high <= Pages * PageSize
  BY <1>1
<1>3. high <= Limit /\ Limit \in Nat
  BY <1>2, Sizes DEF Limit
<1> HIDE DEF low, high
<1>4. \A b \in low .. high - 1 : b \in 0 .. Limit - 1
  BY <1>2, <1>3
<1> QED
  BY <1>4 DEF Bytes, low, high

LEMMA LesserProperties ==
    ASSUME NEW a \in Nat, NEW b \in Nat
    PROVE  Min({a, b}) = IF a <= b THEN a ELSE b
<1>1. Min({a, b}) \in {a, b} /\ Min({a, b}) <= a /\ Min({a, b}) <= b
  <2>1. {a, b} \in SUBSET Nat /\ {a, b} # {}
    OBVIOUS
  <2> QED
    BY <2>1, MinProperties
<1> QED
  BY <1>1

-----------------------------------------------------------------------------
(* Memory maps.                                                            *)
Region == [start : Nat, length : Nat, available : BOOLEAN]

GoodMachine(m) ==
    /\ m.map \in Seq(Region)
    /\ m.info \in Nat \X Nat /\ m.kernel \in Nat \X Nat /\ m.framebuffer \in Nat \X Nat

LEMMA MachineProperties ==
    ASSUME NEW m, GoodMachine(m)
    PROVE  /\ m.info[1] \in Nat /\ m.info[2] \in Nat
           /\ m.kernel[1] \in Nat /\ m.kernel[2] \in Nat
           /\ m.framebuffer[1] \in Nat /\ m.framebuffer[2] \in Nat
           /\ \A i \in DOMAIN m.map :
                 /\ m.map[i].start \in Nat /\ m.map[i].length \in Nat
                 /\ End(m.map[i]) \in Nat /\ m.map[i].available \in BOOLEAN
<1>1. \A i \in DOMAIN m.map : m.map[i] \in Region
  BY DEF GoodMachine
<1>2. \A r \in Region : r.start \in Nat /\ r.length \in Nat /\ End(r) \in Nat
                        /\ r.available \in BOOLEAN
  BY DEF Region, End
<1> QED
  BY <1>1, <1>2 DEF GoodMachine

LEMMA MachinesAreGood == \A m \in Machines : GoodMachine(m)
BY MachinesAssumption DEF GoodMachine, Region

LEMMA HighestProperties ==
    ASSUME NEW m, GoodMachine(m)
    PROVE  Word(Highest(m.map)) \div PageSize \in Nat
<1> DEFINE ends == {Min({Limit, End(m.map[i])}) : i \in DOMAIN m.map}
           all == {0} \cup ends
<1>1. \A n \in ends : n \in Nat /\ n <= Limit
  <2>1. ASSUME NEW i \in DOMAIN m.map
        PROVE  Min({Limit, End(m.map[i])}) \in Nat /\ Min({Limit, End(m.map[i])}) <= Limit
    BY LesserProperties, Sizes, MachineProperties
  <2> QED
    BY <2>1
<1> HIDE DEF ends
<1>2. all \in SUBSET Nat /\ all # {} /\ \A n \in all : n <= Limit
  <2>1. 0 <= Limit
    BY Sizes
  <2> QED
    BY <1>1, <2>1
<1>3. Max(all) \in Nat
  <2> HIDE DEF all
  <2> QED
    BY <1>2, Sizes, MaxProperties
<1>4. Word(Highest(m.map)) \in Nat
  BY <1>3, WordProperties DEF Highest, ends
<1> QED
  BY <1>4, Division, Sizes

(* A page of usable memory is memory from its first byte to its last.      *)
LEMMA UsableCovered ==
    ASSUME NEW m, GoodMachine(m), Roomy(m), NEW i \in DOMAIN m.map,
           NEW p \in Page, p \in UsablePages(m.map[i])
    PROVE  Bytes(p) \subseteq Covers(m.map)
<1> DEFINE r == m.map[i]
           first == r.start
           end == End(r)
           low == p * PageSize
           high == (p + 1) * PageSize
<1>1. /\ first \in Nat /\ end \in Nat /\ r.available /\ first < Limit /\ first <= LastPage
      /\ p \in PagesIn(AlignUp(first), AlignDown(Word(Min({end, Limit}))))
  <2>1. /\ first \in Nat /\ end \in Nat /\ r.available /\ first < Limit
        /\ p \in PagesIn(AlignUp(first), AlignDown(Word(Min({end, Limit}))))
    BY MachineProperties DEF UsablePages
  <2>2. first <= LastPage \/ first >= Limit
    BY <2>1 DEF Roomy
  <2> QED
    BY <2>1, <2>2, Sizes
<1>2. low \in Nat /\ high \in Nat /\ high # 0
  <2>1. p \in Nat /\ PageSize \in Nat /\ PageSize > 0
    BY Sizes DEF Page
  <2>2. high = low + PageSize
    BY <2>1
  <2> QED
    BY <2>1, <2>2
<1> HIDE DEF r, first, end
<1>3. Word(Min({end, Limit})) \in Nat /\ Word(Min({end, Limit})) <= end
  BY <1>1, Sizes, LesserProperties, WordProperties
<1>4. first <= low /\ high <= end
  <2>1. first <= low /\ high <= Word(Min({end, Limit}))
    BY <1>1, <1>3, PagesWithin
  <2> HIDE DEF low, high
  <2> QED
    BY <1>1, <1>2, <1>3, <2>1
<1> HIDE DEF low, high
<1>5. low .. high - 1 \subseteq first .. end - 1
  BY <1>1, <1>2, <1>4
<1>6. first .. end - 1 \subseteq Covers(m.map)
  BY <1>1 DEF Covers, r, first, end
<1> QED
  BY <1>5, <1>6 DEF Bytes, low, high

-----------------------------------------------------------------------------
(* What the steps of pmm_init do to the record.                            *)
MemFields ==
    [at : {"boot", "memory", "running"}, machine : Machines \cup {NoMachine},
     free : SUBSET Page, count : Int, total : Nat, hint : 0 .. Pages, held : SUBSET Page,
     tables : SUBSET Int, map : [Page -> Page \cup {Unmapped}]]

Counted(s) == s \in MemFields /\ s.count = Cardinality(s.free)

(* Everything but the free pages and their count.                          *)
SameOthers(s, t) ==
    /\ t.at = s.at /\ t.machine = s.machine /\ t.total = s.total /\ t.hint = s.hint
    /\ t.held = s.held /\ t.tables = s.tables /\ t.map = s.map

LEMMA PagesFinite ==
    ASSUME NEW S \in SUBSET Page
    PROVE  IsFiniteSet(S) /\ Cardinality(S) \in Nat
<1>1. IsFiniteSet(Page)
  BY Sizes, FS_Interval DEF Page
<1> QED
  BY <1>1, FS_Subset, FS_CardinalityType

WithPages(s, free, count) == [s EXCEPT !.free = free, !.count = count]

LEMMA WithPagesProperties ==
    ASSUME NEW s \in MemFields, NEW free \in SUBSET Page, NEW count \in Int
    PROVE  LET t == WithPages(s, free, count)
           IN  t \in MemFields /\ t.free = free /\ t.count = count /\ SameOthers(s, t)
BY Zenon DEF MemFields, WithPages, SameOthers

LEMMA ReserveProperties ==
    ASSUME NEW s, Counted(s), NEW first, NEW end
    PROVE  LET t == Reserve(s, first, end)
           IN  Counted(t) /\ t.free = s.free \ Touched(first, end) /\ SameOthers(s, t)
<1> DEFINE pages == Touched(first, end) \cap s.free
           free == s.free \ pages
           count == s.count - Cardinality(pages)
           t == Reserve(s, first, end)
<1>1. /\ s \in MemFields /\ s.free \in SUBSET Page /\ s.count = Cardinality(s.free)
      /\ s.count \in Int
  BY DEF Counted, MemFields
<1>2. /\ IsFiniteSet(s.free) /\ Cardinality(s.free) \in Nat /\ Cardinality(pages) \in Nat
      /\ s.free \cap pages = pages
  BY <1>1, PagesFinite
<1>3. Cardinality(free) = Cardinality(s.free) - Cardinality(pages)
  <2>1. Cardinality(free) = Cardinality(s.free) - Cardinality(s.free \cap pages)
    <3> HIDE DEF pages
    <3> QED
      BY <1>2, FS_Difference
  <2> QED
    BY <1>2, <2>1
<1>4. free \in SUBSET Page /\ count \in Int /\ count = Cardinality(free)
  BY <1>1, <1>2, <1>3
<1>5. t = WithPages(s, free, count)
  BY DEF Reserve, WithPages
<1>6. free = s.free \ Touched(first, end)
  OBVIOUS
<1> HIDE DEF free, count, t
<1>7. t \in MemFields /\ t.free = free /\ t.count = count /\ SameOthers(s, t)
  BY <1>1, <1>4, <1>5, WithPagesProperties
<1> QED
  BY <1>4, <1>6, <1>7 DEF Counted, t

AllUsable(map) == (UNION {UsablePages(map[i]) : i \in DOMAIN map}) \ {0}

LEMMA UsableSomewhere ==
    ASSUME NEW map, NEW p \in AllUsable(map)
    PROVE  p # 0 /\ \E i \in DOMAIN map : p \in UsablePages(map[i])
BY DEF AllUsable

LEMMA FreeUsableProperties ==
    ASSUME NEW s, Counted(s), s.free = {}, NEW map
    PROVE  LET t == FreeUsable(s, map)
           IN  /\ Counted(t) /\ SameOthers(s, t)
               /\ t.free = AllUsable(map)
<1> DEFINE pages == (UNION {UsablePages(map[i]) : i \in DOMAIN map}) \ (s.free \cup {0})
           free == s.free \cup pages
           count == s.count + Cardinality(pages)
           t == FreeUsable(s, map)
<1>1. s \in MemFields /\ s.count = 0
  BY FS_EmptySet DEF Counted
<1>2. pages \in SUBSET Page
  <2>1. \A i \in DOMAIN map : UsablePages(map[i]) \subseteq Page
    BY DEF UsablePages, PagesIn
  <2> QED
    BY <2>1
<1>3. t = WithPages(s, free, count)
  BY DEF FreeUsable, WithPages
<1>4. free = pages /\ pages = AllUsable(map)
  BY DEF AllUsable
<1> HIDE DEF pages, t
<1>5. Cardinality(pages) \in Nat
  BY <1>2, PagesFinite
<1>6. count = Cardinality(free) /\ count \in Int /\ free \in SUBSET Page
  BY <1>1, <1>2, <1>4, <1>5
<1> HIDE DEF free, count
<1>7. t \in MemFields /\ t.free = free /\ t.count = count /\ SameOthers(s, t)
  BY <1>1, <1>3, <1>6, WithPagesProperties
<1> QED
  BY <1>4, <1>6, <1>7 DEF Counted, t

LEMMA FramebufferProperties ==
    ASSUME NEW s, Counted(s), NEW framebuffer \in Nat \X Nat
    PROVE  LET t == ReserveFramebuffer(s, framebuffer)
           IN  /\ Counted(t) /\ SameOthers(s, t) /\ t.free \subseteq s.free
               /\ framebuffer[1] < Limit =>
                     t.free = s.free \ Touched(framebuffer[1],
                                               Word(Min({framebuffer[2], Limit})))
<1>1. CASE framebuffer[1] >= Limit
  <2>1. framebuffer[1] \in Nat /\ ~ (framebuffer[1] < Limit)
    BY <1>1, Sizes
  <2>2. ReserveFramebuffer(s, framebuffer) = s
    BY <1>1 DEF ReserveFramebuffer
  <2> QED
    BY <2>1, <2>2 DEF SameOthers
<1>2. CASE ~ (framebuffer[1] >= Limit)
  <2> DEFINE end == Word(Min({framebuffer[2], Limit}))
  <2>1. ReserveFramebuffer(s, framebuffer) = Reserve(s, framebuffer[1], end)
    BY <1>2 DEF ReserveFramebuffer
  <2> HIDE DEF end
  <2>2. LET t == Reserve(s, framebuffer[1], end)
        IN  Counted(t) /\ t.free = s.free \ Touched(framebuffer[1], end) /\ SameOthers(s, t)
    BY ReserveProperties
  <2> QED
    BY <2>1, <2>2 DEF end
<1> QED
  BY <1>1, <1>2

(* All that is free or handed out is usable and not reserved.              *)
KeptPages(pages, m) ==
    \A p \in pages : p # 0 /\ Bytes(p) \subseteq Covers(m.map) \ Reserved(m)

(* The free pages that pmm_init leaves.                                    *)
Surveyed(s, m) ==
    LET usable == FreeUsable(s, m.map)
        low == Reserve(usable, 0, LowEnd)
        info == Reserve(low, m.info[1], m.info[2])
        kernel == Reserve(info, m.kernel[1], m.kernel[2])
    IN  ReserveFramebuffer(kernel, m.framebuffer)

LEMMA SurveyedPages ==
    ASSUME NEW s, Counted(s), s.free = {}, NEW m, GoodMachine(m)
    PROVE  LET t == Surveyed(s, m)
           IN  /\ Counted(t) /\ SameOthers(s, t)
               /\ \A p \in t.free :
                     /\ p # 0 /\ p \in Page
                     /\ \E i \in DOMAIN m.map : p \in UsablePages(m.map[i])
                     /\ p \notin Touched(0, LowEnd)
                     /\ p \notin Touched(m.info[1], m.info[2])
                     /\ p \notin Touched(m.kernel[1], m.kernel[2])
                     /\ m.framebuffer[1] < Limit =>
                           p \notin Touched(m.framebuffer[1],
                                            Word(Min({m.framebuffer[2], Limit})))
<1> DEFINE usable == FreeUsable(s, m.map)
           low == Reserve(usable, 0, LowEnd)
           info == Reserve(low, m.info[1], m.info[2])
           kernel == Reserve(info, m.kernel[1], m.kernel[2])
           t == ReserveFramebuffer(kernel, m.framebuffer)
<1>1. /\ Counted(usable) /\ SameOthers(s, usable)
      /\ usable.free = AllUsable(m.map)
  BY FreeUsableProperties
<1> HIDE DEF usable
<1>2. Counted(low) /\ low.free = usable.free \ Touched(0, LowEnd) /\ SameOthers(usable, low)
  BY <1>1, ReserveProperties
<1> HIDE DEF low
<1>3. /\ Counted(info) /\ info.free = low.free \ Touched(m.info[1], m.info[2])
      /\ SameOthers(low, info)
  BY <1>2, ReserveProperties
<1> HIDE DEF info
<1>4. /\ Counted(kernel) /\ kernel.free = info.free \ Touched(m.kernel[1], m.kernel[2])
      /\ SameOthers(info, kernel)
  BY <1>3, ReserveProperties
<1> HIDE DEF kernel
<1>5. m.framebuffer \in Nat \X Nat
  BY DEF GoodMachine
<1>6. /\ Counted(t) /\ SameOthers(kernel, t) /\ t.free \subseteq kernel.free
      /\ m.framebuffer[1] < Limit =>
            t.free = kernel.free \ Touched(m.framebuffer[1], Word(Min({m.framebuffer[2], Limit})))
  BY <1>4, <1>5, FramebufferProperties
<1> HIDE DEF t
<1>7. SameOthers(s, t)
  BY <1>1, <1>2, <1>3, <1>4, <1>6 DEF SameOthers
<1>8. t.free \subseteq Page
  BY <1>6 DEF Counted, MemFields
<1>9. ASSUME NEW p \in t.free
      PROVE  /\ p # 0 /\ p \in Page
             /\ \E i \in DOMAIN m.map : p \in UsablePages(m.map[i])
             /\ p \notin Touched(0, LowEnd)
             /\ p \notin Touched(m.info[1], m.info[2])
             /\ p \notin Touched(m.kernel[1], m.kernel[2])
             /\ m.framebuffer[1] < Limit =>
                   p \notin Touched(m.framebuffer[1], Word(Min({m.framebuffer[2], Limit})))
  <2>1. p \in kernel.free /\ p \in info.free /\ p \in low.free /\ p \in usable.free
    BY <1>2, <1>3, <1>4, <1>6
  <2>2. p # 0 /\ \E i \in DOMAIN m.map : p \in UsablePages(m.map[i])
    <3>1. p \in AllUsable(m.map)
      BY <1>1, <2>1
    <3> QED
      BY <3>1, UsableSomewhere
  <2>3. /\ p \notin Touched(0, LowEnd) /\ p \notin Touched(m.info[1], m.info[2])
        /\ p \notin Touched(m.kernel[1], m.kernel[2])
    BY <1>2, <1>3, <1>4, <2>1
  <2>4. m.framebuffer[1] < Limit =>
          p \notin Touched(m.framebuffer[1], Word(Min({m.framebuffer[2], Limit})))
    BY <1>6
  <2> QED
    BY <1>8, <2>2, <2>3, <2>4
<1> QED
  BY <1>6, <1>7, <1>9 DEF Surveyed, usable, low, info, kernel, t

LEMMA SurveyedKept ==
    ASSUME NEW s, Counted(s), s.free = {}, NEW m, GoodMachine(m), Roomy(m)
    PROVE  KeptPages(Surveyed(s, m).free, m)
<1> SUFFICES ASSUME NEW p \in Surveyed(s, m).free
             PROVE  p # 0 /\ Bytes(p) \subseteq Covers(m.map) \ Reserved(m)
  BY DEF KeptPages
<1>1. /\ p # 0 /\ p \in Page
      /\ \E i \in DOMAIN m.map : p \in UsablePages(m.map[i])
      /\ p \notin Touched(0, LowEnd)
      /\ p \notin Touched(m.info[1], m.info[2])
      /\ p \notin Touched(m.kernel[1], m.kernel[2])
      /\ m.framebuffer[1] < Limit =>
            p \notin Touched(m.framebuffer[1], Word(Min({m.framebuffer[2], Limit})))
  BY SurveyedPages
<1>2. Bytes(p) \subseteq Covers(m.map)
  BY <1>1, UsableCovered
<1>3. /\ m.info[1] \in Nat /\ m.info[2] \in Nat /\ m.info[2] <= LastPage
      /\ m.kernel[1] \in Nat /\ m.kernel[2] \in Nat /\ m.kernel[2] <= LastPage
      /\ m.framebuffer[1] \in Nat /\ m.framebuffer[2] \in Nat
      /\ LowEnd \in Nat /\ LowEnd <= LastPage
  BY MachineProperties, Sizes DEF Roomy
<1>4. Bytes(p) \cap (0 .. LowEnd - 1) = {}
  BY <1>1, <1>3, TouchedBytes
<1>5. Bytes(p) \cap Between(m.info) = {}
  BY <1>1, <1>3, TouchedBytes DEF Between
<1>6. Bytes(p) \cap Between(m.kernel) = {}
  BY <1>1, <1>3, TouchedBytes DEF Between
<1>7. Bytes(p) \cap Between(m.framebuffer) = {}
  <2>1. CASE m.framebuffer[2] <= LastPage /\ m.framebuffer[1] < Limit
    <3>1. m.framebuffer[2] < Limit /\ m.framebuffer[2] <= Limit
      BY <1>3, <2>1, Sizes
    <3>2. Word(Min({m.framebuffer[2], Limit})) = m.framebuffer[2]
      BY <1>3, <3>1, Sizes, LesserProperties, WordProperties
    <3>3. p \notin Touched(m.framebuffer[1], m.framebuffer[2])
      BY <1>1, <2>1, <3>2
    <3> QED
      BY <1>1, <1>3, <2>1, <3>3, TouchedBytes DEF Between
  <2>2. CASE ~ (m.framebuffer[1] < Limit)
    <3>1. \A b \in 0 .. Limit - 1 : b \notin m.framebuffer[1] .. m.framebuffer[2] - 1
      BY <1>3, <2>2, Sizes
    <3> QED
      BY <1>1, <3>1, BytesBelowLimit DEF Between
  <2>3. CASE ~ (m.framebuffer[2] <= LastPage)
    <3>1. (m.framebuffer[1] .. Limit - 1) \cap Covers(m.map) = {}
      BY <2>3 DEF Roomy
    <3>2. ASSUME NEW b \in Bytes(p), b \in Between(m.framebuffer) PROVE FALSE
      <4>1. b \in 0 .. Limit - 1 /\ b \in m.framebuffer[1] .. m.framebuffer[2] - 1
        BY <1>1, <3>2, BytesBelowLimit DEF Between
      <4>2. b \in m.framebuffer[1] .. Limit - 1
        BY <1>3, <4>1, Sizes
      <4> QED
        BY <1>2, <3>1, <3>2, <4>2
    <3> QED
      BY <3>2
  <2> QED
    BY <2>1, <2>2, <2>3
<1> QED
  BY <1>1, <1>2, <1>4, <1>5, <1>6, <1>7 DEF Reserved

-----------------------------------------------------------------------------
(* The page tables.                                                        *)

LEMMA TablesFinite ==
    ASSUME NEW pages \in SUBSET Page
    PROVE  TablesOf(pages) \in SUBSET Nat /\ IsFiniteSet(TablesOf(pages))
<1>1. ASSUME NEW p \in pages PROVE Table(p) \in 0 .. Pages
  <2> DEFINE d == TableEntries
             q == p \div d
             r == p % d
  <2>1. p \in Nat /\ p <= Pages /\ d \in Nat \ {0} /\ Pages \in Nat
    BY Sizes, MemoryAssumption DEF Page
  <2>2. q \in Nat /\ r \in Nat /\ p = q * d + r
    BY <2>1, Division
  <2> HIDE DEF q, r, d
  <2>3. q <= q * d
    BY <2>1, <2>2
  <2>4. q * d \in Nat
    BY <2>1, <2>2
  <2>5. q \in 0 .. Pages
    BY <2>1, <2>2, <2>3, <2>4
  <2> QED
    BY <2>5 DEF Table, q, d
<1>2. TablesOf(pages) \subseteq 0 .. Pages
  BY <1>1 DEF TablesOf
<1>3. IsFiniteSet(0 .. Pages)
  BY Sizes, FS_Interval
<1> QED
  BY <1>2, <1>3, FS_Subset, Sizes

Below(missing, t) == {u \in missing : u < t}

LEMMA BelowProperties ==
    ASSUME NEW missing \in SUBSET Nat, IsFiniteSet(missing), NEW t \in missing
    PROVE  /\ IsFiniteSet(Below(missing, t)) /\ Cardinality(Below(missing, t)) \in Nat
           /\ Cardinality(Below(missing, t)) < Cardinality(missing)
           /\ \A u \in missing :
                 u < t => Cardinality(Below(missing, u)) < Cardinality(Below(missing, t))
<1>1. ASSUME NEW u \in missing
      PROVE  IsFiniteSet(Below(missing, u)) /\ Cardinality(Below(missing, u)) \in Nat
  <2>1. Below(missing, u) \in SUBSET missing
    BY DEF Below
  <2> QED
    BY <2>1, FS_Subset, FS_CardinalityType
<1>2. Cardinality(missing) \in Nat
  BY FS_CardinalityType
<1>3. Cardinality(Below(missing, t)) < Cardinality(missing)
  <2>1. Below(missing, t) \in SUBSET missing /\ Below(missing, t) # missing
    BY DEF Below
  <2>2. /\ Cardinality(Below(missing, t)) <= Cardinality(missing)
        /\ Cardinality(missing) # Cardinality(Below(missing, t))
    BY <2>1, FS_Subset
  <2> QED
    BY <1>1, <1>2, <2>2
<1>4. ASSUME NEW u \in missing, u < t
      PROVE  Cardinality(Below(missing, u)) < Cardinality(Below(missing, t))
  <2>1. Below(missing, u) \in SUBSET Below(missing, t)
    <3>1. \A v \in missing : v < u => v < t
      <4>1. \A v \in missing : v \in Nat
        OBVIOUS
      <4>2. t \in Nat /\ u \in Nat
        OBVIOUS
      <4> QED
        BY <1>4, <4>1, <4>2
    <3> QED
      BY <3>1 DEF Below
  <2>2. u \in Below(missing, t) /\ u \notin Below(missing, u)
    BY <1>4 DEF Below
  <2>3. /\ Cardinality(Below(missing, u)) <= Cardinality(Below(missing, t))
        /\ Cardinality(Below(missing, t)) # Cardinality(Below(missing, u))
    BY <1>1, <2>1, <2>2, FS_Subset
  <2> QED
    BY <1>1, <2>3
<1> QED
  BY <1>1, <1>3, <1>4

(* The pool suffices for what is granted, and all is granted when the pool *)
(* suffices.                                                               *)
LEMMA GrantedProperties ==
    ASSUME NEW s, IsFiniteSet(s.tables), Cardinality(s.tables) <= PoolSize,
           NEW pages \in SUBSET Page
    PROVE  /\ Granted(s, pages) \subseteq TablesOf(pages) \ s.tables
           /\ IsFiniteSet(Granted(s, pages))
           /\ Cardinality(Granted(s, pages)) <= PoolSize - Cardinality(s.tables)
           /\ Cardinality(s.tables \cup TablesOf(pages)) <= PoolSize =>
                 Granted(s, pages) = TablesOf(pages) \ s.tables
<1> DEFINE missing == TablesOf(pages) \ s.tables
           room == PoolSize - Cardinality(s.tables)
           got == {t \in missing : Cardinality(Below(missing, t)) < room}
<1>1. Granted(s, pages) = got
  BY DEF Granted, Below
<1>2. missing \in SUBSET Nat /\ IsFiniteSet(missing) /\ got \subseteq missing
  BY TablesFinite, FS_Difference
<1>3. room \in Nat /\ Cardinality(s.tables) \in Nat
  BY FS_CardinalityType, MemoryAssumption
<1>4. IsFiniteSet(got) /\ Cardinality(got) \in Nat
  <2> HIDE DEF missing, got
  <2> QED
    BY <1>2, FS_Subset, FS_CardinalityType
<1>5. Cardinality(got) <= room
  <2> DEFINE f == [t \in got |-> Cardinality(Below(missing, t))]
             ranks == 0 .. room - 1
  <2> HIDE DEF missing, room
  <2>1. \A t \in got : Cardinality(Below(missing, t)) \in ranks
    BY <1>2, <1>3, BelowProperties
  <2>2. \A t, u \in got : f[t] = f[u] => t = u
    <3> SUFFICES ASSUME NEW t \in got, NEW u \in got, f[t] = f[u], t # u PROVE FALSE
      OBVIOUS
    <3>1. t \in missing /\ u \in missing /\ t \in Nat /\ u \in Nat
      BY <1>2
    <3>2. t < u \/ u < t
      BY <3>1
    <3>3. /\ Cardinality(Below(missing, t)) \in Nat /\ Cardinality(Below(missing, u)) \in Nat
          /\ t < u => Cardinality(Below(missing, t)) < Cardinality(Below(missing, u))
          /\ u < t => Cardinality(Below(missing, u)) < Cardinality(Below(missing, t))
      BY <1>2, <3>1, BelowProperties
    <3> QED
      BY <3>2, <3>3
  <2>3. f \in Injection(got, ranks)
    <3>1. f \in [got -> ranks] /\ DOMAIN f = got
      BY <2>1
    <3> HIDE DEF f, got, ranks
    <3> QED
      BY <2>2, <3>1 DEF Injection, IsInjective
  <2>4. IsFiniteSet(ranks) /\ Cardinality(ranks) = room
    <3>1. room - 1 \in Int /\ room \in Nat
      BY <1>3
    <3>2. Cardinality(0 .. room - 1) = (IF 0 > room - 1 THEN 0 ELSE (room - 1) - 0 + 1)
      BY <3>1, FS_Interval
    <3> QED
      BY <3>1, <3>2, FS_Interval
  <2> HIDE DEF f, ranks, got
  <2> QED
    BY <2>3, <2>4, FS_Injection
<1>6. ASSUME Cardinality(s.tables \cup TablesOf(pages)) <= PoolSize PROVE got = missing
  <2>1. s.tables \cup TablesOf(pages) = s.tables \cup missing /\ s.tables \cap missing = {}
    OBVIOUS
  <2> HIDE DEF missing
  <2>2. Cardinality(s.tables \cup missing) = Cardinality(s.tables) + Cardinality(missing) - 0
    BY <1>2, <2>1, FS_Union, FS_EmptySet
  <2>3. Cardinality(missing) \in Nat
    BY <1>2, FS_CardinalityType
  <2>4. Cardinality(missing) <= room
    <3>1. Cardinality(s.tables \cup missing) <= PoolSize
      BY <1>6, <2>1
    <3> QED
      BY <1>3, <2>2, <2>3, <3>1, MemoryAssumption
  <2> HIDE DEF room
  <2>5. \A t \in missing : Cardinality(Below(missing, t)) < room
    BY <1>2, <1>3, <2>3, <2>4, BelowProperties
  <2> QED
    BY <2>5
<1> QED
  BY <1>1, <1>2, <1>4, <1>5, <1>6

(* Everything but the tables and what they map.                            *)
SamePages(s, t) ==
    /\ t.at = s.at /\ t.machine = s.machine /\ t.total = s.total /\ t.hint = s.hint
    /\ t.held = s.held /\ t.free = s.free /\ t.count = s.count

Tabled(s) ==
    s \in MemFields /\ IsFiniteSet(s.tables) /\ Cardinality(s.tables) <= PoolSize

WithTables(s, tables, map) == [s EXCEPT !.tables = tables, !.map = map]

LEMMA WithTablesProperties ==
    ASSUME NEW s \in MemFields, NEW tables \in SUBSET Int,
           NEW map \in [Page -> Page \cup {Unmapped}]
    PROVE  LET t == WithTables(s, tables, map)
           IN  t \in MemFields /\ t.tables = tables /\ t.map = map /\ SamePages(s, t)
BY Zenon DEF MemFields, WithTables, SamePages

LEMMA MapProperties ==
    ASSUME NEW s, Tabled(s), NEW pages \in SUBSET Page, NEW distance \in Int,
           \A p \in pages : p + distance \in Page
    PROVE  LET t == MapPages(s, pages, distance)
           IN  /\ Tabled(t) /\ SamePages(s, t)
               /\ t.tables \subseteq s.tables \cup TablesOf(pages)
               /\ \A p \in Page \ pages : t.map[p] = s.map[p]
               /\ Cardinality(s.tables \cup TablesOf(pages)) <= PoolSize =>
                     \A p \in pages : t.map[p] = p + distance
<1> DEFINE got == Granted(s, pages)
           tables == s.tables \cup got
           map == [p \in Page |-> IF p \in pages /\ Table(p) \in tables
                                  THEN p + distance ELSE s.map[p]]
           t == MapPages(s, pages, distance)
<1>1. /\ s \in MemFields /\ IsFiniteSet(s.tables) /\ Cardinality(s.tables) <= PoolSize
      /\ s.tables \in SUBSET Int /\ s.map \in [Page -> Page \cup {Unmapped}]
  BY DEF Tabled, MemFields
<1>2. /\ got \subseteq TablesOf(pages) \ s.tables /\ IsFiniteSet(got)
      /\ Cardinality(got) <= PoolSize - Cardinality(s.tables)
      /\ Cardinality(s.tables \cup TablesOf(pages)) <= PoolSize =>
            got = TablesOf(pages) \ s.tables
  BY <1>1, GrantedProperties
<1>3. t = WithTables(s, tables, map)
  BY <1>1 DEF MapPages, WithTables
<1> HIDE DEF got, t
<1>4. TablesOf(pages) \in SUBSET Nat
  BY TablesFinite
<1>5. tables \in SUBSET Int
  BY <1>1, <1>2, <1>4
<1>6. IsFiniteSet(tables) /\ Cardinality(tables) <= PoolSize
  <2>1. s.tables \cap got = {}
    BY <1>2
  <2>2. IsFiniteSet(tables) /\ Cardinality(tables) = Cardinality(s.tables) + Cardinality(got) - 0
    BY <1>1, <1>2, <2>1, FS_Union, FS_EmptySet
  <2>3. Cardinality(s.tables) \in Nat /\ Cardinality(got) \in Nat
    BY <1>1, <1>2, FS_CardinalityType
  <2> HIDE DEF tables
  <2> QED
    BY <1>2, <2>2, <2>3, MemoryAssumption
<1>7. ASSUME Cardinality(s.tables \cup TablesOf(pages)) <= PoolSize, NEW p \in pages
      PROVE  Table(p) \in tables
  <2>1. Table(p) \in TablesOf(pages)
    BY DEF TablesOf
  <2> QED
    BY <1>2, <1>7, <2>1
<1> HIDE DEF tables
<1>8. map \in [Page -> Page \cup {Unmapped}]
  BY <1>1
<1>9. /\ \A p \in Page \ pages : map[p] = s.map[p]
      /\ Cardinality(s.tables \cup TablesOf(pages)) <= PoolSize =>
            \A p \in pages : map[p] = p + distance
  BY <1>7
<1> HIDE DEF map
<1>10. t \in MemFields /\ t.tables = tables /\ t.map = map /\ SamePages(s, t)
  BY <1>1, <1>3, <1>5, <1>8, WithTablesProperties
<1>11. t.tables \subseteq s.tables \cup TablesOf(pages)
  BY <1>2, <1>10 DEF tables
<1>12. Tabled(t)
  BY <1>6, <1>10 DEF Tabled
<1> QED
  BY <1>9, <1>10, <1>11, <1>12 DEF t

(* Pages that are found where they are.                                    *)
Identity(s, pages) == \A p \in pages : s.map[p] = p

LEMMA MapIdentityProperties ==
    ASSUME NEW s, Tabled(s), NEW first, NEW end
    PROVE  LET t == MapIdentity(s, first, end)
               pages == Touched(first, end)
           IN  /\ Tabled(t) /\ SamePages(s, t)
               /\ t.tables \subseteq s.tables \cup TablesOf(pages)
               /\ \A known \in SUBSET Page :
                     /\ Identity(s, known)
                     /\ Cardinality(s.tables \cup TablesOf(pages)) <= PoolSize
                     => Identity(t, known \cup pages)
<1> DEFINE pages == Touched(first, end)
           t == MapPages(s, pages, 0)
<1>1. pages \in SUBSET Page
  BY DEF Touched, PagesIn
<1>2. \A p \in pages : p + 0 = p
  BY <1>1 DEF Page
<1>3. MapIdentity(s, first, end) = t
  BY DEF MapIdentity
<1> HIDE DEF pages
<1>4. /\ Tabled(t) /\ SamePages(s, t)
      /\ t.tables \subseteq s.tables \cup TablesOf(pages)
      /\ \A p \in Page \ pages : t.map[p] = s.map[p]
      /\ Cardinality(s.tables \cup TablesOf(pages)) <= PoolSize =>
            \A p \in pages : t.map[p] = p + 0
  <2>1. \A p \in pages : p + 0 \in Page
    BY <1>1, <1>2
  <2>2. 0 \in Int
    OBVIOUS
  <2> QED
    BY <1>1, <2>1, <2>2, MapProperties
<1> HIDE DEF t
<1>5. ASSUME NEW known \in SUBSET Page, Identity(s, known),
             Cardinality(s.tables \cup TablesOf(pages)) <= PoolSize
      PROVE  Identity(t, known \cup pages)
  <2>1. \A p \in pages : t.map[p] = p
    BY <1>2, <1>4, <1>5
  <2>2. \A p \in known \ pages : t.map[p] = p
    BY <1>4, <1>5 DEF Identity
  <2> QED
    BY <2>1, <2>2 DEF Identity
<1> QED
  BY <1>3, <1>4, <1>5 DEF pages

(* The tables that paging_init leaves.                                     *)
Paged(s, m) ==
    LET boot == MapIdentity(s, 0, BootEnd)
        kernel == MapIdentity(boot, m.kernel[1], m.kernel[2])
    IN  MapFramebuffer(kernel, m.framebuffer)

(* What is reserved is found where it is.                                  *)
Reachable(s, m) == \A p \in Page : Bytes(p) \cap Reserved(m) # {} => s.map[p] = p

LEMMA FramebufferMapped ==
    ASSUME NEW s, Tabled(s), NEW framebuffer \in Nat \X Nat
    PROVE  LET t == MapFramebuffer(s, framebuffer)
               pages == Touched(framebuffer[1], framebuffer[2])
           IN  /\ Tabled(t) /\ SamePages(s, t)
               /\ \A known \in SUBSET Page :
                     /\ Identity(s, known) /\ framebuffer[2] <= LastPage
                     /\ Cardinality(s.tables \cup TablesOf(pages)) <= PoolSize
                     => /\ Identity(t, known)
                        /\ framebuffer[1] < Limit => Identity(t, known \cup pages)
<1>1. framebuffer[1] \in Nat /\ framebuffer[2] \in Nat
  OBVIOUS
<1> DEFINE end == Word(Min({framebuffer[2], Limit}))
           t == MapFramebuffer(s, framebuffer)
<1>2. CASE framebuffer[1] >= Limit
  <2>1. ~ (framebuffer[1] < Limit)
    BY <1>1, <1>2, Sizes
  <2>2. t = s
    BY <1>2 DEF MapFramebuffer
  <2> HIDE DEF t
  <2> QED
    BY <2>1, <2>2 DEF SamePages, t
<1>3. CASE ~ (framebuffer[1] >= Limit)
  <2>1. t = MapIdentity(s, framebuffer[1], end)
    BY <1>3 DEF MapFramebuffer
  <2>2. framebuffer[2] <= LastPage => end = framebuffer[2]
    <3> SUFFICES ASSUME framebuffer[2] <= LastPage PROVE end = framebuffer[2]
      OBVIOUS
    <3>1. framebuffer[2] < Limit /\ framebuffer[2] <= Limit
      BY <1>1, Sizes
    <3> QED
      BY <1>1, <3>1, Sizes, LesserProperties, WordProperties
  <2> HIDE DEF end, t
  <2>3. /\ Tabled(t) /\ SamePages(s, t)
        /\ \A known \in SUBSET Page :
              /\ Identity(s, known)
              /\ Cardinality(s.tables \cup TablesOf(Touched(framebuffer[1], end))) <= PoolSize
              => Identity(t, known \cup Touched(framebuffer[1], end))
    BY <2>1, MapIdentityProperties
  <2>4. \A known, more : Identity(t, known \cup more) => Identity(t, known)
    BY DEF Identity
  <2>5. ASSUME NEW known \in SUBSET Page, Identity(s, known), framebuffer[2] <= LastPage,
               Cardinality(s.tables \cup TablesOf(Touched(framebuffer[1], framebuffer[2])))
                 <= PoolSize
        PROVE  /\ Identity(t, known)
               /\ Identity(t, known \cup Touched(framebuffer[1], framebuffer[2]))
    <3>1. end = framebuffer[2]
      BY <2>2, <2>5
    <3>2. Identity(t, known \cup Touched(framebuffer[1], framebuffer[2]))
      BY <2>3, <2>5, <3>1
    <3> QED
      BY <2>4, <3>2
  <2> QED
    BY <2>3, <2>5 DEF t
<1> QED
  BY <1>2, <1>3

LEMMA SubpoolSuffices ==
    ASSUME NEW tables, NEW pages \in SUBSET Page, Cardinality(TablesOf(pages)) <= PoolSize,
           tables \subseteq TablesOf(pages)
    PROVE  Cardinality(tables) <= PoolSize
<1>1. IsFiniteSet(TablesOf(pages))
  BY TablesFinite
<1>2. /\ Cardinality(tables) <= Cardinality(TablesOf(pages)) /\ IsFiniteSet(tables)
  BY <1>1, FS_Subset
<1>3. Cardinality(tables) \in Nat /\ Cardinality(TablesOf(pages)) \in Nat
  BY <1>1, <1>2, FS_CardinalityType
<1> QED
  BY <1>2, <1>3, MemoryAssumption

LEMMA PagedProperties ==
    ASSUME NEW s, Tabled(s), NEW m, GoodMachine(m)
    PROVE  LET t == Paged(s, m)
           IN  Tabled(t) /\ SamePages(s, t) /\ (s.tables = {} /\ Mappable(m) => Reachable(t, m))
<1> DEFINE boot == MapIdentity(s, 0, BootEnd)
           kernel == MapIdentity(boot, m.kernel[1], m.kernel[2])
           t == MapFramebuffer(kernel, m.framebuffer)
           A == Touched(0, BootEnd)
           B == Touched(m.kernel[1], m.kernel[2])
           C == Touched(m.framebuffer[1], m.framebuffer[2])
<1>1. /\ Tabled(boot) /\ SamePages(s, boot) /\ boot.tables \subseteq s.tables \cup TablesOf(A)
      /\ \A known \in SUBSET Page :
            Identity(s, known) /\ Cardinality(s.tables \cup TablesOf(A)) <= PoolSize
            => Identity(boot, known \cup A)
  BY MapIdentityProperties
<1> HIDE DEF boot
<1>2. /\ Tabled(kernel) /\ SamePages(boot, kernel)
      /\ kernel.tables \subseteq boot.tables \cup TablesOf(B)
      /\ \A known \in SUBSET Page :
            Identity(boot, known) /\ Cardinality(boot.tables \cup TablesOf(B)) <= PoolSize
            => Identity(kernel, known \cup B)
  BY <1>1, MapIdentityProperties
<1> HIDE DEF kernel
<1>3. m.framebuffer \in Nat \X Nat
  BY DEF GoodMachine
<1>4. /\ Tabled(t) /\ SamePages(kernel, t)
      /\ \A known \in SUBSET Page :
            /\ Identity(kernel, known) /\ m.framebuffer[2] <= LastPage
            /\ Cardinality(kernel.tables \cup TablesOf(C)) <= PoolSize
            => /\ Identity(t, known)
               /\ m.framebuffer[1] < Limit => Identity(t, known \cup C)
  BY <1>2, <1>3, FramebufferMapped
<1> HIDE DEF t
<1>5. SamePages(s, t)
  BY <1>1, <1>2, <1>4 DEF SamePages
<1>6. A \in SUBSET Page /\ B \in SUBSET Page /\ C \in SUBSET Page
  BY DEF Touched, PagesIn
<1>7. ASSUME s.tables = {}, Mappable(m) PROVE Reachable(t, m)
  <2>1. /\ m.info[2] <= BootEnd /\ m.kernel[2] <= LastPage /\ m.framebuffer[2] <= LastPage
        /\ Cardinality(TablesOf(A \cup B \cup C)) <= PoolSize
    BY <1>7 DEF Mappable
  <2>2. /\ m.info[1] \in Nat /\ m.info[2] \in Nat /\ m.kernel[1] \in Nat /\ m.kernel[2] \in Nat
        /\ m.framebuffer[1] \in Nat /\ m.framebuffer[2] \in Nat
    BY MachineProperties
  <2>3. TablesOf(A \cup B \cup C) = TablesOf(A) \cup TablesOf(B) \cup TablesOf(C)
    BY DEF TablesOf
  <2>4. /\ Cardinality(s.tables \cup TablesOf(A)) <= PoolSize
        /\ Cardinality(boot.tables \cup TablesOf(B)) <= PoolSize
        /\ Cardinality(kernel.tables \cup TablesOf(C)) <= PoolSize
    <3> DEFINE all == A \cup B \cup C
    <3>1. /\ s.tables \cup TablesOf(A) \subseteq TablesOf(all)
          /\ boot.tables \cup TablesOf(B) \subseteq TablesOf(all)
          /\ kernel.tables \cup TablesOf(C) \subseteq TablesOf(all)
      BY <1>1, <1>2, <1>7, <2>3
    <3>2. all \in SUBSET Page /\ Cardinality(TablesOf(all)) <= PoolSize
      BY <1>6, <2>1
    <3> HIDE DEF all, A, B, C
    <3> QED
      BY <3>1, <3>2, SubpoolSuffices
  <2>5. Identity(boot, A) /\ Identity(kernel, A \cup B)
    <3>1. Identity(s, {}) /\ {} \in SUBSET Page
      BY DEF Identity
    <3>2. Identity(boot, {} \cup A) /\ {} \cup A = A
      BY <1>1, <2>4, <3>1
    <3> HIDE DEF A, B
    <3> QED
      BY <1>2, <1>6, <2>4, <3>2
  <2>6. Identity(t, A \cup B) /\ (m.framebuffer[1] < Limit => Identity(t, (A \cup B) \cup C))
    <3>1. A \cup B \in SUBSET Page
      BY <1>6
    <3> HIDE DEF A, B, C
    <3> QED
      BY <1>4, <2>1, <2>4, <2>5, <3>1
  <2>7. ASSUME NEW p \in Page, NEW b \in Bytes(p), b \in Reserved(m) PROVE t.map[p] = p
    <3>1. b \in 0 .. Limit - 1
      BY BytesBelowLimit
    <3>2. CASE b \in 0 .. LowEnd - 1 \/ b \in Between(m.info)
      <4>1. b \in 0 .. BootEnd - 1
        BY <2>1, <2>2, <3>1, <3>2, Sizes DEF Between
      <4>2. p \in A
        BY <2>7, <4>1, Sizes, TouchedBytes
      <4> QED
        BY <2>6, <4>2 DEF Identity
    <3>3. CASE b \in Between(m.kernel)
      <4>1. p \in B
        BY <2>1, <2>2, <2>7, <3>3, TouchedBytes DEF Between
      <4> QED
        BY <2>6, <4>1 DEF Identity
    <3>4. CASE b \in Between(m.framebuffer)
      <4>1. p \in C
        BY <2>1, <2>2, <2>7, <3>4, TouchedBytes DEF Between
      <4>2. m.framebuffer[1] < Limit
        BY <2>2, <3>1, <3>4, Sizes DEF Between
      <4> QED
        BY <2>6, <4>1, <4>2 DEF Identity
    <3> QED
      BY <2>7, <3>2, <3>3, <3>4 DEF Reserved
  <2> QED
    BY <2>7 DEF Reachable
<1> QED
  BY <1>4, <1>5, <1>7 DEF Paged, boot, kernel, t

-----------------------------------------------------------------------------
(* One lemma for each action.                                              *)

MemoryInv ==
    /\ Tabled(mem) /\ mem.count = Cardinality(mem.free) /\ mem.free \cap mem.held = {}
    /\ mem.at = "boot" => mem.free = {} /\ mem.held = {}
    /\ mem.at # "running" => mem.tables = {}
    /\ mem.at # "boot" => mem.machine \in Machines
    /\ Roomy(mem.machine) => KeptPages(mem.free \cup mem.held, mem.machine)
    /\ mem.at = "running" /\ Mappable(mem.machine) => Reachable(mem, mem.machine)

LEMMA MemoryBasics ==
    ASSUME MemoryInv
    PROVE  /\ mem \in MemFields /\ Counted(mem) /\ mem.free \in SUBSET Page
           /\ mem.held \in SUBSET Page /\ mem.count \in Int /\ mem.hint \in 0 .. Pages
           /\ mem.total \in Nat /\ mem.map \in [Page -> Page \cup {Unmapped}]
BY DEF MemoryInv, Tabled, Counted, MemFields

LEMMA PmmInitStep == ASSUME MemoryInv, PmmInit PROVE MemoryInv'
<1>1. PICK m \in Machines :
          mem' = [Surveyed(mem, m) EXCEPT !.at = "memory", !.machine = m, !.hint = 1,
                                          !.total = Word(Highest(m.map)) \div PageSize]
  BY DEF PmmInit, Surveyed
<1> DEFINE s == Surveyed(mem, m)
           total == Word(Highest(m.map)) \div PageSize
<1>2. /\ mem.at = "boot" /\ mem.free = {} /\ mem.held = {} /\ mem.tables = {}
      /\ Tabled(mem) /\ Counted(mem) /\ GoodMachine(m)
  BY MemoryBasics, MachinesAreGood DEF PmmInit, MemoryInv
<1>3. Counted(s) /\ SameOthers(mem, s)
  BY <1>2, SurveyedPages
<1>4. total \in Nat /\ 1 \in 0 .. Pages
  BY <1>2, HighestProperties, Sizes
<1>5. Roomy(m) => KeptPages(s.free, m)
  BY <1>2, SurveyedKept
<1>6. mem' = [s EXCEPT !.at = "memory", !.machine = m, !.hint = 1, !.total = total]
  BY <1>1
<1> HIDE DEF s, total
<1>7. s \in MemFields /\ "memory" \in {"boot", "memory", "running"}
      /\ m \in Machines \cup {NoMachine}
  BY <1>3 DEF Counted
<1>8. /\ mem' \in MemFields /\ mem'.at = "memory" /\ mem'.machine = m /\ mem'.free = s.free
      /\ mem'.count = s.count /\ mem'.held = s.held /\ mem'.tables = s.tables
  BY Zenon, <1>4, <1>6, <1>7 DEF MemFields
<1>9. /\ mem'.held = {} /\ mem'.tables = {} /\ IsFiniteSet(mem'.tables)
      /\ Cardinality(mem'.tables) <= PoolSize
  BY <1>2, <1>3, <1>8, FS_EmptySet, MemoryAssumption DEF SameOthers
<1>10. mem'.count = Cardinality(mem'.free)
  BY <1>3, <1>8 DEF Counted
<1>11. Roomy(mem'.machine) => KeptPages(mem'.free \cup mem'.held, mem'.machine)
  BY <1>5, <1>8, <1>9
<1> QED
  BY <1>8, <1>9, <1>10, <1>11 DEF MemoryInv, Tabled

LEMMA PagingInitStep == ASSUME MemoryInv, PagingInit PROVE MemoryInv'
<1> DEFINE m == mem.machine
           s == Paged(mem, m)
<1>1. /\ mem.at = "memory" /\ Tabled(mem) /\ mem.tables = {} /\ GoodMachine(m) /\ m \in Machines
  BY MachinesAreGood DEF PagingInit, MemoryInv
<1>2. mem' = [s EXCEPT !.at = "running"]
  BY DEF PagingInit, Paged
<1>3. Tabled(s) /\ SamePages(mem, s) /\ (Mappable(m) => Reachable(s, m))
  BY <1>1, PagedProperties
<1> HIDE DEF s
<1>4. s \in MemFields /\ "running" \in {"boot", "memory", "running"}
  BY <1>3 DEF Tabled
<1>5. /\ mem' \in MemFields /\ mem'.at = "running" /\ mem'.machine = s.machine
      /\ mem'.free = s.free /\ mem'.count = s.count /\ mem'.held = s.held
      /\ mem'.tables = s.tables /\ mem'.map = s.map
  BY Zenon, <1>2, <1>4 DEF MemFields
<1>6. /\ mem'.machine = m /\ mem'.free = mem.free /\ mem'.count = mem.count
      /\ mem'.held = mem.held
  BY <1>3, <1>5 DEF SamePages
<1>7. Mappable(mem'.machine) => Reachable(mem', mem'.machine)
  BY <1>3, <1>5, <1>6 DEF Reachable
<1> HIDE DEF m
<1>8. Tabled(mem')
  BY <1>3, <1>5 DEF Tabled
<1>9. /\ mem'.count = Cardinality(mem'.free) /\ mem'.free \cap mem'.held = {}
      /\ Roomy(mem'.machine) => KeptPages(mem'.free \cup mem'.held, mem'.machine)
  BY <1>6 DEF MemoryInv, m
<1> QED
  BY <1>1, <1>5, <1>6, <1>7, <1>8, <1>9 DEF MemoryInv

LEMMA MapRegistersStep == ASSUME MemoryInv, MapRegisters PROVE MemoryInv'
<1>1. PICK base \in Registers : /\ base + RegisterPages <= Pages
                                /\ mem' = MapPages(mem, RegisterPlaces, base - RegisterBase)
  BY DEF MapRegisters
<1>2. mem.at = "running" /\ Tabled(mem)
  BY DEF MapRegisters, MemoryInv
<1>3. /\ base \in Nat /\ RegisterBase \in Nat /\ RegisterPages \in Nat \ {0} /\ Pages \in Nat
      /\ RegisterBase + RegisterPages <= Pages
  BY Sizes, MemoryAssumption
<1>4. /\ RegisterPlaces \in SUBSET Page /\ base - RegisterBase \in Int
      /\ \A p \in RegisterPlaces : p + (base - RegisterBase) \in Page
  BY <1>1, <1>3 DEF RegisterPlaces, Page
<1>5. /\ Tabled(mem') /\ SamePages(mem, mem')
      /\ \A p \in Page \ RegisterPlaces : mem'.map[p] = mem.map[p]
  BY <1>1, <1>2, <1>4, MapProperties
<1>6. ASSUME Mappable(mem.machine) PROVE Reachable(mem', mem.machine)
  <2>1. \A p \in RegisterPlaces : Bytes(p) \cap Reserved(mem.machine) = {}
    BY <1>6 DEF Mappable
  <2>2. Reachable(mem, mem.machine)
    BY <1>2, <1>6 DEF MemoryInv
  <2> QED
    BY <1>5, <2>1, <2>2 DEF Reachable
<1> QED
  BY <1>2, <1>5, <1>6 DEF MemoryInv, SamePages

(* The pages found are free.                                               *)
LEMMA FoundProperties ==
    ASSUME MemoryInv, NEW n \in Requests, Found(mem, n) # {}
    PROVE  LET first == Min(Found(mem, n))
           IN  first \in Nat /\ first .. first + n - 1 \subseteq mem.free
<1>1. n \in Nat /\ n # 0
  BY MemoryAssumption
<1>2. \A begin, end : \A p \in Candidates(mem, begin, end, n) :
          p .. p + n - 1 \subseteq mem.free
  BY DEF Candidates
<1>3. ASSUME NEW begin \in Int, NEW end \in Int PROVE Candidates(mem, begin, end, n) \subseteq Nat
  <2>1. ASSUME NEW p \in Candidates(mem, begin, end, n) PROVE p \in Nat
    <3>1. p \in Int
      BY <1>1 DEF Candidates
    <3>2. p \in p .. p + n - 1
      BY <1>1, <3>1
    <3>3. p \in Page
      BY <1>2, <3>2, MemoryBasics
    <3> QED
      BY <3>3 DEF Page
  <2> QED
    BY <2>1
<1>4. /\ Start(mem) \in Int /\ Max({mem.total - 1, 0}) \in Int
  <2>1. mem.hint \in Nat /\ mem.total - 1 \in Int
    BY MemoryBasics
  <2>2. \A a, b \in Int : Max({a, b}) \in Int
    <3> SUFFICES ASSUME NEW a \in Int, NEW b \in Int PROVE Max({a, b}) \in Int
      OBVIOUS
    <3>1. \E x \in {a, b} : \A y \in {a, b} : x >= y
      <4>1. a >= b \/ b >= a
        OBVIOUS
      <4> QED
        BY <4>1
    <3>2. Max({a, b}) \in {a, b}
      BY <3>1 DEF Max
    <3> QED
      BY <3>2
  <2> QED
    BY <2>1, <2>2 DEF Start
<1>5. Found(mem, n) \in SUBSET Nat /\ \A p \in Found(mem, n) : p .. p + n - 1 \subseteq mem.free
  BY <1>2, <1>3, <1>4 DEF Found
<1>6. Min(Found(mem, n)) \in Found(mem, n)
  BY <1>5, MinProperties
<1> QED
  BY <1>5, <1>6

LEMMA AllocPagesStep == ASSUME MemoryInv, AllocPages PROVE MemoryInv'
<1>1. PICK n \in Requests :
          /\ n <= mem.count /\ Found(mem, n) # {}
          /\ LET first == Min(Found(mem, n))
                 pages == first .. first + n - 1
             IN  mem' = [mem EXCEPT !.free = @ \ pages, !.count = @ - n, !.hint = first + n,
                                    !.held = @ \cup pages]
  BY DEF AllocPages
<1> DEFINE first == Min(Found(mem, n))
           pages == first .. first + n - 1
           free == mem.free \ pages
           held == mem.held \cup pages
           count == mem.count - n
           hint == first + n
<1>2. n \in Nat /\ n # 0 /\ first \in Nat /\ pages \subseteq mem.free
  BY <1>1, FoundProperties, MemoryAssumption
<1> HIDE DEF first
<1>3. Cardinality(pages) = n
  <2>1. first + n - 1 \in Int /\ first <= first + n - 1
    BY <1>2
  <2>2. Cardinality(pages) = (first + n - 1) - first + 1
    BY <1>2, <2>1, FS_Interval
  <2> QED
    BY <1>2, <2>2
<1>4. hint \in 0 .. Pages
  <2>1. first + n - 1 \in pages
    BY <1>2
  <2>2. first + n - 1 \in Page
    BY <1>2, <2>1, MemoryBasics
  <2> QED
    BY <1>2, <2>2, Sizes DEF Page
<1>5. mem' = [mem EXCEPT !.free = free, !.count = count, !.hint = hint, !.held = held]
  BY <1>1, MemoryBasics DEF MemFields, first
<1> HIDE DEF pages
<1>6. count = Cardinality(free) /\ count \in Int
  <2>1. IsFiniteSet(mem.free) /\ Cardinality(mem.free) \in Nat /\ mem.free \cap pages = pages
    BY <1>2, MemoryBasics, PagesFinite
  <2>2. Cardinality(free) = Cardinality(mem.free) - Cardinality(mem.free \cap pages)
    BY <2>1, FS_Difference
  <2> QED
    BY <1>2, <1>3, <2>1, <2>2 DEF MemoryInv
<1>7. free \in SUBSET Page /\ held \in SUBSET Page /\ free \cap held = {}
      /\ free \cup held = mem.free \cup mem.held
  BY <1>2, MemoryBasics DEF MemoryInv
<1> HIDE DEF free, held, count, hint
<1>8. mem \in MemFields
  BY MemoryBasics
<1>9. /\ mem' \in MemFields /\ mem'.free = free /\ mem'.count = count /\ mem'.held = held
      /\ mem'.at = mem.at /\ mem'.machine = mem.machine /\ mem'.tables = mem.tables
      /\ mem'.map = mem.map
  BY Zenon, <1>4, <1>5, <1>6, <1>7, <1>8 DEF MemFields
<1>10. mem.at = "running"
  BY DEF AllocPages
<1>11. Tabled(mem')
  BY <1>9 DEF MemoryInv, Tabled
<1>12. Mappable(mem'.machine) => Reachable(mem', mem'.machine)
  BY <1>9, <1>10 DEF MemoryInv, Reachable
<1>13. Roomy(mem'.machine) => KeptPages(mem'.free \cup mem'.held, mem'.machine)
  BY <1>7, <1>9 DEF MemoryInv
<1>14. mem'.machine \in Machines
  BY <1>9, <1>10 DEF MemoryInv
<1> QED
  BY <1>6, <1>7, <1>9, <1>10, <1>11, <1>12, <1>13, <1>14 DEF MemoryInv

LEMMA FreePageStep == ASSUME MemoryInv, FreePage PROVE MemoryInv'
<1>1. PICK p \in mem.held :
          mem' = [mem EXCEPT !.free = @ \cup {p}, !.count = @ + 1, !.hint = Min({p, @}),
                             !.held = @ \ {p}]
  BY DEF FreePage
<1> DEFINE free == mem.free \cup {p}
           held == mem.held \ {p}
           count == mem.count + 1
           hint == Min({p, mem.hint})
<1>2. p \in Page /\ p \notin mem.free /\ p \in Nat /\ mem.hint \in Nat
  BY MemoryBasics DEF MemoryInv, Page
<1>3. hint \in 0 .. Pages
  <2>1. hint = IF p <= mem.hint THEN p ELSE mem.hint
    BY <1>2, LesserProperties
  <2>2. p \in 0 .. Pages /\ mem.hint \in 0 .. Pages
    BY <1>2, MemoryBasics, Sizes DEF Page
  <2> QED
    BY <2>1, <2>2
<1>4. mem' = [mem EXCEPT !.free = free, !.count = count, !.hint = hint, !.held = held]
  BY <1>1, MemoryBasics DEF MemFields
<1>5. count = Cardinality(free) /\ count \in Int
  <2>1. IsFiniteSet(mem.free)
    BY MemoryBasics, PagesFinite
  <2>2. Cardinality(free) = Cardinality(mem.free) + 1
    BY <1>2, <2>1, FS_AddElement
  <2> QED
    BY <2>2, MemoryBasics DEF MemoryInv
<1>6. free \in SUBSET Page /\ held \in SUBSET Page /\ free \cap held = {}
      /\ free \cup held = mem.free \cup mem.held
  BY <1>2, MemoryBasics DEF MemoryInv
<1> HIDE DEF free, held, count, hint
<1>7. mem \in MemFields
  BY MemoryBasics
<1>8. /\ mem' \in MemFields /\ mem'.free = free /\ mem'.count = count /\ mem'.held = held
      /\ mem'.at = mem.at /\ mem'.machine = mem.machine /\ mem'.tables = mem.tables
      /\ mem'.map = mem.map
  BY Zenon, <1>3, <1>4, <1>5, <1>6, <1>7 DEF MemFields
<1>9. mem.at = "running"
  BY DEF FreePage
<1>10. Tabled(mem')
  BY <1>8 DEF MemoryInv, Tabled
<1>11. Mappable(mem'.machine) => Reachable(mem', mem'.machine)
  BY <1>8, <1>9 DEF MemoryInv, Reachable
<1>12. Roomy(mem'.machine) => KeptPages(mem'.free \cup mem'.held, mem'.machine)
  BY <1>6, <1>8 DEF MemoryInv
<1>13. mem'.machine \in Machines
  BY <1>8, <1>9 DEF MemoryInv
<1> QED
  BY <1>5, <1>6, <1>8, <1>9, <1>10, <1>11, <1>12, <1>13 DEF MemoryInv

-----------------------------------------------------------------------------
(* The count of the free pages is right, no page is free and handed out,    *)
(* the tables of mapped pages are in the pool, and the free pages and the   *)
(* mapping are those that pmm_init and paging_init made of the memory map,   *)
(* as far as pmm_alloc_pages and pmm_free_page leave them.                 *)
THEOREM MemoryInvariant == MemorySpec => []MemoryInv
<1>1. MemoryInit => MemoryInv
  <2> SUFFICES ASSUME MemoryInit PROVE MemoryInv
    OBVIOUS
  <2>1. /\ mem.at = "boot" /\ mem.machine = NoMachine /\ mem.free = {} /\ mem.held = {}
        /\ mem.count = 0 /\ mem.tables = {} /\ mem \in MemFields
    BY Sizes DEF MemoryInit, MemFields
  <2>2. IsFiniteSet({}) /\ Cardinality({}) = 0
    BY FS_EmptySet
  <2>3. KeptPages({} \cup {}, mem.machine)
    BY DEF KeptPages
  <2> QED
    BY <2>1, <2>2, <2>3, MemoryAssumption DEF MemoryInv, Tabled
<1>2. MemoryInv /\ [MemoryNext]_mem => MemoryInv'
  <2> SUFFICES ASSUME MemoryInv, [MemoryNext]_mem PROVE MemoryInv'
    OBVIOUS
  <2>1. CASE MemoryNext
    BY <2>1, PmmInitStep, PagingInitStep, MapRegistersStep, AllocPagesStep, FreePageStep
       DEF MemoryNext
  <2>2. CASE UNCHANGED mem
    BY <2>2 DEF MemoryInv, Tabled, Reachable
  <2> QED
    BY <2>1, <2>2
<1> QED
  BY <1>1, <1>2, PTL DEF MemorySpec

(* The sets of pages, the hint and the page tables have their types and    *)
(* bounds: paging_map never takes more tables than the pool has.           *)
THEOREM MemoryTypesHold == MemorySpec => []MemoryTypes
<1>1. MemoryInv => MemoryTypes
  BY DEF MemoryInv, Tabled, MemFields, MemoryTypes
<1> QED
  BY <1>1, MemoryInvariant, PTL

(* For every memory map and every size of memory: what pmm_alloc_pages     *)
(* hands out is memory that nobody else uses, as long as no range ends     *)
(* where the words of the code do; and turning paging on moves nothing.    *)
THEOREM PagesAreKept == MemorySpec => []PagesKept
<1>1. MemoryInv => PagesKept
  BY DEF MemoryInv, PagesKept, KeptPages, Reachable
<1> QED
  BY <1>1, MemoryInvariant, PTL

-----------------------------------------------------------------------------
(* The package manager.                                                    *)
Row == [key : Keys, slot : Slots, build : Builds]

Steps == {"idle", "record", "undo", "delete", "restore"}

EntriesOK(entries) ==
    \A i \in DOMAIN entries :
        /\ DOMAIN entries[i] = {"key", "build", "installed", "favorite"}
        /\ entries[i].key \in Keys /\ entries[i].build \in Builds

Typed(s) ==
    /\ DOMAIN s = {"entries", "db", "fav", "files", "ui", "job", "last", "health"}
    /\ EntriesOK(s.entries)
    /\ DOMAIN s.db = {"rows", "shape"} /\ s.db.rows \in Seq(Row)
    /\ DOMAIN s.files = Slots
    /\ DOMAIN s.job = {"step", "slot", "rows"} /\ s.job.step \in Steps
    /\ s.job.rows \in Seq(Row) /\ (s.job.step # "idle" => s.job.slot \in Slots)
    /\ s.health \in {"sound", "failed", "doubtful"}

(* Every row has its file, with what the catalogue promised, for itself.   *)
Backed(files, rows) ==
    /\ \A i \in DOMAIN rows : files[rows[i].slot] = rows[i].build /\ rows[i].build \in Apps
    /\ \A i, j \in DOMAIN rows : rows[i].slot = rows[j].slot => i = j

SlotsOf(rows) == {rows[i].slot : i \in DOMAIN rows}

(* No file but those of a row, and the one a call is at work on.           *)
Covered(files, rows, more) ==
    \A f \in Slots : files[f] # Absent => f \in SlotsOf(rows) \cup more

(* What a call that is not done relies on: the file it made or removes has *)
(* no row; the rows it may write are those behind the file it made, or     *)
(* those from before it removed one.                                       *)
JobOK(s) ==
    /\ s.job.step = "record" =>
          /\ Backed(s.files, s.job.rows) /\ s.job.slot \notin SlotsOf(s.db.rows)
          /\ SlotsOf(s.job.rows) = SlotsOf(s.db.rows) \cup {s.job.slot}
    /\ s.job.step = "undo" => s.job.slot \notin SlotsOf(s.db.rows)
    /\ s.job.step = "delete" =>
          /\ Backed(s.files, s.job.rows) /\ s.job.slot \notin SlotsOf(s.db.rows)
          /\ SlotsOf(s.job.rows) = SlotsOf(s.db.rows) \cup {s.job.slot}
    /\ s.job.step = "restore" => Backed(s.files, s.job.rows)
    /\ s.job.step \in {"undo", "restore"} => s.health # "sound"

Good(s) ==
    /\ Typed(s)
    /\ s.health # "doubtful" =>
          /\ Backed(s.files, s.db.rows) /\ JobOK(s)
          /\ s.health = "sound" =>
                Covered(s.files, s.db.rows, IF s.job.step = "idle" THEN {} ELSE {s.job.slot})

-----------------------------------------------------------------------------
(* Lists of rows.                                                          *)

LEMMA FirstProperties ==
    ASSUME NEW S \in SUBSET Nat, S # {}
    PROVE  First(S) \in S
BY LeastExists DEF First

LEMMA ConcatBehind ==
    ASSUME NEW s \in Seq(Row), NEW t \in Seq(Row), NEW k \in 1 .. Len(s) + Len(t), k > Len(s)
    PROVE  (s \o t)[k] = t[k - Len(s)]
BY ConcatProperties

(* A list without the row at n.                                            *)
LEMMA RemoveAtProperties ==
    ASSUME NEW rows \in Seq(Row), NEW n \in DOMAIN rows
    PROVE  /\ RemoveAt(rows, n) \in Seq(Row)
           /\ DOMAIN RemoveAt(rows, n) = 1 .. Len(rows) - 1
           /\ \A i \in 1 .. Len(rows) - 1 :
                 RemoveAt(rows, n)[i] = IF i < n THEN rows[i] ELSE rows[i + 1]
<1>1. Len(rows) \in Nat /\ n \in 1 .. Len(rows)
  OBVIOUS
<1> DEFINE front == SubSeq(rows, 1, n - 1)
           back == SubSeq(rows, n + 1, Len(rows))
<1>2. /\ front \in Seq(Row) /\ Len(front) = n - 1
      /\ \A i \in 1 .. n - 1 : front[i] = rows[i]
  BY <1>1
<1>3. /\ back \in Seq(Row) /\ Len(back) = Len(rows) - n
      /\ \A i \in 1 .. Len(rows) - n : back[i] = rows[i + n]
  BY <1>1
<1> HIDE DEF front, back
<1>4. front \o back \in Seq(Row) /\ Len(front \o back) = Len(rows) - 1
  BY <1>1, <1>2, <1>3
<1>5. ASSUME NEW i \in 1 .. Len(rows) - 1
      PROVE  (front \o back)[i] = IF i < n THEN rows[i] ELSE rows[i + 1]
  <2>1. CASE i < n
    BY <1>1, <1>2, <1>3, <2>1
  <2>2. CASE ~(i < n)
    <3>1. i - (n - 1) \in 1 .. Len(rows) - n /\ (i - (n - 1)) + n = i + 1
      BY <1>1, <2>2
    <3>2. (front \o back)[i] = back[i - (n - 1)]
      <4>1. i \in 1 .. Len(front) + Len(back) /\ i > Len(front)
        BY <1>1, <1>2, <1>3, <2>2
      <4> QED
        BY <1>2, <1>3, <4>1, ConcatBehind
    <3> QED
      BY <1>3, <2>2, <3>1, <3>2
  <2> QED
    BY <2>1, <2>2
<1>6. RemoveAt(rows, n) = front \o back
  BY DEF RemoveAt, front, back
<1>7. DOMAIN (front \o back) = 1 .. Len(rows) - 1
  BY <1>4
<1> QED
  BY <1>4, <1>5, <1>6, <1>7

LEMMA RemovedBacked ==
    ASSUME NEW files, NEW rows \in Seq(Row), Backed(files, rows), NEW n \in DOMAIN rows
    PROVE  /\ Backed(files, RemoveAt(rows, n))
           /\ rows[n].slot \notin SlotsOf(RemoveAt(rows, n))
           /\ SlotsOf(rows) = SlotsOf(RemoveAt(rows, n)) \cup {rows[n].slot}
<1> DEFINE fewer == RemoveAt(rows, n)
           Old(i) == IF i < n THEN i ELSE i + 1
<1>1. /\ fewer \in Seq(Row) /\ DOMAIN fewer = 1 .. Len(rows) - 1
      /\ \A i \in DOMAIN fewer : fewer[i] = rows[Old(i)]
  BY RemoveAtProperties
<1>2. Len(rows) \in Nat /\ n \in 1 .. Len(rows) /\ DOMAIN rows = 1 .. Len(rows)
  OBVIOUS
<1>3. \A i \in DOMAIN fewer : Old(i) \in DOMAIN rows /\ Old(i) # n
  BY <1>1, <1>2
<1>4. \A i, j \in DOMAIN fewer : Old(i) = Old(j) => i = j
  BY <1>1, <1>2
<1>5. \A k \in DOMAIN rows : k # n => \E i \in DOMAIN fewer : Old(i) = k
  <2> SUFFICES ASSUME NEW k \in DOMAIN rows, k # n PROVE \E i \in DOMAIN fewer : Old(i) = k
    OBVIOUS
  <2>1. CASE k < n
    <3>1. k \in DOMAIN fewer /\ Old(k) = k
      BY <1>1, <1>2, <2>1
    <3> QED
      BY <3>1
  <2>2. CASE k > n
    <3>1. k - 1 \in DOMAIN fewer /\ Old(k - 1) = k
      BY <1>1, <1>2, <2>2
    <3> QED
      BY <3>1
  <2> QED
    BY <1>2, <2>1, <2>2
<1> HIDE DEF fewer, Old
<1>6. Backed(files, fewer)
  BY <1>1, <1>3, <1>4 DEF Backed
<1>7. rows[n].slot \notin SlotsOf(fewer)
  BY <1>1, <1>3 DEF Backed, SlotsOf
<1>8. SlotsOf(rows) = SlotsOf(fewer) \cup {rows[n].slot}
  BY <1>1, <1>3, <1>5 DEF SlotsOf
<1> QED
  BY <1>6, <1>7, <1>8 DEF fewer

LEMMA AppendedBacked ==
    ASSUME NEW files, NEW rows \in Seq(Row), Backed(files, rows), NEW row \in Row,
           row.slot \notin SlotsOf(rows), files[row.slot] = row.build, row.build \in Apps
    PROVE  /\ Append(rows, row) \in Seq(Row) /\ Backed(files, Append(rows, row))
           /\ SlotsOf(Append(rows, row)) = SlotsOf(rows) \cup {row.slot}
<1> DEFINE more == Append(rows, row)
<1>1. /\ more \in Seq(Row) /\ Len(rows) \in Nat /\ DOMAIN rows = 1 .. Len(rows)
      /\ DOMAIN more = 1 .. Len(rows) + 1 /\ more[Len(rows) + 1] = row
      /\ \A i \in 1 .. Len(rows) : more[i] = rows[i]
  OBVIOUS
<1>2. DOMAIN more = DOMAIN rows \cup {Len(rows) + 1} /\ Len(rows) + 1 \notin DOMAIN rows
  BY <1>1
<1> HIDE DEF more
<1>3. Backed(files, more)
  BY <1>1, <1>2 DEF Backed, SlotsOf
<1>4. SlotsOf(more) = SlotsOf(rows) \cup {row.slot}
  BY <1>1, <1>2 DEF SlotsOf
<1> QED
  BY <1>1, <1>3, <1>4 DEF more

LEMMA NoRows ==
    /\ <<>> \in Seq(Row) /\ SlotsOf(<<>>) = {} /\ \A files : Backed(files, <<>>)
BY DEF SlotsOf, Backed

(* A change of files that no row names.                                    *)
LEMMA FileChanged ==
    ASSUME NEW files, NEW rows \in Seq(Row), Backed(files, rows), DOMAIN files = Slots,
           NEW f, f \notin SlotsOf(rows), NEW contents
    PROVE  Backed([files EXCEPT ![f] = contents], rows)
<1>1. \A i \in DOMAIN rows : rows[i] \in Row
  OBVIOUS
<1>2. \A i \in DOMAIN rows : rows[i].slot \in Slots /\ rows[i].slot # f
  BY <1>1 DEF SlotsOf, Row
<1> QED
  BY <1>2 DEF Backed
-----------------------------------------------------------------------------
(* The parts that calls are made of.                                       *)

LEMMA AnnotateKeeps ==
    ASSUME NEW entries, EntriesOK(entries), NEW rows, NEW list
    PROVE  EntriesOK(Annotate(entries, rows, list))
<1> DEFINE new == Annotate(entries, rows, list)
<1>1. DOMAIN new = DOMAIN entries
  BY DEF Annotate
<1>2. \A i \in DOMAIN entries : \E a, b :
         new[i] = [entries[i] EXCEPT !.installed = a, !.favorite = b]
  BY Zenon DEF Annotate
<1> HIDE DEF new
<1>3. ASSUME NEW i \in DOMAIN entries
      PROVE  /\ DOMAIN new[i] = {"key", "build", "installed", "favorite"}
             /\ new[i].key \in Keys /\ new[i].build \in Builds
  BY <1>2 DEF EntriesOK
<1>4. EntriesOK(new)
  BY <1>1, <1>3 DEF EntriesOK
<1> QED
  BY <1>4 DEF new

(* t differs from s in the rest: the entries, the favourites, the screen,  *)
(* what is to be said of the records' text, and the last result.           *)
Same(s, t) ==
    /\ DOMAIN t = DOMAIN s /\ EntriesOK(t.entries)
    /\ DOMAIN t.db = DOMAIN s.db /\ t.db.rows = s.db.rows
    /\ t.files = s.files /\ t.job = s.job /\ t.health = s.health

LEMMA SameKeeps ==
    ASSUME NEW s, Good(s), NEW t, Same(s, t)
    PROVE  Good(t)
<1>1. Typed(t)
  BY DEF Good, Typed, Same
<1>2. t.health # "doubtful" => Backed(t.files, t.db.rows) /\ JobOK(t)
  BY DEF Good, Same, JobOK
<1>3. t.health = "sound" =>
         Covered(t.files, t.db.rows, IF t.job.step = "idle" THEN {} ELSE {t.job.slot})
  BY DEF Good, Same
<1> QED
  BY <1>1, <1>2, <1>3 DEF Good

(* A call that was not begun, or is done.                                  *)
LEMMA IdleGood ==
    ASSUME NEW s, Typed(s), s.job.step = "idle",
           s.health # "doubtful" => Backed(s.files, s.db.rows),
           s.health = "sound" => Covered(s.files, s.db.rows, {})
    PROVE  Good(s)
BY DEF Good, JobOK

LEMMA ReturnKeeps ==
    ASSUME NEW s, Typed(s), NEW result,
           s.health # "doubtful" => Backed(s.files, s.db.rows),
           s.health = "sound" => Covered(s.files, s.db.rows, {})
    PROVE  Good(Return(s, result))
<1> DEFINE t == Return(s, result)
<1>1. /\ DOMAIN t = DOMAIN s /\ t.entries = s.entries /\ t.db = s.db /\ t.files = s.files
      /\ t.job = Idle /\ t.health = s.health
  BY DEF Return, Typed
<1> HIDE DEF t
<1>2. Idle.step = "idle" /\ DOMAIN Idle = {"step", "slot", "rows"} /\ Idle.rows \in Seq(Row)
  BY NoRows DEF Idle
<1>3. Typed(t)
  BY <1>1, <1>2 DEF Typed, Steps
<1>4. Good(t)
  BY <1>1, <1>2, <1>3, IdleGood
<1> QED
  BY <1>4 DEF t

LEMMA IdleReturn ==
    ASSUME NEW s, Good(s), s.job.step = "idle", NEW result
    PROVE  Good(Return(s, result))
BY ReturnKeeps DEF Good

LEMMA SuccessKeeps ==
    ASSUME NEW s, Typed(s), NEW rows, NEW list,
           s.health # "doubtful" => Backed(s.files, s.db.rows),
           s.health = "sound" => Covered(s.files, s.db.rows, {})
    PROVE  Good(Success(s, rows, list))
<1> DEFINE entries == Annotate(s.entries, rows, list)
           t == [s EXCEPT !.entries = entries]
<1>1. EntriesOK(entries)
  BY AnnotateKeeps DEF Typed
<1> HIDE DEF entries
<1>2. /\ DOMAIN t = DOMAIN s /\ t.entries = entries /\ t.db = s.db /\ t.files = s.files
      /\ t.job = s.job /\ t.health = s.health
  BY DEF Typed
<1> HIDE DEF t
<1>3. Typed(t)
  BY <1>1, <1>2 DEF Typed
<1>4. Good(Return(t, "ok"))
  BY <1>2, <1>3, ReturnKeeps
<1>5. Success(s, rows, list) = Return(t, "ok")
  BY DEF Success, t, entries
<1> QED
  BY <1>4, <1>5

(* What a failed call leaves said of the storage.                          *)
LEMMA NotedIs ==
    ASSUME NEW s, Typed(s), s.health # "doubtful", NEW outcome
    PROVE  LET t == Noted(s, outcome)
           IN  /\ DOMAIN t = DOMAIN s /\ t.entries = s.entries /\ t.db = s.db
               /\ t.files = s.files /\ t.job = s.job /\ t.fav = s.fav
               /\ t.health = IF outcome = "landed" THEN "doubtful"
                             ELSE IF outcome = "done" THEN s.health ELSE "failed"
BY DEF Noted, Typed

(* A write of the records.                                                 *)
LEMMA WriteDbIs ==
    ASSUME NEW s, Typed(s), s.health # "doubtful", NEW rows \in Seq(Row),
           NEW outcome \in Outcomes
    PROVE  LET t == WriteDb(s, rows, outcome)
           IN  /\ Typed(t) /\ t.files = s.files /\ t.job = s.job
               /\ outcome = "done" => t.db.rows = rows /\ t.health = s.health
               /\ outcome = "landed" => t.health = "doubtful"
               /\ outcome \in {"refused", "lost"} =>
                     t.db.rows \in {s.db.rows, <<>>} /\ t.health = "failed"
<1> DEFINE new == [s EXCEPT !.db = Written(@, Saved(rows), outcome)]
           t == Noted(new, outcome)
<1>1. /\ DOMAIN new = DOMAIN s /\ new.entries = s.entries /\ new.files = s.files
      /\ new.job = s.job /\ new.health = s.health /\ new.db = Written(s.db, Saved(rows), outcome)
  BY DEF Typed
<1> HIDE DEF new
<1>2. /\ DOMAIN new.db = {"rows", "shape"} /\ new.db.rows \in Seq(Row)
      /\ outcome \in {"done", "landed"} => new.db.rows = rows
      /\ outcome \in {"refused", "lost"} => new.db.rows \in {s.db.rows, <<>>}
  BY <1>1, NoRows DEF Written, Saved, Damaged, Typed
<1>3. Typed(new)
  BY <1>1, <1>2 DEF Typed
<1>4. /\ DOMAIN t = DOMAIN new /\ t.entries = new.entries /\ t.db = new.db
      /\ t.files = new.files /\ t.job = new.job
      /\ t.health = IF outcome = "landed" THEN "doubtful"
                    ELSE IF outcome = "done" THEN s.health ELSE "failed"
  BY <1>1, <1>3, NotedIs
<1>5. t = WriteDb(s, rows, outcome)
  BY DEF WriteDb, t, new
<1> HIDE DEF t
<1>6. Typed(t)
  BY <1>3, <1>4, <1>1 DEF Typed
<1>7. /\ Typed(t) /\ t.files = s.files /\ t.job = s.job
      /\ outcome = "done" => t.db.rows = rows /\ t.health = s.health
      /\ outcome = "landed" => t.health = "doubtful"
      /\ outcome \in {"refused", "lost"} =>
            t.db.rows \in {s.db.rows, <<>>} /\ t.health = "failed"
  BY <1>1, <1>2, <1>4, <1>6
<1> QED
  BY <1>5, <1>7
-----------------------------------------------------------------------------
(* The calls.                                                              *)

LEMMA RefreshedKeeps ==
    ASSUME NEW s, Good(s), s.job.step = "idle", s.health # "doubtful",
           NEW t \in Refreshed(s)
    PROVE  Good(t)
<1>1. CASE t = Return(s, "refused")
  BY <1>1, IdleReturn
<1>2. ASSUME NEW c \in Catalogs, NEW read \in {"done", "refused"}, t = Refresh(s, c, read)
      PROVE  Good(t)
  <2> DEFINE entries == [i \in GoodRows(c) |-> Fresh(c[i])]
             new == [s EXCEPT !.entries = entries]
  <2>1. EntriesOK(entries)
    <3> SUFFICES ASSUME NEW i \in GoodRows(c)
                 PROVE  /\ DOMAIN entries[i] = {"key", "build", "installed", "favorite"}
                        /\ entries[i].key \in Keys /\ entries[i].build \in Builds
      BY DEF EntriesOK
    <3>1. i \in DOMAIN c /\ i \in 1 .. i
      BY PackagesAssumption DEF GoodRows
    <3>2. c[i].key \in Keys
      BY <3>1 DEF GoodRows
    <3> QED
      BY <3>1, <3>2, PackagesAssumption DEF Fresh
  <2> HIDE DEF entries
  <2>2. Same(s, new)
    BY <2>1 DEF Same, Good, Typed
  <2> HIDE DEF new
  <2>3. Good(new) /\ new.job.step = "idle" /\ new.health # "doubtful"
    BY <2>2, SameKeeps DEF Same
  <2>4. Good(Return(new, "refused"))
    BY <2>3, IdleReturn
  <2>5. Good(Return(Noted(new, read), "refused"))
    <3> DEFINE u == Noted(new, read)
    <3>1. /\ DOMAIN u = DOMAIN new /\ u.entries = new.entries /\ u.db = new.db
          /\ u.files = new.files /\ u.job = new.job
          /\ u.health = IF read = "done" THEN new.health ELSE "failed"
      BY <2>3, NotedIs DEF Good
    <3> HIDE DEF u
    <3>2. /\ Typed(u) /\ Backed(u.files, u.db.rows)
          /\ u.health = "sound" => Covered(u.files, u.db.rows, {})
      BY <2>3, <3>1 DEF Good, Typed
    <3>3. Good(Return(u, "refused"))
      BY <3>2, ReturnKeeps
    <3> QED
      BY <3>3 DEF u
  <2>6. Good(Success(new, s.db.rows, Favorites(s.fav)))
    BY <2>3, SuccessKeeps DEF Good
  <2> QED
    BY <1>2, <2>4, <2>5, <2>6 DEF Refresh, new, entries
<1> QED
  BY <1>1, <1>2 DEF Refreshed

(* What a download yields is the whole artifact that the entry names.      *)
LEMMA DownloadsWhole ==
    ASSUME NEW entry, NEW d \in Downloads(entry), d # Refused
    PROVE  d = entry.build /\ d \in Apps
<1>1. PICK got \in [1 .. Chunks -> Builds] :
         d = Contents(got) /\ DigestMatches(got, entry.build) /\ entry.build \in Apps
  BY DEF Downloads
<1>2. \A i \in 1 .. Chunks : got[i] = entry.build
  BY <1>1 DEF DigestMatches
<1>3. 1 \in 1 .. Chunks
  BY PackagesAssumption
<1> QED
  BY <1>1, <1>2, <1>3 DEF Contents

LEMMA FileWrittenKeeps ==
    ASSUME NEW s, Good(s), s.job.step = "idle", s.health # "doubtful",
           NEW entry, entry.key \in Keys, entry.build \in Apps, FreeSlots(s) # {},
           NEW t \in FileWritten(s, entry, entry.build)
    PROVE  Good(t)
<1> DEFINE slot == First(FreeSlots(s))
           row == [key |-> entry.key, slot |-> slot, build |-> entry.build]
<1>1. slot \in Slots /\ s.files[slot] = Absent
  <2>1. FreeSlots(s) \in SUBSET Nat
    BY PackagesAssumption DEF FreeSlots
  <2>2. slot \in FreeSlots(s)
    BY <2>1, FirstProperties
  <2> QED
    BY <2>2 DEF FreeSlots
<1>2. row \in Row /\ row.slot = slot /\ row.build = entry.build /\ entry.build \in Builds
  BY <1>1, PackagesAssumption DEF Row
<1>3. slot \notin SlotsOf(s.db.rows)
  BY <1>1, PackagesAssumption DEF Good, Backed, SlotsOf
<1>4. PICK outcome \in Outcomes :
        t = IF outcome = "done"
            THEN [s EXCEPT !.files[slot] = entry.build,
                           !.job = [step |-> "record", slot |-> slot,
                                    rows |-> Append(s.db.rows, row)]]
            ELSE Return([Noted(s, outcome) EXCEPT
                           !.files[slot] = CASE outcome = "landed" -> entry.build
                                             [] outcome = "lost" -> Torn
                                             [] OTHER -> @], "refused")
  BY DEF FileWritten
<1> HIDE DEF slot, row
<1>5. ASSUME NEW contents
      PROVE  /\ Backed([s.files EXCEPT ![slot] = contents], s.db.rows)
             /\ DOMAIN [s.files EXCEPT ![slot] = contents] = Slots
             /\ [s.files EXCEPT ![slot] = contents][slot] = contents
  BY <1>1, <1>3, FileChanged DEF Good, Typed
<1>6. CASE outcome = "done"
  <2> DEFINE files == [s.files EXCEPT ![slot] = entry.build]
             rows == Append(s.db.rows, row)
  <2>1. /\ rows \in Seq(Row) /\ Backed(files, rows)
        /\ SlotsOf(rows) = SlotsOf(s.db.rows) \cup {slot}
    <3>1. /\ Backed(files, s.db.rows) /\ s.db.rows \in Seq(Row)
          /\ row.slot \notin SlotsOf(s.db.rows) /\ files[row.slot] = row.build
          /\ row.build \in Apps
      BY <1>2, <1>3, <1>5 DEF Good, Typed
    <3> HIDE DEF files
    <3> QED
      BY <1>2, <3>1, AppendedBacked
  <2>2. /\ DOMAIN t = DOMAIN s /\ t.entries = s.entries /\ t.db = s.db /\ t.files = files
        /\ t.job = [step |-> "record", slot |-> slot, rows |-> rows] /\ t.health = s.health
    BY <1>4, <1>6 DEF Good, Typed
  <2>3. s.health = "sound" => Covered(files, s.db.rows, {slot})
    BY DEF Good, Covered, Typed
  <2>4. Backed(files, s.db.rows) /\ DOMAIN files = Slots
    BY <1>5
  <2> HIDE DEF files, rows
  <2>5. Typed(t)
    BY <1>1, <2>1, <2>2, <2>4 DEF Good, Typed, Steps
  <2>6. JobOK(t) /\ Backed(t.files, t.db.rows)
    BY <1>3, <2>1, <2>2, <2>4 DEF JobOK
  <2> QED
    BY <2>2, <2>3, <2>5, <2>6 DEF Good
<1>7. CASE outcome # "done"
  <2> DEFINE u == Noted(s, outcome)
  <2>1. /\ DOMAIN u = DOMAIN s /\ u.entries = s.entries /\ u.db = s.db
        /\ u.files = s.files /\ u.job = s.job /\ u.health \in {"failed", "doubtful"}
    BY <1>7, NotedIs DEF Good
  <2> HIDE DEF u
  <2>2. PICK contents : t = Return([u EXCEPT !.files[slot] = contents], "refused")
    BY <1>4, <1>7 DEF u
  <2> DEFINE v == [u EXCEPT !.files[slot] = contents]
  <2>3. /\ DOMAIN v = DOMAIN u /\ v.entries = u.entries /\ v.db = u.db
        /\ v.files = [s.files EXCEPT ![slot] = contents]
        /\ v.job = u.job /\ v.health = u.health
    BY <2>1 DEF Good, Typed
  <2> HIDE DEF v
  <2>4. Typed(v) /\ Backed(v.files, v.db.rows) /\ v.health # "sound"
    <3>1. Backed(v.files, s.db.rows) /\ DOMAIN v.files = Slots
      BY <1>5, <2>3
    <3> QED
      BY <2>1, <2>3, <3>1 DEF Good, Typed
  <2>5. Good(Return(v, "refused"))
    BY <2>4, ReturnKeeps
  <2> QED
    BY <2>2, <2>5 DEF v
<1> QED
  BY <1>6, <1>7

LEMMA InstallingKeeps ==
    ASSUME NEW s, Good(s), s.job.step = "idle", s.health # "doubtful",
           NEW i, NEW t \in Installing(s, i)
    PROVE  Good(t)
<1>1. CASE t = Return(s, "refused")
  BY <1>1, IdleReturn
<1>2. ASSUME i \in DOMAIN s.entries, NEW d \in Downloads(s.entries[i]), d # Refused,
             FreeSlots(s) # {}, t \in FileWritten(s, s.entries[i], d)
      PROVE  Good(t)
  <2>1. d = s.entries[i].build /\ d \in Apps
    BY <1>2, DownloadsWhole
  <2>2. s.entries[i].key \in Keys
    BY <1>2 DEF Good, Typed, EntriesOK
  <2> QED
    BY <1>2, <2>1, <2>2, FileWrittenKeeps
<1> QED
  BY <1>1, <1>2 DEF Installing

LEMMA RemovingKeeps ==
    ASSUME NEW s, Good(s), s.job.step = "idle", s.health # "doubtful",
           NEW i, NEW t \in Removing(s, i)
    PROVE  Good(t)
<1>1. CASE t \in {Return(s, "refused"), Return(s, "kept")}
  BY <1>1, IdleReturn
<1>2. CASE t \notin {Return(s, "refused"), Return(s, "kept")}
  <2> DEFINE found == RecordsOf(s.db.rows, s.entries[i].key)
             n == First(found)
             fewer == RemoveAt(s.db.rows, n)
  <2>1. found # {} /\ \E outcome \in Outcomes :
           LET w == WriteDb(s, fewer, outcome)
           IN  t = IF outcome = "done"
                   THEN [w EXCEPT !.job = [step |-> "delete", slot |-> s.db.rows[n].slot,
                                           rows |-> s.db.rows]]
                   ELSE Return(w, "kept")
    BY <1>2 DEF Removing
  <2>2. s.db.rows \in Seq(Row) /\ Backed(s.files, s.db.rows)
    BY DEF Good, Typed
  <2>3. n \in DOMAIN s.db.rows
    <3>1. found \in SUBSET Nat /\ found \subseteq DOMAIN s.db.rows
      BY <2>2 DEF RecordsOf
    <3> HIDE DEF found
    <3> QED
      BY <2>1, <3>1, FirstProperties
  <2>4. PICK outcome \in Outcomes :
           LET w == WriteDb(s, fewer, outcome)
           IN  t = IF outcome = "done"
                   THEN [w EXCEPT !.job = [step |-> "delete", slot |-> s.db.rows[n].slot,
                                           rows |-> s.db.rows]]
                   ELSE Return(w, "kept")
    BY <2>1
  <2> HIDE DEF found, n
  <2>5. /\ Backed(s.files, fewer) /\ s.db.rows[n].slot \notin SlotsOf(fewer)
        /\ SlotsOf(s.db.rows) = SlotsOf(fewer) \cup {s.db.rows[n].slot}
        /\ fewer \in Seq(Row) /\ s.db.rows[n] \in Row
    BY <2>2, <2>3, RemovedBacked, RemoveAtProperties
  <2> HIDE DEF fewer
  <2> DEFINE w == WriteDb(s, fewer, outcome)
  <2>6. /\ Typed(w) /\ w.files = s.files /\ w.job = s.job
        /\ outcome = "done" => w.db.rows = fewer /\ w.health = s.health
        /\ outcome = "landed" => w.health = "doubtful"
        /\ outcome \in {"refused", "lost"} =>
              w.db.rows \in {s.db.rows, <<>>} /\ w.health = "failed"
    BY <2>5, WriteDbIs DEF Good
  <2>7. t = IF outcome = "done"
            THEN [w EXCEPT !.job = [step |-> "delete", slot |-> s.db.rows[n].slot,
                                    rows |-> s.db.rows]]
            ELSE Return(w, "kept")
    BY <2>4
  <2> HIDE DEF w
  <2>8. CASE outcome = "done"
    <3>1. /\ DOMAIN t = DOMAIN w /\ t.entries = w.entries /\ t.db = w.db
          /\ t.files = w.files /\ t.health = w.health
          /\ t.job = [step |-> "delete", slot |-> s.db.rows[n].slot, rows |-> s.db.rows]
      BY <2>6, <2>7, <2>8 DEF Typed
    <3>2. s.db.rows[n].slot \in Slots
      BY <2>5 DEF Row
    <3>3. Typed(t)
      BY <2>2, <2>6, <3>1, <3>2 DEF Typed, Steps
    <3>4. JobOK(t) /\ Backed(t.files, t.db.rows)
      BY <2>2, <2>5, <2>6, <2>8, <3>1 DEF JobOK
    <3>5. t.health = "sound" => Covered(t.files, t.db.rows, {t.job.slot})
      BY <2>5, <2>6, <2>8, <3>1 DEF Good, Covered
    <3> QED
      BY <3>1, <3>3, <3>4, <3>5 DEF Good
  <2>9. CASE outcome # "done"
    <3>1. /\ w.health # "doubtful" => Backed(w.files, w.db.rows)
          /\ w.health # "sound"
      BY <2>2, <2>6, <2>9, NoRows DEF Outcomes
    <3> QED
      BY <2>6, <2>7, <2>9, <3>1, ReturnKeeps
  <2> QED
    BY <2>8, <2>9
<1> QED
  BY <1>1, <1>2
LEMMA TogglingKeeps ==
    ASSUME NEW s, Good(s), s.job.step = "idle", s.health # "doubtful",
           NEW i, NEW t \in Toggling(s, i)
    PROVE  Good(t)
<1>1. ASSUME NEW fav, NEW outcome,
             LET w == Noted([s EXCEPT !.fav = fav], outcome)
             IN  \/ t = Return(w, "refused")
                 \/ \E list : t = Success(w, s.db.rows, list)
      PROVE  Good(t)
  <2> DEFINE u == [s EXCEPT !.fav = fav]
             w == Noted(u, outcome)
  <2>1. /\ DOMAIN u = DOMAIN s /\ u.entries = s.entries /\ u.db = s.db /\ u.files = s.files
        /\ u.job = s.job /\ u.health = s.health
    BY DEF Good, Typed
  <2> HIDE DEF u
  <2>2. Typed(u) /\ u.health # "doubtful"
    BY <2>1 DEF Good, Typed
  <2>3. /\ DOMAIN w = DOMAIN u /\ w.entries = u.entries /\ w.db = u.db
        /\ w.files = u.files /\ w.job = u.job
        /\ w.health \in {u.health, "failed", "doubtful"}
    BY <2>2, NotedIs
  <2> HIDE DEF w
  <2>4. /\ Typed(w) /\ Backed(w.files, w.db.rows)
        /\ w.health = "sound" => Covered(w.files, w.db.rows, {})
    BY <2>1, <2>3 DEF Good, Typed
  <2>5. Good(Return(w, "refused")) /\ \A list : Good(Success(w, s.db.rows, list))
    BY <2>4, ReturnKeeps, SuccessKeeps
  <2> QED
    BY <1>1, <2>5 DEF w, u
<1>2. CASE t = Return(s, "refused")
  BY <1>2, IdleReturn
<1>3. CASE t # Return(s, "refused")
  <2>1. \E fav, outcome, list :
           LET w == Noted([s EXCEPT !.fav = fav], outcome)
           IN  t = Return(w, "refused") \/ t = Success(w, s.db.rows, list)
    BY <1>3 DEF Toggling
  <2> QED
    BY <1>1, <2>1
<1> QED
  BY <1>2, <1>3

-----------------------------------------------------------------------------
(* The second halves.                                                      *)

LEMMA SaveRecordStep ==
    ASSUME Good(pm), pm.health # "doubtful", SaveRecord
    PROVE  Good(pm')
<1>1. PICK outcome \in Outcomes :
         LET w == WriteDb(pm, pm.job.rows, outcome)
         IN  pm' = IF outcome = "done" THEN Success(w, pm.job.rows, Favorites(pm.fav))
                   ELSE [w EXCEPT !.job.step = "undo"]
  BY DEF SaveRecord
<1> DEFINE w == WriteDb(pm, pm.job.rows, outcome)
<1>2. /\ pm.job.step = "record" /\ Typed(pm) /\ Backed(pm.files, pm.db.rows)
      /\ Backed(pm.files, pm.job.rows) /\ pm.job.slot \notin SlotsOf(pm.db.rows)
      /\ SlotsOf(pm.job.rows) = SlotsOf(pm.db.rows) \cup {pm.job.slot}
      /\ pm.health = "sound" => Covered(pm.files, pm.db.rows, {pm.job.slot})
  BY DEF SaveRecord, Good, JobOK
<1>3. /\ Typed(w) /\ w.files = pm.files /\ w.job = pm.job
      /\ outcome = "done" => w.db.rows = pm.job.rows /\ w.health = pm.health
      /\ outcome = "landed" => w.health = "doubtful"
      /\ outcome \in {"refused", "lost"} =>
            w.db.rows \in {pm.db.rows, <<>>} /\ w.health = "failed"
  BY <1>2, WriteDbIs DEF Typed
<1> HIDE DEF w
<1>4. CASE outcome = "done"
  <2>1. Backed(w.files, w.db.rows) /\ (w.health = "sound" => Covered(w.files, w.db.rows, {}))
    BY <1>2, <1>3, <1>4 DEF Covered
  <2> QED
    BY <1>1, <1>3, <1>4, <2>1, SuccessKeeps DEF w
<1>5. CASE outcome # "done"
  <2> DEFINE t == [w EXCEPT !.job.step = "undo"]
  <2>1. /\ DOMAIN t = DOMAIN w /\ t.entries = w.entries /\ t.db = w.db /\ t.files = w.files
        /\ t.health = w.health /\ DOMAIN t.job = {"step", "slot", "rows"}
        /\ t.job.step = "undo" /\ t.job.slot = w.job.slot /\ t.job.rows = w.job.rows
    BY <1>3 DEF Typed
  <2>2. pm' = t
    BY <1>1, <1>5 DEF w
  <2> HIDE DEF t
  <2>3. Typed(t) /\ t.health # "sound"
    BY <1>2, <1>3, <1>5, <2>1 DEF Typed, Steps, Outcomes
  <2>4. t.health # "doubtful" => Backed(t.files, t.db.rows) /\ JobOK(t)
    <3> SUFFICES ASSUME t.health # "doubtful" PROVE Backed(t.files, t.db.rows) /\ JobOK(t)
      OBVIOUS
    <3>1. t.db.rows \in {pm.db.rows, <<>>}
      BY <1>3, <1>5, <2>1 DEF Outcomes
    <3>2. Backed(t.files, t.db.rows) /\ t.job.slot \notin SlotsOf(t.db.rows)
      BY <1>2, <1>3, <2>1, <3>1, NoRows
    <3> QED
      BY <2>1, <2>3, <3>2 DEF JobOK
  <2> QED
    BY <2>2, <2>3, <2>4 DEF Good
<1> QED
  BY <1>4, <1>5

LEMMA UndoStep ==
    ASSUME Good(pm), pm.health # "doubtful", Undo
    PROVE  Good(pm')
<1>1. PICK contents : pm' = Return([pm EXCEPT !.files[pm.job.slot] = contents], "refused")
  BY DEF Undo
<1> DEFINE t == [pm EXCEPT !.files[pm.job.slot] = contents]
<1>2. /\ Typed(pm) /\ Backed(pm.files, pm.db.rows) /\ pm.health # "sound"
      /\ pm.job.slot \notin SlotsOf(pm.db.rows)
  BY DEF Undo, Good, JobOK
<1>3. /\ DOMAIN t = DOMAIN pm /\ t.entries = pm.entries /\ t.db = pm.db
      /\ t.files = [pm.files EXCEPT ![pm.job.slot] = contents]
      /\ t.job = pm.job /\ t.health = pm.health
  BY <1>2 DEF Typed
<1> HIDE DEF t
<1>4. Backed(t.files, t.db.rows) /\ DOMAIN t.files = Slots
  BY <1>2, <1>3, FileChanged DEF Typed
<1>5. Typed(t)
  BY <1>2, <1>3, <1>4 DEF Typed
<1>6. Good(Return(t, "refused"))
  BY <1>2, <1>3, <1>4, <1>5, ReturnKeeps
<1> QED
  BY <1>1, <1>6 DEF t

LEMMA DeleteFileStep ==
    ASSUME Good(pm), pm.health # "doubtful", DeleteFile
    PROVE  Good(pm')
<1>1. /\ pm.job.step = "delete" /\ Typed(pm) /\ Backed(pm.files, pm.db.rows)
      /\ Backed(pm.files, pm.job.rows) /\ pm.job.slot \notin SlotsOf(pm.db.rows)
      /\ SlotsOf(pm.job.rows) = SlotsOf(pm.db.rows) \cup {pm.job.slot}
      /\ pm.health = "sound" => Covered(pm.files, pm.db.rows, {pm.job.slot})
      /\ pm.job.slot \in Slots
  BY DEF DeleteFile, Good, JobOK, Typed
<1>2. PICK outcome \in {"done", "refused", "landed"} :
         LET w == Noted([pm EXCEPT !.files[pm.job.slot] =
                                       IF outcome = "refused" THEN @ ELSE Absent], outcome)
         IN  pm' = IF outcome = "done" THEN Success(w, pm.db.rows, Favorites(pm.fav))
                   ELSE [w EXCEPT !.job.step = "restore"]
  BY DEF DeleteFile
<1> DEFINE f == [pm.files EXCEPT ![pm.job.slot] = IF outcome = "refused" THEN @ ELSE Absent]
           u == [pm EXCEPT !.files[pm.job.slot] = IF outcome = "refused" THEN @ ELSE Absent]
           w == Noted(u, outcome)
<1>3. outcome = "refused" => Backed(f, pm.job.rows)
  <2>1. \A i \in DOMAIN pm.job.rows : pm.job.rows[i] \in Row
    BY <1>1 DEF Typed
  <2>2. \A i \in DOMAIN pm.job.rows : pm.job.rows[i].slot \in Slots
    BY <2>1 DEF Row
  <2> QED
    BY <1>1, <2>2 DEF Backed, Typed
<1>4. /\ DOMAIN f = Slots /\ Backed(f, pm.db.rows)
      /\ outcome = "done" => \A x \in Slots : f[x] = IF x = pm.job.slot THEN Absent ELSE pm.files[x]
  BY <1>1, FileChanged DEF Typed
<1> HIDE DEF f
<1>5. /\ DOMAIN u = DOMAIN pm /\ u.entries = pm.entries /\ u.db = pm.db /\ u.files = f
      /\ u.job = pm.job /\ u.health = pm.health
  BY <1>1 DEF Typed, f
<1> HIDE DEF u
<1>6. Typed(u) /\ u.health # "doubtful"
  BY <1>1, <1>4, <1>5 DEF Typed
<1>7. /\ DOMAIN w = DOMAIN u /\ w.entries = u.entries /\ w.db = u.db
      /\ w.files = u.files /\ w.job = u.job
      /\ w.health = IF outcome = "landed" THEN "doubtful"
                    ELSE IF outcome = "done" THEN u.health ELSE "failed"
  BY <1>6, NotedIs
<1>8. pm' = IF outcome = "done" THEN Success(w, pm.db.rows, Favorites(pm.fav))
            ELSE [w EXCEPT !.job.step = "restore"]
  BY <1>2 DEF u
<1> HIDE DEF w
<1>9. Typed(w)
  BY <1>6, <1>7 DEF Typed
<1>10. CASE outcome = "done"
  <2>1. Backed(w.files, w.db.rows) /\ (w.health = "sound" => Covered(w.files, w.db.rows, {}))
    BY <1>1, <1>4, <1>5, <1>7, <1>10 DEF Covered
  <2> QED
    BY <1>8, <1>9, <1>10, <2>1, SuccessKeeps
<1>11. CASE outcome # "done"
  <2> DEFINE v == [w EXCEPT !.job.step = "restore"]
  <2>1. /\ DOMAIN v = DOMAIN w /\ v.entries = w.entries /\ v.db = w.db /\ v.files = w.files
        /\ v.health = w.health /\ DOMAIN v.job = {"step", "slot", "rows"}
        /\ v.job.step = "restore" /\ v.job.slot = w.job.slot /\ v.job.rows = w.job.rows
    BY <1>9 DEF Typed
  <2>2. pm' = v
    BY <1>8, <1>11
  <2> HIDE DEF v
  <2>3. Typed(v) /\ v.health # "sound"
    BY <1>1, <1>5, <1>7, <1>9, <1>11, <2>1 DEF Typed, Steps
  <2>4. v.health # "doubtful" => Backed(v.files, v.db.rows) /\ JobOK(v)
    BY <1>3, <1>4, <1>5, <1>7, <1>11, <2>1 DEF JobOK
  <2> QED
    BY <2>2, <2>3, <2>4 DEF Good
<1> QED
  BY <1>10, <1>11

LEMMA RestoreStep ==
    ASSUME Good(pm), pm.health # "doubtful", Restore
    PROVE  Good(pm')
<1>1. PICK outcome \in Outcomes : pm' = Return(WriteDb(pm, pm.job.rows, outcome), "kept")
  BY DEF Restore
<1> DEFINE w == WriteDb(pm, pm.job.rows, outcome)
<1>2. /\ Typed(pm) /\ Backed(pm.files, pm.db.rows) /\ Backed(pm.files, pm.job.rows)
      /\ pm.health # "sound"
  BY DEF Restore, Good, JobOK
<1>3. /\ Typed(w) /\ w.files = pm.files
      /\ outcome = "done" => w.db.rows = pm.job.rows /\ w.health = pm.health
      /\ outcome = "landed" => w.health = "doubtful"
      /\ outcome \in {"refused", "lost"} =>
            w.db.rows \in {pm.db.rows, <<>>} /\ w.health = "failed"
  BY <1>2, WriteDbIs DEF Typed
<1> HIDE DEF w
<1>4. w.health # "sound" /\ (w.health # "doubtful" => Backed(w.files, w.db.rows))
  BY <1>2, <1>3, NoRows DEF Outcomes
<1> QED
  BY <1>1, <1>3, <1>4, ReturnKeeps DEF w

LEMMA PowerLossStep ==
    ASSUME Good(pm), pm.health # "doubtful", PowerLoss
    PROVE  Good(pm')
<1> DEFINE t == [pm EXCEPT !.entries = <<>>, !.ui = Closed, !.job = Idle, !.last = "ok"]
<1>1. Typed(pm) /\ Backed(pm.files, pm.db.rows)
  BY DEF Good
<1>2. /\ DOMAIN t = DOMAIN pm /\ t.entries = <<>> /\ t.db = pm.db /\ t.files = pm.files
      /\ t.job = Idle /\ t.health = pm.health
  BY <1>1 DEF Typed
<1>3. pm' = Noted(t, "refused")
  BY DEF PowerLoss
<1> HIDE DEF t
<1>4. Typed(t)
  <2>1. Idle.step = "idle" /\ DOMAIN Idle = {"step", "slot", "rows"} /\ Idle.rows \in Seq(Row)
    BY NoRows DEF Idle
  <2>2. EntriesOK(<<>>)
    BY DEF EntriesOK
  <2> QED
    BY <1>1, <1>2, <2>1, <2>2 DEF Typed, Steps
<1>5. /\ DOMAIN pm' = DOMAIN t /\ pm'.entries = t.entries /\ pm'.db = t.db
      /\ pm'.files = t.files /\ pm'.job = t.job /\ pm'.health = "failed"
  BY <1>2, <1>3, <1>4, NotedIs
<1>6. Typed(pm') /\ pm'.job.step = "idle" /\ Backed(pm'.files, pm'.db.rows)
  BY <1>1, <1>2, <1>4, <1>5 DEF Typed, Idle
<1> QED
  BY <1>5, <1>6, IdleGood

-----------------------------------------------------------------------------
(* The screen.                                                             *)

(* A key that changes the screen alone, and what a call begun with it does.*)
LEMMA ScreenKeeps ==
    ASSUME NEW s, Good(s), NEW ui
    PROVE  LET t == [s EXCEPT !.ui = ui]
           IN  Good(t) /\ t.job = s.job /\ t.health = s.health
<1> DEFINE t == [s EXCEPT !.ui = ui]
<1>1. Same(s, t) /\ t.job = s.job /\ t.health = s.health
  BY DEF Same, Good, Typed
<1> HIDE DEF t
<1>2. Good(t)
  BY <1>1, SameKeeps
<1> QED
  BY <1>1, <1>2 DEF t

LEMMA CallStep ==
    ASSUME Good(pm), pm.health # "doubtful",
           Open \/ List \/ KeyRefresh \/ KeyInstall \/ KeyFavorite \/ KeyRemove
    PROVE  Good(pm')
<1>1. pm.job.step = "idle"
  BY DEF Open, List, KeyRefresh, KeyInstall, KeyFavorite, KeyRemove, AtShell, Waiting, Selecting
<1>2. PICK ui, s : s = [pm EXCEPT !.ui = ui] /\
         \/ pm' \in Refreshed(pm) \cup Refreshed(s)
         \/ \E t, after : t \in Refreshed(s) /\ pm' = [t EXCEPT !.ui = after]
         \/ \E i : pm' \in Installing(s, i) \cup Toggling(s, i) \cup Removing(s, i)
  <2>1. CASE Open \/ List
    BY <2>1 DEF Open, List
  <2>2. CASE KeyRefresh
    <3>1. PICK s, after : /\ s \in Refreshed([pm EXCEPT !.ui.confirm = FALSE])
                          /\ pm' = [s EXCEPT !.ui = after]
      BY <2>2 DEF KeyRefresh
    <3>2. [pm EXCEPT !.ui.confirm = FALSE] = [pm EXCEPT !.ui = [pm.ui EXCEPT !.confirm = FALSE]]
      OBVIOUS
    <3> QED
      BY <3>1, <3>2
  <2>3. CASE KeyInstall \/ KeyFavorite \/ KeyRemove
    BY <2>3 DEF KeyInstall, KeyFavorite, KeyRemove, Forgetful
  <2> QED
    BY <2>1, <2>2, <2>3
<1>3. Good(s) /\ s.job.step = "idle" /\ s.health # "doubtful"
  BY <1>1, <1>2, ScreenKeeps
<1>4. CASE pm' \in Refreshed(pm) \cup Refreshed(s)
  BY <1>1, <1>3, <1>4, RefreshedKeeps
<1>5. ASSUME NEW t \in Refreshed(s), NEW after, pm' = [t EXCEPT !.ui = after] PROVE Good(pm')
  BY <1>3, <1>5, RefreshedKeeps, ScreenKeeps
<1>6. ASSUME NEW i, pm' \in Installing(s, i) \cup Toggling(s, i) \cup Removing(s, i)
      PROVE  Good(pm')
  BY <1>3, <1>6, InstallingKeeps, TogglingKeeps, RemovingKeeps
<1> QED
  BY <1>2, <1>4, <1>5, <1>6

LEMMA KeyStep ==
    ASSUME Good(pm), Quit \/ Move \/ ShowDetails \/ HideDetails \/ AskRemove
    PROVE  Good(pm')
<1>1. CASE Quit \/ Move \/ HideDetails \/ AskRemove
  <2>1. \E ui : pm' = [pm EXCEPT !.ui = ui]
    BY <1>1 DEF Quit, Move, HideDetails, AskRemove
  <2> QED
    BY SMTT(30), <2>1, ScreenKeeps
<1>2. CASE ShowDetails
  <2>1. pm.job.step = "idle"
    BY <1>2 DEF ShowDetails, Selecting, Waiting
  <2>2. CASE pm' = Return(pm, "refused")
    BY <2>1, <2>2, IdleReturn
  <2>3. CASE pm' = Return([pm EXCEPT !.ui.details = TRUE], "ok")
    <3> DEFINE ui == [pm.ui EXCEPT !.details = TRUE]
               t == [pm EXCEPT !.ui = ui]
    <3>1. [pm EXCEPT !.ui.details = TRUE] = t
      OBVIOUS
    <3> HIDE DEF ui
    <3>2. Good(t) /\ t.job.step = "idle"
      BY <2>1, ScreenKeeps
    <3> HIDE DEF t
    <3> QED
      BY <2>3, <3>1, <3>2, IdleReturn
  <2> QED
    BY <1>2, <2>2, <2>3 DEF ShowDetails
<1> QED
  BY <1>1, <1>2

LEMMA EditRecordsStep ==
    ASSUME Good(pm), EditRecords
    PROVE  Good(pm')
<1>1. Same(pm, pm')
  BY DEF EditRecords, Same, Good, Typed
<1> QED
  BY <1>1, SameKeeps

-----------------------------------------------------------------------------
(* The theorems.                                                           *)

(* The inductive invariant holds: besides the rows of the list each call   *)
(* that is not done keeps those it may have to write back.                 *)
THEOREM Invariant == ManagerSpec => []Good(pm)
<1>1. ASSUME ManagerInit PROVE Good(pm)
  <2>1. /\ DOMAIN pm = {"entries", "db", "fav", "files", "ui", "job", "last", "health"}
        /\ pm.entries = <<>> /\ pm.db = Saved(<<>>) /\ pm.files = [s \in Slots |-> Absent]
        /\ pm.job = Idle /\ pm.health = "sound"
    BY <1>1 DEF ManagerInit
  <2>2. /\ DOMAIN pm.db = {"rows", "shape"} /\ pm.db.rows = <<>>
        /\ pm.job.step = "idle" /\ DOMAIN pm.job = {"step", "slot", "rows"}
        /\ pm.job.rows = <<>>
    BY <2>1 DEF Saved, Idle
  <2>3. EntriesOK(pm.entries) /\ Covered(pm.files, pm.db.rows, {})
    BY <2>1 DEF EntriesOK, Covered
  <2>4. Typed(pm)
    BY <2>1, <2>2, <2>3, NoRows DEF Typed, Steps
  <2> QED
    BY <2>2, <2>3, <2>4, NoRows, IdleGood
<1>2. ASSUME Good(pm), [ManagerNext]_pm PROVE Good(pm)'
  <2>1. CASE ManagerNext
    BY <1>2, <2>1, SaveRecordStep, UndoStep, DeleteFileStep, RestoreStep, PowerLossStep,
       CallStep, KeyStep, EditRecordsStep DEF ManagerNext, Followed
  <2> QED
    BY <1>2, <2>1
<1> QED
  BY <1>1, <1>2, PTL DEF ManagerSpec

(* Whatever the repository serves, and whichever call on the storage fails *)
(* or is cut short, every record of package_manager.c has its file, whole, *)
(* checked and its own, and without a failure every file has its record.   *)
THEOREM RecordsAreBacked == ManagerSpec => []RecordsBacked
<1>1. ASSUME Good(pm) PROVE RecordsBacked
  <2> SUFFICES ASSUME pm.health # "doubtful"
               PROVE  /\ \A i \in DOMAIN pm.db.rows :
                            LET row == pm.db.rows[i]
                            IN  /\ pm.files[row.slot] = row.build /\ row.build \in Apps
                                /\ \A j \in DOMAIN pm.db.rows :
                                      pm.db.rows[j].slot = row.slot => j = i
                      /\ pm.health = "sound" /\ pm.job.step = "idle" =>
                            \A s \in Slots : pm.files[s] # Absent =>
                                \E i \in DOMAIN pm.db.rows : pm.db.rows[i].slot = s
    BY DEF RecordsBacked
  <2>1. Backed(pm.files, pm.db.rows)
    BY <1>1 DEF Good
  <2>2. pm.health = "sound" /\ pm.job.step = "idle" => Covered(pm.files, pm.db.rows, {})
    BY <1>1 DEF Good
  <2>3. \A i \in DOMAIN pm.db.rows :
           LET row == pm.db.rows[i]
           IN  /\ pm.files[row.slot] = row.build /\ row.build \in Apps
               /\ \A j \in DOMAIN pm.db.rows : pm.db.rows[j].slot = row.slot => j = i
    BY <2>1 DEF Backed
  <2> QED
    BY <2>2, <2>3 DEF Covered, SlotsOf
<1> QED
  BY <1>1, Invariant, PTL
=============================================================================
