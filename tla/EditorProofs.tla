---------------------------- MODULE EditorProofs ----------------------------
(***************************************************************************)
(* For every size of the screen and of the buffer, and whatever is opened, *)
(* typed and pasted: the cursor and the selection stay within the text,    *)
(* and the screen shows the text around the cursor.                        *)
(***************************************************************************)
EXTENDS Editor, SequenceTheorems, FiniteSetTheorems, WellFoundedInduction, TLAPS

-----------------------------------------------------------------------------
(* Sets of numbers.                                                        *)
LEMMA LeastExists ==
    ASSUME NEW S \in SUBSET Nat, S # {}
    PROVE  \E m \in S : \A n \in S : m <= n
<1> DEFINE F == {0 .. n : n \in S}
<1>1. IsWellFoundedOn(StrictSubsetOrdering(Nat), FiniteSubsetsOf(Nat))
  BY FS_StrictSubsetOrderingWellFounded
<1>2. F \subseteq FiniteSubsetsOf(Nat) /\ F # {}
  <2>1. \A n \in S : 0 .. n \in SUBSET Nat /\ IsFiniteSet(0 .. n)
    BY FS_Interval
  <2> QED
    BY <2>1 DEF FiniteSubsetsOf
<1>3. PICK T \in F : \A U \in F : <<U, T>> \notin StrictSubsetOrdering(Nat)
  <2> HIDE DEF F
  <2> QED
    BY <1>1, <1>2, WFMin
<1>4. PICK m \in S : T = 0 .. m
  OBVIOUS
<1>5. ASSUME NEW n \in S, ~ (m <= n) PROVE FALSE
  <2>1. n \in Nat /\ m \in Nat /\ n < m
    BY <1>5
  <2>2. /\ 0 .. n \in SUBSET Nat /\ 0 .. m \in SUBSET Nat
        /\ 0 .. n \subseteq 0 .. m /\ 0 .. n # 0 .. m
    <3>1. m \in 0 .. m /\ m \notin 0 .. n
      BY <2>1
    <3> QED
      BY <2>1, <3>1
  <2>3. <<0 .. n, 0 .. m>> \in StrictSubsetOrdering(Nat)
    BY <2>2 DEF StrictSubsetOrdering
  <2>4. 0 .. n \in F
    OBVIOUS
  <2> QED
    BY <1>3, <1>4, <2>3, <2>4
<1> QED
  BY <1>5

LEMMA MinProperties ==
    ASSUME NEW S \in SUBSET Nat, S # {}
    PROVE  Min(S) \in S /\ \A n \in S : Min(S) <= n
BY LeastExists DEF Min

LEMMA MaxProperties ==
    ASSUME NEW S \in SUBSET Nat, S # {}, NEW b \in Nat, \A n \in S : n <= b
    PROVE  Max(S) \in S /\ \A n \in S : Max(S) >= n
<1> DEFINE T == {b - n : n \in S}
<1>1. T \in SUBSET Nat /\ T # {}
  <2>1. \A n \in S : b - n \in Nat
    OBVIOUS
  <2> QED
    BY <2>1
<1>2. PICK t \in T : \A u \in T : t <= u
  BY <1>1, LeastExists
<1>3. PICK m \in S : t = b - m
  BY <1>2
<1>4. ASSUME NEW n \in S PROVE m >= n
  <2>1. b - m <= b - n
    BY <1>2, <1>3
  <2>2. b \in Nat /\ m \in Nat /\ n \in Nat
    OBVIOUS
  <2> QED
    BY <2>1, <2>2
<1>5. \E x \in S : \A y \in S : x >= y
  BY <1>4
<1> QED
  BY <1>5 DEF Max

LEMMA LesserProperties ==
    ASSUME NEW a \in Nat, NEW b \in Nat
    PROVE  Min({a, b}) = IF a <= b THEN a ELSE b
<1>1. Min({a, b}) \in {a, b} /\ Min({a, b}) <= a /\ Min({a, b}) <= b
  <2>1. {a, b} \in SUBSET Nat /\ {a, b} # {}
    OBVIOUS
  <2> QED
    BY <2>1, MinProperties
<1> QED
  BY <1>1

LEMMA GreaterProperties ==
    ASSUME NEW a \in Nat, NEW b \in Nat
    PROVE  Max({a, b}) = IF a >= b THEN a ELSE b
<1>1. {a, b} \in SUBSET Nat /\ {a, b} # {} /\ \A n \in {a, b} : n <= a + b /\ a + b \in Nat
  OBVIOUS
<1>2. Max({a, b}) \in {a, b} /\ Max({a, b}) >= a /\ Max({a, b}) >= b
  BY <1>1, MaxProperties
<1> QED
  BY <1>2

-----------------------------------------------------------------------------
(* Texts.                                                                  *)
Text == {t \in Seq(Letters) : Len(t) <= MaxText}

LEMMA Sizes == MaxText \in Nat /\ Rows \in Nat \ {0} /\ TabSpaces \in Nat
BY EditorAssumption

LEMMA EmptyText == <<>> \in Text /\ Len(<<>>) = 0
<1>1. <<>> \in Seq(Letters) /\ Len(<<>>) = 0 /\ 0 <= MaxText
  BY EmptySeq, Sizes
<1> QED
  BY <1>1 DEF Text

(* What is left when the text between two places is taken out.             *)
LEMMA CutProperties ==
    ASSUME NEW s \in Text, NEW i \in 0 .. Len(s), NEW j \in i .. Len(s)
    PROVE  /\ SubSeq(s, 1, i) \o SubSeq(s, j + 1, Len(s)) \in Text
           /\ Len(SubSeq(s, 1, i) \o SubSeq(s, j + 1, Len(s))) = Len(s) - (j - i)
<1>1. s \in Seq(Letters) /\ Len(s) <= MaxText /\ Len(s) \in Nat /\ MaxText \in Nat
  BY Sizes DEF Text
<1>2. SubSeq(s, 1, i) \in Seq(Letters) /\ Len(SubSeq(s, 1, i)) = i
  BY <1>1, SubSeqProperties
<1>3. SubSeq(s, j + 1, Len(s)) \in Seq(Letters) /\ Len(SubSeq(s, j + 1, Len(s))) = Len(s) - j
  BY <1>1, SubSeqProperties
<1> DEFINE a == SubSeq(s, 1, i)
           b == SubSeq(s, j + 1, Len(s))
<1> HIDE DEF a, b
<1>4. a \o b \in Seq(Letters) /\ Len(a \o b) = i + (Len(s) - j)
  BY <1>2, <1>3, ConcatProperties DEF a, b
<1>5. Len(a \o b) <= MaxText /\ i + (Len(s) - j) = Len(s) - (j - i)
  BY <1>1, <1>4
<1> QED
  BY <1>4, <1>5 DEF Text, a, b

(* A text with another one put in at a place.                              *)
LEMMA PutProperties ==
    ASSUME NEW s \in Text, NEW i \in 0 .. Len(s), NEW t \in Seq(Letters),
           Len(s) + Len(t) <= MaxText
    PROVE  /\ SubSeq(s, 1, i) \o t \o SubSeq(s, i + 1, Len(s)) \in Text
           /\ Len(SubSeq(s, 1, i) \o t \o SubSeq(s, i + 1, Len(s))) = Len(s) + Len(t)
<1>1. s \in Seq(Letters) /\ Len(s) \in Nat /\ Len(t) \in Nat
  BY DEF Text
<1>2. SubSeq(s, 1, i) \in Seq(Letters) /\ Len(SubSeq(s, 1, i)) = i
  BY <1>1, SubSeqProperties
<1>3. SubSeq(s, i + 1, Len(s)) \in Seq(Letters) /\ Len(SubSeq(s, i + 1, Len(s))) = Len(s) - i
  BY <1>1, SubSeqProperties
<1> DEFINE a == SubSeq(s, 1, i)
           b == SubSeq(s, i + 1, Len(s))
<1> HIDE DEF a, b
<1>4. a \o t \in Seq(Letters) /\ Len(a \o t) = i + Len(t)
  BY <1>2, ConcatProperties DEF a
<1> DEFINE front == a \o t
<1> HIDE DEF front
<1>5. /\ front \in Seq(Letters) /\ Len(front) = i + Len(t)
      /\ b \in Seq(Letters) /\ Len(b) = Len(s) - i
  BY <1>3, <1>4 DEF b, front
<1>6. i + Len(t) + (Len(s) - i) = Len(s) + Len(t)
  BY <1>1
<1>7. front \o b \in Seq(Letters) /\ Len(front \o b) = Len(front) + Len(b)
  BY <1>5, ConcatProperties
<1>8. Len(front \o b) = Len(s) + Len(t)
  BY <1>5, <1>6, <1>7
<1>9. front \o b \in Text
  BY <1>7, <1>8 DEF Text
<1> QED
  BY <1>8, <1>9 DEF a, b, front

(* Lines and rows of a text.                                               *)
LEMMA LineStartProperties ==
    ASSUME NEW text, NEW at \in Nat
    PROVE  LineStart(text, at) \in 0 .. at
<1> DEFINE S == {n \in 0 .. at : n = 0 \/ text[n] = NewLine}
<1>1. S \in SUBSET Nat /\ 0 \in S /\ \A n \in S : n <= at
  OBVIOUS
<1>2. Max(S) \in S
  <2> HIDE DEF S
  <2> QED
    BY <1>1, MaxProperties
<1> QED
  BY <1>2 DEF LineStart

LEMMA LineEndProperties ==
    ASSUME NEW text \in Text, NEW at \in 0 .. Len(text)
    PROVE  LineEnd(text, at) \in at .. Len(text)
<1> DEFINE S == {n \in at .. Len(text) : n = Len(text) \/ text[n + 1] = NewLine}
<1>1. Len(text) \in Nat
  BY DEF Text
<1>2. S \in SUBSET Nat /\ Len(text) \in S
  BY <1>1
<1>3. Min(S) \in S
  <2> HIDE DEF S
  <2> QED
    BY <1>2, MinProperties
<1> QED
  BY <1>3 DEF LineEnd

LEMMA ColumnProperties ==
    ASSUME NEW text, NEW at \in Nat
    PROVE  Column(text, at) \in Nat
BY LineStartProperties DEF Column

LEMMA RowProperties ==
    ASSUME NEW text, NEW at \in Nat
    PROVE  RowOf(text, at) \in Nat
<1>1. IsFiniteSet(1 .. at)
  BY FS_Interval
<1>2. IsFiniteSet({i \in 1 .. at : text[i] = NewLine})
  BY <1>1, FS_Subset
<1> QED
  BY <1>2, FS_CardinalityType DEF RowOf

-----------------------------------------------------------------------------
(* What holds between two keys.                                            *)
Written(s) ==
    /\ DOMAIN s = {"at", "file", "clip", "text", "cursor", "anchor", "preferred", "scroll",
                   "modified", "title", "drawn", "screen"}
    /\ s.text \in Text /\ s.cursor \in 0 .. Len(s.text) /\ s.anchor \in None .. MaxText
    /\ s.preferred \in Nat /\ s.scroll \in Nat
    /\ s.file \in Seq(Letters) /\ s.clip \in Seq(Letters)
    /\ \A r \in 1 .. Rows : DOMAIN s.screen[r] = {"text", "marked"}

Shown(s) ==
    /\ s.title = s.modified
    /\ RowOf(s.text, s.cursor) - s.scroll \in 0 .. Rows - 1
    /\ \A r \in 1 .. Rows :
          /\ s.screen[r].text = RowText(s.text, s.scroll + r - 1)
          /\ SelectedColumns(s, r) \subseteq s.screen[r].marked

LEMMA WrittenNumbers ==
    ASSUME NEW s, Written(s)
    PROVE  /\ s.text \in Text /\ s.text \in Seq(Letters) /\ Len(s.text) \in 0 .. MaxText
           /\ s.cursor \in 0 .. Len(s.text) /\ s.cursor \in Nat
           /\ s.anchor \in None .. MaxText /\ s.preferred \in Nat /\ s.scroll \in Nat
<1>1. s.text \in Text /\ s.cursor \in 0 .. Len(s.text)
  BY DEF Written
<1>2. s.text \in Seq(Letters) /\ Len(s.text) \in Nat /\ Len(s.text) <= MaxText
  BY <1>1 DEF Text
<1> QED
  BY <1>1, <1>2, Sizes DEF Written

-----------------------------------------------------------------------------
(* draw_editor                                                             *)

LEMMA ScrolledProperties ==
    ASSUME NEW s, Written(s)
    PROVE  /\ Scrolled(s) \in Nat
           /\ RowOf(s.text, s.cursor) - Scrolled(s) \in 0 .. Rows - 1
<1> DEFINE row == RowOf(s.text, s.cursor)
<1>1. row \in Nat /\ s.scroll \in Nat
  BY WrittenNumbers, RowProperties
<1>2. Scrolled(s) = IF row < s.scroll THEN row
                    ELSE IF row >= s.scroll + Rows THEN row - Rows + 1 ELSE s.scroll
  BY DEF Scrolled
<1> HIDE DEF row
<1>3. Scrolled(s) \in Nat /\ row - Scrolled(s) \in 0 .. Rows - 1
  BY <1>1, <1>2, Sizes
<1> QED
  BY <1>3 DEF row

LEMMA SameSelected ==
    ASSUME NEW s, NEW t, NEW r, t.text = s.text, t.cursor = s.cursor, t.anchor = s.anchor,
           t.scroll = s.scroll
    PROVE  SelectedColumns(t, r) = SelectedColumns(s, r)
BY DEF SelectedColumns, Cells, HasSelection, SelectionStart, SelectionEnd

(* What a step of the drawing leaves as it was.                            *)
Same(s, t) ==
    /\ DOMAIN t = DOMAIN s /\ t.at = s.at /\ t.file = s.file /\ t.clip = s.clip
    /\ t.text = s.text /\ t.cursor = s.cursor /\ t.anchor = s.anchor
    /\ t.preferred = s.preferred /\ t.modified = s.modified

LEMMA ScrollStep ==
    ASSUME NEW s, Written(s), NEW scroll
    PROVE  LET t == [s EXCEPT !.scroll = scroll]
           IN  /\ Same(s, t) /\ t.scroll = scroll /\ t.screen = s.screen /\ t.title = s.title
               /\ t.drawn = s.drawn
BY DEF Written, Same

WithText(s, screen, title, drawn) ==
    [s EXCEPT !.screen = screen, !.title = title, !.drawn = drawn]

LEMMA TextStep ==
    ASSUME NEW s, Written(s), NEW screen, NEW title, NEW drawn
    PROVE  LET t == WithText(s, screen, title, drawn)
           IN  /\ Same(s, t) /\ t.scroll = s.scroll /\ t.screen = screen /\ t.title = title
BY DEF Written, Same, WithText

LEMMA ScreenStep ==
    ASSUME NEW s, Written(s), NEW screen
    PROVE  LET t == [s EXCEPT !.screen = screen]
           IN  /\ Same(s, t) /\ t.scroll = s.scroll /\ t.screen = screen /\ t.title = s.title
BY DEF Written, Same

LEMMA SameWritten ==
    ASSUME NEW s, NEW t, Written(s), Same(s, t), t.scroll \in Nat,
           \A r \in 1 .. Rows : DOMAIN t.screen[r] = {"text", "marked"}
    PROVE  Written(t)
BY DEF Written, Same

(* The rows that were drawn before are drawn again where they differ.      *)
LEMMA TextAreaShows ==
    ASSUME NEW s, Written(s), NEW force \in BOOLEAN, NEW r \in 1 .. Rows
    PROVE  /\ DrawTextArea(s, force)[r].text = RowText(s.text, s.scroll + r - 1)
           /\ DOMAIN DrawTextArea(s, force)[r] = {"text", "marked"}
<1> DEFINE text == RowText(s.text, s.scroll + r - 1)
<1>1. DrawTextArea(s, force)[r] = IF force \/ s.screen[r].text # text
                                  THEN [text |-> text, marked |-> {}] ELSE s.screen[r]
  BY DEF DrawTextArea
<1> HIDE DEF text
<1>2. DOMAIN s.screen[r] = {"text", "marked"}
  BY DEF Written
<1>3. CASE force \/ s.screen[r].text # text
  BY <1>1, <1>3 DEF text
<1>4. CASE ~ (force \/ s.screen[r].text # text)
  BY <1>1, <1>2, <1>4 DEF text
<1> QED
  BY <1>3, <1>4

LEMMA DrawShows ==
    ASSUME NEW s, Written(s), NEW dirty \in BOOLEAN, NEW full \in BOOLEAN,
           dirty \/ full \/ Shown(s)
    PROVE  LET t == Draw(s, dirty, full) IN Written(t) /\ t.at = s.at /\ Shown(t)
<1> DEFINE a == [s EXCEPT !.scroll = Scrolled(s)]
           force == full \/ a.scroll # s.scroll
           b == [a EXCEPT !.screen = DrawTextArea(a, force),
                          !.title = a.modified, !.drawn = Len(a.text)]
           c == IF NeedsText(s, a, dirty, full) THEN b ELSE a
           screen == [r \in 1 .. Rows |->
                         [c.screen[r] EXCEPT !.marked = @ \cup SelectedColumns(c, r)]]
           t == [c EXCEPT !.screen = screen]
<1>1. Draw(s, dirty, full) = t
  BY DEF Draw
<1>2. Scrolled(s) \in Nat /\ RowOf(s.text, s.cursor) - Scrolled(s) \in 0 .. Rows - 1
  BY ScrolledProperties
<1>3. /\ Same(s, a) /\ a.scroll = Scrolled(s) /\ a.screen = s.screen /\ a.title = s.title
      /\ a.drawn = s.drawn
  BY ScrollStep
<1>4. Written(a)
  <2> HIDE DEF a
  <2>1. \A r \in 1 .. Rows : DOMAIN a.screen[r] = {"text", "marked"}
    BY <1>3 DEF Written
  <2> QED
    BY <1>2, <1>3, <2>1, SameWritten
<1> HIDE DEF a
<1>5. /\ Written(c) /\ Same(s, c) /\ c.scroll = Scrolled(s) /\ c.title = c.modified
      /\ \A r \in 1 .. Rows : c.screen[r].text = RowText(c.text, c.scroll + r - 1)
  <2>1. CASE NeedsText(s, a, dirty, full)
    <3> DEFINE area == DrawTextArea(a, force)
               length == Len(a.text)
    <3>1. /\ Same(a, b) /\ b.scroll = a.scroll /\ b.screen = area /\ b.title = a.modified
      <4>1. b = WithText(a, area, a.modified, length)
        BY DEF WithText
      <4> HIDE DEF area, length, b
      <4> QED
        BY <1>4, <4>1, TextStep
    <3>2. \A r \in 1 .. Rows : /\ area[r].text = RowText(a.text, a.scroll + r - 1)
                               /\ DOMAIN area[r] = {"text", "marked"}
      <4>1. force \in BOOLEAN
        OBVIOUS
      <4> HIDE DEF force
      <4> QED
        BY <1>4, <4>1, TextAreaShows
    <3>3. c = b
      BY <2>1
    <3> HIDE DEF area, b, c
    <3>4. \A r \in 1 .. Rows : DOMAIN b.screen[r] = {"text", "marked"}
      BY <3>1, <3>2
    <3>5. b.scroll \in Nat
      BY <1>2, <1>3, <3>1
    <3>6. Written(b)
      BY <1>4, <3>1, <3>4, <3>5, SameWritten
    <3>7. Same(s, b) /\ b.text = a.text /\ b.title = b.modified
      BY <1>3, <3>1 DEF Same
    <3>8. \A r \in 1 .. Rows : b.screen[r].text = RowText(b.text, b.scroll + r - 1)
      BY <3>1, <3>2, <3>7
    <3>9. b.scroll = Scrolled(s)
      BY <1>3, <3>1
    <3> QED
      BY <3>3, <3>6, <3>7, <3>8, <3>9
  <2>2. CASE ~ NeedsText(s, a, dirty, full)
    <3>1. c = a /\ Shown(s) /\ a.scroll = s.scroll
      BY <2>2 DEF NeedsText
    <3> HIDE DEF c
    <3>2. a.text = s.text /\ a.modified = s.modified
      BY <1>3 DEF Same
    <3>3. a.title = a.modified
      BY <1>3, <3>1, <3>2 DEF Shown
    <3>4. \A r \in 1 .. Rows : a.screen[r].text = RowText(a.text, a.scroll + r - 1)
      BY <1>3, <3>1, <3>2 DEF Shown
    <3> QED
      BY <1>3, <1>4, <3>1, <3>3, <3>4
  <2> QED
    BY <2>1, <2>2
<1> HIDE DEF c
<1>6. /\ Same(c, t) /\ t.scroll = c.scroll /\ t.screen = screen /\ t.title = c.title
  <2> HIDE DEF screen
  <2> QED
    BY <1>5, ScreenStep
<1>7. \A r \in 1 .. Rows : /\ DOMAIN screen[r] = {"text", "marked"}
                           /\ screen[r].text = c.screen[r].text
                           /\ screen[r].marked = c.screen[r].marked \cup SelectedColumns(c, r)
  <2> TAKE r \in 1 .. Rows
  <2>1. DOMAIN c.screen[r] = {"text", "marked"}
    BY <1>5 DEF Written
  <2>2. screen[r] = [c.screen[r] EXCEPT !.marked = c.screen[r].marked \cup SelectedColumns(c, r)]
    OBVIOUS
  <2> QED
    BY <2>1, <2>2
<1> HIDE DEF screen, t
<1>8. Written(t)
  <2>1. \A r \in 1 .. Rows : DOMAIN t.screen[r] = {"text", "marked"}
    BY <1>6, <1>7
  <2>2. t.scroll \in Nat
    BY <1>2, <1>5, <1>6
  <2> QED
    BY <1>5, <1>6, <2>1, <2>2, SameWritten
<1>9. t.text = c.text /\ t.cursor = c.cursor /\ t.anchor = c.anchor /\ t.modified = c.modified
      /\ c.text = s.text /\ c.cursor = s.cursor /\ t.at = s.at
  BY <1>5, <1>6 DEF Same
<1>10. RowOf(t.text, t.cursor) - t.scroll \in 0 .. Rows - 1 /\ t.title = t.modified
  BY <1>2, <1>5, <1>6, <1>9
<1>11. ASSUME NEW r \in 1 .. Rows
       PROVE  /\ t.screen[r].text = RowText(t.text, t.scroll + r - 1)
              /\ SelectedColumns(t, r) \subseteq t.screen[r].marked
  <2>1. SelectedColumns(t, r) = SelectedColumns(c, r)
    BY <1>6, <1>9, SameSelected
  <2>2. t.screen[r].text = RowText(c.text, c.scroll + r - 1)
    BY <1>5, <1>6, <1>7
  <2> QED
    BY <1>6, <1>7, <1>9, <2>1, <2>2
<1> QED
  BY <1>1, <1>8, <1>9, <1>10, <1>11 DEF Shown

-----------------------------------------------------------------------------
(* Changes of the text and of the place in it.                             *)

Replace(s, text, cursor) == [s EXCEPT !.text = text, !.cursor = cursor]

LEMMA TextWritten ==
    ASSUME NEW s, Written(s), NEW text \in Text, NEW cursor \in 0 .. Len(text)
    PROVE  LET t == Replace(s, text, cursor)
           IN  /\ Written(t) /\ t.at = s.at /\ t.text = text /\ t.cursor = cursor
               /\ t.anchor = s.anchor
BY DEF Written, Replace

LEMMA CursorWritten ==
    ASSUME NEW s, Written(s), NEW cursor \in 0 .. Len(s.text)
    PROVE  LET t == [s EXCEPT !.cursor = cursor]
           IN  Written(t) /\ t.at = s.at /\ t.text = s.text /\ t.cursor = cursor
BY DEF Written

LEMMA AnchorWritten ==
    ASSUME NEW s, Written(s), NEW anchor \in None .. MaxText
    PROVE  LET t == [s EXCEPT !.anchor = anchor]
           IN  /\ Written(t) /\ t.at = s.at /\ t.text = s.text /\ t.cursor = s.cursor
               /\ t.anchor = anchor
BY DEF Written

LEMMA PreferredWritten ==
    ASSUME NEW s, Written(s), NEW preferred \in Nat
    PROVE  LET t == [s EXCEPT !.preferred = preferred]
           IN  Written(t) /\ t.at = s.at /\ t.text = s.text /\ t.cursor = s.cursor
BY DEF Written

LEMMA ModifiedWritten ==
    ASSUME NEW s, Written(s), NEW modified
    PROVE  LET t == [s EXCEPT !.modified = modified]
           IN  Written(t) /\ t.at = s.at /\ t.text = s.text /\ t.anchor = s.anchor
BY DEF Written

LEMMA NoneIsAnchor == None \in None .. MaxText /\ \A n \in Nat : None <= n
BY Sizes DEF None

LEMMA PreferringWritten ==
    ASSUME NEW s, Written(s)
    PROVE  Written(Preferring(s)) /\ Preferring(s).at = s.at
<1> DEFINE preferred == Column(s.text, s.cursor)
<1>1. preferred \in Nat
  BY WrittenNumbers, ColumnProperties
<1>2. Preferring(s) = [s EXCEPT !.preferred = preferred]
  BY DEF Preferring
<1> HIDE DEF preferred
<1> QED
  BY <1>1, <1>2, PreferredWritten

LEMMA CutWritten ==
    ASSUME NEW s, Written(s), NEW first \in 0 .. Len(s.text), NEW last \in first .. Len(s.text)
    PROVE  LET t == Removed(s, first, last)
           IN  /\ Written(t) /\ t.at = s.at /\ t.anchor = s.anchor
               /\ Len(t.text) = Len(s.text) - (last - first)
<1> DEFINE rest == SubSeq(s.text, 1, first) \o SubSeq(s.text, last + 1, Len(s.text))
<1>1. s.text \in Text /\ Len(s.text) \in Nat
  BY WrittenNumbers DEF Written
<1>2. rest \in Text /\ Len(rest) = Len(s.text) - (last - first)
  BY <1>1, CutProperties
<1>3. Removed(s, first, last) = Replace(s, rest, first)
  BY DEF Removed, Replace
<1> HIDE DEF rest
<1>4. first \in 0 .. Len(rest)
  BY <1>1, <1>2
<1> QED
  BY <1>2, <1>3, <1>4, TextWritten

LEMMA DeleteWritten ==
    ASSUME NEW s, Written(s), s.anchor # None, s.anchor <= Len(s.text)
    PROVE  LET t == DropSelection(s) IN Written(t) /\ t.at = s.at /\ t.anchor = None
<1> DEFINE first == SelectionStart(s)
           last == SelectionEnd(s)
           t == Removed(s, first, last)
<1>1. s.anchor \in Nat /\ s.cursor \in Nat /\ s.cursor <= Len(s.text) /\ Len(s.text) \in Nat
  BY WrittenNumbers DEF None
<1>2. first = (IF s.anchor <= s.cursor THEN s.anchor ELSE s.cursor)
      /\ last = (IF s.anchor >= s.cursor THEN s.anchor ELSE s.cursor)
  BY <1>1, LesserProperties, GreaterProperties DEF SelectionStart, SelectionEnd
<1> HIDE DEF first, last
<1>3. first \in 0 .. Len(s.text) /\ last \in first .. Len(s.text)
  BY <1>1, <1>2
<1>4. Written(t) /\ t.at = s.at
  BY <1>3, CutWritten
<1>5. DropSelection(s) = [t EXCEPT !.anchor = None]
  BY DEF DropSelection, first, last
<1> HIDE DEF t
<1> QED
  BY <1>4, <1>5, NoneIsAnchor, AnchorWritten

LEMMA EraseSelectionWritten ==
    ASSUME NEW s, Written(s), s.anchor # None, s.anchor <= Len(s.text)
    PROVE  LET t == EraseSelection(s) IN Written(t) /\ t.at = s.at /\ t.anchor = None
<1> DEFINE t == DropSelection(s)
<1>1. Written(t) /\ t.at = s.at /\ t.anchor = None
  BY DeleteWritten
<1>2. EraseSelection(s) = [t EXCEPT !.modified = TRUE]
  BY DEF EraseSelection
<1> HIDE DEF t
<1> DEFINE u == [t EXCEPT !.modified = TRUE]
<1>3. Written(u) /\ u.at = t.at /\ u.anchor = t.anchor
  BY <1>1, ModifiedWritten
<1> HIDE DEF u
<1> QED
  BY <1>1, <1>2, <1>3 DEF u

LEMMA EraseWritten ==
    ASSUME NEW s, Written(s), s.anchor <= Len(s.text), NEW first \in Int
    PROVE  Written(EraseText(s, first, first + 1)) /\ EraseText(s, first, first + 1).at = s.at
<1>1. CASE HasSelection(s)
  <2>1. s.anchor # None
    BY <1>1 DEF HasSelection
  <2>2. EraseText(s, first, first + 1) = EraseSelection(s)
    BY <1>1 DEF EraseText
  <2>3. Written(EraseSelection(s)) /\ EraseSelection(s).at = s.at
    BY <2>1, EraseSelectionWritten
  <2> QED
    BY <2>2, <2>3
<1>2. CASE ~ HasSelection(s) /\ (first < 0 \/ first + 1 > Len(s.text))
  BY <1>2 DEF EraseText
<1>3. CASE ~ HasSelection(s) /\ ~ (first < 0 \/ first + 1 > Len(s.text))
  <2> DEFINE t == Removed(s, first, first + 1)
  <2>1. first \in 0 .. Len(s.text) /\ first + 1 \in first .. Len(s.text)
    BY <1>3, WrittenNumbers
  <2>2. Written(t) /\ t.at = s.at
    BY <2>1, CutWritten
  <2>3. EraseText(s, first, first + 1) = [t EXCEPT !.modified = TRUE]
    BY <1>3 DEF EraseText
  <2> HIDE DEF t
  <2>4. Written([t EXCEPT !.modified = TRUE]) /\ [t EXCEPT !.modified = TRUE].at = t.at
    BY <2>2, ModifiedWritten
  <2> QED
    BY <2>2, <2>3, <2>4
<1> QED
  BY <1>1, <1>2, <1>3

LEMMA InsertWritten ==
    ASSUME NEW s, Written(s), s.anchor <= Len(s.text), NEW text \in Seq(Letters)
    PROVE  Written(InsertText(s, text)) /\ InsertText(s, text).at = s.at
<1> DEFINE t == IF s.anchor = None THEN s ELSE DropSelection(s)
           n == Min({Room(t), Len(text)})
           put == SubSeq(text, 1, n)
           new == SubSeq(t.text, 1, t.cursor) \o put \o SubSeq(t.text, t.cursor + 1, Len(t.text))
           u == Replace(t, new, t.cursor + Len(put))
<1>1. Written(t) /\ t.at = s.at
  BY DeleteWritten
<1>2. InsertText(s, text) = IF text = <<>> THEN s ELSE IF put = <<>> THEN t
                           ELSE [t EXCEPT !.text = new, !.cursor = t.cursor + Len(put),
                                          !.modified = TRUE]
  BY DEF InsertText
<1> HIDE DEF t
<1>3. /\ t.text \in Text /\ Len(t.text) \in 0 .. MaxText /\ t.cursor \in 0 .. Len(t.text)
      /\ Len(text) \in Nat
  BY <1>1, WrittenNumbers
<1>4. n \in 0 .. Len(text) /\ n <= MaxText - Len(t.text)
  <2>1. Room(t) = MaxText - Len(t.text) /\ Room(t) \in Nat
    BY <1>3, Sizes DEF Room
  <2>2. n = IF Room(t) <= Len(text) THEN Room(t) ELSE Len(text)
    BY <1>3, <2>1, LesserProperties
  <2> HIDE DEF n
  <2> QED
    BY <1>3, <2>1, <2>2
<1> HIDE DEF n
<1>5. put \in Seq(Letters) /\ Len(put) = n
  BY <1>4, SubSeqProperties
<1> HIDE DEF put
<1>6. new \in Text /\ Len(new) = Len(t.text) + Len(put)
  <2>1. Len(t.text) + Len(put) <= MaxText
    BY <1>3, <1>4, <1>5, Sizes
  <2> QED
    BY <1>3, <1>5, <2>1, PutProperties
<1> HIDE DEF new
<1>7. t.cursor + Len(put) \in 0 .. Len(new)
  BY <1>3, <1>4, <1>5, <1>6
<1>8. Written(u) /\ u.at = t.at
  BY <1>1, <1>6, <1>7, TextWritten
<1>9. [t EXCEPT !.text = new, !.cursor = t.cursor + Len(put), !.modified = TRUE]
          = [u EXCEPT !.modified = TRUE]
  BY DEF Replace
<1> HIDE DEF u
<1>10. Written([u EXCEPT !.modified = TRUE]) /\ [u EXCEPT !.modified = TRUE].at = u.at
  BY <1>8, ModifiedWritten
<1> QED
  BY <1>1, <1>2, <1>8, <1>9, <1>10

(* A word to the left and to the right is within the text.                 *)
LEMMA WordLeftInText ==
    ASSUME NEW s, s.cursor \in Nat
    PROVE  WordBefore(s) \in 0 .. s.cursor
<1> DEFINE spaces == {n \in 0 .. s.cursor : \A i \in n + 1 .. s.cursor : s.text[i] \in White}
           edge == Min(spaces)
           word == {n \in 0 .. edge : \A i \in n + 1 .. edge : s.text[i] # Space}
<1>1. spaces \in SUBSET Nat /\ s.cursor \in spaces
  <2>1. \A i \in s.cursor + 1 .. s.cursor : FALSE
    OBVIOUS
  <2> QED
    BY <2>1
<1>2. edge \in 0 .. s.cursor
  <2>1. edge \in spaces
    <3> HIDE DEF spaces
    <3> QED
      BY <1>1, MinProperties
  <2> QED
    BY <2>1
<1> HIDE DEF spaces, edge
<1>3. word \in SUBSET Nat /\ edge \in word
  <2>1. \A i \in edge + 1 .. edge : FALSE
    BY <1>2
  <2> QED
    BY <1>2, <2>1
<1>4. Min(word) \in word
  <2> HIDE DEF word
  <2> QED
    BY <1>3, MinProperties
<1>5. Min(word) \in 0 .. s.cursor
  BY <1>2, <1>4
<1> QED
  BY <1>5 DEF WordBefore, spaces, edge

LEMMA WordRightInText ==
    ASSUME NEW s, Len(s.text) \in Nat, s.cursor \in 0 .. Len(s.text)
    PROVE  WordAfter(s) \in 0 .. Len(s.text)
<1> DEFINE end == Len(s.text)
           spaces == {n \in s.cursor .. end : \A i \in s.cursor + 1 .. n : s.text[i] \in White}
           edge == Max(spaces)
           word == {n \in edge .. end : \A i \in edge + 1 .. n : s.text[i] # Space}
<1> HIDE DEF end
<1>0. end \in Nat /\ s.cursor \in 0 .. end
  BY DEF end
<1>1. spaces \in SUBSET Nat /\ s.cursor \in spaces /\ \A n \in spaces : n <= end
  <2>1. \A i \in s.cursor + 1 .. s.cursor : FALSE
    BY <1>0
  <2> QED
    BY <1>0, <2>1
<1>2. edge \in s.cursor .. end
  <2>1. edge \in spaces
    <3> HIDE DEF spaces
    <3> QED
      BY <1>0, <1>1, MaxProperties
  <2> QED
    BY <2>1
<1> HIDE DEF spaces, edge
<1>3. word \in SUBSET Nat /\ edge \in word /\ \A n \in word : n <= end
  <2>1. \A i \in edge + 1 .. edge : FALSE
    BY <1>0, <1>2
  <2> QED
    BY <1>0, <1>2, <2>1
<1>4. Max(word) \in word
  <2> HIDE DEF word
  <2> QED
    BY <1>0, <1>3, MaxProperties
<1>5. Max(word) \in 0 .. end
  <2>1. Max(word) \in Nat /\ Max(word) <= end
    BY <1>3, <1>4
  <2> HIDE DEF word, end
  <2> QED
    BY <1>0, <2>1
<1> QED
  BY <1>5 DEF WordAfter, spaces, edge, end

LEMMA AnchoredWritten ==
    ASSUME NEW s, Written(s), NEW shift \in BOOLEAN
    PROVE  LET t == Shifted(s, shift)
           IN  Written(t) /\ t.at = s.at /\ t.text = s.text /\ t.cursor = s.cursor
<1> DEFINE anchor == IF ~shift THEN None ELSE IF s.anchor = None THEN s.cursor ELSE s.anchor
<1>1. anchor \in None .. MaxText
  BY WrittenNumbers, NoneIsAnchor, Sizes DEF None
<1>2. Shifted(s, shift) = [s EXCEPT !.anchor = anchor]
  BY DEF Shifted
<1> HIDE DEF anchor
<1> QED
  BY <1>1, <1>2, AnchorWritten

LEMMA ToLineWritten ==
    ASSUME NEW s, Written(s), NEW start \in 0 .. Len(s.text)
    PROVE  Written(ToLine(s, start)) /\ ToLine(s, start).at = s.at
<1> DEFINE column == Column(s.text, s.cursor)
           preferred == Max({s.preferred, column})
           width == LineEnd(s.text, start) - start
           cursor == start + Min({preferred, width})
           t == [s EXCEPT !.preferred = preferred]
<1>1. s.preferred \in Nat /\ s.cursor \in Nat /\ s.text \in Text /\ Len(s.text) \in Nat
  BY WrittenNumbers
<1>2. column \in Nat
  BY <1>1, ColumnProperties
<1> HIDE DEF column
<1>3. preferred \in Nat
  BY <1>1, <1>2, GreaterProperties
<1> HIDE DEF preferred
<1>4. width \in Nat /\ start + width <= Len(s.text)
  <2>1. LineEnd(s.text, start) \in start .. Len(s.text)
    BY <1>1, LineEndProperties
  <2> QED
    BY <1>1, <2>1
<1> HIDE DEF width
<1>5. cursor \in 0 .. Len(s.text)
  <2>1. Min({preferred, width}) = IF preferred <= width THEN preferred ELSE width
    BY <1>3, <1>4, LesserProperties
  <2> QED
    BY <1>1, <1>3, <1>4, <2>1
<1> HIDE DEF cursor
<1>6. ToLine(s, start) = [s EXCEPT !.preferred = preferred, !.cursor = cursor]
  BY DEF ToLine, cursor, preferred, width, column
<1>7. Written(t) /\ t.at = s.at /\ t.text = s.text
  BY <1>3, PreferredWritten
<1>8. ToLine(s, start) = [t EXCEPT !.cursor = cursor]
  BY <1>6
<1> HIDE DEF t
<1> DEFINE u == [t EXCEPT !.cursor = cursor]
<1>9. Written(u) /\ u.at = t.at
  BY <1>5, <1>7, CursorWritten
<1> HIDE DEF u
<1> QED
  BY <1>7, <1>8, <1>9 DEF u

-----------------------------------------------------------------------------
(* One lemma for each action.                                              *)

EditorInv ==
    /\ Written(ed) /\ ed.at \in {"shell", "edit", "menu", "failed", "closed"}
    /\ ed.at = "edit" => Shown(ed)

LEMMA DrawnInv ==
    ASSUME NEW s, Written(s), s.at = "edit", NEW dirty \in BOOLEAN, NEW full \in BOOLEAN,
           dirty \/ full \/ Shown(s), ed' = Draw(s, dirty, full)
    PROVE  EditorInv'
<1> DEFINE t == Draw(s, dirty, full)
<1>1. Written(t) /\ t.at = s.at /\ Shown(t)
  BY DrawShows
<1> HIDE DEF t
<1>2. ed' = t
  BY DEF t
<1>3. Written(ed)' /\ Shown(ed)'
  BY <1>1, <1>2
<1> QED
  BY <1>1, <1>2, <1>3 DEF EditorInv

(* The cursor is put somewhere else.                                       *)
LEMMA MovedInv ==
    ASSUME NEW s, Written(s), s.at = "edit", NEW cursor \in 0 .. Len(s.text),
           ed' = Draw(Preferring([s EXCEPT !.cursor = cursor]), FALSE, TRUE)
    PROVE  EditorInv'
<1> DEFINE t == [s EXCEPT !.cursor = cursor]
           u == Preferring(t)
<1>1. Written(t) /\ t.at = s.at
  BY CursorWritten
<1> HIDE DEF t
<1>2. Written(u) /\ u.at = t.at
  BY <1>1, PreferringWritten
<1>3. ed' = Draw(u, FALSE, TRUE)
  BY DEF t
<1> HIDE DEF u
<1> QED
  BY <1>1, <1>2, <1>3, DrawnInv

(* The text was changed and the place with it.                             *)
LEMMA ChangedInv ==
    ASSUME NEW s, Written(s), s.at = "edit", ed' = Draw(Preferring(s), TRUE, FALSE)
    PROVE  EditorInv'
<1> DEFINE t == Preferring(s)
<1>1. Written(t) /\ t.at = s.at
  BY PreferringWritten
<1> HIDE DEF t
<1>2. ed' = Draw(t, TRUE, FALSE)
  BY DEF t
<1> QED
  BY <1>1, <1>2, DrawnInv

LEMMA EditingBasics ==
    ASSUME EditorInv, Editing
    PROVE  /\ Written(ed) /\ ed.at = "edit" /\ Shown(ed) /\ ed.anchor <= Len(ed.text)
           /\ ed.clip \in Seq(Letters) /\ ed.text \in Text /\ Len(ed.text) \in Nat
           /\ ed.cursor \in 0 .. Len(ed.text) /\ ed.cursor \in Nat
<1>1. Written(ed) /\ ed.at = "edit" /\ Shown(ed) /\ ed.anchor <= Len(ed.text)
  BY DEF EditorInv, Editing
<1>2. ed.clip \in Seq(Letters)
  BY <1>1 DEF Written
<1> QED
  BY <1>1, <1>2, WrittenNumbers

LEMMA TypeStep == ASSUME EditorInv, Type PROVE EditorInv'
<1>1. Editing
  BY DEF Type
<1>2. PICK text \in Seq(Letters) : ed' = Draw(Preferring(InsertText(ed, text)), TRUE, FALSE)
  <2>1. CASE \E c \in Letters : ed' = Draw(Preferring(EditorInsert(ed, c)), TRUE, FALSE)
    <3>1. PICK c \in Letters : ed' = Draw(Preferring(EditorInsert(ed, c)), TRUE, FALSE)
      BY <2>1
    <3>2. <<c>> \in Seq(Letters)
      OBVIOUS
    <3> QED
      BY <3>1, <3>2 DEF EditorInsert
  <2>2. CASE ed' = Draw(Preferring(InsertText(ed, [i \in 1 .. TabSpaces |-> Space])), TRUE, FALSE)
    <3>1. Space \in Letters /\ TabSpaces \in Nat
      BY EditorAssumption DEF Letters
    <3>2. [i \in 1 .. TabSpaces |-> Space] \in Seq(Letters)
      BY <3>1
    <3> QED
      BY <2>2, <3>2
  <2> QED
    BY <2>1, <2>2 DEF Type
<1> DEFINE s == InsertText(ed, text)
<1>3. Written(s) /\ s.at = "edit"
  BY <1>1, EditingBasics, InsertWritten
<1> HIDE DEF s
<1>4. ed' = Draw(Preferring(s), TRUE, FALSE)
  BY <1>2 DEF s
<1> QED
  BY <1>3, <1>4, ChangedInv

LEMMA EraseStep ==
    ASSUME EditorInv, Editing, NEW first \in Int,
           ed' = Draw(Preferring(EraseText(ed, first, first + 1)), TRUE, FALSE)
    PROVE  EditorInv'
<1> DEFINE s == EraseText(ed, first, first + 1)
<1>1. Written(s) /\ s.at = "edit"
  BY EditingBasics, EraseWritten
<1> HIDE DEF s
<1>2. ed' = Draw(Preferring(s), TRUE, FALSE)
  BY DEF s
<1> QED
  BY <1>1, <1>2, ChangedInv

LEMMA BackspaceStep == ASSUME EditorInv, EditorBackspace PROVE EditorInv'
<1>1. Editing
  BY DEF EditorBackspace
<1>2. ed.cursor - 1 \in Int /\ ed.cursor - 1 + 1 = ed.cursor
  BY <1>1, EditingBasics
<1>3. ed' = Draw(Preferring(EraseText(ed, ed.cursor - 1, ed.cursor - 1 + 1)), TRUE, FALSE)
  BY <1>2 DEF EditorBackspace
<1> QED
  BY <1>1, <1>2, <1>3, EraseStep

LEMMA DeleteStep == ASSUME EditorInv, EditorDelete PROVE EditorInv'
<1>1. Editing
  BY DEF EditorDelete
<1>2. ed.cursor \in Int
  BY <1>1, EditingBasics
<1> QED
  BY <1>1, <1>2, EraseStep DEF EditorDelete

LEMMA LeftStep == ASSUME EditorInv, MoveLeft PROVE EditorInv'
<1>1. Editing
  BY DEF MoveLeft
<1>2. PICK shift \in BOOLEAN, word \in BOOLEAN :
          LET to == IF word THEN WordBefore(ed) ELSE Max({0, ed.cursor - 1})
          IN  ed' = Draw(Preferring([Shifted(ed, shift) EXCEPT !.cursor = to]), FALSE, TRUE)
  BY DEF MoveLeft
<1> DEFINE s == Shifted(ed, shift)
           to == IF word THEN WordBefore(ed) ELSE Max({0, ed.cursor - 1})
<1>3. to \in 0 .. Len(ed.text)
  <2>1. WordBefore(ed) \in 0 .. ed.cursor
    BY <1>1, EditingBasics, WordLeftInText
  <2>2. Max({0, ed.cursor - 1}) \in 0 .. ed.cursor
    <3>1. CASE ed.cursor = 0
      <4>1. 0 \in {0, ed.cursor - 1} /\ \A x \in {0, ed.cursor - 1} : 0 >= x
        BY <3>1
      <4>2. Max({0, ed.cursor - 1}) = 0
        BY <3>1, <4>1 DEF Max
      <4> QED
        BY <3>1, <4>2
    <3>2. CASE ed.cursor # 0
      <4>1. ed.cursor - 1 \in Nat /\ ed.cursor \in Nat
        BY <1>1, <3>2, EditingBasics
      <4> QED
        BY <4>1, GreaterProperties
    <3> QED
      BY <3>1, <3>2
  <2> QED
    BY <1>1, <2>1, <2>2, EditingBasics
<1>4. Written(s) /\ s.at = "edit" /\ s.text = ed.text
  BY <1>1, EditingBasics, AnchoredWritten
<1>5. ed' = Draw(Preferring([s EXCEPT !.cursor = to]), FALSE, TRUE)
  BY <1>2
<1> HIDE DEF s, to
<1> QED
  BY <1>3, <1>4, <1>5, MovedInv

LEMMA RightStep == ASSUME EditorInv, MoveRight PROVE EditorInv'
<1>1. Editing
  BY DEF MoveRight
<1>2. PICK shift \in BOOLEAN, word \in BOOLEAN :
          LET to == IF word THEN WordAfter(ed) ELSE Min({Len(ed.text), ed.cursor + 1})
          IN  ed' = Draw(Preferring([Shifted(ed, shift) EXCEPT !.cursor = to]), FALSE, TRUE)
  BY DEF MoveRight
<1> DEFINE s == Shifted(ed, shift)
           to == IF word THEN WordAfter(ed) ELSE Min({Len(ed.text), ed.cursor + 1})
<1>3. to \in 0 .. Len(ed.text)
  <2>1. WordAfter(ed) \in 0 .. Len(ed.text)
    BY <1>1, EditingBasics, WordRightInText
  <2>2. Len(ed.text) \in Nat /\ ed.cursor + 1 \in Nat
    BY <1>1, EditingBasics
  <2>3. Min({Len(ed.text), ed.cursor + 1}) \in 0 .. Len(ed.text)
    BY <2>2, LesserProperties
  <2> QED
    BY <2>1, <2>3
<1>4. Written(s) /\ s.at = "edit" /\ s.text = ed.text
  BY <1>1, EditingBasics, AnchoredWritten
<1>5. ed' = Draw(Preferring([s EXCEPT !.cursor = to]), FALSE, TRUE)
  BY <1>2
<1> HIDE DEF s, to
<1> QED
  BY <1>3, <1>4, <1>5, MovedInv

LEMMA UpOrDownStep == ASSUME EditorInv, MoveVertical PROVE EditorInv'
<1> DEFINE s == Shifted(ed, FALSE)
           start == LineStart(s.text, s.cursor)
           end == LineEnd(s.text, s.cursor)
           up == LineStart(s.text, start - 1)
<1>1. Editing
  BY DEF MoveVertical
<1>2. Written(s) /\ s.at = "edit"
  BY <1>1, EditingBasics, AnchoredWritten
<1>3. \/ ed' = Draw(IF start = 0 THEN s ELSE ToLine(s, up), FALSE, TRUE)
      \/ ed' = Draw(IF end = Len(s.text) THEN s ELSE ToLine(s, end + 1), FALSE, TRUE)
  BY DEF MoveVertical
<1> HIDE DEF s
<1>4. /\ s.cursor \in Nat /\ s.cursor \in 0 .. Len(s.text) /\ s.text \in Text
      /\ Len(s.text) \in Nat
  BY <1>2, WrittenNumbers
<1>5. start \in 0 .. Len(s.text) /\ end \in 0 .. Len(s.text)
  <2>1. start \in 0 .. s.cursor
    BY <1>4, LineStartProperties
  <2>2. end \in s.cursor .. Len(s.text)
    BY <1>4, LineEndProperties
  <2> QED
    BY <1>4, <2>1, <2>2
<1> HIDE DEF start, end
<1>6. PICK t : ed' = Draw(t, FALSE, TRUE) /\ Written(t) /\ t.at = "edit"
  <2>1. CASE ed' = Draw(IF start = 0 THEN s ELSE ToLine(s, up), FALSE, TRUE)
    <3>1. CASE start = 0
      BY <1>2, <2>1, <3>1
    <3>2. CASE start # 0
      <4>1. start - 1 \in Nat
        BY <1>5, <3>2
      <4>2. up \in 0 .. start - 1
        BY <4>1, LineStartProperties
      <4>3. up \in 0 .. Len(s.text)
        BY <1>4, <1>5, <4>2
      <4> HIDE DEF up
      <4>4. Written(ToLine(s, up)) /\ ToLine(s, up).at = s.at
        BY <1>2, <4>3, ToLineWritten
      <4> QED
        BY <1>2, <2>1, <3>2, <4>4
    <3> QED
      BY <3>1, <3>2
  <2>2. CASE ed' = Draw(IF end = Len(s.text) THEN s ELSE ToLine(s, end + 1), FALSE, TRUE)
    <3>1. CASE end = Len(s.text)
      BY <1>2, <2>2, <3>1
    <3>2. CASE end # Len(s.text)
      <4>1. end + 1 \in 0 .. Len(s.text)
        BY <1>4, <1>5, <3>2
      <4>2. Written(ToLine(s, end + 1)) /\ ToLine(s, end + 1).at = s.at
        BY <1>2, <4>1, ToLineWritten
      <4> QED
        BY <1>2, <2>2, <3>2, <4>2
    <3> QED
      BY <3>1, <3>2
  <2> QED
    BY <1>3, <2>1, <2>2
<1> QED
  BY <1>6, DrawnInv

LEMMA HomeOrEndStep == ASSUME EditorInv, MoveHomeOrEnd PROVE EditorInv'
<1> DEFINE s == Shifted(ed, FALSE)
<1>1. Editing
  BY DEF MoveHomeOrEnd
<1>2. Written(s) /\ s.at = "edit" /\ s.text = ed.text
  BY <1>1, EditingBasics, AnchoredWritten
<1>3. PICK to \in {LineStart(ed.text, ed.cursor), LineEnd(ed.text, ed.cursor)} :
          ed' = Draw(Preferring([s EXCEPT !.cursor = to]), FALSE, TRUE)
  BY DEF MoveHomeOrEnd
<1> HIDE DEF s
<1>4. to \in 0 .. Len(ed.text)
  <2>1. LineStart(ed.text, ed.cursor) \in 0 .. ed.cursor
    BY <1>1, EditingBasics, LineStartProperties
  <2>2. LineEnd(ed.text, ed.cursor) \in ed.cursor .. Len(ed.text)
    BY <1>1, EditingBasics, LineEndProperties
  <2> QED
    BY <1>1, <1>3, <2>1, <2>2, EditingBasics
<1> QED
  BY <1>2, <1>3, <1>4, MovedInv

LEMMA ClipWritten ==
    ASSUME NEW s, Written(s), NEW clip \in Seq(Letters)
    PROVE  LET t == [s EXCEPT !.clip = clip]
           IN  Written(t) /\ t.at = s.at /\ (Shown(s) => Shown(t))
<1> DEFINE t == [s EXCEPT !.clip = clip]
<1>1. Written(t) /\ t.at = s.at
  BY DEF Written
<1>2. /\ t.text = s.text /\ t.cursor = s.cursor /\ t.anchor = s.anchor /\ t.scroll = s.scroll
      /\ t.title = s.title /\ t.modified = s.modified /\ t.screen = s.screen
  BY DEF Written
<1> HIDE DEF t
<1>3. \A r : SelectedColumns(t, r) = SelectedColumns(s, r)
  BY <1>2, SameSelected
<1>4. Shown(s) => Shown(t)
  BY <1>2, <1>3 DEF Shown
<1> QED
  BY <1>1, <1>4 DEF t

(* Copying draws nothing but the selection.                                *)
LEMMA CopyStep == ASSUME EditorInv, CopySelection PROVE EditorInv'
<1> DEFINE first == SelectionStart(ed)
           last == SelectionEnd(ed)
           clip == SubSeq(ed.text, first + 1, last)
           s == [ed EXCEPT !.clip = clip]
<1>1. Editing /\ ed.anchor # None
  BY DEF CopySelection, HasSelection
<1>2. ed.anchor \in Nat /\ ed.anchor <= Len(ed.text) /\ ed.cursor \in 0 .. Len(ed.text)
      /\ Len(ed.text) \in Nat /\ ed.text \in Seq(Letters)
  BY <1>1, EditingBasics, WrittenNumbers DEF None
<1>3. first = (IF ed.anchor <= ed.cursor THEN ed.anchor ELSE ed.cursor)
      /\ last = (IF ed.anchor >= ed.cursor THEN ed.anchor ELSE ed.cursor)
  BY <1>2, LesserProperties, GreaterProperties DEF SelectionStart, SelectionEnd
<1> HIDE DEF first, last
<1>4. clip \in Seq(Letters)
  <2>1. first + 1 \in 1 .. last + 1 /\ last \in 0 .. Len(ed.text)
    BY <1>2, <1>3
  <2> QED
    BY <1>2, <2>1, SubSeqProperties
<1> HIDE DEF clip
<1>5. Written(s) /\ s.at = "edit" /\ Shown(s)
  BY <1>1, <1>4, EditingBasics, ClipWritten
<1>6. ed' = Draw(s, FALSE, FALSE)
  BY DEF CopySelection, clip, first, last
<1> HIDE DEF s
<1> QED
  BY <1>5, <1>6, DrawnInv

LEMMA PasteStep == ASSUME EditorInv, PasteClipboard PROVE EditorInv'
<1> DEFINE s == IF HasSelection(ed) THEN EraseSelection(ed) ELSE ed
           t == InsertText(s, ed.clip)
<1>1. Editing
  BY DEF PasteClipboard
<1>2. Written(s) /\ s.at = "edit" /\ s.anchor <= Len(s.text)
  <2>1. CASE HasSelection(ed)
    <3> DEFINE u == EraseSelection(ed)
    <3>1. Written(u) /\ u.at = "edit" /\ u.anchor = None
      BY <1>1, <2>1, EditingBasics, EraseSelectionWritten DEF HasSelection
    <3> HIDE DEF u
    <3>2. Len(u.text) \in Nat
      BY <3>1, WrittenNumbers
    <3>3. s = u
      BY <2>1 DEF u
    <3> HIDE DEF s
    <3> QED
      BY <3>1, <3>2, <3>3, NoneIsAnchor
  <2>2. CASE ~ HasSelection(ed)
    BY <1>1, <2>2, EditingBasics
  <2> QED
    BY <2>1, <2>2
<1>3. ed' = Draw(t, TRUE, TRUE)
  BY DEF PasteClipboard
<1> HIDE DEF s
<1>4. Written(t) /\ t.at = "edit"
  BY <1>1, <1>2, EditingBasics, InsertWritten
<1> HIDE DEF t
<1> QED
  BY <1>3, <1>4, DrawnInv

LEMMA AtWritten ==
    ASSUME NEW s, Written(s), NEW at
    PROVE  LET t == [s EXCEPT !.at = at]
           IN  Written(t) /\ t.at = at /\ t.text = s.text /\ t.file = s.file
BY DEF Written

LEMMA OpenStep == ASSUME EditorInv, OpenFile PROVE EditorInv'
<1> DEFINE s == [ed EXCEPT !.at = "edit"]
           t == [s EXCEPT !.text = ed.file, !.cursor = Len(ed.file)]
<1>1. Written(s) /\ s.at = "edit" /\ ed.file \in Seq(Letters)
  BY AtWritten DEF EditorInv, Written
<1>2. \/ Len(ed.file) <= MaxText /\ ed' = Draw(t, TRUE, TRUE)
      \/ ed' = Draw(s, TRUE, TRUE)
  BY DEF OpenFile
<1> HIDE DEF s
<1>3. CASE Len(ed.file) <= MaxText /\ ed' = Draw(t, TRUE, TRUE)
  <2>1. ed.file \in Text /\ Len(ed.file) \in 0 .. Len(ed.file)
    BY <1>1, <1>3 DEF Text
  <2>2. t = Replace(s, ed.file, Len(ed.file))
    BY DEF Replace
  <2>3. Written(t) /\ t.at = "edit"
    <3> HIDE DEF t
    <3> QED
      BY <1>1, <2>1, <2>2, TextWritten
  <2> HIDE DEF t
  <2> QED
    BY <1>3, <2>3, DrawnInv
<1>4. CASE ed' = Draw(s, TRUE, TRUE)
  BY <1>1, <1>4, DrawnInv
<1> QED
  BY <1>2, <1>3, <1>4

LEMMA CancelStep == ASSUME EditorInv, Cancel PROVE EditorInv'
<1> DEFINE s == [ed EXCEPT !.at = "edit"]
<1>1. Written(s) /\ s.at = "edit"
  BY AtWritten DEF EditorInv
<1>2. ed' = Draw(s, TRUE, TRUE)
  BY DEF Cancel
<1> HIDE DEF s
<1> QED
  BY <1>1, <1>2, DrawnInv

(* What does not end in the text area.                                     *)
LEMMA MenuStep == ASSUME EditorInv, Escape \/ Close \/ Save PROVE EditorInv'
<1>1. Written(ed)
  BY DEF EditorInv
<1>2. PICK at \in {"menu", "closed", "failed"} :
          \/ ed' = [ed EXCEPT !.at = at]
          \/ ed' = [ed EXCEPT !.at = at, !.file = ed.text, !.modified = FALSE]
  BY DEF Escape, Close, Save
<1>3. Written(ed') /\ ed'.at = at
  <2>1. CASE ed' = [ed EXCEPT !.at = at]
    BY <1>1, <2>1, AtWritten
  <2>2. CASE ed' = [ed EXCEPT !.at = at, !.file = ed.text, !.modified = FALSE]
    <3>1. ed.text \in Seq(Letters)
      BY <1>1, WrittenNumbers
    <3> QED
      BY <1>1, <2>2, <3>1 DEF Written
  <2> QED
    BY <1>2, <2>1, <2>2
<1>4. Written(ed)'
  BY <1>3
<1> QED
  BY <1>2, <1>3, <1>4 DEF EditorInv

LEMMA InitInv == ASSUME EditorInit PROVE EditorInv
<1>1. PICK file \in Files, clip \in Clipboards :
          ed = [at |-> "shell", file |-> file, clip |-> clip, text |-> <<>>, cursor |-> 0,
                anchor |-> None, preferred |-> 0, scroll |-> 0, modified |-> FALSE,
                title |-> FALSE, drawn |-> None,
                screen |-> [r \in 1 .. Rows |-> [text |-> <<>>, marked |-> {}]]]
  BY DEF EditorInit
<1>2. file \in Seq(Letters) /\ clip \in Seq(Letters)
  BY EditorAssumption DEF Letters
<1>3. <<>> \in Text /\ 0 \in 0 .. Len(<<>>) /\ None \in None .. MaxText
  BY EmptyText, NoneIsAnchor
<1>4. /\ DOMAIN ed = {"at", "file", "clip", "text", "cursor", "anchor", "preferred", "scroll",
                      "modified", "title", "drawn", "screen"}
      /\ ed.at = "shell" /\ ed.file = file /\ ed.clip = clip /\ ed.text = <<>>
      /\ ed.cursor = 0 /\ ed.anchor = None /\ ed.preferred = 0 /\ ed.scroll = 0
      /\ ed.screen = [r \in 1 .. Rows |-> [text |-> <<>>, marked |-> {}]]
  BY <1>1
<1>5. \A r \in 1 .. Rows : DOMAIN ed.screen[r] = {"text", "marked"}
  BY <1>4
<1>6. Written(ed)
  BY <1>2, <1>3, <1>4, <1>5 DEF Written
<1> QED
  BY <1>4, <1>6 DEF EditorInv

-----------------------------------------------------------------------------
(* Between two keys of editor_app_run the buffer, the cursor, the column   *)
(* that is preferred and the row scrolled to are within their bounds, and  *)
(* draw_editor has put on the screen what there is to see.                 *)
THEOREM EditorInvariant == EditorSpec => []EditorInv
<1>1. EditorInit => EditorInv
  BY InitInv
<1>2. EditorInv /\ [EditorNext]_ed => EditorInv'
  <2> SUFFICES ASSUME EditorInv, [EditorNext]_ed PROVE EditorInv'
    OBVIOUS
  <2>1. CASE EditorNext
    BY <2>1, OpenStep, TypeStep, BackspaceStep, DeleteStep, LeftStep, RightStep, UpOrDownStep,
       HomeOrEndStep, CopyStep, PasteStep, CancelStep, MenuStep DEF EditorNext
  <2>2. CASE UNCHANGED ed
    BY <2>2 DEF EditorInv
  <2> QED
    BY <2>1, <2>2
<1> QED
  BY <1>1, <1>2, PTL DEF EditorSpec

(* The buffer of the editor never holds more than EDITOR_MAX_TEXT, and the *)
(* cursor is a place in it, whatever is typed, pasted and deleted.         *)
THEOREM EditorTypesHold == EditorSpec => []EditorTypes
<1>1. EditorInv => EditorTypes
  <2> SUFFICES ASSUME EditorInv PROVE EditorTypes
    OBVIOUS
  <2>1. Written(ed) /\ ed.at \in {"shell", "edit", "menu", "failed", "closed"}
    BY DEF EditorInv
  <2>2. ed.text \in Seq(Letters) /\ Len(ed.text) <= MaxText /\ ed.cursor \in 0 .. Len(ed.text)
        /\ ed.anchor \in None .. MaxText
    BY <2>1, WrittenNumbers
  <2> QED
    BY <2>1, <2>2 DEF EditorTypes
<1> QED
  BY <1>1, EditorInvariant, PTL

(* Whatever is typed, moved, pasted, scrolled and answered to the exit     *)
(* menu: when draw_editor is done the rows on the screen are those of the  *)
(* text, what is selected is marked, and the title is right.               *)
THEOREM ScreenIsRight == EditorSpec => []ScreenShowsText
<1>1. EditorInv => ScreenShowsText
  BY DEF EditorInv, Shown, ScreenShowsText
<1> QED
  BY <1>1, EditorInvariant, PTL
=============================================================================
