---------------------------- MODULE Fat32Proofs ----------------------------
(***************************************************************************)
(* For a volume, a cluster and a directory of any size, any names and any  *)
(* payloads: whatever fails, what an entry names is allocated, complete    *)
(* and its own, until an operation is cut short after it has freed         *)
(* clusters that an entry still names.                                     *)
(*                                                                         *)
(* The invariant says of every single link, entry and register what the    *)
(* next write relies on, and nothing of whole chains but that a file and   *)
(* the chain an operation builds are long enough.  It is written with the  *)
(* table f, the directories s and the set gone of the entries whose        *)
(* clusters are being freed as parameters, so that the lemmas about one    *)
(* write speak of the volume before and after it.                          *)
(***************************************************************************)
EXTENDS Fat32, SequenceTheorems, FiniteSetTheorems, WellFoundedInduction, TLAPS

EntryAt(s, e) == s[e[1]][e[2]]

(* What a reader takes for a file or a directory.                          *)
Holds(entry) == entry.kind \in {"file", "dir"} /\ entry.name \notin {".", ".."}

(* The entries whose clusters are theirs.                                  *)
Valid(s, gone) == {e \in Cluster \X Slot : Holds(EntryAt(s, e)) /\ e \notin gone}

(* The first cluster of a chain.                                           *)
Starts(f, h) == h \in Cluster /\ f[h] # Unused /\ \A c \in Cluster : f[c] # h

(* p is n clusters of a chain, one behind the other.                       *)
Along(f, p, n) == p \in [0 .. n - 1 -> Cluster] /\ \A j \in 0 .. n - 2 : f[p[j]] = p[j + 1]

Long(f, first, n) == \E p : Along(f, p, n) /\ (n > 0 => p[0] = first)

Reaches(f, first, c, n) == \E p : Along(f, p, n) /\ p[0] = first /\ p[n - 1] = c

Dots(s, c, parent) ==
    /\ s[c][1] = Entry("dir", ".", c, 0)
    /\ s[c][2] = Entry("dir", "..", parent, 0)

(* No link leads to an unused cluster, and no two to the same.             *)
TableSound(f) ==
    /\ \A c \in Cluster : f[c] \in Cluster => f[f[c]] # Unused
    /\ \A c, d \in Cluster : f[c] \in Cluster /\ f[c] = f[d] => c = d
    /\ Starts(f, Root)

SlotsSound(s) ==
    \A c \in Cluster, i \in Slot :
        /\ s[c][i].kind = "end" => s[c][i] = End
        /\ s[c][i].kind = "deleted" => s[c][i] = Deleted
        /\ s[c][i].kind = "label" => s[c][i].name = VolumeLabel

HeadsSound(f, s, gone) ==
    /\ \A e \in Valid(s, gone) :
          LET h == EntryAt(s, e).cluster IN h \in Cluster => Starts(f, h) /\ h # Root
    /\ \A e, d \in Valid(s, gone) :
          EntryAt(s, e).cluster \in Cluster /\ EntryAt(s, e).cluster = EntryAt(s, d).cluster
              => e = d

FilesSound(f, s, gone) ==
    \A e \in Valid(s, gone) :
        EntryAt(s, e).kind = "file" => Long(f, EntryAt(s, e).cluster, Needed(EntryAt(s, e).size))

DirsSound(s, gone) ==
    \A e \in Valid(s, gone) :
        EntryAt(s, e).kind = "dir" =>
            EntryAt(s, e).cluster \in Cluster /\ Dots(s, EntryAt(s, e).cluster, e[1])

VolumeSound(f, s, gone) ==
    /\ TableSound(f) /\ SlotsSound(s)
    /\ HeadsSound(f, s, gone) /\ FilesSound(f, s, gone) /\ DirsSound(s, gone)

(* The head of a chain that no entry names.                                *)
Mine(f, s, gone, h) ==
    Starts(f, h) /\ h # Root /\ \A e \in Valid(s, gone) : EntryAt(s, e).cluster # h

DirOK(s, gone, dir) ==
    \/ dir = Root
    \/ \E e \in Valid(s, gone) :
          e[1] = Root /\ EntryAt(s, e).kind = "dir" /\ EntryAt(s, e).cluster = dir

(* The slot the operation is about, and whether it lost its clusters.      *)
Target == <<call.dir, reg.slot>>

Gone == IF freed THEN {Target} ELSE {}

Total == Final(call.op, reg.size, call.payload)

(* The chain the operation builds is that of the entry, or a new one.      *)
HeadOK ==
    \/ /\ ~freed /\ call.op = "append" /\ reg.first \in Cluster
       /\ At(Target).cluster = reg.first /\ At(Target).size = reg.size
    \/ Mine(fat, slots, Gone, reg.first)

EntryType ==
    [kind : {"end", "deleted", "file", "dir", "label"},
     name : Names \cup {".", "..", NoName, VolumeLabel},
     cluster : {0} \cup Cluster, size : 0 .. MaxFileBytes]

SlotsType == [Cluster -> [Slot -> EntryType]]

FatType == [Cluster -> {Unused, EndOfChain} \cup Cluster]

Ops == {"none", "touch", "write", "append", "mkdir", "rm", "rmdir"}

CallType ==
    [op : Ops, path : Names \cup {"/", NoName}, dir : Cluster, name : Names \cup {NoName},
     payload : Payloads \cup {<<>>}]

RegType ==
    [slot : Slot, size : 0 .. MaxFileBytes, first : {0} \cup Cluster,
     cluster : {Unused, EndOfChain} \cup Cluster, next : {0} \cup Cluster,
     left : Nat, written : Int, guard : Nat]

Steps == {"idle", "create", "mkdir", "dots", "free", "first", "extend", "link", "trim",
          "data", "entry", "mark"}

Typed ==
    /\ fat \in FatType /\ slots \in SlotsType
    /\ pc \in Steps /\ call \in CallType /\ reg \in RegType
    /\ freed \in BOOLEAN /\ health \in {"sound", "leaky", "tainted"}
    /\ pc = "idle" => ~freed /\ call = NoCall /\ reg = NoReg
    /\ pc # "idle" => call.name \in Names
    /\ pc \in {"extend", "link", "free", "trim"} => reg.cluster \in Cluster
    /\ pc \in {"extend", "link", "dots"} => reg.first \in Cluster
    /\ pc = "link" => reg.next \in Cluster /\ reg.left > 0
    /\ Total <= MaxFileBytes

(* What a creation relies on: a new directory is initialised.              *)
CreateSound ==
    /\ pc \in {"create", "mkdir", "dots"} =>
          ~freed /\ reg.size = 0 /\ call.op \in {"touch", "write", "append", "mkdir"}
    /\ pc = "create" =>
          IF call.op = "mkdir" THEN Mine(fat, slots, Gone, reg.first) /\ Dots(slots, reg.first, call.dir)
                               ELSE reg.first = 0
    /\ pc \in {"mkdir", "dots"} => call.op = "mkdir"
    /\ pc = "dots" => Mine(fat, slots, Gone, reg.first)

(* What the freeing of a chain relies on: nobody else names the rest.      *)
FreeSound ==
    /\ freed => call.op \in {"write", "rm", "rmdir"}
    /\ pc = "free" =>
          /\ call.op \in {"write", "rm", "rmdir"}
          /\ IF freed THEN Mine(fat, slots, Gone, reg.cluster)
                      ELSE At(Target).cluster = reg.cluster
    /\ pc = "mark" => call.op \in {"rm", "rmdir"}
    /\ pc = "trim" =>
          /\ call.op = "append" /\ reg.cluster # reg.first
          /\ Mine(fat, slots, Gone, reg.cluster)

(* What a write relies on: the chain is there, as far as it has got.       *)
ChainSound ==
    /\ pc \in {"first", "extend", "link", "trim", "data", "entry"} =>
          call.op \in {"write", "append"}
    /\ pc \in {"first", "extend", "link", "trim"} => Total > 0
    /\ pc = "first" => reg.left = Needed(Total) - 1
    /\ pc \in {"extend", "link"} =>
          /\ HeadOK /\ reg.left < Needed(Total)
          /\ Reaches(fat, reg.first, reg.cluster, Needed(Total) - reg.left)
          /\ call.op = "write" => fat[reg.cluster] = EndOfChain
    /\ pc = "link" =>
          /\ Mine(fat, slots, Gone, reg.next) /\ reg.next \notin {reg.first, reg.cluster}
          /\ fat[reg.next] = EndOfChain /\ fat[reg.cluster] = EndOfChain
    /\ pc \in {"trim", "data", "entry"} =>
          IF Total = 0 THEN reg.first = 0 ELSE HeadOK /\ Long(fat, reg.first, Needed(Total))

Working == {"free", "first", "extend", "link", "trim", "data", "entry", "mark"}

TargetSound ==
    /\ pc # "idle" => DirOK(slots, Gone, call.dir)
    /\ pc \in Working =>
          /\ Holds(At(Target))
          /\ At(Target).kind = IF call.op = "rmdir" THEN "dir" ELSE "file"

Sound ==
    /\ VolumeSound(fat, slots, Gone)
    /\ TargetSound /\ CreateSound /\ FreeSound /\ ChainSound

Inv == Typed /\ (health # "tainted" => Sound)

-----------------------------------------------------------------------------
(* Numbers.                                                                *)

LEMMA SlotFacts == Slot \subseteq Nat \ {0} /\ {1, 2} \subseteq Slot
<1>1. SectorsPerCluster \in Nat /\ SectorsPerCluster >= 1 /\ SlotsPerSector \in Nat /\ SlotsPerSector >= 3
  BY Fat32Assumption
<1>2. SectorsPerCluster * SlotsPerSector \in Nat /\ SectorsPerCluster * SlotsPerSector >= 3
  <2> DEFINE a == SectorsPerCluster - 1
  <2>1. a \in Nat /\ SectorsPerCluster = a + 1
    BY <1>1
  <2>2. a * SlotsPerSector \in Nat
    BY <1>1, <2>1
  <2>3. SectorsPerCluster * SlotsPerSector = a * SlotsPerSector + SlotsPerSector
    BY <1>1, <2>1
  <2> QED
    BY <1>1, <2>2, <2>3
<1> QED
  BY <1>2 DEF Slot

LEMMA ClusterFacts ==
    /\ Cluster \subseteq Nat /\ Root \in Cluster
    /\ Unused \notin Cluster /\ EndOfChain \notin Cluster /\ Unused # EndOfChain /\ 0 \notin Cluster
BY Fat32Assumption DEF Cluster, Root, Unused, EndOfChain

LEMMA Times ==
    ASSUME NEW a \in Nat, NEW b \in Nat, NEW k \in Nat, a > b
    PROVE  a * k >= b * k + k
<1> DEFINE d == a - b - 1
<1>1. d \in Nat /\ a = b + 1 + d
  OBVIOUS
<1>2. d * k \in Nat
  BY <1>1
<1>3. a * k = b * k + k + d * k
  BY <1>1
<1> QED
  BY <1>2, <1>3

LEMMA NeededFacts ==
    ASSUME NEW m \in Nat, NEW n \in Nat, m <= n
    PROVE  /\ Needed(n) \in Nat
           /\ Needed(0) = 0
           /\ n > 0 => Needed(n) > 0
           /\ Needed(m) <= Needed(n)
<1>1. ClusterBytes \in Nat /\ ClusterBytes > 0
  BY Fat32Assumption
<1>2. \A x \in Nat : Needed(x) \in Nat /\ Needed(x) * ClusterBytes <= x + ClusterBytes - 1
                     /\ x + ClusterBytes - 1 < Needed(x) * ClusterBytes + ClusterBytes
  BY <1>1 DEF Needed
<1>3. \A x, y \in Nat : x > y => x * ClusterBytes >= y * ClusterBytes + ClusterBytes
  BY <1>1, Times
<1>4. Needed(m) \in Nat /\ Needed(n) \in Nat /\ Needed(m) <= Needed(n)
  <2> DEFINE a == Needed(m) * ClusterBytes
             b == Needed(n) * ClusterBytes
  <2>1. a \in Nat /\ b \in Nat /\ a <= m + ClusterBytes - 1 /\ n + ClusterBytes - 1 < b + ClusterBytes
    BY <1>1, <1>2
  <2>2. Needed(m) > Needed(n) => a >= b + ClusterBytes
    BY <1>2, <1>3
  <2> HIDE DEF a, b
  <2> QED
    BY <1>1, <1>2, <2>1, <2>2
<1>5. Needed(0) = 0
  <2>1. Needed(0) > 0 => Needed(0) * ClusterBytes >= 0 * ClusterBytes + ClusterBytes
    BY <1>2, <1>3
  <2> QED
    BY <1>1, <1>2, <2>1
<1>6. n > 0 => Needed(n) > 0
  <2>1. Needed(n) = 0 => Needed(n) * ClusterBytes = 0
    BY <1>1
  <2> QED
    BY <1>1, <1>2, <2>1
<1> QED
  BY <1>4, <1>5, <1>6
-----------------------------------------------------------------------------
(* Chains.                                                                 *)

(* Every set of numbers has a least one.                                   *)
LEMMA LeastExists ==
    ASSUME NEW S \in SUBSET Nat, S # {}
    PROVE  \E m \in S : \A n \in S : m <= n
<1> DEFINE F == {0 .. n : n \in S}
<1>1. IsWellFoundedOn(StrictSubsetOrdering(Nat), FiniteSubsetsOf(Nat))
  BY FS_StrictSubsetOrderingWellFounded
<1>2. F \subseteq FiniteSubsetsOf(Nat) /\ F # {}
  <2>1. \A n \in S : 0 .. n \in SUBSET Nat /\ IsFiniteSet(0 .. n)
    BY FS_Interval
  <2> QED
    BY <2>1 DEF FiniteSubsetsOf
<1>3. PICK T \in F : \A U \in F : <<U, T>> \notin StrictSubsetOrdering(Nat)
  <2> HIDE DEF F
  <2> QED
    BY <1>1, <1>2, WFMin
<1>4. PICK m \in S : T = 0 .. m
  OBVIOUS
<1>5. ASSUME NEW n \in S, ~ (m <= n) PROVE FALSE
  <2>1. n \in Nat /\ m \in Nat /\ n < m /\ m \in 0 .. m /\ m \notin 0 .. n
    BY <1>5
  <2>2. <<0 .. n, 0 .. m>> \in StrictSubsetOrdering(Nat)
    BY <2>1 DEF StrictSubsetOrdering
  <2> QED
    BY <1>3, <1>4, <2>2
<1> QED
  BY <1>5

(* Two chains that meet have the same first cluster, and meet at the same  *)
(* distance from it.                                                       *)
LEMMA ChainsMeet ==
    ASSUME NEW f, TableSound(f), NEW m \in Nat, NEW n \in Nat, NEW p, NEW q,
           Along(f, p, m), Along(f, q, n), Starts(f, p[0]), Starts(f, q[0]),
           NEW i \in 0 .. m - 1, NEW j \in 0 .. n - 1, p[i] = q[j]
    PROVE  i = j /\ p[0] = q[0]
<1> DEFINE S == {a \in 0 .. m - 1 :
                    \E b \in 0 .. n - 1 : p[a] = q[b] /\ ~(a = b /\ p[0] = q[0])}
<1>1. SUFFICES ASSUME S # {} PROVE FALSE
  OBVIOUS
<1>2. PICK a \in S : \A x \in S : a <= x
  <2>1. S \in SUBSET Nat
    OBVIOUS
  <2> HIDE DEF S
  <2> QED
    BY <1>1, <2>1, LeastExists
<1>3. PICK b \in 0 .. n - 1 : p[a] = q[b] /\ ~(a = b /\ p[0] = q[0])
  OBVIOUS
<1>4. /\ a \in 0 .. m - 1
      /\ \A x \in 0 .. m - 1 : p[x] \in Cluster /\ (x > 0 => f[p[x - 1]] = p[x] /\ p[x - 1] \in Cluster)
      /\ \A x \in 0 .. n - 1 : q[x] \in Cluster /\ (x > 0 => f[q[x - 1]] = q[x] /\ q[x - 1] \in Cluster)
  <2>1. \A x \in 0 .. m - 1 : x > 0 => x - 1 \in 0 .. m - 2 /\ (x - 1) + 1 = x /\ x - 1 \in 0 .. m - 1
    OBVIOUS
  <2>2. \A x \in 0 .. n - 1 : x > 0 => x - 1 \in 0 .. n - 2 /\ (x - 1) + 1 = x /\ x - 1 \in 0 .. n - 1
    OBVIOUS
  <2>3. /\ p \in [0 .. m - 1 -> Cluster] /\ \A x \in 0 .. m - 2 : f[p[x]] = p[x + 1]
        /\ q \in [0 .. n - 1 -> Cluster] /\ \A x \in 0 .. n - 2 : f[q[x]] = q[x + 1]
    BY DEF Along
  <2> QED
    BY <2>1, <2>2, <2>3
<1>5. CASE a = 0
  BY <1>3, <1>4, <1>5 DEF Starts
<1>6. CASE b = 0
  BY <1>3, <1>4, <1>6 DEF Starts
<1>7. CASE a > 0 /\ b > 0
  <2>1. p[a - 1] = q[b - 1]
    BY <1>3, <1>4, <1>7 DEF TableSound
  <2>2. a - 1 \in 0 .. m - 1 /\ b - 1 \in 0 .. n - 1 /\ ~(a - 1 = b - 1 /\ p[0] = q[0])
    BY <1>3, <1>4, <1>7
  <2>3. a - 1 \in S
    BY <2>1, <2>2
  <2> QED
    BY <1>2, <1>4, <2>3
<1> QED
  BY <1>4, <1>5, <1>6, <1>7

(* A change to one cluster leaves the chains that do not go through it.    *)
LEMMA AlongKept ==
    ASSUME NEW f, NEW g, NEW c, NEW n \in Nat, NEW p, Along(f, p, n),
           \A d \in Cluster : d # c => g[d] = f[d],
           \A j \in 0 .. n - 2 : p[j] # c
    PROVE  Along(g, p, n)
<1>1. \A j \in 0 .. n - 2 : j \in 0 .. n - 1
  OBVIOUS
<1> QED
  BY <1>1 DEF Along
-----------------------------------------------------------------------------
(* One write, and the entries it does not touch.                           *)

(* An entry from before, with its chain and its dots.                      *)
SameEntry(g, s, t, gone, e) ==
    LET h == EntryAt(s, e).cluster
    IN  /\ e \in Valid(s, gone) /\ EntryAt(t, e) = EntryAt(s, e)
        /\ h \in Cluster => Starts(g, h)
        /\ EntryAt(s, e).kind = "file" => Long(g, h, Needed(EntryAt(s, e).size))
        /\ EntryAt(s, e).kind = "dir" => t[h][1] = s[h][1] /\ t[h][2] = s[h][2]

(* An entry for a chain that no other names.                               *)
NewEntry(g, s, t, others, x) ==
    LET h == EntryAt(t, x).cluster
    IN  /\ h \in Cluster =>
              /\ Starts(g, h) /\ h # Root
              /\ \A e \in others : EntryAt(s, e).cluster # h
        /\ EntryAt(t, x).kind = "file" => Long(g, h, Needed(EntryAt(t, x).size))
        /\ EntryAt(t, x).kind = "dir" => h \in Cluster /\ Dots(t, h, x[1])

(* A volume stays sound when the entries left are those from before, and   *)
(* perhaps a new one.                                                      *)
LEMMA Frame ==
    ASSUME NEW f, NEW s, NEW gone, NEW g, NEW t, NEW left, NEW x,
           HeadsSound(f, s, gone), FilesSound(f, s, gone), DirsSound(s, gone),
           \A e \in Valid(t, left) \ {x} : SameEntry(g, s, t, gone, e),
           x \in Valid(t, left) => NewEntry(g, s, t, Valid(t, left) \ {x}, x)
    PROVE  HeadsSound(g, t, left) /\ FilesSound(g, t, left) /\ DirsSound(t, left)
<1>1. HeadsSound(g, t, left)
  <2>1. ASSUME NEW e \in Valid(t, left), EntryAt(t, e).cluster \in Cluster
        PROVE  Starts(g, EntryAt(t, e).cluster) /\ EntryAt(t, e).cluster # Root
    BY <2>1 DEF HeadsSound, SameEntry, NewEntry
  <2>2. ASSUME NEW e \in Valid(t, left), NEW d \in Valid(t, left), EntryAt(t, e).cluster \in Cluster,
               EntryAt(t, e).cluster = EntryAt(t, d).cluster
        PROVE  e = d
    BY <2>2 DEF HeadsSound, SameEntry, NewEntry
  <2> QED
    BY <2>1, <2>2 DEF HeadsSound
<1>2. FilesSound(g, t, left)
  BY DEF FilesSound, SameEntry, NewEntry
<1>3. DirsSound(t, left)
  <2>1. ASSUME NEW e \in Valid(t, left), EntryAt(t, e).kind = "dir", e # x
        PROVE  EntryAt(t, e).cluster \in Cluster /\ Dots(t, EntryAt(t, e).cluster, e[1])
    BY <2>1 DEF DirsSound, Dots, SameEntry
  <2> QED
    BY <2>1 DEF DirsSound, NewEntry
<1> QED
  BY <1>1, <1>2, <1>3

LEMMA FrameSame ==
    ASSUME NEW f, NEW s, NEW gone, NEW g, NEW t, NEW left,
           HeadsSound(f, s, gone), FilesSound(f, s, gone), DirsSound(s, gone),
           \A e \in Valid(t, left) : SameEntry(g, s, t, gone, e)
    PROVE  HeadsSound(g, t, left) /\ FilesSound(g, t, left) /\ DirsSound(t, left)
<1> DEFINE x == <<0, 0>>
<1>1. x \notin Valid(t, left)
  BY ClusterFacts DEF Valid
<1> HIDE DEF x
<1> QED
  BY <1>1, Frame

(* A cluster is taken: the table.                                          *)
LEMMA AllocateTable ==
    ASSUME NEW f \in FatType, TableSound(f), NEW c \in Cluster, f[c] = Unused,
           NEW g, g[c] = EndOfChain, \A d \in Cluster : d # c => g[d] = f[d]
    PROVE  /\ TableSound(g) /\ Starts(g, c) /\ g[c] = EndOfChain
           /\ \A h : Starts(f, h) => h # c /\ Starts(g, h) /\ g[h] = f[h]
           /\ \A p, n : n \in Nat /\ Along(f, p, n) => Along(g, p, n)
<1>1. /\ g[c] = EndOfChain /\ EndOfChain \notin Cluster /\ EndOfChain # Unused
      /\ Unused \notin Cluster /\ \A d \in Cluster : d # c => g[d] = f[d]
  BY ClusterFacts DEF FatType
<1>2. \A h : Starts(f, h) => h # c /\ Starts(g, h) /\ g[h] = f[h]
  BY <1>1 DEF Starts
<1>3. Starts(g, c)
  BY <1>1 DEF Starts, TableSound
<1>4. TableSound(g)
  <2>1. ASSUME NEW d \in Cluster, g[d] \in Cluster PROVE g[d] = f[d] /\ g[g[d]] # Unused
    BY <1>1, <2>1 DEF TableSound
  <2>2. ASSUME NEW d \in Cluster, NEW e \in Cluster, g[d] \in Cluster, g[d] = g[e] PROVE d = e
    BY <1>1, <2>1, <2>2 DEF TableSound
  <2> QED
    BY <1>2, <2>1, <2>2 DEF TableSound
<1>5. ASSUME NEW p, NEW n \in Nat, Along(f, p, n) PROVE Along(g, p, n)
  <2>1. ASSUME NEW j \in 0 .. n - 2, p[j] = c PROVE FALSE
    <3>1. j + 1 \in 0 .. n - 1
      OBVIOUS
    <3> QED
      BY <1>1, <1>5, <2>1, <3>1 DEF Along
  <2>2. \A d \in Cluster : d # c => g[d] = f[d]
    BY <1>1
  <2> QED
    BY <1>5, <2>1, <2>2, AlongKept
<1> QED
  BY <1>1, <1>2, <1>3, <1>4, <1>5

(* A cluster is taken and cleared: the volume.                             *)
LEMMA AllocateVolume ==
    ASSUME NEW f \in FatType, NEW s \in SlotsType, NEW gone, VolumeSound(f, s, gone),
           NEW c \in Cluster, f[c] = Unused,
           NEW g, g[c] = EndOfChain, \A d \in Cluster : d # c => g[d] = f[d],
           NEW t, t[c] = NoSlots, \A d \in Cluster : d # c => t[d] = s[d]
    PROVE  /\ VolumeSound(g, t, gone)
           /\ Mine(g, t, gone, c)
           /\ \A h : Mine(f, s, gone, h) => h # c /\ Mine(g, t, gone, h)
           /\ \A d : DirOK(s, gone, d) => d # c /\ DirOK(t, gone, d)
<1>1. /\ TableSound(g) /\ Starts(g, c)
      /\ \A h : Starts(f, h) => h # c /\ Starts(g, h)
      /\ \A p, n : n \in Nat /\ Along(f, p, n) => Along(g, p, n)
  BY AllocateTable DEF VolumeSound
<1>2. \A d \in Cluster : d # c => t[d] = s[d]
  OBVIOUS
<1>3. t[c] = NoSlots /\ \A i \in Slot : t[c][i] = End
  BY DEF NoSlots
<1>4. \A e \in Valid(t, gone) : e[1] # c /\ e \in Valid(s, gone) /\ EntryAt(t, e) = EntryAt(s, e)
  BY <1>2, <1>3 DEF Valid, EntryAt, Holds, End, Entry
<1>5. \A e \in Valid(s, gone) : e[1] # c => e \in Valid(t, gone) /\ EntryAt(t, e) = EntryAt(s, e)
  BY <1>2 DEF Valid, EntryAt, Holds
<1>6. HeadsSound(f, s, gone) /\ FilesSound(f, s, gone) /\ DirsSound(s, gone) /\ SlotsSound(s)
  BY DEF VolumeSound
<1>7. \A h, n : n \in Nat /\ Long(f, h, n) => Long(g, h, n)
  BY <1>1 DEF Long
<1>8. \A e \in Valid(s, gone) : Needed(EntryAt(s, e).size) \in Nat
  <2>1. \A e \in Valid(s, gone) : EntryAt(s, e).size \in Nat
    BY Fat32Assumption DEF Valid, EntryAt, SlotsType, EntryType
  <2> QED
    BY <2>1, NeededFacts
<1>9. HeadsSound(g, t, gone) /\ FilesSound(g, t, gone) /\ DirsSound(t, gone)
  <2>1. ASSUME NEW e \in Valid(t, gone) PROVE SameEntry(g, s, t, gone, e)
    BY <1>1, <1>2, <1>4, <1>6, <1>7, <1>8 DEF HeadsSound, FilesSound, DirsSound, SameEntry
  <2> QED
    BY <1>6, <2>1, FrameSame
<1>10. SlotsSound(t)
  BY <1>2, <1>3, <1>6 DEF SlotsSound, End, Entry
<1>11. VolumeSound(g, t, gone)
  BY <1>1, <1>9, <1>10 DEF VolumeSound
<1>12. Mine(g, t, gone, c)
  BY <1>1, <1>4, <1>6 DEF Mine, HeadsSound, VolumeSound, TableSound
<1>13. ASSUME NEW h, Mine(f, s, gone, h) PROVE h # c /\ Mine(g, t, gone, h)
  BY <1>1, <1>4, <1>13 DEF Mine
<1>14. ASSUME NEW d, DirOK(s, gone, d) PROVE d # c /\ DirOK(t, gone, d)
  <2>1. Root # c
    BY <1>1 DEF VolumeSound, TableSound
  <2>2. CASE d = Root
    BY <2>1, <2>2 DEF DirOK
  <2>3. CASE d # Root
    <3>1. PICK e \in Valid(s, gone) :
              e[1] = Root /\ EntryAt(s, e).kind = "dir" /\ EntryAt(s, e).cluster = d
      BY <1>14, <2>3 DEF DirOK
    <3>2. e \in Valid(t, gone) /\ EntryAt(t, e) = EntryAt(s, e)
      BY <1>5, <2>1, <3>1
    <3>3. d # c
      BY <1>1, <1>6, <3>1 DEF HeadsSound, DirsSound
    <3> QED
      BY <3>1, <3>2, <3>3 DEF DirOK
  <2> QED
    BY <2>2, <2>3
<1> QED
  BY <1>11, <1>12, <1>13, <1>14
(* The size of an entry is one whose clusters can be counted.              *)
LEMMA Sizes ==
    ASSUME NEW s \in SlotsType, NEW gone, NEW e \in Valid(s, gone)
    PROVE  EntryAt(s, e).size \in Nat /\ Needed(EntryAt(s, e).size) \in Nat
<1>1. EntryAt(s, e).size \in Nat
  BY Fat32Assumption DEF Valid, EntryAt, SlotsType, EntryType
<1> QED
  BY <1>1, NeededFacts

(* The first cluster of a chain that no entry names is freed.              *)
LEMMA ReleaseVolume ==
    ASSUME NEW f \in FatType, NEW s \in SlotsType, NEW gone, VolumeSound(f, s, gone),
           NEW h, Mine(f, s, gone, h),
           NEW g, g[h] = Unused, \A d \in Cluster : d # h => g[d] = f[d]
    PROVE  /\ VolumeSound(g, s, gone)
           /\ \A d : Mine(f, s, gone, d) /\ d # h => Mine(g, s, gone, d)
           /\ f[h] \in Cluster => Mine(g, s, gone, f[h]) /\ \A d : Starts(f, d) => d # f[h]
           /\ \A d, n : n \in Nat /\ Long(f, d, n) /\ d # h => Long(g, d, n)
<1>1. /\ h \in Cluster /\ g[h] = Unused /\ \A d \in Cluster : d # h => g[d] = f[d]
      /\ Unused \notin Cluster /\ \A d \in Cluster : f[d] # h
  BY ClusterFacts DEF FatType, Mine, Starts
<1>2. TableSound(f) /\ HeadsSound(f, s, gone) /\ FilesSound(f, s, gone) /\ DirsSound(s, gone)
      /\ SlotsSound(s)
  BY DEF VolumeSound
<1>3. \A d : Starts(f, d) /\ d # h => Starts(g, d)
  BY <1>1 DEF Starts
<1>4. TableSound(g)
  <2>1. ASSUME NEW d \in Cluster, g[d] \in Cluster PROVE g[d] = f[d] /\ g[g[d]] # Unused
    BY <1>1, <1>2, <2>1 DEF TableSound
  <2>2. ASSUME NEW d \in Cluster, NEW e \in Cluster, g[d] \in Cluster, g[d] = g[e] PROVE d = e
    BY <1>1, <1>2, <2>1, <2>2 DEF TableSound
  <2>3. Starts(g, Root)
    BY <1>2, <1>3 DEF TableSound, Mine
  <2> QED
    BY <2>1, <2>2, <2>3 DEF TableSound
<1>5. ASSUME NEW d, NEW n \in Nat, Long(f, d, n), d # h PROVE Long(g, d, n)
  <2>1. PICK p : Along(f, p, n) /\ (n > 0 => p[0] = d)
    BY <1>5 DEF Long
  <2>2. ASSUME NEW j \in 0 .. n - 2, p[j] = h PROVE FALSE
    <3>1. CASE j = 0
      BY <1>5, <2>1, <2>2, <3>1
    <3>2. CASE j > 0
      <4>1. j - 1 \in 0 .. n - 2 /\ j - 1 \in 0 .. n - 1 /\ (j - 1) + 1 = j
        BY <3>2
      <4> QED
        BY <1>1, <2>1, <2>2, <4>1 DEF Along
    <3> QED
      BY <3>1, <3>2
  <2>3. \A e \in Cluster : e # h => g[e] = f[e]
    BY <1>1
  <2>4. Along(g, p, n)
    BY <2>1, <2>2, <2>3, AlongKept
  <2> QED
    BY <2>1, <2>4 DEF Long
<1>6. HeadsSound(g, s, gone) /\ FilesSound(g, s, gone) /\ DirsSound(s, gone)
  <2>1. \A e \in Valid(s, gone) : EntryAt(s, e).cluster # h /\ Needed(EntryAt(s, e).size) \in Nat
    BY Sizes DEF Mine
  <2>2. ASSUME NEW e \in Valid(s, gone) PROVE SameEntry(g, s, s, gone, e)
    BY <1>2, <1>3, <1>5, <2>1 DEF HeadsSound, FilesSound, SameEntry
  <2> QED
    BY <1>2, <2>2, FrameSame
<1>7. \A d : Mine(f, s, gone, d) /\ d # h => Mine(g, s, gone, d)
  BY <1>3 DEF Mine
<1>8. ASSUME f[h] \in Cluster PROVE Mine(g, s, gone, f[h]) /\ \A d : Starts(f, d) => d # f[h]
  <2>1. \A d : Starts(f, d) => d # f[h]
    BY <1>1 DEF Starts
  <2>2. Starts(g, f[h])
    <3>1. f[f[h]] # Unused /\ f[h] # h
      BY <1>1, <1>2, <1>8 DEF TableSound
    <3>2. \A c \in Cluster : g[c] # f[h]
      BY <1>1, <1>2, <1>8 DEF TableSound
    <3> QED
      BY <1>1, <1>8, <3>1, <3>2 DEF Starts
  <2> QED
    BY <1>2, <1>8, <2>1, <2>2 DEF Mine, HeadsSound, TableSound
<1> QED
  BY <1>2, <1>4, <1>5, <1>6, <1>7, <1>8 DEF VolumeSound

(* A chain is cut behind its cluster n.                                    *)
LEMMA CutVolume ==
    ASSUME NEW f \in FatType, NEW s \in SlotsType, NEW gone, VolumeSound(f, s, gone),
           NEW first, Starts(f, first), NEW c, NEW n \in Nat, n > 0, Reaches(f, first, c, n),
           \A e \in Valid(s, gone) :
               EntryAt(s, e).cluster = first => Needed(EntryAt(s, e).size) <= n,
           first # Root,
           NEW g, g[c] = EndOfChain, \A d \in Cluster : d # c => g[d] = f[d]
    PROVE  /\ VolumeSound(g, s, gone)
           /\ \A d : Mine(f, s, gone, d) => Mine(g, s, gone, d)
           /\ Long(g, first, n)
           /\ f[c] \in Cluster => Mine(g, s, gone, f[c]) /\ \A d : Starts(f, d) => d # f[c]
<1>1. PICK p : Along(f, p, n) /\ p[0] = first /\ p[n - 1] = c
  BY DEF Reaches
<1>2. c \in Cluster /\ g[c] = EndOfChain /\ EndOfChain \notin Cluster /\ EndOfChain # Unused
      /\ \A d \in Cluster : d # c => g[d] = f[d]
  <2>1. n - 1 \in 0 .. n - 1
    OBVIOUS
  <2> QED
    BY <1>1, <2>1, ClusterFacts DEF Along, FatType
<1>3. TableSound(f) /\ HeadsSound(f, s, gone) /\ FilesSound(f, s, gone) /\ DirsSound(s, gone)
      /\ SlotsSound(s)
  BY DEF VolumeSound
<1>4. \A d : Starts(f, d) => Starts(g, d)
  BY <1>2 DEF Starts
<1>5. TableSound(g)
  <2>1. ASSUME NEW d \in Cluster, g[d] \in Cluster PROVE g[d] = f[d] /\ g[g[d]] # Unused
    BY <1>2, <1>3, <2>1 DEF TableSound
  <2>2. ASSUME NEW d \in Cluster, NEW e \in Cluster, g[d] \in Cluster, g[d] = g[e] PROVE d = e
    BY <1>2, <1>3, <2>1, <2>2 DEF TableSound
  <2> QED
    BY <1>3, <1>4, <2>1, <2>2 DEF TableSound
<1>6. ASSUME NEW d, NEW m \in Nat, Starts(f, d), Long(f, d, m), d = first => m <= n
      PROVE  Long(g, d, m)
  <2>1. PICK q : Along(f, q, m) /\ (m > 0 => q[0] = d)
    BY <1>6 DEF Long
  <2>2. ASSUME NEW j \in 0 .. m - 2, q[j] = c PROVE FALSE
    <3>1. j \in 0 .. m - 1 /\ n - 1 \in 0 .. n - 1 /\ m > 0
      OBVIOUS
    <3>2. n - 1 = j /\ p[0] = q[0]
      BY <1>1, <1>3, <1>6, <2>1, <2>2, <3>1, ChainsMeet
    <3> QED
      BY <1>1, <1>6, <2>1, <3>1, <3>2
  <2>3. \A e \in Cluster : e # c => g[e] = f[e]
    BY <1>2
  <2>4. Along(g, q, m)
    BY <2>1, <2>2, <2>3, AlongKept
  <2> QED
    BY <2>1, <2>4 DEF Long
<1>7. Long(f, first, n)
  BY <1>1 DEF Long
<1>8. ASSUME NEW d, Long(f, d, 0) PROVE Long(g, d, 0)
  <2>1. PICK q : Along(f, q, 0)
    BY <1>8 DEF Long
  <2>2. Along(g, q, 0)
    BY <2>1 DEF Along
  <2> QED
    BY <2>2 DEF Long
<1>9. HeadsSound(g, s, gone) /\ FilesSound(g, s, gone) /\ DirsSound(s, gone)
  <2>1. \A e \in Valid(s, gone) : Needed(EntryAt(s, e).size) \in Nat
    BY Sizes
  <2>2. \A e \in Valid(s, gone) : EntryAt(s, e).cluster \in Cluster =>
            Starts(f, EntryAt(s, e).cluster) /\ Starts(g, EntryAt(s, e).cluster)
    BY <1>3, <1>4 DEF HeadsSound
  <2>3. ASSUME NEW e \in Valid(s, gone), EntryAt(s, e).kind = "file"
        PROVE  Long(g, EntryAt(s, e).cluster, Needed(EntryAt(s, e).size))
    <3> DEFINE h == EntryAt(s, e).cluster
               m == Needed(EntryAt(s, e).size)
    <3> SUFFICES Long(g, h, m)
      OBVIOUS
    <3>1. Long(f, h, m) /\ m \in Nat
      BY <1>3, <2>1, <2>3 DEF FilesSound
    <3>2. CASE h \in Cluster
      <4>1. Starts(f, h) /\ (h = first => m <= n)
        BY <2>2, <3>2
      <4> HIDE DEF h, m
      <4> QED
        BY <1>6, <3>1, <4>1, Zenon
    <3>3. CASE h \notin Cluster
      <4> HIDE DEF h, m
      <4>1. m = 0
        <5>1. PICK q : Along(f, q, m) /\ (m > 0 => q[0] = h)
          BY <3>1 DEF Long
        <5>2. m > 0 => 0 \in 0 .. m - 1
          BY <3>1
        <5> QED
          BY <3>1, <3>3, <5>1, <5>2 DEF Along
      <4> QED
        BY <1>8, <3>1, <4>1
    <3> QED
      BY <3>2, <3>3
  <2>4. ASSUME NEW e \in Valid(s, gone) PROVE SameEntry(g, s, s, gone, e)
    BY <2>2, <2>3 DEF SameEntry
  <2> QED
    BY <1>3, <2>4, FrameSame
<1>10. \A d : Mine(f, s, gone, d) => Mine(g, s, gone, d)
  BY <1>4 DEF Mine
<1>11. ASSUME f[c] \in Cluster PROVE Mine(g, s, gone, f[c]) /\ \A d : Starts(f, d) => d # f[c]
  <2>1. \A d : Starts(f, d) => d # f[c]
    BY <1>2 DEF Starts
  <2>2. Starts(g, f[c])
    <3>1. g[f[c]] # Unused
      BY <1>2, <1>3, <1>11 DEF TableSound
    <3>2. \A d \in Cluster : g[d] # f[c]
      BY <1>2, <1>3, <1>11 DEF TableSound
    <3> QED
      BY <1>11, <3>1, <3>2 DEF Starts
  <2> QED
    BY <1>3, <1>11, <2>1, <2>2 DEF Mine, HeadsSound, TableSound
<1>12. Long(g, first, n)
  <2>1. first = first => n <= n
    OBVIOUS
  <2> QED
    BY <1>6, <1>7, <2>1, Zenon
<1> QED
  BY <1>3, <1>5, <1>9, <1>10, <1>11, <1>12 DEF VolumeSound
(* A chain of one's own is put behind the end of another.                  *)
LEMMA LinkVolume ==
    ASSUME NEW f \in FatType, NEW s \in SlotsType, NEW gone, VolumeSound(f, s, gone),
           NEW first, NEW c, f[c] = EndOfChain,
           NEW n \in Nat, n > 0, Reaches(f, first, c, n),
           NEW d, Mine(f, s, gone, d),
           NEW g, g[c] = d, \A e \in Cluster : e # c => g[e] = f[e]
    PROVE  /\ VolumeSound(g, s, gone)
           /\ \A h : Mine(f, s, gone, h) /\ h # d => Mine(g, s, gone, h)
           /\ Reaches(g, first, d, n + 1)
<1>1. PICK p : Along(f, p, n) /\ p[0] = first /\ p[n - 1] = c
  BY DEF Reaches
<1>2. /\ c \in Cluster /\ g[c] = d /\ \A e \in Cluster : e # c => g[e] = f[e]
      /\ EndOfChain \notin Cluster /\ EndOfChain # Unused /\ Unused \notin Cluster
  <2>1. n - 1 \in 0 .. n - 1
    OBVIOUS
  <2> QED
    BY <1>1, <2>1, ClusterFacts DEF Along, FatType
<1>3. TableSound(f) /\ HeadsSound(f, s, gone) /\ FilesSound(f, s, gone) /\ DirsSound(s, gone)
      /\ SlotsSound(s)
  BY DEF VolumeSound
<1>4. d \in Cluster /\ f[d] # Unused /\ d # Root /\ \A e \in Cluster : f[e] # d
  BY DEF Mine, Starts
<1>5. \A h : Starts(f, h) /\ h # d => Starts(g, h)
  BY <1>2, <1>4 DEF Starts
<1>6. TableSound(g)
  <2>1. ASSUME NEW e \in Cluster, g[e] \in Cluster PROVE g[g[e]] # Unused
    <3>1. CASE e = c
      BY <1>2, <1>4, <3>1
    <3>2. CASE e # c
      BY <1>2, <1>3, <1>4, <2>1, <3>2 DEF TableSound
    <3> QED
      BY <3>1, <3>2
  <2>2. ASSUME NEW e \in Cluster, NEW h \in Cluster, g[e] \in Cluster, g[e] = g[h] PROVE e = h
    BY <1>2, <1>3, <1>4, <2>2 DEF TableSound
  <2> QED
    BY <1>3, <1>4, <1>5, <2>1, <2>2 DEF TableSound
<1>7. ASSUME NEW m \in Nat, NEW q, Along(f, q, m) PROVE Along(g, q, m)
  <2>1. ASSUME NEW j \in 0 .. m - 2, q[j] = c PROVE FALSE
    <3>1. j + 1 \in 0 .. m - 1
      OBVIOUS
    <3> QED
      BY <1>2, <1>7, <2>1, <3>1 DEF Along
  <2>2. \A e \in Cluster : e # c => g[e] = f[e]
    BY <1>2
  <2> QED
    BY <1>7, <2>1, <2>2, AlongKept
<1>8. HeadsSound(g, s, gone) /\ FilesSound(g, s, gone) /\ DirsSound(s, gone)
  <2>1. \A h, m : m \in Nat /\ Long(f, h, m) => Long(g, h, m)
    BY <1>7 DEF Long
  <2>2. ASSUME NEW e \in Valid(s, gone) PROVE SameEntry(g, s, s, gone, e)
    BY <1>3, <1>5, <2>1, Sizes DEF HeadsSound, FilesSound, Mine, SameEntry
  <2> QED
    BY <1>3, <2>2, FrameSame
<1>9. \A h : Mine(f, s, gone, h) /\ h # d => Mine(g, s, gone, h)
  BY <1>5 DEF Mine
<1>10. Reaches(g, first, d, n + 1)
  <2> DEFINE q == [j \in 0 .. n |-> IF j < n THEN p[j] ELSE d]
  <2>1. Along(g, p, n)
    BY <1>1, <1>7
  <2>2. /\ q \in [0 .. n -> Cluster]
        /\ \A j \in 0 .. n - 1 : q[j] = p[j] /\ q[n] = d /\ j \in 0 .. n
    BY <1>4, <2>1 DEF Along
  <2>3. ASSUME NEW j \in 0 .. n - 1 PROVE g[q[j]] = q[j + 1]
    <3>1. CASE j = n - 1
      BY <1>1, <1>2, <2>2, <3>1
    <3>2. CASE j # n - 1
      <4>1. j \in 0 .. n - 2 /\ j + 1 \in 0 .. n - 1
        BY <3>2
      <4> HIDE DEF q
      <4> QED
        BY <2>1, <2>2, <4>1 DEF Along
    <3> QED
      BY <3>1, <3>2
  <2>4. (n + 1) - 1 = n /\ (n + 1) - 2 = n - 1 /\ 0 \in 0 .. n - 1
    OBVIOUS
  <2> HIDE DEF q
  <2>5. Along(g, q, n + 1)
    BY <2>2, <2>3, <2>4 DEF Along
  <2> QED
    BY <1>1, <2>2, <2>4, <2>5 DEF Reaches
<1> QED
  BY <1>3, <1>6, <1>8, <1>9, <1>10 DEF VolumeSound

(* One slot of a directory is written.                                     *)
LEMMA SlotVolume ==
    ASSUME NEW f \in FatType, NEW s \in SlotsType, NEW x \in Cluster \X Slot, NEW gone \in SUBSET {x},
           NEW left, \A e : e \notin left,
           VolumeSound(f, s, gone), EntryAt(s, x).name \notin {".", ".."},
           NEW entry \in EntryType, NEW t, EntryAt(t, x) = entry,
           \A e \in Cluster \X Slot : e # x => EntryAt(t, e) = EntryAt(s, e),
           entry.kind \in {"file", "dir"} \/ entry = Deleted,
           Holds(entry) =>
               /\ entry.cluster \in Cluster =>
                     /\ Starts(f, entry.cluster) /\ entry.cluster # Root
                     /\ \A e \in Valid(s, gone) \ {x} : EntryAt(s, e).cluster # entry.cluster
               /\ entry.kind = "file" => Long(f, entry.cluster, Needed(entry.size))
               /\ entry.kind = "dir" => entry.cluster \in Cluster /\ Dots(s, entry.cluster, x[1])
    PROVE  /\ VolumeSound(f, t, left)
           /\ \A d : DirOK(s, gone, d) /\ x \notin Valid(s, gone) => DirOK(t, left, d)
<1>1. /\ x[1] \in Cluster /\ x[2] \in Slot
      /\ EntryAt(t, x) = entry
      /\ \A e \in Cluster \X Slot : e # x => EntryAt(t, e) = EntryAt(s, e)
  OBVIOUS
<1>2. HeadsSound(f, s, gone) /\ FilesSound(f, s, gone) /\ DirsSound(s, gone) /\ SlotsSound(s)
      /\ TableSound(f)
  BY DEF VolumeSound
<1>3. \A e \in Valid(t, left) \ {x} : e \in Valid(s, gone) \ {x} /\ EntryAt(t, e) = EntryAt(s, e)
  BY <1>1 DEF Valid
<1>4. \A e \in Valid(s, gone) \ {x} : e \in Valid(t, left) /\ EntryAt(t, e) = EntryAt(s, e)
  BY <1>1 DEF Valid
<1>5. ASSUME NEW h \in Cluster, NEW parent, Dots(s, h, parent)
      PROVE  t[h][1] = s[h][1] /\ t[h][2] = s[h][2]
  <2>1. s[h][1].name = "." /\ s[h][2].name = ".."
    BY <1>5 DEF Dots, Entry
  <2>2. <<h, 1>> \in Cluster \X Slot /\ <<h, 2>> \in Cluster \X Slot
    BY SlotFacts
  <2>3. <<h, 1>> # x /\ <<h, 2>> # x
    BY <2>1 DEF EntryAt
  <2>4. EntryAt(t, <<h, 1>>) = EntryAt(s, <<h, 1>>) /\ EntryAt(t, <<h, 2>>) = EntryAt(s, <<h, 2>>)
    BY <1>1, <2>2, <2>3
  <2> QED
    BY <2>4 DEF EntryAt
<1>6. HeadsSound(f, t, left) /\ FilesSound(f, t, left) /\ DirsSound(t, left)
  <2>1. ASSUME NEW e \in Valid(t, left) \ {x} PROVE SameEntry(f, s, t, gone, e)
    BY <1>2, <1>3, <1>5 DEF HeadsSound, FilesSound, DirsSound, SameEntry
  <2>2. ASSUME x \in Valid(t, left) PROVE NewEntry(f, s, t, Valid(t, left) \ {x}, x)
    <3>1. Holds(entry)
      BY <1>1, <2>2 DEF Valid
    <3>2. entry.kind = "dir" => Dots(t, entry.cluster, x[1])
      BY <1>5, <3>1 DEF Dots
    <3> QED
      BY <1>1, <1>3, <3>1, <3>2 DEF NewEntry
  <2> QED
    BY <1>2, <2>1, <2>2, Frame
<1>7. SlotsSound(t)
  <2>1. ASSUME NEW c \in Cluster, NEW i \in Slot
        PROVE  t[c][i] = s[c][i] \/ t[c][i] = entry
    <3>1. EntryAt(t, <<c, i>>) = t[c][i] /\ EntryAt(s, <<c, i>>) = s[c][i] /\ EntryAt(t, x) = entry
      BY <1>1 DEF EntryAt
    <3> QED
      BY <1>1, <3>1
  <2>2. entry.kind = "deleted" => entry = Deleted
    OBVIOUS
  <2>3. entry.kind \notin {"end", "label"}
    BY DEF Deleted, Entry
  <2> QED
    BY <1>2, <2>1, <2>2, <2>3 DEF SlotsSound
<1>8. ASSUME NEW d, DirOK(s, gone, d), x \notin Valid(s, gone) PROVE DirOK(t, left, d)
  BY <1>4, <1>8 DEF DirOK
<1> QED
  BY <1>2, <1>6, <1>7, <1>8 DEF VolumeSound

(* A directory cluster is initialised before an entry names it.            *)
LEMMA DotsVolume ==
    ASSUME NEW f \in FatType, NEW s \in SlotsType, NEW left, \A e : e \notin left,
           VolumeSound(f, s, left), NEW c, Mine(f, s, left, c),
           NEW parent, NEW t, \A d \in Cluster : d # c => t[d] = s[d],
           Dots(t, c, parent), \A i \in Slot \ {1, 2} : t[c][i] = End
    PROVE  /\ VolumeSound(f, t, left) /\ Mine(f, t, left, c)
           /\ \A d : DirOK(s, left, d) => DirOK(t, left, d)
<1>1. c \in Cluster /\ c # Root /\ Starts(f, c) /\ \A e \in Valid(s, left) : EntryAt(s, e).cluster # c
  BY DEF Mine, Starts
<1>2. \A d \in Cluster : d # c => t[d] = s[d]
  OBVIOUS
<1>3. /\ t[c][1] = Entry("dir", ".", c, 0) /\ t[c][2] = Entry("dir", "..", parent, 0)
      /\ \A i \in Slot \ {1, 2} : t[c][i] = End
  BY DEF Dots
<1>4. \A i \in Slot : ~Holds(t[c][i]) /\ t[c][i].kind # "label" /\ t[c][i].kind # "deleted"
                      /\ (t[c][i].kind = "end" => t[c][i] = End)
  <2>1. ~Holds(End) /\ End.kind = "end"
    BY DEF Holds, End, Entry
  <2>2. \A i \in {1, 2} : ~Holds(t[c][i]) /\ t[c][i].kind = "dir"
    BY <1>3 DEF Holds, Entry
  <2> QED
    BY <1>3, <2>1, <2>2
<1>5. HeadsSound(f, s, left) /\ FilesSound(f, s, left) /\ DirsSound(s, left) /\ SlotsSound(s)
      /\ TableSound(f)
  BY DEF VolumeSound
<1>6. \A e \in Valid(t, left) : e[1] # c /\ e \in Valid(s, left) /\ EntryAt(t, e) = EntryAt(s, e)
  BY <1>2, <1>4 DEF Valid, EntryAt
<1>7. \A e \in Valid(s, left) : e[1] # c => e \in Valid(t, left) /\ EntryAt(t, e) = EntryAt(s, e)
  BY <1>2 DEF Valid, EntryAt
<1>8. HeadsSound(f, t, left) /\ FilesSound(f, t, left) /\ DirsSound(t, left)
  <2>1. ASSUME NEW e \in Valid(t, left) PROVE SameEntry(f, s, t, left, e)
    BY <1>1, <1>2, <1>5, <1>6 DEF HeadsSound, FilesSound, DirsSound, SameEntry
  <2> QED
    BY <1>5, <2>1, FrameSame
<1>9. SlotsSound(t)
  <2>1. ASSUME NEW d \in Cluster, NEW i \in Slot
        PROVE  /\ t[d][i].kind = "end" => t[d][i] = End
               /\ t[d][i].kind = "deleted" => t[d][i] = Deleted
               /\ t[d][i].kind = "label" => t[d][i].name = VolumeLabel
    <3>1. CASE d = c
      BY <1>4, <3>1
    <3>2. CASE d # c
      BY <1>2, <1>5, <3>2 DEF SlotsSound
    <3> QED
      BY <3>1, <3>2
  <2> QED
    BY <2>1 DEF SlotsSound
<1>10. Mine(f, t, left, c)
  BY <1>1, <1>6 DEF Mine
<1>11. ASSUME NEW d, DirOK(s, left, d) PROVE DirOK(t, left, d)
  BY <1>1, <1>7, <1>11 DEF DirOK
<1> QED
  BY <1>5, <1>8, <1>9, <1>10, <1>11 DEF VolumeSound
-----------------------------------------------------------------------------
(* What the operations find, and types.                                    *)

LEMMA PayloadFacts ==
    ASSUME NEW payload \in Payloads \cup {<<>>}
    PROVE  Len(payload) \in Nat /\ Len(payload) <= MaxFileBytes
<1>1. CASE payload \in Payloads
  <2>1. payload \in Seq(STRING) /\ Len(payload) <= MaxFileBytes
    BY <1>1, Fat32Assumption
  <2> QED
    BY <2>1
<1>2. CASE payload = <<>>
  BY <1>2, Fat32Assumption
<1> QED
  BY <1>1, <1>2

(* A search finds an entry of that name, or the slot a new one goes to.    *)
LEMMA FindFacts ==
    ASSUME slots \in SlotsType, NEW dir \in Cluster, NEW n
    PROVE  /\ Find(dir, n).status = "found" =>
                /\ Find(dir, n).slot \in Slot
                /\ Found(dir, n) # End /\ Found(dir, n) # Deleted /\ Found(dir, n).name = n
           /\ Find(dir, n).status = "free" =>
                Find(dir, n).slot \in Slot /\ slots[dir][Find(dir, n).slot] \in {End, Deleted}
<1> DEFINE hits == {i \in InUse(dir) : slots[dir][i] # Deleted /\ slots[dir][i].name = n}
           free == {i \in Slot : slots[dir][i] = End}
                    \cup {i \in InUse(dir) : slots[dir][i] = Deleted}
<1>1. ASSUME NEW S \in SUBSET Slot, S # {} PROVE Least(S) \in S
  <2>1. \E m \in S : \A x \in S : m <= x
    <3>1. S \in SUBSET Nat
      BY SlotFacts
    <3> QED
      BY <1>1, <3>1, LeastExists
  <2> QED
    BY <2>1 DEF Least
<1>2. InUse(dir) \subseteq Slot /\ \A i \in InUse(dir) : slots[dir][i] # End
  <2>1. \A i \in Slot : i \in 1 .. i
    BY SlotFacts
  <2> QED
    BY <2>1 DEF InUse
<1>3. hits \in SUBSET Slot /\ free \in SUBSET Slot
  BY <1>2
<1>4. CASE hits # {}
  <2>1. Find(dir, n) = [status |-> "found", slot |-> Least(hits)]
    BY <1>4 DEF Find
  <2>2. Least(hits) \in hits
    BY <1>1, <1>3, <1>4
  <2> DEFINE m == Least(hits)
  <2>3. m \in Slot /\ slots[dir][m] # End /\ slots[dir][m] # Deleted /\ slots[dir][m].name = n
    BY <1>2, <2>2
  <2> HIDE DEF m, hits, free
  <2>4. Find(dir, n).status = "found" /\ Find(dir, n).slot = m
    BY <2>1 DEF m
  <2> QED
    BY <2>3, <2>4 DEF Found
<1>5. CASE hits = {} /\ InUse(dir) = Slot
  <2>1. Find(dir, n) = [status |-> "failed", slot |-> 1]
    BY <1>5 DEF Find
  <2> QED
    BY <2>1
<1>6. CASE hits = {} /\ InUse(dir) # Slot
  <2>1. Find(dir, n) = [status |-> "free", slot |-> Least(free)]
    BY <1>6 DEF Find
  <2>2. free # {}
    <3>1. PICK i \in Slot : ~ \A j \in 1 .. i : slots[dir][j] # End
      BY <1>2, <1>6 DEF InUse
    <3>2. PICK j \in 1 .. i : slots[dir][j] = End
      BY <3>1
    <3>3. j \in Slot
      BY <3>1, SlotFacts, Fat32Assumption DEF Slot
    <3> QED
      BY <3>2, <3>3
  <2>3. Least(free) \in free
    BY <1>1, <1>3, <2>2
  <2> DEFINE m == Least(free)
  <2>4. m \in Slot /\ slots[dir][m] \in {End, Deleted}
    BY <1>3, <2>3
  <2> HIDE DEF m, hits, free
  <2>5. Find(dir, n).status = "free" /\ Find(dir, n).slot = m
    BY <2>1 DEF m
  <2> QED
    BY <2>4, <2>5
<1> QED
  BY <1>4, <1>5, <1>6

LEMMA FoundFacts ==
    ASSUME slots \in SlotsType, SlotsSound(slots), NEW dir \in Cluster, NEW n \in Names,
           Find(dir, n).status = "found"
    PROVE  /\ <<dir, Find(dir, n).slot>> \in Cluster \X Slot
           /\ EntryAt(slots, <<dir, Find(dir, n).slot>>) = Found(dir, n)
           /\ Holds(Found(dir, n)) /\ Found(dir, n) \in EntryType
<1>1. /\ Find(dir, n).slot \in Slot
      /\ Found(dir, n) # End /\ Found(dir, n) # Deleted /\ Found(dir, n).name = n
  BY FindFacts
<1>2. Found(dir, n) \in EntryType
  BY <1>1 DEF SlotsType, Found
<1>3. /\ Found(dir, n).kind # "end" /\ Found(dir, n).kind # "deleted"
      /\ Found(dir, n).kind = "label" => n = VolumeLabel
  BY <1>1 DEF SlotsSound, Found
<1>4. n \notin {".", "..", VolumeLabel}
  BY Fat32Assumption
<1> QED
  BY <1>1, <1>2, <1>3, <1>4 DEF EntryType, EntryAt, Holds, Found

LEMMA ParentFacts ==
    ASSUME slots \in SlotsType, NEW gone, \A e : e \notin gone, VolumeSound(fat, slots, gone),
           NEW p \in Parents
    PROVE  p.cluster \in Cluster /\ p.path \in Names \cup {"/"} /\ DirOK(slots, gone, p.cluster)
<1>1. CASE p = [path |-> "/", cluster |-> Root]
  BY <1>1, ClusterFacts DEF DirOK
<1>2. CASE p # [path |-> "/", cluster |-> Root]
  <2>1. PICK m \in Names : /\ Find(Root, m).status = "found" /\ Found(Root, m).kind = "dir"
                           /\ p = [path |-> m, cluster |-> Found(Root, m).cluster]
    BY <1>2 DEF Parents
  <2> DEFINE e == <<Root, Find(Root, m).slot>>
  <2>2. e \in Cluster \X Slot /\ EntryAt(slots, e) = Found(Root, m) /\ Holds(Found(Root, m))
    BY <2>1, ClusterFacts, FoundFacts DEF VolumeSound
  <2>3. e \in Valid(slots, gone) /\ e[1] = Root
    BY <2>2 DEF Valid
  <2> HIDE DEF e
  <2>4. EntryAt(slots, e).cluster \in Cluster
    BY <2>1, <2>2, <2>3 DEF VolumeSound, DirsSound
  <2> QED
    BY <2>1, <2>2, <2>3, <2>4 DEF DirOK
<1> QED
  BY <1>1, <1>2

LEMMA Ends == End \in EntryType /\ Deleted \in EntryType /\ NoSlots \in [Slot -> EntryType]
BY Fat32Assumption DEF End, Deleted, Entry, EntryType, NoSlots

LEMMA Beginnings == NoReg \in RegType /\ NoCall \in CallType
BY Fat32Assumption, ClusterFacts, SlotFacts DEF NoReg, NoCall, RegType, CallType, Ops, Unused

(* An operation that ends leaves the registers as they were at first.      *)
LEMMA FinishTyped ==
    ASSUME Finish, fat' \in FatType, slots' \in SlotsType,
           health' \in {"sound", "leaky", "tainted"}
    PROVE  Typed'
<1>1. pc' = "idle" /\ call' = NoCall /\ reg' = NoReg /\ freed' = FALSE
  BY DEF Finish
<1>2. Total' = 0
  BY <1>1 DEF Total, Final, Base, NoCall, NoReg
<1> QED
  <2>1. pc' \in Steps /\ Total' <= MaxFileBytes
    BY <1>1, <1>2, Fat32Assumption DEF Steps
  <2>2. ~freed' /\ freed' \in BOOLEAN
    BY <1>1
  <2>3. call' \in CallType /\ reg' \in RegType
    BY <1>1, Beginnings
  <2>4. pc' \notin {"extend", "link", "free", "trim", "dots"}
    BY <1>1
  <2> QED
    BY <1>1, <2>1, <2>2, <2>3, <2>4 DEF Typed

LEMMA FailTyped ==
    ASSUME Typed, NEW hurt, Fail(hurt), fat' \in FatType, slots' = slots
    PROVE  Typed'
<1>1. Finish /\ health' \in {"sound", "leaky", "tainted"} /\ slots' \in SlotsType
  BY DEF Fail, Worsens, Typed
<1> QED
  BY <1>1, FinishTyped
(* Where an operation with its entry in hand goes on.                      *)
LEMMA ExtendingIs ==
    ASSUME NEW r \in RegType, NEW op, NEW payload \in Payloads \cup {<<>>},
           Extending(r, op, payload)
    PROVE  /\ Final(op, r.size, payload) \in Nat
           /\ reg' \in RegType /\ reg'.slot = r.slot /\ reg'.size = r.size
           /\ \/ Final(op, r.size, payload) = 0 /\ pc' = "entry" /\ reg'.first = 0
              \/ /\ Final(op, r.size, payload) > 0 /\ pc' = "extend" /\ r.first \in Cluster
                 /\ reg'.first = r.first /\ reg'.cluster = r.first
                 /\ reg'.left = Needed(Final(op, r.size, payload)) - 1
              \/ /\ Final(op, r.size, payload) > 0 /\ pc' = "first" /\ r.first \notin Cluster
                 /\ reg'.first = r.first
                 /\ reg'.left = Needed(Final(op, r.size, payload)) - 1
<1> DEFINE final == Final(op, r.size, payload)
<1>1. final \in Nat
  BY PayloadFacts, Fat32Assumption DEF Final, Base, RegType
<1>2. final > 0 => Needed(final) - 1 \in Nat
  BY <1>1, NeededFacts
<1>3. IF final = 0
      THEN pc' = "entry" /\ reg' = [r EXCEPT !.first = 0]
      ELSE /\ pc' = IF r.first \in Cluster THEN "extend" ELSE "first"
           /\ reg' = [r EXCEPT !.cluster = r.first, !.left = Needed(final) - 1]
  BY DEF Extending, IsData
<1> HIDE DEF final
<1>4. CASE final = 0
  BY <1>3, <1>4 DEF RegType, final
<1>5. CASE final > 0
  <2>1. /\ pc' = IF r.first \in Cluster THEN "extend" ELSE "first"
        /\ reg' = [r EXCEPT !.cluster = r.first, !.left = Needed(final) - 1]
    BY <1>3, <1>5
  <2>2. /\ reg' \in RegType /\ reg'.slot = r.slot /\ reg'.size = r.size
        /\ reg'.first = r.first /\ reg'.cluster = r.first /\ reg'.left = Needed(final) - 1
    BY <1>2, <1>5, <2>1 DEF RegType, Unused
  <2> QED
    BY <1>1, <1>5, <2>1, <2>2 DEF final
<1> QED
  BY <1>1, <1>4, <1>5

LEMMA OpenedIs ==
    ASSUME NEW r \in RegType, NEW op, NEW payload \in Payloads \cup {<<>>},
           Opened(r, op, payload)
    PROVE  \/ /\ op = "write" /\ r.first \in Cluster /\ pc' = "free" /\ reg' \in RegType
              /\ reg'.slot = r.slot /\ reg'.size = r.size /\ reg'.cluster = r.first
              /\ reg'.first = r.first
           \/ ~(op = "write" /\ r.first \in Cluster) /\ Extending(r, op, payload)
BY DEF Opened, IsData, RegType, Unused

(* The types of an operation that has its entry in hand.                   *)
LEMMA OpenedTyped ==
    ASSUME NEW r \in RegType, NEW op, NEW payload \in Payloads \cup {<<>>},
           Opened(r, op, payload) \/ Extending(r, op, payload),
           Final(op, r.size, payload) <= MaxFileBytes,
           call' \in CallType, call'.op = op, call'.payload = payload, call'.name \in Names,
           fat' \in FatType, slots' \in SlotsType,
           freed' \in BOOLEAN, health' \in {"sound", "leaky", "tainted"}
    PROVE  Typed'
<1>1. /\ reg' \in RegType /\ reg'.size = r.size
      /\ pc' \in {"free", "entry", "extend", "first"}
      /\ pc' \in {"free", "extend"} => reg'.cluster \in Cluster
      /\ pc' = "extend" => reg'.first \in Cluster
  <2>1. CASE Extending(r, op, payload)
    BY <2>1, ExtendingIs
  <2>2. CASE Opened(r, op, payload) /\ ~Extending(r, op, payload)
    BY <2>2, OpenedIs
  <2> QED
    BY <2>1, <2>2
<1>2. Total' <= MaxFileBytes
  BY <1>1 DEF Total
<1>3. pc' \in Steps /\ pc' # "idle" /\ pc' \notin {"link", "trim", "dots"}
  BY <1>1 DEF Steps
<1> QED
  BY <1>1, <1>2, <1>3 DEF Typed
(* What a call begins with: an idle volume, a directory and a name.        *)
LEMMA BeginTyped ==
    ASSUME Inv, Ready, NEW p \in Parents, NEW n \in Names,
           NEW op \in Ops, NEW payload \in Payloads \cup {<<>>}, Begin(op, p, n, payload)
    PROVE  /\ call' \in CallType /\ call'.op = op /\ call'.dir = p.cluster /\ call'.name = n
           /\ call'.payload = payload
           /\ fat' = fat /\ slots' = slots /\ freed' = freed /\ health' = health
           /\ fat \in FatType /\ slots \in SlotsType /\ health \in {"sound", "leaky", "tainted"}
           /\ reg \in RegType /\ reg = NoReg /\ ~freed /\ freed \in BOOLEAN
           /\ p.cluster \in Cluster /\ DirOK(slots, Gone, p.cluster)
           /\ VolumeSound(fat, slots, Gone)
<1>1. /\ pc = "idle" /\ VolumeSound(fat, slots, Gone)
      /\ fat \in FatType /\ slots \in SlotsType /\ health \in {"sound", "leaky", "tainted"}
      /\ reg \in RegType /\ reg = NoReg /\ ~freed /\ freed \in BOOLEAN
  BY DEF Inv, Ready, Typed, Sound
<1>2. \A e : e \notin Gone
  BY <1>1 DEF Gone
<1>3. p.cluster \in Cluster /\ p.path \in Names \cup {"/"} /\ DirOK(slots, Gone, p.cluster)
  BY <1>1, <1>2, ParentFacts
<1>4. call' = [op |-> op, path |-> p.path, dir |-> p.cluster, name |-> n, payload |-> payload]
      /\ fat' = fat /\ slots' = slots /\ freed' = freed /\ health' = health
  BY DEF Begin, diskVars
<1>5. call' \in CallType
  BY <1>3, <1>4 DEF CallType
<1> QED
  BY <1>1, <1>3, <1>4, <1>5

(* What it finds there.                                                    *)
LEMMA FoundIs ==
    ASSUME Inv, Ready, NEW p \in Parents, NEW n \in Names,
           Find(p.cluster, n).status = "found"
    PROVE  /\ <<p.cluster, Find(p.cluster, n).slot>> \in Valid(slots, Gone)
           /\ EntryAt(slots, <<p.cluster, Find(p.cluster, n).slot>>) = Found(p.cluster, n)
           /\ Found(p.cluster, n) \in EntryType /\ Holds(Found(p.cluster, n))
           /\ Find(p.cluster, n).slot \in Slot
<1>1. slots \in SlotsType /\ VolumeSound(fat, slots, Gone) /\ ~freed
  BY DEF Inv, Ready, Typed, Sound
<1>2. \A e : e \notin Gone
  BY <1>1 DEF Gone
<1>3. p.cluster \in Cluster
  BY <1>1, <1>2, ParentFacts
<1> QED
  BY <1>1, <1>2, <1>3, FoundFacts DEF VolumeSound, Valid

LEMMA TypedCall ==
    ASSUME Inv, Call
    PROVE  Typed'
<1>1. NoReg.size = 0 /\ NoReg.first = 0 /\ 0 \notin Cluster
  BY ClusterFacts DEF NoReg
<1>2. <<>> \in Payloads \cup {<<>>} /\ Len(<<>>) = 0
  OBVIOUS
<1>3. ASSUME NEW p \in Parents, NEW n \in Names, NEW op \in Ops,
             NEW payload \in Payloads \cup {<<>>}, Ready, Begin(op, p, n, payload),
             reg' = reg, pc' \in {"create", "mkdir"}
      PROVE  Typed'
  <2>1. reg' = NoReg /\ reg' \in RegType /\ call' \in CallType /\ call'.name \in Names
        /\ fat' \in FatType /\ slots' \in SlotsType /\ freed' \in BOOLEAN
        /\ health' \in {"sound", "leaky", "tainted"} /\ call'.payload = payload
    BY <1>3, BeginTyped
  <2>2. Total' <= MaxFileBytes
    BY <1>1, <2>1, PayloadFacts DEF Total, Final, Base
  <2>3. pc' \in Steps /\ pc' # "idle" /\ pc' \notin {"extend", "link", "free", "trim", "dots"}
    BY <1>3 DEF Steps
  <2> QED
    BY <2>1, <2>2, <2>3 DEF Typed
<1>4. ASSUME CallTouch PROVE Typed'
  BY <1>2, <1>3, <1>4 DEF CallTouch, Ops
<1>5. ASSUME CallMakeDir PROVE Typed'
  BY <1>2, <1>3, <1>5 DEF CallMakeDir, Ops
<1>6. ASSUME CallWrite PROVE Typed'
  <2>1. PICK p \in Parents, n \in Names, op \in {"write", "append"}, payload \in Payloads :
          LET e == Found(p.cluster, n)
          IN  /\ Begin(op, p, n, payload)
              /\ \/ /\ Find(p.cluster, n).status = "free"
                    /\ pc' = "create" /\ reg' = reg
                 \/ /\ Find(p.cluster, n).status = "found" /\ e.kind # "dir"
                    /\ Final(op, e.size, payload) <= MaxFileBytes
                    /\ Opened([reg EXCEPT !.slot = Find(p.cluster, n).slot,
                                          !.size = e.size, !.first = e.cluster], op, payload)
    BY <1>6 DEF CallWrite
  <2>2. Ready /\ op \in Ops /\ payload \in Payloads \cup {<<>>} /\ Begin(op, p, n, payload)
    BY <1>6, <2>1 DEF CallWrite, Ops
  <2>3. CASE reg' = reg /\ pc' = "create"
    BY <1>3, <2>2, <2>3
  <2>4. CASE /\ Find(p.cluster, n).status = "found"
             /\ Final(op, Found(p.cluster, n).size, payload) <= MaxFileBytes
             /\ Opened([reg EXCEPT !.slot = Find(p.cluster, n).slot,
                                   !.size = Found(p.cluster, n).size,
                                   !.first = Found(p.cluster, n).cluster], op, payload)
    <3> DEFINE r == [reg EXCEPT !.slot = Find(p.cluster, n).slot,
                                !.size = Found(p.cluster, n).size,
                                !.first = Found(p.cluster, n).cluster]
    <3>1. r \in RegType /\ r.size = Found(p.cluster, n).size
      BY <2>2, <2>4, BeginTyped, FoundIs DEF RegType, EntryType
    <3>2. Opened(r, op, payload) /\ Final(op, r.size, payload) <= MaxFileBytes
      BY <2>4, <3>1
    <3> HIDE DEF r
    <3>3. /\ call' \in CallType /\ call'.op = op /\ call'.payload = payload /\ call'.name \in Names
          /\ fat' \in FatType /\ slots' \in SlotsType
          /\ freed' \in BOOLEAN /\ health' \in {"sound", "leaky", "tainted"}
      BY <2>2, BeginTyped
    <3> QED
      BY <2>2, <3>1, <3>2, <3>3, OpenedTyped
  <2> QED
    BY <2>1, <2>3, <2>4
<1>7. ASSUME CallRemove PROVE Typed'
  <2>1. PICK p \in Parents, n \in Names, op \in {"rm", "rmdir"} :
          LET e == Found(p.cluster, n)
          IN  /\ Find(p.cluster, n).status = "found"
              /\ Begin(op, p, n, <<>>)
              /\ pc' = Removal(e.cluster)
              /\ reg' = [reg EXCEPT !.slot = Find(p.cluster, n).slot, !.first = e.cluster,
                                    !.cluster = e.cluster]
    BY <1>7 DEF CallRemove
  <2>2. Ready /\ op \in Ops /\ <<>> \in Payloads \cup {<<>>}
    BY <1>7 DEF CallRemove, Ops
  <2>3. /\ call' \in CallType /\ call'.op = op /\ call'.payload = <<>> /\ call'.name \in Names
        /\ fat' \in FatType /\ slots' \in SlotsType
        /\ freed' \in BOOLEAN /\ health' \in {"sound", "leaky", "tainted"}
        /\ reg = NoReg /\ reg \in RegType
    BY <2>1, <2>2, BeginTyped
  <2>4. Found(p.cluster, n) \in EntryType /\ Find(p.cluster, n).slot \in Slot
    BY <2>1, <2>2, FoundIs
  <2>5. /\ reg' \in RegType /\ reg'.size = 0 /\ reg'.cluster = Found(p.cluster, n).cluster
    BY <1>1, <2>1, <2>3, <2>4 DEF RegType, EntryType, Unused
  <2>6. Total' <= MaxFileBytes
    BY <2>3, <2>5, <1>2, Fat32Assumption DEF Total, Final, Base
  <2>7. pc' \in {"free", "mark"} /\ (pc' = "free" => reg'.cluster \in Cluster)
    BY <2>1, <2>5 DEF Removal, IsData
  <2>8. pc' \in Steps /\ pc' # "idle" /\ pc' \notin {"extend", "link", "trim", "dots"}
    BY <2>7 DEF Steps
  <2> QED
    BY <2>3, <2>5, <2>6, <2>7, <2>8 DEF Typed
<1> QED
  BY <1>4, <1>5, <1>6, <1>7 DEF Call
LEMMA FormattedTyped == FormattedFat \in FatType /\ FormattedSlots \in SlotsType
<1>1. FormattedFat \in FatType
  BY DEF FormattedFat, FatType
<1>2. Entry("label", VolumeLabel, 0, 0) \in EntryType
  BY Fat32Assumption DEF Entry, EntryType
<1>3. [NoSlots EXCEPT ![1] = Entry("label", VolumeLabel, 0, 0)] \in [Slot -> EntryType]
  BY <1>2, Ends
<1>4. FormattedSlots \in SlotsType
  BY <1>3, Ends DEF FormattedSlots, SlotsType
<1> QED
  BY <1>1, <1>4

(* The registers are what they were, or typed again, and the rest is kept. *)
LEMMA SameTotal ==
    ASSUME Typed, call' = call, reg'.size = reg.size
    PROVE  Total' <= MaxFileBytes
BY DEF Typed, Total

LEMMA AllocateTyped ==
    ASSUME Typed, NEW c \in Cluster, Allocate(c)
    PROVE  /\ fat' \in FatType /\ slots' \in SlotsType
           /\ fat' = [fat EXCEPT ![c] = EndOfChain] /\ slots' = [slots EXCEPT ![c] = NoSlots]
           /\ fat[c] = Unused
<1>1. fat' = [fat EXCEPT ![c] = EndOfChain] /\ slots' = [slots EXCEPT ![c] = NoSlots]
  BY DEF Allocate, Marked
<1>2. FreeClusters \in SUBSET Nat /\ FreeClusters # {} /\ c = Least(FreeClusters)
  BY ClusterFacts DEF Allocate, FreeClusters
<1>3. c \in FreeClusters
  BY <1>2, LeastExists DEF Least
<1>4. fat' \in FatType
  BY <1>1 DEF Typed, FatType
<1>5. slots' \in SlotsType
  BY <1>1, Ends DEF Typed, SlotsType
<1> QED
  BY <1>1, <1>3, <1>4, <1>5 DEF FreeClusters

LEMMA TypedChain ==
    ASSUME Typed, AllocateFirst \/ Follow \/ AllocateNext \/ Link \/ Terminate
    PROVE  Typed'
<1>1. /\ fat \in FatType /\ slots \in SlotsType /\ pc \in Steps /\ call \in CallType
      /\ reg \in RegType /\ freed \in BOOLEAN /\ health \in {"sound", "leaky", "tainted"}
      /\ pc # "idle" => call.name \in Names
      /\ pc \in {"extend", "link", "free", "trim"} => reg.cluster \in Cluster
      /\ pc \in {"extend", "link", "dots"} => reg.first \in Cluster
      /\ pc = "link" => reg.next \in Cluster /\ reg.left > 0
  BY DEF Typed
<1>2. ASSUME AllocateFirst PROVE Typed'
  <2>1. PICK c \in Cluster : Allocate(c) /\ reg' = [reg EXCEPT !.first = c, !.cluster = c]
    BY <1>2 DEF AllocateFirst
  <2>2. pc = "first" /\ pc' = "extend" /\ call' = call /\ freed' = freed /\ health' = health
    BY <1>2 DEF AllocateFirst
  <2>3. fat' \in FatType /\ slots' \in SlotsType
    BY <2>1, AllocateTyped
  <2>4. reg' \in RegType /\ reg'.first = c /\ reg'.cluster = c /\ reg'.size = reg.size
    BY <1>1, <2>1 DEF RegType
  <2>5. Total' <= MaxFileBytes
    BY <2>2, <2>4, SameTotal
  <2> QED
    BY <1>1, <2>2, <2>3, <2>4, <2>5 DEF Typed, Steps
<1>3. ASSUME Follow PROVE Typed'
  <2>1. PICK next : /\ next \in Cluster
                    /\ reg' = [reg EXCEPT !.cluster = next, !.left = @ - 1]
    BY <1>3 DEF Follow, IsData
  <2>2. pc = "extend" /\ pc' = pc /\ call' = call /\ freed' = freed /\ health' = health
        /\ fat' = fat /\ slots' = slots /\ reg.left > 0
    BY <1>3 DEF Follow, diskVars
  <2>3. reg' \in RegType /\ reg'.first = reg.first /\ reg'.cluster = next /\ reg'.size = reg.size
    <3> DEFINE k == reg.left - 1
    <3>1. k \in Nat /\ reg' = [reg EXCEPT !.cluster = next, !.left = k]
      BY <1>1, <2>1, <2>2 DEF RegType
    <3> HIDE DEF k
    <3> QED
      BY <1>1, <2>1, <3>1 DEF RegType
  <2>4. Total' <= MaxFileBytes
    BY <2>2, <2>3, SameTotal
  <2> QED
    BY <1>1, <2>1, <2>2, <2>3, <2>4 DEF Typed, Steps
<1>4. ASSUME AllocateNext PROVE Typed'
  <2>1. PICK c \in Cluster : Allocate(c) /\ reg' = [reg EXCEPT !.next = c]
    BY <1>4 DEF AllocateNext
  <2>2. pc = "extend" /\ pc' = "link" /\ call' = call /\ freed' = freed /\ reg.left > 0
        /\ health' \in {"sound", "leaky", "tainted"}
    BY <1>1, <1>4 DEF AllocateNext, Worsens
  <2>3. fat' \in FatType /\ slots' \in SlotsType
    BY <2>1, AllocateTyped
  <2>4. reg' \in RegType /\ reg'.first = reg.first /\ reg'.cluster = reg.cluster /\ reg'.next = c
        /\ reg'.size = reg.size /\ reg'.left = reg.left
    BY <1>1, <2>1 DEF RegType
  <2>5. Total' <= MaxFileBytes
    BY <2>2, <2>4, SameTotal
  <2> QED
    BY <1>1, <2>2, <2>3, <2>4, <2>5 DEF Typed, Steps
<1>5. ASSUME Link PROVE Typed'
  <2>1. /\ pc = "link" /\ pc' = "extend" /\ call' = call /\ freed' = freed /\ health' = health
        /\ slots' = slots /\ fat' = [fat EXCEPT ![reg.cluster] = reg.next]
        /\ reg' = [reg EXCEPT !.cluster = reg.next, !.left = @ - 1]
    BY <1>5 DEF Link
  <2>2. reg' \in RegType /\ reg'.first = reg.first /\ reg'.cluster = reg.next /\ reg'.size = reg.size
    <3> DEFINE k == reg.left - 1
    <3>1. k \in Nat /\ reg' = [reg EXCEPT !.cluster = reg.next, !.left = k]
      BY <1>1, <2>1 DEF RegType
    <3> HIDE DEF k
    <3> QED
      BY <1>1, <2>1, <3>1 DEF RegType
  <2>3. fat' \in FatType
    BY <1>1, <2>1 DEF FatType
  <2>4. Total' <= MaxFileBytes
    BY <2>1, <2>2, SameTotal
  <2> QED
    BY <1>1, <2>1, <2>2, <2>3, <2>4 DEF Typed, Steps
<1>6. ASSUME Terminate PROVE Typed'
  <2>1. PICK next \in ReadFat(reg.cluster) :
          /\ pc' = IF next \in Cluster THEN "trim" ELSE "data"
          /\ reg' = [reg EXCEPT !.cluster = next]
    BY <1>6 DEF Terminate, IsData
  <2>2. /\ pc = "extend" /\ call' = call /\ freed' = freed
        /\ slots' = slots /\ fat' = [fat EXCEPT ![reg.cluster] = EndOfChain]
        /\ health' \in {"sound", "leaky", "tainted"}
    BY <1>1, <1>6 DEF Terminate, Worsens
  <2>3. next \in {Unused, EndOfChain} \cup Cluster
    BY <1>1, <2>1, <2>2 DEF ReadFat, FatType
  <2>4. reg' \in RegType /\ reg'.cluster = next /\ reg'.size = reg.size
    BY <1>1, <2>1, <2>3 DEF RegType
  <2>5. fat' \in FatType
    BY <1>1, <2>2 DEF FatType
  <2>6. Total' <= MaxFileBytes
    BY <2>2, <2>4, SameTotal
  <2> QED
    BY <1>1, <2>1, <2>2, <2>4, <2>5, <2>6 DEF Typed, Steps
<1> QED
  BY <1>2, <1>3, <1>4, <1>5, <1>6

LEMMA TypedRest ==
    ASSUME Typed, \/ OutOfSpace \/ FreeCluster \/ WriteData \/ DataWritten \/ AppendNothing
                  \/ DiskFails \/ Format
    PROVE  Typed'
<1>1. /\ fat \in FatType /\ slots \in SlotsType /\ pc \in Steps /\ call \in CallType
      /\ reg \in RegType /\ freed \in BOOLEAN /\ health \in {"sound", "leaky", "tainted"}
      /\ pc = "idle" => ~freed /\ call = NoCall /\ reg = NoReg
      /\ pc # "idle" => call.name \in Names
      /\ pc \in {"extend", "link", "free", "trim"} => reg.cluster \in Cluster
      /\ Total <= MaxFileBytes
  BY DEF Typed
<1>2. ASSUME OutOfSpace \/ AppendNothing \/ DiskFails PROVE Typed'
  <2>1. Fail(freed) /\ fat' = fat /\ slots' = slots
    BY <1>2 DEF OutOfSpace, AppendNothing, DiskFails, diskVars
  <2> QED
    BY <1>1, <2>1, FailTyped
<1>3. ASSUME FreeCluster PROVE Typed'
  <2>1. pc \in {"free", "trim"} /\ slots' = slots /\ fat' = [fat EXCEPT ![reg.cluster] = Unused]
    BY <1>3 DEF FreeCluster
  <2>2. fat' \in FatType
    BY <1>1, <2>1 DEF FatType
  <2>3. PICK next \in ReadFat(reg.cluster) :
          LET r == [reg EXCEPT !.guard = @ + 1, !.cluster = next]
          IN  \/ r.guard > FreeGuard /\ Fail(pc = "free")
              \/ /\ r.guard <= FreeGuard
                 /\ freed' = (freed \/ pc = "free")
                 /\ IF next # fat[reg.cluster] THEN Worsens("leaky") ELSE health' = health
                 /\ IF IsData(next) THEN pc' = pc /\ reg' = r ELSE Freed(r)
                 /\ UNCHANGED <<call, want, calls>>
    BY <1>3 DEF FreeCluster
  <2> DEFINE r == [reg EXCEPT !.guard = @ + 1, !.cluster = next]
  <2>4. next \in {Unused, EndOfChain} \cup Cluster
    BY <1>1, <2>1, <2>3 DEF ReadFat, FatType
  <2>5. r \in RegType /\ r.size = reg.size /\ r.cluster = next
    <3> DEFINE k == reg.guard + 1
    <3>1. k \in Nat /\ r = [reg EXCEPT !.guard = k, !.cluster = next]
      BY <1>1 DEF RegType
    <3> HIDE DEF k, r
    <3> QED
      BY <1>1, <2>4, <3>1 DEF RegType
  <2>6. CASE Fail(pc = "free")
    BY <2>1, <2>2, <2>6, FailTyped
  <2>7. CASE /\ freed' = (freed \/ pc = "free")
             /\ IF next # fat[reg.cluster] THEN Worsens("leaky") ELSE health' = health
             /\ IF IsData(next) THEN pc' = pc /\ reg' = r ELSE Freed(r)
             /\ UNCHANGED <<call, want, calls>>
    <3>1. freed' \in BOOLEAN /\ health' \in {"sound", "leaky", "tainted"} /\ call' = call
      BY <1>1, <2>7 DEF Worsens
    <3>2. CASE pc' = pc /\ reg' = r /\ next \in Cluster
      <4>1. Total' <= MaxFileBytes
        BY <2>5, <3>1, <3>2, SameTotal
      <4> HIDE DEF r
      <4> QED
        BY <1>1, <2>1, <2>2, <2>5, <3>1, <3>2, <4>1 DEF Typed, Steps
    <3>3. CASE Freed(r)
      <4> HIDE DEF r
      <4>1. CASE pc' \in {"data", "mark"} /\ reg' = r
        <5>1. Total' <= MaxFileBytes
          BY <2>5, <3>1, <4>1, SameTotal
        <5> QED
          BY <1>1, <2>1, <2>2, <2>5, <3>1, <4>1, <5>1 DEF Typed, Steps
      <4>2. CASE Extending([r EXCEPT !.first = 0], call.op, call.payload)
        <5> DEFINE q == [r EXCEPT !.first = 0]
        <5>1. q \in RegType /\ q.size = reg.size
          BY <2>5 DEF RegType
        <5>2. Extending(q, call.op, call.payload)
          BY <4>2
        <5> HIDE DEF q
        <5>3. Final(call.op, q.size, call.payload) <= MaxFileBytes
          BY <1>1, <5>1 DEF Total
        <5>4. call.payload \in Payloads \cup {<<>>} /\ pc # "idle" /\ call.name \in Names
          BY <1>1, <2>1 DEF CallType
        <5> QED
          BY <1>1, <2>1, <2>2, <3>1, <5>1, <5>2, <5>3, <5>4, OpenedTyped
      <4> QED
        BY <3>3, <4>1, <4>2 DEF Freed
    <3> QED
      BY <2>7, <3>2, <3>3 DEF IsData
  <2> QED
    BY <2>3, <2>6, <2>7
<1>4. ASSUME WriteData PROVE Typed'
  <2> DEFINE chunk == Chunk((Base(call.op, reg.size) + reg.written) % ClusterBytes,
                            Len(call.payload) - reg.written)
  <2>1. /\ pc = "data" /\ reg' = [reg EXCEPT !.written = @ + chunk]
        /\ UNCHANGED <<fat, slots, pc, call, freed, health>>
    BY <1>4 DEF WriteData
  <2>2. chunk \in Int
    <3>1. Base(call.op, reg.size) \in Int /\ reg.written \in Int /\ ClusterBytes \in Nat \ {0}
      BY <1>1, Fat32Assumption DEF Base, RegType
    <3>2. Len(call.payload) \in Int
      BY <1>1, PayloadFacts DEF CallType
    <3> QED
      BY <3>1, <3>2 DEF Chunk
  <2> HIDE DEF chunk
  <2>3. reg' \in RegType /\ reg'.size = reg.size
    BY <1>1, <2>1, <2>2 DEF RegType
  <2>4. Total' <= MaxFileBytes
    BY <2>1, <2>3, SameTotal
  <2> QED
    BY <1>1, <2>1, <2>3, <2>4 DEF Typed, Steps
<1>5. ASSUME DataWritten PROVE Typed'
  <2>1. pc = "data" /\ pc' = "entry" /\ UNCHANGED <<fat, slots, call, reg, freed, health>>
    BY <1>5 DEF DataWritten, diskVars
  <2>2. Total' <= MaxFileBytes
    BY <2>1, SameTotal
  <2> QED
    BY <1>1, <2>1, <2>2 DEF Typed, Steps
<1>6. ASSUME Format PROVE Typed'
  <2>1. /\ fat' = FormattedFat /\ slots' = FormattedSlots /\ health' = "sound"
        /\ pc = "idle" /\ pc' = pc /\ call' = call /\ reg' = reg /\ freed' = freed
    BY <1>6 DEF Format
  <2>2. fat' \in FatType /\ slots' \in SlotsType
    BY <2>1, FormattedTyped
  <2>3. Total' <= MaxFileBytes
    BY <2>1, SameTotal
  <2> QED
    BY <1>1, <2>1, <2>2, <2>3 DEF Typed
<1> QED
  BY <1>2, <1>3, <1>4, <1>5, <1>6
(* What the writes of directory entries leave, slot by slot.               *)
LEMMA SlotTyped ==
    ASSUME slots \in SlotsType, NEW x \in Cluster \X Slot, NEW entry \in EntryType,
           NEW t, t = [slots EXCEPT ![x[1]][x[2]] = entry]
    PROVE  /\ t \in SlotsType /\ EntryAt(t, x) = entry
           /\ \A e \in Cluster \X Slot : e # x => EntryAt(t, e) = EntryAt(slots, e)
BY DEF SlotsType, EntryAt

LEMMA CreateIs ==
    ASSUME Typed, Create, Find(call.dir, call.name).status = "free"
    PROVE  LET slot == Find(call.dir, call.name).slot
               new  == Entry(IF call.op = "mkdir" THEN "dir" ELSE "file", call.name, reg.first, 0)
           IN  /\ <<call.dir, slot>> \in Cluster \X Slot /\ new \in EntryType
               /\ slots[call.dir][slot] \in {End, Deleted}
               /\ slots' = [slots EXCEPT ![call.dir][slot] = new]
               /\ slots' \in SlotsType /\ fat' = fat /\ health' = health
               /\ [reg EXCEPT !.slot = slot] \in RegType
               /\ IF call.op \in {"write", "append"}
                  THEN /\ Opened([reg EXCEPT !.slot = slot], call.op, call.payload)
                       /\ call' = call /\ freed' = freed
                  ELSE Finish
<1> DEFINE slot == Find(call.dir, call.name).slot
           new  == Entry(IF call.op = "mkdir" THEN "dir" ELSE "file", call.name, reg.first, 0)
<1>1. pc = "create" /\ slots \in SlotsType /\ call \in CallType /\ reg \in RegType /\ call.name \in Names
  BY DEF Typed, Create
<1>2. call.dir \in Cluster /\ reg.first \in {0} \cup Cluster
  BY <1>1 DEF CallType, RegType
<1>3. slot \in Slot /\ slots[call.dir][slot] \in {End, Deleted}
  BY <1>1, <1>2, FindFacts
<1>4. new \in EntryType
  BY <1>1, <1>2, Fat32Assumption DEF Entry, EntryType
<1>5. /\ slots' = [slots EXCEPT ![call.dir][slot] = new]
      /\ fat' = fat /\ health' = health
      /\ IF call.op \in {"write", "append"}
         THEN /\ Opened([reg EXCEPT !.slot = slot], call.op, call.payload)
              /\ call' = call /\ freed' = freed
         ELSE Finish
  BY DEF Create
<1>6. [reg EXCEPT !.slot = slot] \in RegType
  BY <1>1, <1>3 DEF RegType
<1> HIDE DEF slot, new
<1>7. slots' \in SlotsType
  BY <1>1, <1>2, <1>3, <1>4, <1>5 DEF SlotsType
<1> QED
  BY <1>2, <1>3, <1>4, <1>5, <1>6, <1>7 DEF slot, new

LEMMA WriteEntryIs ==
    ASSUME Typed, WriteEntry
    PROVE  LET new == [At(Target) EXCEPT !.cluster = reg.first, !.size = Total]
           IN  /\ Target \in Cluster \X Slot /\ new \in EntryType
               /\ new.kind = At(Target).kind /\ new.name = At(Target).name
               /\ new.cluster = reg.first /\ new.size = Total
               /\ slots' \in SlotsType /\ slots' = [slots EXCEPT ![call.dir][reg.slot] = new]
<1> DEFINE new == [At(Target) EXCEPT !.cluster = reg.first, !.size = Total]
<1>1. slots \in SlotsType /\ call \in CallType /\ reg \in RegType
  BY DEF Typed
<1>2. call.dir \in Cluster /\ reg.slot \in Slot /\ reg.first \in {0} \cup Cluster
  BY <1>1 DEF CallType, RegType
<1>3. Total \in 0 .. MaxFileBytes
  <2>1. Total \in Nat
    BY <1>1, PayloadFacts, Fat32Assumption DEF Total, Final, Base, RegType, CallType
  <2> QED
    BY <2>1, Fat32Assumption DEF Typed
<1>4. At(Target) = slots[call.dir][reg.slot] /\ At(Target) \in EntryType
  BY <1>1, <1>2 DEF At, Target, SlotsType
<1>5. /\ new \in EntryType /\ new.kind = At(Target).kind /\ new.name = At(Target).name
      /\ new.cluster = reg.first /\ new.size = Total
  BY <1>2, <1>3, <1>4 DEF EntryType
<1>6. slots' = [slots EXCEPT ![call.dir][reg.slot] = new]
  BY <1>1, <1>2, <1>4 DEF WriteEntry, Total, SlotsType
<1> HIDE DEF new
<1>7. slots' \in SlotsType
  BY <1>1, <1>2, <1>5, <1>6 DEF SlotsType
<1> QED
  BY <1>2, <1>5, <1>6, <1>7 DEF Target, new

LEMMA TypedEntries ==
    ASSUME Typed, MakeDirCluster \/ WriteDots \/ Create \/ WriteEntry \/ MarkDeleted
    PROVE  Typed'
<1>1. /\ fat \in FatType /\ slots \in SlotsType /\ pc \in Steps /\ call \in CallType
      /\ reg \in RegType /\ freed \in BOOLEAN /\ health \in {"sound", "leaky", "tainted"}
      /\ pc # "idle" => call.name \in Names
      /\ pc \in {"extend", "link", "dots"} => reg.first \in Cluster
      /\ Total <= MaxFileBytes
  BY DEF Typed
<1>2. ASSUME MakeDirCluster PROVE Typed'
  <2>1. PICK c \in Cluster : Allocate(c) /\ reg' = [reg EXCEPT !.first = c]
    BY <1>2 DEF MakeDirCluster
  <2>2. pc = "mkdir" /\ pc' = "dots" /\ call' = call /\ freed' = freed /\ health' = health
    BY <1>2 DEF MakeDirCluster
  <2>3. fat' \in FatType /\ slots' \in SlotsType
    BY <2>1, AllocateTyped
  <2>4. reg' \in RegType /\ reg'.first = c /\ reg'.size = reg.size
    BY <1>1, <2>1 DEF RegType
  <2>5. Total' <= MaxFileBytes
    BY <2>2, <2>4, SameTotal
  <2> QED
    BY <1>1, <2>2, <2>3, <2>4, <2>5 DEF Typed, Steps
<1>3. ASSUME WriteDots PROVE Typed'
  <2> DEFINE dots == [NoSlots EXCEPT ![1] = Entry("dir", ".", reg.first, 0),
                                     ![2] = Entry("dir", "..", call.dir, 0)]
  <2>1. /\ pc = "dots" /\ pc' = "create" /\ slots' = [slots EXCEPT ![reg.first] = dots]
        /\ fat' = fat /\ call' = call /\ reg' = reg /\ freed' = freed /\ health' = health
    BY <1>3 DEF WriteDots
  <2>2. Entry("dir", ".", reg.first, 0) \in EntryType /\ Entry("dir", "..", call.dir, 0) \in EntryType
    BY <1>1, <2>1, Fat32Assumption DEF Entry, EntryType, CallType
  <2>3. dots \in [Slot -> EntryType]
    BY <2>2, Ends
  <2> HIDE DEF dots
  <2>4. slots' \in SlotsType
    BY <1>1, <2>1, <2>3 DEF SlotsType
  <2>5. Total' <= MaxFileBytes
    BY <2>1, SameTotal
  <2> QED
    BY <1>1, <2>1, <2>4, <2>5 DEF Typed, Steps
<1>4. ASSUME Create PROVE Typed'
  <2>1. CASE Find(call.dir, call.name).status # "free"
    <3>1. Fail(freed) /\ slots' = slots /\ fat' = fat
      BY <1>4, <2>1 DEF Create
    <3> QED
      BY <1>1, <3>1, FailTyped
  <2>2. CASE Find(call.dir, call.name).status = "free"
    <3> DEFINE r == [reg EXCEPT !.slot = Find(call.dir, call.name).slot]
    <3>1. /\ slots' \in SlotsType /\ fat' = fat /\ health' = health /\ r \in RegType
          /\ IF call.op \in {"write", "append"}
             THEN Opened(r, call.op, call.payload) /\ call' = call /\ freed' = freed
             ELSE Finish
      BY <1>4, <2>2, CreateIs
    <3>2. r.size = reg.size
      BY <1>1 DEF RegType
    <3>3. pc # "idle" /\ call.name \in Names
      BY <1>1, <1>4 DEF Create
    <3> HIDE DEF r
    <3>4. CASE call.op \in {"write", "append"}
      <4>1. Opened(r, call.op, call.payload) /\ call' = call /\ freed' = freed
        BY <3>1, <3>4
      <4>2. Final(call.op, r.size, call.payload) <= MaxFileBytes /\ call.payload \in Payloads \cup {<<>>}
        BY <1>1, <3>2 DEF Total, CallType
      <4> QED
        BY <1>1, <3>1, <3>3, <4>1, <4>2, OpenedTyped
    <3>5. CASE call.op \notin {"write", "append"}
      BY <1>1, <3>1, <3>5, FinishTyped
    <3> QED
      BY <3>4, <3>5
  <2> QED
    BY <2>1, <2>2
<1>5. ASSUME WriteEntry PROVE Typed'
  <2>1. Finish /\ fat' = fat /\ health' = health /\ slots' \in SlotsType
    BY <1>1, <1>5, WriteEntryIs DEF WriteEntry
  <2> QED
    BY <1>1, <2>1, FinishTyped
<1>6. ASSUME MarkDeleted PROVE Typed'
  <2>1. Finish /\ fat' = fat /\ health' = health /\ slots' = [slots EXCEPT ![call.dir][reg.slot] = Deleted]
    BY <1>6 DEF MarkDeleted
  <2>2. call.dir \in Cluster /\ reg.slot \in Slot
    BY <1>1 DEF CallType, RegType
  <2>3. slots' \in SlotsType
    BY <1>1, <2>1, <2>2, Ends DEF SlotsType
  <2> QED
    BY <1>1, <2>1, <2>3, FinishTyped
<1> QED
  BY <1>2, <1>3, <1>4, <1>5, <1>6
-----------------------------------------------------------------------------
(* The chain an operation builds.                                          *)

LEMMA ReachesFirst ==
    ASSUME NEW f, NEW c \in Cluster
    PROVE  Reaches(f, c, c, 1)
<1> DEFINE p == [j \in 0 .. 0 |-> c]
<1>1. p \in [0 .. 0 -> Cluster] /\ p[0] = c
  OBVIOUS
<1>2. 1 - 1 = 0 /\ 1 - 2 = -1 /\ 0 .. (-1) = {}
  OBVIOUS
<1> HIDE DEF p
<1>3. Along(f, p, 1)
  BY <1>1, <1>2 DEF Along
<1> QED
  BY <1>1, <1>2, <1>3 DEF Reaches

LEMMA ReachesNext ==
    ASSUME NEW f, NEW first, NEW c, NEW n \in Nat, n > 0, Reaches(f, first, c, n), f[c] \in Cluster
    PROVE  Reaches(f, first, f[c], n + 1)
<1>1. PICK p : Along(f, p, n) /\ p[0] = first /\ p[n - 1] = c
  BY DEF Reaches
<1> DEFINE d == f[c]
           q == [j \in 0 .. n |-> IF j < n THEN p[j] ELSE d]
<1>2. /\ q \in [0 .. n -> Cluster]
      /\ \A j \in 0 .. n - 1 : q[j] = p[j] /\ q[n] = d /\ j \in 0 .. n
  BY <1>1 DEF Along
<1>3. ASSUME NEW j \in 0 .. n - 1 PROVE f[q[j]] = q[j + 1]
  <2>1. CASE j = n - 1
    BY <1>1, <1>2, <2>1
  <2>2. CASE j # n - 1
    <3>1. j \in 0 .. n - 2 /\ j + 1 \in 0 .. n - 1
      BY <2>2
    <3> HIDE DEF q
    <3> QED
      BY <1>1, <1>2, <3>1 DEF Along
  <2> QED
    BY <2>1, <2>2
<1>4. (n + 1) - 1 = n /\ (n + 1) - 2 = n - 1 /\ 0 \in 0 .. n - 1
  OBVIOUS
<1> HIDE DEF q
<1>5. Along(f, q, n + 1)
  BY <1>2, <1>3, <1>4 DEF Along
<1> QED
  BY <1>1, <1>2, <1>4, <1>5 DEF Reaches

(* The cluster it has got to is in use.                                    *)
LEMMA ReachedUsed ==
    ASSUME NEW f, TableSound(f), NEW first, Starts(f, first), NEW c, NEW n \in Nat, n > 0,
           Reaches(f, first, c, n)
    PROVE  c \in Cluster /\ f[c] # Unused
<1>1. PICK p : Along(f, p, n) /\ p[0] = first /\ p[n - 1] = c
  BY DEF Reaches
<1>2. c \in Cluster
  <2>1. n - 1 \in 0 .. n - 1
    OBVIOUS
  <2> QED
    BY <1>1, <2>1 DEF Along
<1>3. CASE n = 1
  BY <1>1, <1>2, <1>3 DEF Starts
<1>4. CASE n > 1
  <2>1. n - 2 \in 0 .. n - 2 /\ n - 2 \in 0 .. n - 1 /\ (n - 2) + 1 = n - 1
    BY <1>4
  <2>2. p[n - 2] \in Cluster /\ f[p[n - 2]] = c
    BY <1>1, <2>1 DEF Along
  <2> QED
    BY <1>2, <2>2 DEF TableSound
<1> QED
  BY <1>2, <1>3, <1>4

(* The entry an operation is about is one of those of the volume until     *)
(* its clusters are freed.                                                 *)
LEMMA TargetValid ==
    ASSUME Typed, TargetSound, pc \in Working
    PROVE  /\ Target \in Cluster \X Slot /\ EntryAt(slots, Target) = At(Target)
           /\ ~freed => Target \in Valid(slots, Gone)
<1>1. Target \in Cluster \X Slot /\ EntryAt(slots, Target) = At(Target)
  BY DEF Typed, CallType, RegType, Target, EntryAt, At
<1>2. Holds(At(Target))
  BY DEF TargetSound
<1> QED
  BY <1>1, <1>2 DEF Valid, Gone

LEMMA HeadStarts ==
    ASSUME Typed, TargetSound, pc \in Working, VolumeSound(fat, slots, Gone), HeadOK
    PROVE  /\ Starts(fat, reg.first) /\ reg.first # Root
           /\ \A e \in Valid(slots, Gone) :
                 EntryAt(slots, e).cluster = reg.first => EntryAt(slots, e).size <= Total
<1>1. CASE Mine(fat, slots, Gone, reg.first)
  BY <1>1 DEF Mine
<1>2. CASE /\ ~freed /\ call.op = "append" /\ reg.first \in Cluster
           /\ At(Target).cluster = reg.first /\ At(Target).size = reg.size
  <2>1. Target \in Valid(slots, Gone) /\ EntryAt(slots, Target) = At(Target)
    BY <1>2, TargetValid
  <2>2. Starts(fat, reg.first) /\ reg.first # Root
    BY <1>2, <2>1 DEF VolumeSound, HeadsSound
  <2>3. ASSUME NEW e \in Valid(slots, Gone), EntryAt(slots, e).cluster = reg.first
        PROVE  EntryAt(slots, e).size <= Total
    <3>1. e = Target
      BY <1>2, <2>1, <2>3 DEF VolumeSound, HeadsSound
    <3>2. reg.size \in Nat /\ Len(call.payload) \in Nat
      BY PayloadFacts, Fat32Assumption DEF Typed, RegType, CallType
    <3>3. Total = reg.size + Len(call.payload)
      BY <1>2 DEF Total, Final, Base
    <3> QED
      BY <1>2, <2>1, <3>1, <3>2, <3>3
  <2> QED
    BY <2>2, <2>3
<1> QED
  BY <1>1, <1>2 DEF HeadOK

LEMMA TotalFacts ==
    ASSUME Typed
    PROVE  Total \in Nat /\ Needed(Total) \in Nat /\ (Total > 0 => Needed(Total) > 0) /\ reg.left \in Nat
<1>1. Total \in Nat
  BY PayloadFacts, Fat32Assumption DEF Typed, RegType, CallType, Total, Final, Base
<1>2. Needed(Total) \in Nat /\ (Total > 0 => Needed(Total) > 0)
  BY <1>1, NeededFacts
<1> QED
  BY <1>1, <1>2 DEF Typed, RegType

-----------------------------------------------------------------------------
(* The invariant: ends of operations.                                      *)

LEMMA Nobody == \E left : \A e : e \notin left
<1>1. ASSUME \A left : \E e : e \in left PROVE FALSE
  <2>1. \E e : e \in {n \in Nat : n # n}
    BY <1>1
  <2> QED
    BY <2>1
<1> QED
  BY <1>1

LEMMA FinishSound ==
    ASSUME Finish, NEW left, \A e : e \notin left, VolumeSound(fat', slots', left)
    PROVE  Sound'
<1>1. pc' = "idle" /\ freed' = FALSE
  BY DEF Finish
<1>2. \A e : e \notin Gone'
  BY <1>1 DEF Gone
<1>3. Gone' = left
  BY <1>2
<1>4. VolumeSound(fat, slots, Gone)'
  BY <1>3
<1>5. TargetSound' /\ CreateSound' /\ FreeSound' /\ ChainSound'
  BY <1>1 DEF TargetSound, CreateSound, FreeSound, ChainSound, Working
<1> QED
  BY <1>4, <1>5 DEF Sound

LEMMA FailSound ==
    ASSUME Typed, Sound, Fail(freed), UNCHANGED diskVars, health' # "tainted"
    PROVE  Sound'
<1>1. ~freed
  BY DEF Fail, Worsens
<1>2. \A e : e \notin Gone
  BY <1>1 DEF Gone
<1>3. VolumeSound(fat', slots', Gone)
  BY DEF Sound, diskVars
<1> QED
  BY <1>2, <1>3, FinishSound DEF Fail
-----------------------------------------------------------------------------
(* The invariant: allocation and chains.                                   *)

(* What the cluster taken leaves of all that an operation relies on.       *)
LEMMA AllocateSound ==
    ASSUME Typed, Sound, pc # "idle", NEW c \in Cluster, Allocate(c), call' = call,
           freed' = freed, reg'.slot = reg.slot
    PROVE  /\ VolumeSound(fat', slots', Gone') /\ Mine(fat', slots', Gone', c) /\ Gone' = Gone
           /\ fat[c] = Unused /\ fat'[c] = EndOfChain
           /\ \A d \in Cluster : d # c => fat'[d] = fat[d]
           /\ DirOK(slots', Gone', call'.dir)
           /\ \A h : Mine(fat, slots, Gone, h) => h # c /\ Mine(fat', slots', Gone', h)
           /\ At(Target)' = At(Target)
           /\ \A first, d, n : n \in Nat /\ Reaches(fat, first, d, n) => Reaches(fat', first, d, n)
<1>1. /\ fat' = [fat EXCEPT ![c] = EndOfChain] /\ slots' = [slots EXCEPT ![c] = NoSlots]
      /\ fat[c] = Unused /\ fat \in FatType /\ slots \in SlotsType
  BY AllocateTyped DEF Typed
<1>2. VolumeSound(fat, slots, Gone) /\ DirOK(slots, Gone, call.dir)
  BY DEF Sound, TargetSound
<1>3. Gone' = Gone /\ Target' = Target
  BY DEF Gone, Target
<1>4. /\ fat'[c] = EndOfChain /\ \A d \in Cluster : d # c => fat'[d] = fat[d]
      /\ slots'[c] = NoSlots /\ \A d \in Cluster : d # c => slots'[d] = slots[d]
      /\ fat \in FatType /\ slots \in SlotsType /\ fat[c] = Unused
  BY <1>1 DEF FatType, SlotsType
<1>5. /\ VolumeSound(fat', slots', Gone) /\ Mine(fat', slots', Gone, c)
      /\ \A h : Mine(fat, slots, Gone, h) => h # c /\ Mine(fat', slots', Gone, h)
      /\ \A d : DirOK(slots, Gone, d) => d # c /\ DirOK(slots', Gone, d)
  BY <1>2, <1>4, AllocateVolume
<1>6. \A p, n : n \in Nat /\ Along(fat, p, n) => Along(fat', p, n)
  BY <1>2, <1>4, AllocateTable DEF VolumeSound
<1>7. At(Target)' = At(Target)
  <2>1. call.dir \in Cluster /\ call.dir # c
    BY <1>2, <1>5 DEF Typed, CallType
  <2>2. slots'[call.dir] = slots[call.dir]
    BY <1>4, <2>1
  <2> QED
    BY <1>3, <2>2 DEF At, Target
<1>8. \A first, d, n : n \in Nat /\ Reaches(fat, first, d, n) => Reaches(fat', first, d, n)
  BY <1>6 DEF Reaches
<1> QED
  BY <1>2, <1>3, <1>4, <1>5, <1>7, <1>8

LEMMA SoundAllocateFirst ==
    ASSUME Typed, Sound, AllocateFirst
    PROVE  Sound'
<1>1. PICK c \in Cluster : Allocate(c) /\ reg' = [reg EXCEPT !.first = c, !.cluster = c]
  BY DEF AllocateFirst
<1>2. pc = "first" /\ pc' = "extend" /\ call' = call /\ freed' = freed
  BY DEF AllocateFirst
<1>3. /\ reg'.first = c /\ reg'.cluster = c /\ reg'.size = reg.size /\ reg'.slot = reg.slot
      /\ reg'.left = reg.left
  BY <1>1 DEF Typed, RegType
<1>4. /\ VolumeSound(fat', slots', Gone') /\ Mine(fat', slots', Gone', c)
      /\ fat'[c] = EndOfChain /\ DirOK(slots', Gone', call'.dir) /\ At(Target)' = At(Target)
  BY <1>1, <1>2, <1>3, AllocateSound
<1>5. Total' = Total /\ Needed(Total)' = Needed(Total)
  BY <1>2, <1>3 DEF Total
<1>6. TargetSound'
  BY <1>2, <1>4 DEF Sound, TargetSound, Working
<1>7. CreateSound' /\ FreeSound'
  BY <1>2 DEF CreateSound, FreeSound, Sound
<1>8. ChainSound'
  <2>1. HeadOK'
    BY <1>3, <1>4 DEF HeadOK
  <2>2. reg.left = Needed(Total) - 1 /\ Total > 0 /\ call.op \in {"write", "append"}
    BY <1>2 DEF Sound, ChainSound
  <2>3. Reaches(fat', c, c, 1)
    BY ReachesFirst
  <2>4. Needed(Total) - reg.left = 1 /\ reg.left < Needed(Total)
    BY <2>2, TotalFacts
  <2> QED
    BY <1>2, <1>3, <1>4, <1>5, <2>1, <2>2, <2>3, <2>4 DEF ChainSound
<1> QED
  BY <1>4, <1>6, <1>7, <1>8 DEF Sound

LEMMA SoundFollow ==
    ASSUME Typed, Sound, Follow
    PROVE  Sound'
<1>1. PICK next \in ReadFat(reg.cluster) :
          next \in Cluster /\ reg' = [reg EXCEPT !.cluster = next, !.left = @ - 1]
  BY DEF Follow, IsData
<1>2. /\ pc = "extend" /\ pc' = "extend" /\ call' = call /\ freed' = freed /\ fat' = fat
      /\ slots' = slots /\ reg.left > 0
  BY DEF Follow, diskVars
<1>3. /\ reg'.first = reg.first /\ reg'.cluster = next /\ reg'.size = reg.size
      /\ reg'.slot = reg.slot /\ reg'.left = reg.left - 1
  BY <1>1 DEF Typed, RegType
<1>4. next = fat[reg.cluster]
  BY <1>1, ClusterFacts DEF ReadFat
<1>5. Total' = Total /\ Needed(Total)' = Needed(Total) /\ Gone' = Gone /\ Target' = Target
  BY <1>2, <1>3 DEF Total, Gone, Target
<1>6. VolumeSound(fat, slots, Gone)'
  BY <1>2, <1>5 DEF Sound
<1>7. TargetSound' /\ CreateSound' /\ FreeSound'
  BY <1>2, <1>5 DEF Sound, TargetSound, CreateSound, FreeSound, Working, At
<1>8. ChainSound'
  <2>1. /\ HeadOK /\ Total > 0 /\ call.op \in {"write", "append"} /\ reg.left < Needed(Total)
        /\ Reaches(fat, reg.first, reg.cluster, Needed(Total) - reg.left)
        /\ call.op # "write"
    BY <1>1, <1>2, <1>4, ClusterFacts DEF Sound, ChainSound
  <2>2. HeadOK'
    BY <1>2, <1>3, <1>5, <2>1 DEF HeadOK, At
  <2> DEFINE n == Needed(Total) - reg.left
  <2>3. n \in Nat /\ n > 0 /\ Needed(Total) - (reg.left - 1) = n + 1 /\ reg.left - 1 < Needed(Total)
    BY <2>1, TotalFacts
  <2>4. Reaches(fat, reg.first, next, n + 1)
    <3> HIDE DEF n
    <3> QED
      BY <1>1, <1>4, <2>1, <2>3, ReachesNext DEF n
  <2> HIDE DEF n
  <2> QED
    BY <1>2, <1>3, <1>5, <2>1, <2>2, <2>3, <2>4 DEF ChainSound
<1> QED
  BY <1>6, <1>7, <1>8 DEF Sound

LEMMA SoundAllocateNext ==
    ASSUME Typed, Sound, AllocateNext, health' # "tainted", health # "tainted"
    PROVE  Sound'
<1>1. PICK c \in Cluster : Allocate(c) /\ reg' = [reg EXCEPT !.next = c]
  BY DEF AllocateNext
<1>2. /\ pc = "extend" /\ pc' = "link" /\ call' = call /\ freed' = freed /\ reg.left > 0
      /\ fat[reg.cluster] \notin Cluster
  BY DEF AllocateNext, Worsens, IsData
<1>3. /\ reg'.first = reg.first /\ reg'.cluster = reg.cluster /\ reg'.size = reg.size
      /\ reg'.slot = reg.slot /\ reg'.left = reg.left /\ reg'.next = c
  BY <1>1 DEF Typed, RegType
<1>4. /\ VolumeSound(fat', slots', Gone') /\ Mine(fat', slots', Gone', c) /\ Gone' = Gone
      /\ fat[c] = Unused /\ fat'[c] = EndOfChain
      /\ \A d \in Cluster : d # c => fat'[d] = fat[d]
      /\ DirOK(slots', Gone', call'.dir)
      /\ \A h : Mine(fat, slots, Gone, h) => h # c /\ Mine(fat', slots', Gone', h)
      /\ At(Target)' = At(Target)
      /\ \A first, d, n : n \in Nat /\ Reaches(fat, first, d, n) => Reaches(fat', first, d, n)
  BY <1>1, <1>2, <1>3, AllocateSound
<1>5. Total' = Total /\ Needed(Total)' = Needed(Total)
  BY <1>2, <1>3 DEF Total
<1>6. TargetSound'
  BY <1>2, <1>4 DEF Sound, TargetSound, Working
<1>7. CreateSound' /\ FreeSound'
  BY <1>2 DEF CreateSound, FreeSound, Sound
<1>8. ChainSound'
  <2>1. /\ HeadOK /\ Total > 0 /\ call.op \in {"write", "append"} /\ reg.left < Needed(Total)
        /\ Reaches(fat, reg.first, reg.cluster, Needed(Total) - reg.left)
    BY <1>2 DEF Sound, ChainSound
  <2>2. Needed(Total) - reg.left \in Nat /\ Needed(Total) - reg.left > 0
    BY <2>1, TotalFacts
  <2>3. Starts(fat, reg.first)
    BY <1>2, <2>1, HeadStarts DEF Sound, Working
  <2>4. reg.cluster \in Cluster /\ fat[reg.cluster] # Unused
    <3> DEFINE n == Needed(Total) - reg.left
    <3>1. n \in Nat /\ n > 0 /\ Reaches(fat, reg.first, reg.cluster, n)
      BY <2>1, <2>2
    <3> HIDE DEF n
    <3> QED
      BY <2>3, <3>1, ReachedUsed DEF Sound, VolumeSound
  <2>5. fat[reg.cluster] = EndOfChain /\ reg.cluster # c /\ reg.first # c
    BY <1>2, <1>4, <2>3, <2>4 DEF Typed, FatType, Starts
  <2>6. HeadOK'
    BY <1>2, <1>3, <1>4, <2>1 DEF HeadOK
  <2>7. Reaches(fat', reg.first, reg.cluster, Needed(Total) - reg.left)
    BY <1>4, <2>1, <2>2
  <2>8. fat'[reg.cluster] = EndOfChain
    BY <1>4, <2>4, <2>5
  <2> QED
    BY <1>2, <1>3, <1>4, <1>5, <2>1, <2>5, <2>6, <2>7, <2>8 DEF ChainSound
<1> QED
  BY <1>4, <1>6, <1>7, <1>8 DEF Sound

(* The cluster that was allocated becomes the last of the chain.           *)
LEMMA SoundLink ==
    ASSUME Typed, Sound, Link
    PROVE  Sound'
<1>1. /\ pc = "link" /\ pc' = "extend" /\ call' = call /\ freed' = freed /\ slots' = slots
      /\ fat' = [fat EXCEPT ![reg.cluster] = reg.next]
      /\ reg' = [reg EXCEPT !.cluster = reg.next, !.left = @ - 1]
  BY DEF Link
<1>2. /\ reg'.first = reg.first /\ reg'.cluster = reg.next /\ reg'.size = reg.size
      /\ reg'.slot = reg.slot /\ reg'.left = reg.left - 1 /\ reg.left > 0
      /\ reg.cluster \in Cluster
  BY <1>1 DEF Typed, RegType
<1>3. /\ fat \in FatType /\ slots \in SlotsType
      /\ fat'[reg.cluster] = reg.next /\ \A d \in Cluster : d # reg.cluster => fat'[d] = fat[d]
  BY <1>1, <1>2 DEF Typed, FatType
<1>4. Total' = Total /\ Needed(Total)' = Needed(Total) /\ Gone' = Gone /\ Target' = Target
  BY <1>1, <1>2 DEF Total, Gone, Target
<1>5. /\ HeadOK /\ Total > 0 /\ call.op \in {"write", "append"} /\ reg.left < Needed(Total)
      /\ Reaches(fat, reg.first, reg.cluster, Needed(Total) - reg.left)
      /\ Mine(fat, slots, Gone, reg.next) /\ reg.next \notin {reg.first, reg.cluster}
      /\ fat[reg.next] = EndOfChain /\ fat[reg.cluster] = EndOfChain
      /\ VolumeSound(fat, slots, Gone)
  BY <1>1 DEF Sound, ChainSound
<1> DEFINE n == Needed(Total) - reg.left
<1>6. n \in Nat /\ n > 0 /\ Needed(Total) - (reg.left - 1) = n + 1 /\ reg.left - 1 < Needed(Total)
  BY <1>5, TotalFacts
<1>7. /\ VolumeSound(fat', slots, Gone)
      /\ \A h : Mine(fat, slots, Gone, h) /\ h # reg.next => Mine(fat', slots, Gone, h)
      /\ Reaches(fat', reg.first, reg.next, n + 1)
  <2>1. Reaches(fat, reg.first, reg.cluster, n)
    BY <1>5
  <2> HIDE DEF n
  <2> QED
    <3>1. VolumeSound(fat, slots, Gone)
      BY <1>5
    <3>2. fat[reg.cluster] = EndOfChain /\ Mine(fat, slots, Gone, reg.next)
      BY <1>5
    <3>3. n \in Nat /\ n > 0
      BY <1>6
    <3>4. fat'[reg.cluster] = reg.next /\ \A e \in Cluster : e # reg.cluster => fat'[e] = fat[e]
      BY <1>3
    <3>5. fat \in FatType /\ slots \in SlotsType
      BY <1>3
    <3> QED
      BY <2>1, <3>1, <3>2, <3>3, <3>4, <3>5, LinkVolume
<1> HIDE DEF n
<1>8. TargetSound' /\ CreateSound' /\ FreeSound'
  BY <1>1, <1>4 DEF Sound, TargetSound, CreateSound, FreeSound, Working, At
<1>9. HeadOK'
  BY <1>1, <1>2, <1>4, <1>5, <1>7 DEF HeadOK, At
<1>10. fat'[reg.next] = EndOfChain
  BY <1>3, <1>5 DEF Mine, Starts
<1>11. ChainSound'
  BY <1>1, <1>2, <1>4, <1>5, <1>6, <1>7, <1>9, <1>10 DEF ChainSound
<1> QED
  BY <1>1, <1>4, <1>7, <1>8, <1>11 DEF Sound

LEMMA SoundTerminate ==
    ASSUME Typed, Sound, Terminate
    PROVE  Sound'
<1>1. PICK next \in ReadFat(reg.cluster) :
          /\ pc' = IF next \in Cluster THEN "trim" ELSE "data"
          /\ reg' = [reg EXCEPT !.cluster = next]
  BY DEF Terminate, IsData
<1>2. /\ pc = "extend" /\ reg.left = 0 /\ call' = call /\ freed' = freed /\ slots' = slots
      /\ fat' = [fat EXCEPT ![reg.cluster] = EndOfChain]
  BY DEF Terminate
<1>3. /\ reg'.first = reg.first /\ reg'.cluster = next /\ reg'.size = reg.size
      /\ reg'.slot = reg.slot /\ reg.cluster \in Cluster
  <2>1. next \in {Unused, EndOfChain} \cup Cluster
    BY <1>1, <1>2 DEF ReadFat, FatType, Typed
  <2> QED
    BY <1>1, <1>2, <2>1 DEF Typed, RegType
<1>4. /\ fat \in FatType /\ slots \in SlotsType
      /\ fat'[reg.cluster] = EndOfChain
      /\ \A d \in Cluster : d # reg.cluster => fat'[d] = fat[d]
  BY <1>2, <1>3 DEF Typed, FatType
<1>5. Total' = Total /\ Needed(Total)' = Needed(Total) /\ Gone' = Gone /\ Target' = Target
  BY <1>2, <1>3 DEF Total, Gone, Target
<1>6. /\ HeadOK /\ Total > 0 /\ call.op \in {"write", "append"}
      /\ Reaches(fat, reg.first, reg.cluster, Needed(Total) - reg.left)
      /\ call.op = "write" => fat[reg.cluster] = EndOfChain
      /\ VolumeSound(fat, slots, Gone) /\ TargetSound
  BY <1>2 DEF Sound, ChainSound
<1>7. Needed(Total) \in Nat /\ Needed(Total) > 0 /\ Needed(Total) - reg.left = Needed(Total)
      /\ Total \in Nat
  BY <1>2, <1>6, TotalFacts
<1>8. Starts(fat, reg.first) /\ reg.first # Root
  BY <1>2, <1>6, HeadStarts DEF Working
<1>9. \A e \in Valid(slots, Gone) :
          EntryAt(slots, e).cluster = reg.first => Needed(EntryAt(slots, e).size) <= Needed(Total)
  <2>1. \A e \in Valid(slots, Gone) :
            EntryAt(slots, e).cluster = reg.first =>
                EntryAt(slots, e).size <= Total /\ EntryAt(slots, e).size \in Nat
    BY <1>2, <1>4, <1>6, HeadStarts, Sizes DEF Working
  <2> QED
    BY <1>7, <2>1, NeededFacts
<1>10. /\ VolumeSound(fat', slots, Gone)
       /\ \A d : Mine(fat, slots, Gone, d) => Mine(fat', slots, Gone, d)
       /\ Long(fat', reg.first, Needed(Total))
       /\ fat[reg.cluster] \in Cluster =>
             Mine(fat', slots, Gone, fat[reg.cluster])
             /\ \A d : Starts(fat, d) => d # fat[reg.cluster]
  <2>1. Reaches(fat, reg.first, reg.cluster, Needed(Total))
    BY <1>6, <1>7
  <2> QED
    BY <1>4, <1>6, <1>7, <1>8, <1>9, <2>1, CutVolume
<1>11. next \in Cluster => next = fat[reg.cluster]
  BY <1>1, ClusterFacts DEF ReadFat
<1>12. HeadOK'
  BY <1>2, <1>3, <1>5, <1>6, <1>10 DEF HeadOK, At
<1>13. TargetSound' /\ CreateSound'
  BY <1>1, <1>2, <1>5, <1>6 DEF TargetSound, CreateSound, Working, At
<1>14. FreeSound'
  <2>1. next \in Cluster =>
            call.op = "append" /\ next # reg.first /\ Mine(fat', slots, Gone, next)
    BY <1>6, <1>8, <1>10, <1>11, ClusterFacts
  <2> QED
    BY <1>1, <1>2, <1>3, <1>5, <2>1 DEF Sound, FreeSound
<1>15. ChainSound'
  BY <1>1, <1>2, <1>3, <1>5, <1>6, <1>7, <1>10, <1>12 DEF ChainSound
<1> QED
  BY <1>2, <1>5, <1>10, <1>13, <1>14, <1>15 DEF Sound

LEMMA SoundData ==
    ASSUME Typed, Sound, WriteData \/ DataWritten
    PROVE  Sound'
<1>1. /\ pc = "data" /\ pc' \in {"data", "entry"} /\ call' = call /\ freed' = freed
      /\ fat' = fat /\ slots' = slots
      /\ reg'.first = reg.first /\ reg'.size = reg.size /\ reg'.slot = reg.slot
  BY DEF WriteData, DataWritten, diskVars, Typed, RegType
<1>2. Total' = Total /\ Needed(Total)' = Needed(Total) /\ Gone' = Gone /\ Target' = Target
  BY <1>1 DEF Total, Gone, Target
<1>3. TargetSound' /\ CreateSound' /\ FreeSound'
  BY <1>1, <1>2 DEF Sound, TargetSound, CreateSound, FreeSound, Working, At
<1>4. HeadOK => HeadOK'
  BY <1>1, <1>2 DEF HeadOK, At
<1>5. ChainSound'
  BY <1>1, <1>2, <1>4 DEF Sound, ChainSound
<1> QED
  BY <1>1, <1>2, <1>3, <1>5 DEF Sound
-----------------------------------------------------------------------------
(* The invariant: chains that are freed.                                   *)

(* Once its clusters are being freed an entry counts no more.              *)
LEMMA GiveUp ==
    ASSUME NEW f, NEW s \in SlotsType, NEW gone, NEW x, NEW left,
           \A e : e \notin gone, \A e : e \in left <=> e = x,
           VolumeSound(f, s, gone), x \in Valid(s, gone), EntryAt(s, x).cluster \in Cluster
    PROVE  /\ VolumeSound(f, s, left) /\ Mine(f, s, left, EntryAt(s, x).cluster)
           /\ \A d : DirOK(s, gone, d) /\ (x[1] = Root => d = Root) => DirOK(s, left, d)
<1>1. /\ TableSound(f) /\ SlotsSound(s) /\ HeadsSound(f, s, gone) /\ FilesSound(f, s, gone)
      /\ DirsSound(s, gone)
  BY DEF VolumeSound
<1>2. \A e : e \in Valid(s, left) <=> e \in Valid(s, gone) /\ e # x
  BY DEF Valid
<1>3. HeadsSound(f, s, left) /\ FilesSound(f, s, left) /\ DirsSound(s, left)
  <2>1. ASSUME NEW e \in Valid(s, left) PROVE SameEntry(f, s, s, gone, e)
    BY <1>1, <1>2 DEF SameEntry, HeadsSound, FilesSound
  <2> QED
    BY <1>1, <2>1, FrameSame
<1>4. Mine(f, s, left, EntryAt(s, x).cluster)
  BY <1>1, <1>2 DEF Mine, HeadsSound
<1>5. ASSUME NEW d, DirOK(s, gone, d), x[1] = Root => d = Root PROVE DirOK(s, left, d)
  BY <1>2, <1>5 DEF DirOK
<1> QED
  BY <1>1, <1>3, <1>4, <1>5 DEF VolumeSound

(* One turn of free_cluster_chain on the clusters of an entry: from the    *)
(* first turn on they are nobody's.                                        *)
LEMMA FreeingIs ==
    ASSUME Typed, Sound, pc = "free", NEW left, \A e : e \in left <=> e = Target
    PROVE  /\ VolumeSound(fat, slots, left) /\ Mine(fat, slots, left, reg.cluster)
           /\ DirOK(slots, left, call.dir)
<1>1. /\ VolumeSound(fat, slots, Gone) /\ DirOK(slots, Gone, call.dir) /\ slots \in SlotsType
      /\ reg.cluster \in Cluster /\ TargetSound
      /\ IF freed THEN Mine(fat, slots, Gone, reg.cluster) ELSE At(Target).cluster = reg.cluster
  BY DEF Typed, Sound, TargetSound, FreeSound
<1>2. CASE freed
  <2>1. Gone = left
    BY <1>2 DEF Gone
  <2> QED
    BY <1>1, <1>2, <2>1
<1>3. CASE ~freed
  <2>1. Target \in Valid(slots, Gone) /\ EntryAt(slots, Target) = At(Target)
    BY <1>1, <1>3, TargetValid DEF Working
  <2>2. \A e : e \notin Gone
    BY <1>3 DEF Gone
  <2>3. EntryAt(slots, Target).cluster = reg.cluster
    BY <1>1, <1>3, <2>1
  <2>4. Target[1] = call.dir
    BY DEF Target
  <2>5. /\ VolumeSound(fat, slots, left) /\ Mine(fat, slots, left, EntryAt(slots, Target).cluster)
        /\ \A d : DirOK(slots, Gone, d) /\ (Target[1] = Root => d = Root) => DirOK(slots, left, d)
    BY <1>1, <2>1, <2>2, <2>3, GiveUp
  <2> QED
    BY <1>1, <2>3, <2>4, <2>5
<1> QED
  BY <1>2, <1>3

LEMMA SoundFree ==
    ASSUME Typed, Sound, FreeCluster, pc = "free", health' # "tainted"
    PROVE  Sound'
<1> DEFINE left == {Target}
<1>1. /\ slots' = slots /\ fat' = [fat EXCEPT ![reg.cluster] = Unused]
      /\ reg.cluster \in Cluster
  BY DEF FreeCluster, Typed
<1>2. PICK next \in ReadFat(reg.cluster) :
        LET r == [reg EXCEPT !.guard = @ + 1, !.cluster = next]
        IN  \/ r.guard > FreeGuard /\ Fail(pc = "free")
            \/ /\ r.guard <= FreeGuard
               /\ freed' = (freed \/ pc = "free")
               /\ IF next # fat[reg.cluster] THEN Worsens("leaky") ELSE health' = health
               /\ IF IsData(next) THEN pc' = pc /\ reg' = r ELSE Freed(r)
               /\ UNCHANGED <<call, want, calls>>
  BY DEF FreeCluster
<1> DEFINE r == [reg EXCEPT !.guard = @ + 1, !.cluster = next]
<1>3. ~Fail(pc = "free")
  BY DEF Fail, Worsens
<1>4. /\ freed' = TRUE /\ call' = call
      /\ IF next \in Cluster THEN pc' = "free" /\ reg' = r ELSE Freed(r)
  BY <1>2, <1>3 DEF IsData
<1>5. r.slot = reg.slot /\ r.size = reg.size /\ r.first = reg.first /\ r.cluster = next
  BY DEF Typed, RegType
<1>6. r \in RegType
  <2> DEFINE k == reg.guard + 1
  <2>1. k \in Nat /\ r = [reg EXCEPT !.guard = k, !.cluster = next]
    BY DEF Typed, RegType
  <2>2. next \in {Unused, EndOfChain} \cup Cluster
    BY <1>1, <1>2 DEF ReadFat, FatType, Typed
  <2> HIDE DEF k, r
  <2> QED
    BY <2>1, <2>2 DEF Typed, RegType
<1> HIDE DEF r
<1>7. /\ fat \in FatType /\ slots \in SlotsType
      /\ fat'[reg.cluster] = Unused /\ \A d \in Cluster : d # reg.cluster => fat'[d] = fat[d]
  BY <1>1 DEF Typed, FatType
<1>8. /\ VolumeSound(fat, slots, left) /\ Mine(fat, slots, left, reg.cluster)
      /\ DirOK(slots, left, call.dir)
  <2>1. \A e : e \in left <=> e = Target
    OBVIOUS
  <2> HIDE DEF left
  <2> QED
    BY <2>1, FreeingIs
<1>9. call.op \in {"write", "rm", "rmdir"} /\ Holds(At(Target))
      /\ At(Target).kind = IF call.op = "rmdir" THEN "dir" ELSE "file"
  BY DEF Sound, FreeSound, TargetSound, Working
<1>10. /\ reg'.slot = reg.slot /\ reg'.size = reg.size
       /\ \/ pc' = "free" /\ next \in Cluster /\ reg'.cluster = next
          \/ pc' = "mark" /\ call.op \in {"rm", "rmdir"}
          \/ pc' = "entry" /\ call.op = "write" /\ Total = 0 /\ reg'.first = 0
          \/ pc' = "first" /\ call.op = "write" /\ Total > 0 /\ reg'.left = Needed(Total) - 1
  <2>1. CASE next \in Cluster
    BY <1>4, <1>5, <2>1
  <2>2. CASE next \notin Cluster /\ call.op # "write"
    BY <1>4, <1>5, <1>9, <2>2 DEF Freed
  <2>3. CASE next \notin Cluster /\ call.op = "write"
    <3> DEFINE q == [r EXCEPT !.first = 0]
    <3>1. Extending(q, call.op, call.payload)
      BY <1>4, <2>3 DEF Freed
    <3>2. q \in RegType /\ q.size = reg.size /\ q.slot = reg.slot /\ q.first = 0
      BY <1>5, <1>6 DEF RegType
    <3> HIDE DEF q
    <3>3. call.payload \in Payloads \cup {<<>>} /\ 0 \notin Cluster
      BY ClusterFacts DEF Typed, CallType
    <3>4. Final(call.op, q.size, call.payload) = Total
      BY <3>2 DEF Total
    <3> QED
      BY <2>3, <3>1, <3>2, <3>3, <3>4, ExtendingIs
  <2> QED
    BY <2>1, <2>2, <2>3
<1>11. Total' = Total /\ Needed(Total)' = Needed(Total) /\ Target' = Target /\ Gone' = left
  BY <1>4, <1>10 DEF Total, Gone, Target
<1>12. next \in Cluster => next = fat[reg.cluster]
  BY <1>2, ClusterFacts DEF ReadFat
<1>13. /\ VolumeSound(fat', slots, left)
       /\ fat[reg.cluster] \in Cluster => Mine(fat', slots, left, fat[reg.cluster])
  <2> HIDE DEF left
  <2> QED
    BY <1>7, <1>8, ReleaseVolume
<1> HIDE DEF left
<1>14. At(Target)' = At(Target)
  BY <1>1, <1>11 DEF At
<1>15. TargetSound'
  BY <1>1, <1>4, <1>8, <1>9, <1>10, <1>11, <1>14 DEF TargetSound, Working
<1>16. CreateSound'
  BY <1>10 DEF CreateSound
<1>17. FreeSound'
  BY <1>1, <1>4, <1>9, <1>10, <1>11, <1>12, <1>13 DEF FreeSound
<1>18. ChainSound'
  BY <1>4, <1>10, <1>11 DEF ChainSound
<1> QED
  BY <1>1, <1>11, <1>13, <1>15, <1>16, <1>17, <1>18 DEF Sound

(* One turn on the clusters behind the end of a file.                      *)
LEMMA SoundTrim ==
    ASSUME Typed, Sound, FreeCluster, pc = "trim"
    PROVE  Sound'
<1>1. /\ slots' = slots /\ fat' = [fat EXCEPT ![reg.cluster] = Unused]
      /\ reg.cluster \in Cluster
  BY DEF FreeCluster, Typed
<1>2. PICK next \in ReadFat(reg.cluster) :
        LET r == [reg EXCEPT !.guard = @ + 1, !.cluster = next]
        IN  \/ r.guard > FreeGuard /\ Fail(pc = "free")
            \/ /\ freed' = (freed \/ pc = "free")
               /\ IF IsData(next) THEN pc' = pc /\ reg' = r ELSE Freed(r)
               /\ UNCHANGED <<call, want, calls>>
  BY DEF FreeCluster
<1>3. /\ fat \in FatType /\ slots \in SlotsType /\ freed \in BOOLEAN
      /\ fat'[reg.cluster] = Unused /\ \A d \in Cluster : d # reg.cluster => fat'[d] = fat[d]
  BY <1>1 DEF Typed, FatType
<1>4. /\ call.op = "append" /\ reg.cluster # reg.first /\ Mine(fat, slots, Gone, reg.cluster)
      /\ ~freed /\ Total > 0 /\ HeadOK /\ Long(fat, reg.first, Needed(Total))
      /\ VolumeSound(fat, slots, Gone) /\ TargetSound
  <2>1. freed => call.op \in {"write", "rm", "rmdir"}
    BY DEF Sound, FreeSound
  <2>2. call.op = "append" /\ reg.cluster # reg.first /\ Mine(fat, slots, Gone, reg.cluster)
    BY DEF Sound, FreeSound
  <2> QED
    BY <2>1, <2>2, TotalFacts DEF Sound, ChainSound
<1>5. Needed(Total) \in Nat /\ Total \in Nat
  BY TotalFacts
<1>6. /\ VolumeSound(fat', slots, Gone)
      /\ \A d : Mine(fat, slots, Gone, d) /\ d # reg.cluster => Mine(fat', slots, Gone, d)
      /\ fat[reg.cluster] \in Cluster =>
            Mine(fat', slots, Gone, fat[reg.cluster])
            /\ \A d : Starts(fat, d) => d # fat[reg.cluster]
      /\ Long(fat', reg.first, Needed(Total))
  BY <1>3, <1>4, <1>5, ReleaseVolume
<1>7. Starts(fat, reg.first)
  BY <1>4, HeadStarts DEF Working
<1>8. CASE Fail(pc = "free")
  <2>1. \A e : e \notin Gone
    BY <1>4 DEF Gone
  <2>2. VolumeSound(fat', slots', Gone)
    BY <1>1, <1>6
  <2> QED
    BY <1>8, <2>1, <2>2, FinishSound DEF Fail
<1>9. CASE ~Fail(pc = "free")
  <2> DEFINE r == [reg EXCEPT !.guard = @ + 1, !.cluster = next]
  <2>1. /\ freed' = (freed \/ pc = "free") /\ call' = call
        /\ IF next \in Cluster THEN pc' = "trim" /\ reg' = r ELSE Freed(r)
    BY <1>2, <1>9 DEF IsData
  <2>2. r.slot = reg.slot /\ r.size = reg.size /\ r.first = reg.first /\ r.cluster = next
    BY DEF Typed, RegType
  <2> HIDE DEF r
  <2>3. /\ reg' = r /\ \/ pc' = "trim" /\ next \in Cluster
                       \/ pc' = "data"
    BY <2>1 DEF Freed
  <2>4. ~freed'
    BY <1>4, <2>1
  <2>5. Gone' = Gone
    BY <1>4, <2>4 DEF Gone
  <2>6. Total' = Total /\ Needed(Total)' = Needed(Total) /\ Target' = Target
    BY <2>1, <2>2, <2>3 DEF Total, Target
  <2>7. At(Target)' = At(Target)
    BY <1>1, <2>6 DEF At
  <2>8. next \in Cluster => next = fat[reg.cluster]
    BY <1>2, ClusterFacts DEF ReadFat
  <2>9. TargetSound' /\ CreateSound'
    BY <1>1, <1>4, <2>1, <2>3, <2>5, <2>7 DEF TargetSound, CreateSound, Working
  <2>10. FreeSound'
    BY <1>1, <1>4, <1>6, <1>7, <2>1, <2>2, <2>3, <2>4, <2>5, <2>8 DEF FreeSound
  <2>11. HeadOK'
    BY <1>1, <1>4, <1>6, <2>1, <2>2, <2>3, <2>4, <2>5, <2>7 DEF HeadOK
  <2>12. ChainSound'
    BY <1>4, <1>5, <1>6, <2>1, <2>2, <2>3, <2>6, <2>11 DEF ChainSound
  <2> QED
    BY <1>1, <1>6, <2>5, <2>9, <2>10, <2>12 DEF Sound
<1> QED
  BY <1>8, <1>9-----------------------------------------------------------------------------
(* The invariant: directory entries.                                       *)

LEMMA SoundMakeDirCluster ==
    ASSUME Typed, Sound, MakeDirCluster
    PROVE  Sound'
<1>1. PICK c \in Cluster : Allocate(c) /\ reg' = [reg EXCEPT !.first = c]
  BY DEF MakeDirCluster
<1>2. pc = "mkdir" /\ pc' = "dots" /\ call' = call /\ freed' = freed
  BY DEF MakeDirCluster
<1>3. reg'.first = c /\ reg'.size = reg.size /\ reg'.slot = reg.slot
  BY <1>1 DEF Typed, RegType
<1>4. /\ VolumeSound(fat', slots', Gone') /\ Mine(fat', slots', Gone', c)
      /\ DirOK(slots', Gone', call'.dir)
  BY <1>1, <1>2, <1>3, AllocateSound
<1>5. TargetSound'
  BY <1>2, <1>4 DEF TargetSound, Working
<1>6. CreateSound'
  BY <1>2, <1>3, <1>4 DEF Sound, CreateSound
<1>7. FreeSound' /\ ChainSound'
  BY <1>2 DEF Sound, CreateSound, FreeSound, ChainSound
<1> QED
  BY <1>4, <1>5, <1>6, <1>7 DEF Sound

LEMMA SoundWriteDots ==
    ASSUME Typed, Sound, WriteDots
    PROVE  Sound'
<1>1. /\ pc = "dots" /\ pc' = "create" /\ call' = call /\ freed' = freed /\ reg' = reg
      /\ fat' = fat
  BY DEF WriteDots
<1>2. /\ ~freed /\ call.op = "mkdir" /\ reg.size = 0 /\ Mine(fat, slots, Gone, reg.first)
      /\ DirOK(slots, Gone, call.dir) /\ VolumeSound(fat, slots, Gone)
  BY <1>1 DEF Sound, CreateSound, TargetSound
<1>3. \A e : e \notin Gone
  BY <1>2 DEF Gone
<1>4. Gone' = Gone
  BY <1>1 DEF Gone, Target
<1>5. /\ fat \in FatType /\ slots \in SlotsType /\ reg.first \in Cluster
      /\ \A d \in Cluster : d # reg.first => slots'[d] = slots[d]
      /\ Dots(slots', reg.first, call.dir)
      /\ \A i \in Slot \ {1, 2} : slots'[reg.first][i] = End
  <2>1. slots \in SlotsType /\ reg.first \in Cluster
    BY <1>1 DEF Typed
  <2> DEFINE d == [NoSlots EXCEPT ![1] = Entry("dir", ".", reg.first, 0),
                                  ![2] = Entry("dir", "..", call.dir, 0)]
  <2>2. /\ d[1] = Entry("dir", ".", reg.first, 0) /\ d[2] = Entry("dir", "..", call.dir, 0)
        /\ \A i \in Slot \ {1, 2} : d[i] = End
    BY SlotFacts DEF NoSlots
  <2>3. slots' = [slots EXCEPT ![reg.first] = d]
    BY DEF WriteDots
  <2> HIDE DEF d
  <2>4. slots'[reg.first] = d /\ \A c \in Cluster : c # reg.first => slots'[c] = slots[c]
    BY <2>1, <2>3 DEF SlotsType
  <2> QED
    BY <2>1, <2>2, <2>4 DEF Dots, Typed
<1>6. /\ VolumeSound(fat, slots', Gone) /\ Mine(fat, slots', Gone, reg.first)
      /\ \A d : DirOK(slots, Gone, d) => DirOK(slots', Gone, d)
  BY <1>2, <1>3, <1>5, DotsVolume
<1>7. TargetSound'
  BY <1>1, <1>2, <1>4, <1>6 DEF TargetSound, Working
<1>8. CreateSound'
  BY <1>1, <1>2, <1>4, <1>5, <1>6 DEF CreateSound
<1>9. FreeSound' /\ ChainSound'
  BY <1>1, <1>2 DEF FreeSound, ChainSound
<1> QED
  BY <1>1, <1>4, <1>6, <1>7, <1>8, <1>9 DEF Sound

(* The entry of a file carries the clusters its bytes are in.              *)
LEMMA SoundWriteEntry ==
    ASSUME Typed, Sound, WriteEntry
    PROVE  Sound'
<1> DEFINE new == [At(Target) EXCEPT !.cluster = reg.first, !.size = Total]
<1>1. /\ Target \in Cluster \X Slot /\ new \in EntryType
      /\ new.kind = At(Target).kind /\ new.name = At(Target).name
      /\ new.cluster = reg.first /\ new.size = Total
      /\ slots' \in SlotsType /\ slots' = [slots EXCEPT ![call.dir][reg.slot] = new]
  BY WriteEntryIs
<1> HIDE DEF new
<1>2. pc = "entry" /\ fat' = fat /\ Finish
  BY DEF WriteEntry
<1>3. /\ fat \in FatType /\ slots \in SlotsType
      /\ EntryAt(slots', Target) = new
      /\ \A e \in Cluster \X Slot : e # Target => EntryAt(slots', e) = EntryAt(slots, e)
  <2>1. fat \in FatType /\ slots \in SlotsType /\ call.dir \in Cluster /\ reg.slot \in Slot
    BY DEF Typed, CallType, RegType
  <2> QED
    BY <1>1, <2>1 DEF Target, EntryAt, SlotsType
<1>4. /\ VolumeSound(fat, slots, Gone) /\ TargetSound /\ Holds(At(Target))
      /\ At(Target).kind = "file" /\ EntryAt(slots, Target) = At(Target)
      /\ call.op \in {"write", "append"}
      /\ IF Total = 0 THEN reg.first = 0 ELSE HeadOK /\ Long(fat, reg.first, Needed(Total))
  BY <1>2, TargetValid DEF Sound, TargetSound, ChainSound, Working
<1>5. EntryAt(slots, Target).name \notin {".", ".."} /\ new.kind \in {"file", "dir"}
      /\ new.kind = "file"
  BY <1>1, <1>4 DEF Holds
<1>6. Gone \in SUBSET {Target}
  BY DEF Gone
<1>7. new.cluster \in Cluster =>
          /\ Starts(fat, new.cluster) /\ new.cluster # Root
          /\ \A e \in Valid(slots, Gone) \ {Target} : EntryAt(slots, e).cluster # new.cluster
  <2>1. SUFFICES ASSUME reg.first \in Cluster
                 PROVE  /\ Starts(fat, reg.first) /\ reg.first # Root
                        /\ \A e \in Valid(slots, Gone) \ {Target} :
                              EntryAt(slots, e).cluster # reg.first
    BY <1>1
  <2>2. HeadOK
    BY <1>4, <2>1, ClusterFacts
  <2>3. Starts(fat, reg.first) /\ reg.first # Root
    BY <1>2, <1>4, <2>2, HeadStarts DEF Working
  <2>4. CASE Mine(fat, slots, Gone, reg.first)
    BY <2>3, <2>4 DEF Mine
  <2>5. CASE ~freed /\ reg.first \in Cluster /\ At(Target).cluster = reg.first
    <3>1. Target \in Valid(slots, Gone)
      BY <1>2, <1>4, <2>5, TargetValid DEF Working
    <3> QED
      BY <1>4, <2>3, <2>5, <3>1 DEF VolumeSound, HeadsSound
  <2> QED
    BY <2>2, <2>4, <2>5 DEF HeadOK
<1>8. Long(fat, new.cluster, Needed(new.size))
  <2>1. CASE Total = 0
    <3>1. Needed(0) = 0
      BY NeededFacts
    <3>2. Along(fat, [i \in 0 .. -1 |-> 0], 0)
      BY DEF Along
    <3> QED
      BY <1>1, <2>1, <3>1, <3>2 DEF Long
  <2>2. CASE Total # 0
    BY <1>1, <1>4, <2>2
  <2> QED
    BY <2>1, <2>2
<1>9. PICK left : \A e : e \notin left
  BY Nobody
<1>10. Holds(new) =>
          /\ new.cluster \in Cluster =>
                /\ Starts(fat, new.cluster) /\ new.cluster # Root
                /\ \A e \in Valid(slots, Gone) \ {Target} : EntryAt(slots, e).cluster # new.cluster
          /\ new.kind = "file" => Long(fat, new.cluster, Needed(new.size))
          /\ new.kind = "dir" => new.cluster \in Cluster /\ Dots(slots, new.cluster, Target[1])
  BY <1>5, <1>7, <1>8
<1>11. /\ Target \in Cluster \X Slot /\ new \in EntryType /\ VolumeSound(fat, slots, Gone)
       /\ (new.kind \in {"file", "dir"} \/ new = Deleted)
  BY <1>1, <1>4, <1>5
<1>12. VolumeSound(fat, slots', left)
  BY <1>3, <1>5, <1>6, <1>9, <1>10, <1>11, SlotVolume
<1> QED
  BY <1>2, <1>9, <1>12, FinishSound

LEMMA SoundMarkDeleted ==
    ASSUME Typed, Sound, MarkDeleted
    PROVE  Sound'
<1>1. pc = "mark" /\ fat' = fat /\ Finish
  BY DEF MarkDeleted
<1>2. /\ VolumeSound(fat, slots, Gone) /\ Holds(At(Target)) /\ EntryAt(slots, Target) = At(Target)
      /\ Target \in Cluster \X Slot /\ fat \in FatType /\ slots \in SlotsType
  BY <1>1, TargetValid DEF Sound, TargetSound, Working, Typed
<1>3. /\ EntryAt(slots', Target) = Deleted
      /\ \A e \in Cluster \X Slot : e # Target => EntryAt(slots', e) = EntryAt(slots, e)
  <2>1. slots' = [slots EXCEPT ![call.dir][reg.slot] = Deleted]
    BY DEF MarkDeleted
  <2>2. slots \in SlotsType /\ call.dir \in Cluster /\ reg.slot \in Slot
    BY DEF Typed, CallType, RegType
  <2> QED
    BY <2>1, <2>2 DEF Target, EntryAt, SlotsType
<1>4. EntryAt(slots, Target).name \notin {".", ".."} /\ ~Holds(Deleted)
  BY <1>2 DEF Holds, Deleted, Entry
<1>5. Gone \in SUBSET {Target}
  BY DEF Gone
<1>6. PICK left : \A e : e \notin left
  BY Nobody
<1>7. VolumeSound(fat, slots', left)
  BY <1>2, <1>3, <1>4, <1>5, <1>6, Ends, SlotVolume
<1> QED
  BY <1>1, <1>6, <1>7, FinishSound
LEMMA NoNameFacts == NoName \notin {".", ".."}
BY Zenon DEF NoName

(* A write opens what it has found or created: nothing to free, or the     *)
(* chain of the entry.                                                     *)
LEMMA OpenedSound ==
    ASSUME NEW r \in RegType, NEW op, NEW payload \in Payloads \cup {<<>>}, Opened(r, op, payload),
           op \in {"write", "append"}, call'.op = op, call'.payload = payload, ~freed',
           VolumeSound(fat', slots', Gone'), DirOK(slots', Gone', call'.dir),
           EntryAt(slots', <<call'.dir, r.slot>>).kind = "file",
           Holds(EntryAt(slots', <<call'.dir, r.slot>>)),
           EntryAt(slots', <<call'.dir, r.slot>>).cluster = r.first,
           EntryAt(slots', <<call'.dir, r.slot>>).size = r.size
    PROVE  Sound'
<1> DEFINE total == Final(op, r.size, payload)
<1>1. reg'.slot = r.slot /\ reg'.size = r.size /\ pc' \in {"free", "entry", "extend", "first"}
  BY OpenedIs, ExtendingIs
<1>2. Total' = total /\ Needed(Total)' = Needed(total) /\ Target' = <<call'.dir, r.slot>>
  BY <1>1 DEF Total, Target
<1>3. At(Target)' = EntryAt(slots', <<call'.dir, r.slot>>)
  BY <1>2 DEF At, EntryAt
<1>4. TargetSound'
  BY <1>1, <1>3 DEF TargetSound
<1>5. CreateSound'
  BY <1>1 DEF CreateSound
<1>6. CASE op = "write" /\ r.first \in Cluster /\ pc' = "free" /\ reg'.cluster = r.first
  <2>1. FreeSound'
    BY <1>3, <1>6 DEF FreeSound
  <2>2. ChainSound'
    BY <1>6 DEF ChainSound
  <2> QED
    BY <1>4, <1>5, <2>1, <2>2 DEF Sound
<1>7. CASE ~(op = "write" /\ r.first \in Cluster) /\ Extending(r, op, payload)
  <2>1. /\ total \in Nat
        /\ \/ total = 0 /\ pc' = "entry" /\ reg'.first = 0
           \/ /\ total > 0 /\ pc' = "extend" /\ r.first \in Cluster
              /\ reg'.first = r.first /\ reg'.cluster = r.first
              /\ reg'.left = Needed(total) - 1
           \/ /\ total > 0 /\ pc' = "first" /\ r.first \notin Cluster
              /\ reg'.first = r.first
              /\ reg'.left = Needed(total) - 1
    BY <1>7, ExtendingIs
  <2>2. FreeSound'
    BY <2>1 DEF FreeSound
  <2>3. CASE pc' = "entry"
    BY <1>2, <2>1, <2>2, <2>3, <1>4, <1>5 DEF Sound, ChainSound
  <2>4. CASE pc' = "first"
    BY <1>2, <2>1, <2>2, <2>4, <1>4, <1>5 DEF Sound, ChainSound
  <2>5. CASE pc' = "extend"
    <3> HIDE DEF total
    <3>1. op = "append" /\ r.first \in Cluster /\ reg'.first = r.first
      BY <1>7, <2>1, <2>5
    <3>2. HeadOK'
      BY <1>1, <1>3, <3>1 DEF HeadOK
    <3>3. Reaches(fat', reg'.first, reg'.cluster, 1)
      BY <2>1, <2>5, ReachesFirst
    <3>4. Needed(total) - reg'.left = 1 /\ reg'.left < Needed(total)
      <4>1. Needed(total) \in Nat
        BY <2>1, NeededFacts
      <4> QED
        BY <2>1, <2>5, <4>1
    <3>5. ChainSound'
      BY <1>2, <2>1, <2>5, <3>1, <3>2, <3>3, <3>4 DEF ChainSound
    <3> QED
      BY <1>4, <1>5, <2>2, <3>5 DEF Sound
  <2> QED
    BY <2>1, <2>3, <2>4, <2>5
<1> QED
  BY <1>6, <1>7, OpenedIs

LEMMA SoundCreate ==
    ASSUME Typed, Sound, Create, health' # "tainted"
    PROVE  Sound'
<1>1. /\ pc = "create" /\ call \in CallType /\ call.name \in Names /\ fat \in FatType
      /\ slots \in SlotsType /\ reg \in RegType
  BY DEF Create, Typed
<1>2. /\ ~freed /\ reg.size = 0 /\ call.op \in {"touch", "write", "append", "mkdir"}
      /\ IF call.op = "mkdir" THEN Mine(fat, slots, Gone, reg.first) /\ Dots(slots, reg.first, call.dir)
                              ELSE reg.first = 0
      /\ DirOK(slots, Gone, call.dir) /\ VolumeSound(fat, slots, Gone)
  BY <1>1 DEF Sound, CreateSound, TargetSound
<1>3. \A e : e \notin Gone
  BY <1>2 DEF Gone
<1>4. CASE Find(call.dir, call.name).status # "free"
  <2>1. Fail(freed) /\ UNCHANGED diskVars
    BY <1>4 DEF Create, diskVars
  <2> QED
    BY <2>1, FailSound
<1>5. CASE Find(call.dir, call.name).status = "free"
  <2> DEFINE slot == Find(call.dir, call.name).slot
             new  == Entry(IF call.op = "mkdir" THEN "dir" ELSE "file", call.name, reg.first, 0)
             x    == <<call.dir, slot>>
             r    == [reg EXCEPT !.slot = slot]
  <2>1. /\ <<call.dir, slot>> \in Cluster \X Slot /\ new \in EntryType
        /\ slots[call.dir][slot] \in {End, Deleted}
        /\ slots' = [slots EXCEPT ![call.dir][slot] = new]
        /\ slots' \in SlotsType /\ fat' = fat /\ health' = health
        /\ r \in RegType
        /\ IF call.op \in {"write", "append"}
           THEN Opened(r, call.op, call.payload) /\ call' = call /\ freed' = freed
           ELSE Finish
    BY <1>5, CreateIs
  <2>2. /\ new.kind = IF call.op = "mkdir" THEN "dir" ELSE "file"
        /\ new.name = call.name /\ new.cluster = reg.first /\ new.size = 0
    BY DEF Entry
  <2>3. r.slot = slot /\ r.first = reg.first /\ r.size = reg.size
    BY <1>1 DEF RegType
  <2> HIDE DEF slot, new, r
  <2>4. x \in Cluster \X Slot /\ EntryAt(slots, x) \in {End, Deleted}
    BY <2>1 DEF EntryAt
  <2>5. EntryAt(slots', x) = new /\ \A e \in Cluster \X Slot : e # x => EntryAt(slots', e) = EntryAt(slots, e)
    BY <1>1, <2>1 DEF EntryAt, SlotsType
  <2>6. EntryAt(slots, x).name \notin {".", ".."} /\ ~Holds(EntryAt(slots, x))
    BY <2>4, NoNameFacts DEF End, Deleted, Entry, Holds
  <2>7. x \notin Valid(slots, Gone)
    BY <2>6 DEF Valid
  <2>8. call.name \notin {".", ".."}
    BY <1>1, Fat32Assumption
  <2>9. new.cluster \in Cluster => call.op = "mkdir" /\ Mine(fat, slots, Gone, new.cluster)
    BY <1>2, <2>2, ClusterFacts
  <2>10. new.kind = "file" => Long(fat, new.cluster, Needed(new.size))
    <3>1. Needed(0) = 0
      BY NeededFacts
    <3>2. Along(fat, [i \in 0 .. -1 |-> 0], 0)
      BY DEF Along
    <3> QED
      BY <2>2, <3>1, <3>2 DEF Long
  <2>11. new.kind = "dir" => new.cluster \in Cluster /\ Dots(slots, new.cluster, x[1])
    BY <1>2, <2>2 DEF Mine, Starts
  <2>12. Holds(new) =>
          /\ new.cluster \in Cluster =>
                /\ Starts(fat, new.cluster) /\ new.cluster # Root
                /\ \A e \in Valid(slots, Gone) \ {x} : EntryAt(slots, e).cluster # new.cluster
          /\ new.kind = "file" => Long(fat, new.cluster, Needed(new.size))
          /\ new.kind = "dir" => new.cluster \in Cluster /\ Dots(slots, new.cluster, x[1])
    BY <2>9, <2>10, <2>11 DEF Mine
  <2> HIDE DEF x
  <2>13. Gone \in SUBSET {x} /\ (new.kind \in {"file", "dir"} \/ new = Deleted) /\ new \in EntryType
    BY <1>3, <2>1, <2>2
  <2>14. /\ VolumeSound(fat, slots', Gone)
         /\ \A d : DirOK(slots, Gone, d) /\ x \notin Valid(slots, Gone) => DirOK(slots', Gone, d)
    BY <1>1, <1>2, <1>3, <2>4, <2>5, <2>6, <2>12, <2>13, SlotVolume
  <2>15. CASE call.op \in {"write", "append"}
    <3>1. Opened(r, call.op, call.payload) /\ call' = call /\ ~freed'
      BY <1>2, <2>1, <2>15
    <3>2. Gone' = Gone
      BY <1>3, <3>1 DEF Gone
    <3>3. /\ VolumeSound(fat', slots', Gone') /\ DirOK(slots', Gone', call'.dir)
      BY <1>2, <2>1, <2>7, <2>14, <3>1, <3>2
    <3>4. /\ EntryAt(slots', <<call'.dir, r.slot>>) = new
      BY <2>3, <2>5, <3>1 DEF x
    <3>5. new.kind = "file" /\ Holds(new) /\ new.cluster = r.first /\ new.size = r.size /\ r.size = 0
      BY <1>2, <2>2, <2>3, <2>8, <2>15 DEF Holds
    <3>6. call.payload \in Payloads \cup {<<>>}
      BY <1>1 DEF CallType
    <3>7. call'.op = call.op /\ call'.payload = call.payload
      BY <3>1
    <3> QED
      BY <2>1, <2>15, <3>1, <3>3, <3>4, <3>5, <3>6, <3>7, OpenedSound
  <2>16. CASE call.op \notin {"write", "append"}
    <3>1. Finish
      BY <2>1, <2>16
    <3>2. VolumeSound(fat', slots', Gone)
      BY <2>1, <2>14
    <3> QED
      BY <1>3, <3>1, <3>2, FinishSound
  <2> QED
    BY <2>15, <2>16
<1> QED
  BY <1>4, <1>5-----------------------------------------------------------------------------
(* The invariant: the calls, and every step.                               *)

LEMMA CreatingSound ==
    ASSUME Inv, Ready, NEW p \in Parents, NEW n \in Names,
           NEW op \in {"touch", "write", "append", "mkdir"}, NEW payload \in Payloads \cup {<<>>},
           Begin(op, p, n, payload), reg' = reg, pc' = IF op = "mkdir" THEN "mkdir" ELSE "create"
    PROVE  Sound'
<1>1. op \in Ops
  BY DEF Ops
<1>2. /\ call'.op = op /\ call'.dir = p.cluster
      /\ fat' = fat /\ slots' = slots /\ freed' = freed /\ reg = NoReg /\ ~freed
      /\ DirOK(slots, Gone, p.cluster) /\ VolumeSound(fat, slots, Gone)
  BY <1>1, BeginTyped
<1>3. \A e : e \notin Gone /\ e \notin Gone'
  BY <1>2 DEF Gone
<1>4. Gone' = Gone
  BY <1>3
<1>5. VolumeSound(fat', slots', Gone') /\ DirOK(slots', Gone', call'.dir)
  BY <1>2, <1>4
<1>6. TargetSound'
  BY <1>5 DEF TargetSound, Working
<1>7. CreateSound'
  BY <1>2 DEF CreateSound, NoReg
<1>8. FreeSound' /\ ChainSound'
  BY <1>2 DEF FreeSound, ChainSound
<1> QED
  BY <1>5, <1>6, <1>7, <1>8 DEF Sound

(* What a call that found its entry starts from.                           *)
LEMMA FoundSound ==
    ASSUME Inv, Ready, NEW p \in Parents, NEW n \in Names, Find(p.cluster, n).status = "found",
           NEW op \in Ops, NEW payload \in Payloads \cup {<<>>}, Begin(op, p, n, payload)
    PROVE  /\ call'.op = op /\ call'.payload = payload /\ ~freed' /\ reg \in RegType
           /\ VolumeSound(fat', slots', Gone') /\ DirOK(slots', Gone', call'.dir)
           /\ EntryAt(slots', <<call'.dir, Find(p.cluster, n).slot>>) = Found(p.cluster, n)
           /\ Found(p.cluster, n) \in EntryType /\ Holds(Found(p.cluster, n))
           /\ Find(p.cluster, n).slot \in Slot
<1>1. /\ call'.op = op /\ call'.dir = p.cluster /\ call'.payload = payload
      /\ fat' = fat /\ slots' = slots /\ freed' = freed /\ ~freed /\ reg \in RegType
      /\ DirOK(slots, Gone, p.cluster) /\ VolumeSound(fat, slots, Gone)
  BY BeginTyped
<1>2. \A e : e \notin Gone /\ e \notin Gone'
  BY <1>1 DEF Gone
<1>3. Gone' = Gone
  BY <1>2
<1>4. VolumeSound(fat', slots', Gone') /\ DirOK(slots', Gone', call'.dir) /\ ~freed'
  BY <1>1, <1>3
<1> QED
  BY <1>1, <1>4, FoundIs

LEMMA SoundCallWrite ==
    ASSUME Inv, CallWrite
    PROVE  Sound'
<1>1. Ready
  BY DEF CallWrite
<1>2. PICK p \in Parents, n \in Names, op \in {"write", "append"}, payload \in Payloads :
          /\ Begin(op, p, n, payload)
          /\ \/ /\ Find(p.cluster, n).status = "free"
                /\ pc' = "create" /\ reg' = reg
             \/ /\ Find(p.cluster, n).status = "found" /\ Found(p.cluster, n).kind # "dir"
                /\ Opened([reg EXCEPT !.slot = Find(p.cluster, n).slot,
                                      !.size = Found(p.cluster, n).size,
                                      !.first = Found(p.cluster, n).cluster], op, payload)
  BY ZenonT(60) DEF CallWrite
<1>3. CASE pc' = "create" /\ reg' = reg
  BY <1>1, <1>2, <1>3, CreatingSound
<1>4. CASE /\ Find(p.cluster, n).status = "found" /\ Found(p.cluster, n).kind # "dir"
           /\ Opened([reg EXCEPT !.slot = Find(p.cluster, n).slot,
                                 !.size = Found(p.cluster, n).size,
                                 !.first = Found(p.cluster, n).cluster], op, payload)
  <2> DEFINE r == [reg EXCEPT !.slot = Find(p.cluster, n).slot,
                              !.size = Found(p.cluster, n).size,
                              !.first = Found(p.cluster, n).cluster]
             e == Found(p.cluster, n)
  <2>1. op \in Ops /\ payload \in Payloads \cup {<<>>} /\ Opened(r, op, payload)
    BY <1>4 DEF Ops
  <2>2. /\ call'.op = op /\ call'.payload = payload /\ ~freed' /\ reg \in RegType
        /\ VolumeSound(fat', slots', Gone') /\ DirOK(slots', Gone', call'.dir)
        /\ EntryAt(slots', <<call'.dir, Find(p.cluster, n).slot>>) = e
        /\ e \in EntryType /\ Holds(e)
        /\ Find(p.cluster, n).slot \in Slot
    BY <1>1, <1>2, <1>4, <2>1, FoundSound
  <2>3. /\ r \in RegType /\ r.slot = Find(p.cluster, n).slot
        /\ r.size = e.size /\ r.first = e.cluster
    BY <2>2 DEF RegType, EntryType
  <2>4. e.kind = "file"
    BY <1>4, <2>2 DEF Holds
  <2> HIDE DEF r, e
  <2>5. EntryAt(slots', <<call'.dir, r.slot>>) = e
    BY <2>2, <2>3
  <2> QED
    BY <2>1, <2>2, <2>3, <2>4, <2>5, OpenedSound
<1> QED
  BY <1>2, <1>3, <1>4

LEMMA SoundCallRemove ==
    ASSUME Inv, CallRemove
    PROVE  Sound'
<1>1. Ready
  BY DEF CallRemove
<1>2. PICK p \in Parents, n \in Names, op \in {"rm", "rmdir"} :
          /\ Find(p.cluster, n).status = "found"
          /\ (Found(p.cluster, n).kind = "dir") = (op = "rmdir")
          /\ Begin(op, p, n, <<>>)
          /\ pc' = Removal(Found(p.cluster, n).cluster)
          /\ reg' = [reg EXCEPT !.slot = Find(p.cluster, n).slot,
                                !.first = Found(p.cluster, n).cluster,
                                !.cluster = Found(p.cluster, n).cluster]
  BY Zenon DEF CallRemove
<1>3. /\ call'.op = op /\ ~freed' /\ reg \in RegType
      /\ VolumeSound(fat', slots', Gone') /\ DirOK(slots', Gone', call'.dir)
      /\ EntryAt(slots', <<call'.dir, Find(p.cluster, n).slot>>) = Found(p.cluster, n)
      /\ Found(p.cluster, n) \in EntryType /\ Holds(Found(p.cluster, n))
      /\ Find(p.cluster, n).slot \in Slot
  <2>1. op \in Ops /\ <<>> \in Payloads \cup {<<>>}
    BY DEF Ops
  <2> QED
    BY <1>1, <1>2, <2>1, FoundSound
<1>4. /\ reg'.slot = Find(p.cluster, n).slot /\ reg'.cluster = Found(p.cluster, n).cluster
      /\ pc' \in {"free", "mark"}
  BY <1>2, <1>3 DEF RegType, Removal
<1>5. At(Target)' = Found(p.cluster, n)
  BY <1>3, <1>4 DEF At, Target, EntryAt
<1>6. TargetSound'
  <2>1. Found(p.cluster, n).kind = IF op = "rmdir" THEN "dir" ELSE "file"
    BY <1>2, <1>3 DEF Holds
  <2> QED
    BY <1>3, <1>5, <2>1 DEF TargetSound
<1>7. FreeSound'
  BY <1>3, <1>4, <1>5 DEF FreeSound
<1>8. CreateSound' /\ ChainSound'
  BY <1>4 DEF CreateSound, ChainSound
<1> QED
  BY <1>3, <1>6, <1>7, <1>8 DEF Sound

LEMMA SoundCall ==
    ASSUME Inv, Call
    PROVE  Sound'
<1>1. CASE CallTouch
  <2>1. PICK p \in Parents, n \in Names : Begin("touch", p, n, <<>>)
    BY <1>1 DEF CallTouch
  <2>2. Ready /\ pc' = "create" /\ reg' = reg
    BY <1>1 DEF CallTouch
  <2> QED
    BY <2>1, <2>2, CreatingSound
<1>2. CASE CallMakeDir
  <2>1. PICK p \in Parents, n \in Names : Begin("mkdir", p, n, <<>>)
    BY <1>2 DEF CallMakeDir
  <2>2. Ready /\ pc' = "mkdir" /\ reg' = reg
    BY <1>2 DEF CallMakeDir
  <2> QED
    BY <2>1, <2>2, CreatingSound
<1> QED
  BY <1>1, <1>2, SoundCallWrite, SoundCallRemove DEF Call
LEMMA FormattedSound ==
    ASSUME NEW left
    PROVE  VolumeSound(FormattedFat, FormattedSlots, left)
<1>1. \A c \in Cluster : /\ FormattedFat[c] \notin Cluster
                         /\ c = Root => FormattedFat[c] # Unused
  BY ClusterFacts DEF FormattedFat
<1>2. TableSound(FormattedFat)
  BY <1>1, ClusterFacts DEF TableSound, Starts
<1>3. \A c \in Cluster, i \in Slot :
          FormattedSlots[c][i] = End \/ FormattedSlots[c][i] = Entry("label", VolumeLabel, 0, 0)
  BY DEF FormattedSlots, NoSlots
<1>4. SlotsSound(FormattedSlots) /\ \A e \in Cluster \X Slot : ~Holds(EntryAt(FormattedSlots, e))
  BY <1>3 DEF SlotsSound, Holds, EntryAt, End, Entry
<1>5. \A e : e \notin Valid(FormattedSlots, left)
  BY <1>4 DEF Valid
<1>6. /\ HeadsSound(FormattedFat, FormattedSlots, left) /\ DirsSound(FormattedSlots, left)
      /\ FilesSound(FormattedFat, FormattedSlots, left)
  BY <1>5 DEF HeadsSound, DirsSound, FilesSound
<1> QED
  BY <1>2, <1>4, <1>6 DEF VolumeSound

LEMMA SoundFormat ==
    ASSUME Typed, Format
    PROVE  Sound'
<1>1. Finish
  BY DEF Typed, Format, Finish
<1>2. PICK left : \A e : e \notin left
  BY Nobody
<1>3. VolumeSound(fat', slots', left)
  BY FormattedSound DEF Format
<1> QED
  BY <1>1, <1>2, <1>3, FinishSound

(* A tainted volume stays so until it is formatted.                        *)
LEMMA Tainted ==
    ASSUME Next \/ UNCHANGED vars, health = "tainted", ~Format
    PROVE  health' = "tainted"
<1>1. CASE Call
  BY <1>1 DEF Call, CallTouch, CallWrite, CallMakeDir, CallRemove, Ready
<1>2. CASE Step
  <2>1. CASE AllocateFirst \/ Follow \/ AllocateNext \/ Link \/ Terminate
    BY <2>1 DEF AllocateFirst, Follow, AllocateNext, Link, Terminate, Worsens
  <2>2. CASE OutOfSpace \/ WriteData \/ DataWritten \/ AppendNothing
    BY <2>2 DEF OutOfSpace, WriteData, DataWritten, AppendNothing, Fail, Worsens
  <2>3. CASE FreeCluster
    <3>1. Fail(pc = "free") \/ Worsens("leaky") \/ health' = health
      BY <2>3 DEF FreeCluster
    <3> QED
      BY <3>1 DEF Fail, Worsens
  <2>4. CASE MakeDirCluster \/ WriteDots \/ Create \/ WriteEntry \/ MarkDeleted
    BY <2>4 DEF MakeDirCluster, WriteDots, Create, WriteEntry, MarkDeleted, Fail, Worsens
  <2> QED
    BY <1>2, <2>1, <2>2, <2>3, <2>4 DEF Step
<1>3. CASE DiskFails \/ UNCHANGED vars
  BY <1>3 DEF DiskFails, Fail, Worsens, vars
<1> QED
  BY <1>1, <1>2, <1>3 DEF Next

LEMMA SoundStep ==
    ASSUME Inv, Step, health # "tainted", health' # "tainted"
    PROVE  Sound'
<1>1. Typed /\ Sound
  BY DEF Inv
<1>2. CASE AllocateFirst \/ Follow \/ AllocateNext \/ Link \/ Terminate
  BY <1>1, <1>2, SoundAllocateFirst, SoundFollow, SoundAllocateNext, SoundLink, SoundTerminate
<1>3. CASE OutOfSpace \/ AppendNothing
  <2>1. Fail(freed) /\ UNCHANGED diskVars
    BY <1>3 DEF OutOfSpace, AppendNothing
  <2> QED
    BY <1>1, <2>1, FailSound
<1>4. CASE FreeCluster
  <2>1. pc \in {"free", "trim"}
    BY <1>4 DEF FreeCluster
  <2> QED
    BY <1>1, <1>4, <2>1, SoundFree, SoundTrim
<1>5. CASE WriteData \/ DataWritten
  BY <1>1, <1>5, SoundData
<1>6. CASE MakeDirCluster \/ WriteDots \/ Create \/ WriteEntry \/ MarkDeleted
  BY <1>1, <1>6, SoundMakeDirCluster, SoundWriteDots, SoundCreate, SoundWriteEntry, SoundMarkDeleted
<1> QED
  BY <1>2, <1>3, <1>4, <1>5, <1>6 DEF Step

LEMMA SoundNext ==
    ASSUME Inv, Next \/ UNCHANGED vars, health' # "tainted"
    PROVE  Sound'
<1>1. CASE Format
  BY <1>1, SoundFormat DEF Inv
<1>2. CASE ~Format
  <2>1. health # "tainted"
    BY <1>2, Tainted
  <2>2. Typed /\ Sound
    BY <2>1 DEF Inv
  <2>3. CASE DiskFails
    BY <2>2, <2>3, FailSound DEF DiskFails
  <2>4. CASE UNCHANGED vars
    BY <2>2, <2>4 DEF vars, diskVars, Sound, TargetSound, CreateSound, FreeSound, ChainSound,
                      HeadOK, At, Target, Gone, Total
  <2> QED
    BY <1>2, <2>1, <2>3, <2>4, SoundCall, SoundStep DEF Next
<1> QED
  BY <1>1, <1>2

LEMMA TypedNext ==
    ASSUME Inv, Next \/ UNCHANGED vars
    PROVE  Typed'
<1>1. Typed
  BY DEF Inv
<1>2. CASE Step
  BY <1>1, <1>2, TypedChain, TypedRest, TypedEntries DEF Step
<1>3. CASE UNCHANGED vars
  BY <1>1, <1>3 DEF vars, diskVars, Typed, Total
<1> QED
  BY <1>1, <1>2, <1>3, TypedCall, TypedRest DEF Next

LEMMA Initially ==
    ASSUME Init
    PROVE  Inv
<1>1. Typed
  <2>1. NoCall.op = "none" /\ NoCall.payload = <<>> /\ NoReg.size = 0
    BY DEF NoCall, NoReg
  <2>2. Final("none", 0, <<>>) <= MaxFileBytes
    BY Fat32Assumption DEF Final, Base
  <2>3. Total <= MaxFileBytes
    BY <2>1, <2>2 DEF Init, Total
  <2> QED
    BY <2>3, FormattedTyped, Beginnings DEF Init, Typed, Steps
<1>2. PICK left : \A e : e \notin left
  BY Nobody
<1>3. Gone = left
  BY <1>2 DEF Init, Gone
<1>4. VolumeSound(fat, slots, Gone)
  BY <1>3, FormattedSound DEF Init
<1>5. TargetSound /\ CreateSound /\ FreeSound /\ ChainSound
  BY DEF Init, TargetSound, CreateSound, FreeSound, ChainSound, Working
<1> QED
  BY <1>1, <1>4, <1>5 DEF Inv, Sound

(* Whatever is called and whatever fails, the volume stays sound and the   *)
(* registers of fat32_write_file, fat32_remove_file and their like stay    *)
(* what the next write relies on, until clusters are freed that an entry   *)
(* still names and the operation does not come to its last write.          *)
THEOREM Invariant == Spec => []Inv
<1>1. Init => Inv
  BY Initially
<1>2. Inv /\ [Next]_vars => Inv'
  BY TypedNext, SoundNext DEF Inv
<1> QED
  BY <1>1, <1>2, PTL DEF Spec

(* Every variable keeps its type, and no file outgrows its bound.          *)
THEOREM TypeCorrect == Spec => []TypeOK
<1>1. Inv => TypeOK
  BY DEF Inv, Typed, TypeOK, FatType, SlotsType, EntryType, CallType, RegType, Ops, Steps
<1> QED
  BY <1>1, Invariant, PTL-----------------------------------------------------------------------------
(* From single links to whole chains.                                      *)

(* No cluster comes twice in a chain: one of n clusters has n of them.     *)
LEMMA ChainLength ==
    ASSUME NEW f, TableSound(f), NEW n \in Nat, NEW p, Along(f, p, n), n > 0 => Starts(f, p[0]),
           NEW T, IsFiniteSet(T), \A j \in 0 .. n - 1 : p[j] \in T
    PROVE  n <= Cardinality(T)
<1>1. SUFFICES ASSUME ~(n <= Cardinality(T)) PROVE FALSE
  OBVIOUS
<1>2. IsFiniteSet(0 .. n - 1) /\ Cardinality(0 .. n - 1) = n
  BY FS_Interval
<1>3. Cardinality(T) \in Nat
  BY FS_CardinalityType
<1>4. DOMAIN p = 0 .. n - 1 /\ p = [j \in 0 .. n - 1 |-> p[j]]
  BY DEF Along
<1>5. p \in [0 .. n - 1 -> T]
  BY <1>4
<1>6. PICK i, j \in 0 .. n - 1 : i # j /\ p[i] = p[j]
  BY <1>1, <1>2, <1>3, <1>5, FS_PigeonHole
<1>7. Starts(f, p[0])
  BY <1>6
<1> QED
  BY <1>6, <1>7, ChainsMeet

(* Nth for a table that is not the present one.                            *)
NthOf(f, first, k) ==
    LET at[n \in 0 .. k] == IF n = 0 THEN first
                            ELSE IF IsData(at[n - 1]) THEN f[at[n - 1]] ELSE EndOfChain
    IN  at[k]

Follows(f, g, first, k) ==
    g = [n \in 0 .. k |-> IF n = 0 THEN first
                          ELSE IF IsData(g[n - 1]) THEN f[g[n - 1]] ELSE EndOfChain]

NextOf(f, c) == IF IsData(c) THEN f[c] ELSE EndOfChain

LEMMA FollowsIs ==
    ASSUME NEW f, NEW first, NEW k \in Nat, NEW g, Follows(f, g, first, k)
    PROVE  g[0] = first /\ \A n \in 0 .. k : n > 0 => g[n] = NextOf(f, g[n - 1])
<1> DEFINE rhs == [n \in 0 .. k |-> IF n = 0 THEN first ELSE NextOf(f, g[n - 1])]
<1>1. g = rhs
  BY DEF Follows, NextOf
<1>2. rhs[0] = first /\ \A n \in 0 .. k : n > 0 => rhs[n] = NextOf(f, g[n - 1])
  OBVIOUS
<1> HIDE DEF rhs
<1> QED
  BY <1>1, <1>2

LEMMA FollowsIf ==
    ASSUME NEW f, NEW first, NEW k \in Nat, NEW g, g = [n \in 0 .. k |-> g[n]], g[0] = first,
           \A n \in 0 .. k : n > 0 => g[n] = NextOf(f, g[n - 1])
    PROVE  Follows(f, g, first, k)
<1>1. \A n \in 0 .. k : n = 0 \/ n > 0
  OBVIOUS
<1>2. \A n \in 0 .. k : g[n] = IF n = 0 THEN first ELSE NextOf(f, g[n - 1])
  BY <1>1
<1>3. [n \in 0 .. k |-> g[n]] = [n \in 0 .. k |-> IF n = 0 THEN first ELSE NextOf(f, g[n - 1])]
  BY <1>2
<1> QED
  BY <1>3 DEF Follows, NextOf

LEMMA FollowsExists ==
    ASSUME NEW f, NEW first, NEW k \in Nat
    PROVE  \E g : Follows(f, g, first, k)
<1> DEFINE S == {m \in Nat : \A g : ~Follows(f, g, first, m)}
<1>1. SUFFICES ASSUME S # {} PROVE FALSE
  OBVIOUS
<1>2. PICK m \in S : \A x \in S : m <= x
  <2>1. S \in SUBSET Nat
    OBVIOUS
  <2> HIDE DEF S
  <2> QED
    BY <1>1, <2>1, LeastExists
<1>3. m \in Nat /\ \A g : ~Follows(f, g, first, m)
  OBVIOUS
<1>4. CASE m = 0
  <2> DEFINE h == [n \in 0 .. 0 |-> first]
  <2>1. h = [n \in 0 .. 0 |-> h[n]] /\ h[0] = first /\ \A n \in 0 .. 0 : ~(n > 0)
    OBVIOUS
  <2>2. Follows(f, h, first, 0)
    <3> HIDE DEF h
    <3> QED
      BY <2>1, FollowsIf
  <2> QED
    BY <1>3, <1>4, <2>2
<1>5. CASE m > 0
  <2>1. m - 1 \in Nat /\ m - 1 \notin S
    BY <1>2, <1>3, <1>5
  <2>2. PICK g : Follows(f, g, first, m - 1)
    BY <2>1
  <2>3. g[0] = first /\ \A n \in 0 .. m - 1 : n > 0 => g[n] = NextOf(f, g[n - 1])
    BY <2>1, <2>2, FollowsIs
  <2> DEFINE h == [n \in 0 .. m |-> IF n = m THEN NextOf(f, g[m - 1]) ELSE g[n]]
  <2>4. h = [n \in 0 .. m |-> h[n]]
    OBVIOUS
  <2>5. h[m] = NextOf(f, g[m - 1]) /\ \A n \in 0 .. m - 1 : h[n] = g[n]
    BY <1>3
  <2> HIDE DEF h
  <2>6. h[0] = first /\ \A n \in 0 .. m : n > 0 => h[n] = NextOf(f, h[n - 1])
    <3>1. 0 \in 0 .. m - 1
      BY <1>3, <1>5
    <3>2. SUFFICES ASSUME NEW n \in 0 .. m, n > 0 PROVE h[n] = NextOf(f, h[n - 1])
      BY <2>3, <2>5, <3>1
    <3>3. n - 1 \in 0 .. m - 1
      BY <1>3, <3>2
    <3>4. h[n - 1] = g[n - 1]
      BY <2>5, <3>3
    <3>5. CASE n = m
      BY <2>5, <3>4, <3>5
    <3>6. CASE n # m
      <4>1. n \in 0 .. m - 1
        BY <1>3, <3>2, <3>6
      <4> QED
        BY <2>3, <2>5, <3>2, <3>4, <4>1
    <3> QED
      BY <3>5, <3>6
  <2>7. Follows(f, h, first, m)
    BY <1>3, <2>4, <2>6, FollowsIf
  <2> QED
    BY <1>3, <2>7
<1> QED
  BY <1>3, <1>4, <1>5

LEMMA FollowsSame ==
    ASSUME NEW f, NEW first, NEW k \in Nat, NEW m \in Nat, NEW g, NEW h,
           Follows(f, g, first, k), Follows(f, h, first, m), NEW n \in Nat, n <= k, n <= m
    PROVE  g[n] = h[n]
<1> DEFINE S == {x \in 0 .. n : g[x] # h[x]}
<1>1. SUFFICES ASSUME S # {} PROVE FALSE
  OBVIOUS
<1>2. PICK x \in S : \A y \in S : x <= y
  <2>1. S \in SUBSET Nat
    OBVIOUS
  <2> HIDE DEF S
  <2> QED
    BY <1>1, <2>1, LeastExists
<1>3. x \in 0 .. n /\ g[x] # h[x]
  OBVIOUS
<1>4. /\ g[0] = first /\ \A y \in 0 .. k : y > 0 => g[y] = NextOf(f, g[y - 1])
      /\ h[0] = first /\ \A y \in 0 .. m : y > 0 => h[y] = NextOf(f, h[y - 1])
  BY FollowsIs
<1>5. x > 0 /\ x \in 0 .. k /\ x \in 0 .. m
  BY <1>3, <1>4
<1>6. x - 1 \notin S /\ x - 1 \in 0 .. n
  BY <1>2, <1>3, <1>5
<1>7. g[x - 1] = h[x - 1]
  BY <1>6
<1> QED
  BY <1>3, <1>4, <1>5, <1>7

(* The definition of NthOf, without the function it is written with.       *)
LEMMA NthOfIs ==
    ASSUME NEW f, NEW first
    PROVE  /\ NthOf(f, first, 0) = first
           /\ \A k \in Nat : NthOf(f, first, k + 1) = NextOf(f, NthOf(f, first, k))
<1>1. \A k \in Nat : \E g : Follows(f, g, first, k) /\ NthOf(f, first, k) = g[k]
  <2>1. SUFFICES ASSUME NEW k \in Nat PROVE \E g : Follows(f, g, first, k) /\ NthOf(f, first, k) = g[k]
    OBVIOUS
  <2> DEFINE c == CHOOSE g : Follows(f, g, first, k)
  <2>2. Follows(f, c, first, k)
    BY FollowsExists
  <2>3. NthOf(f, first, k) = c[k]
    BY DEF NthOf, Follows
  <2> QED
    BY <2>2, <2>3
<1>2. NthOf(f, first, 0) = first
  <2>1. PICK g : Follows(f, g, first, 0) /\ NthOf(f, first, 0) = g[0]
    BY <1>1
  <2> QED
    BY <2>1, FollowsIs
<1>3. ASSUME NEW k \in Nat, NEW m \in Nat, m = k + 1 PROVE NthOf(f, first, m) = NextOf(f, NthOf(f, first, k))
  <2>1. PICK g : Follows(f, g, first, k) /\ NthOf(f, first, k) = g[k]
    BY <1>1
  <2>2. PICK h : Follows(f, h, first, m) /\ NthOf(f, first, m) = h[m]
    BY <1>1
  <2>3. h[m] = NextOf(f, h[k])
    <3>1. \A n \in 0 .. m : n > 0 => h[n] = NextOf(f, h[n - 1])
      BY <2>2, FollowsIs
    <3>2. m \in 0 .. m /\ m > 0 /\ m - 1 = k
      BY <1>3
    <3> QED
      BY <3>1, <3>2
  <2>4. h[k] = g[k]
    <3>1. k <= k /\ k <= m
      BY <1>3
    <3> QED
      BY <2>1, <2>2, <3>1, FollowsSame
  <2> QED
    BY <2>1, <2>2, <2>3, <2>4
<1>4. \A k \in Nat : k + 1 \in Nat /\ NthOf(f, first, k + 1) = NextOf(f, NthOf(f, first, k))
  BY <1>3
<1> QED
  BY <1>2, <1>4
LEMMA NthIs ==
    ASSUME NEW first
    PROVE  /\ Nth(first, 0) = first
           /\ \A k \in Nat : Nth(first, k + 1) = NextOf(fat, Nth(first, k))
<1>1. \A k : Nth(first, k) = NthOf(fat, first, k)
  BY DEF Nth, NthOf
<1>2. /\ NthOf(fat, first, 0) = first
      /\ \A k \in Nat : NthOf(fat, first, k + 1) = NextOf(fat, NthOf(fat, first, k))
  BY NthOfIs
<1> QED
  BY <1>1, <1>2

(* A chain is left only once.                                              *)
LEMMA NthBefore ==
    ASSUME fat \in FatType, NEW first, NEW k \in Nat, Nth(first, k) \in Cluster,
           NEW j \in 0 .. k
    PROVE  Nth(first, j) \in Cluster
<1> DEFINE S == {m \in j .. k : Nth(first, m) \in Cluster}
<1>1. SUFFICES ASSUME Nth(first, j) \notin Cluster PROVE FALSE
  OBVIOUS
<1>2. PICK m \in S : \A x \in S : m <= x
  <2>1. S \in SUBSET Nat /\ k \in S
    OBVIOUS
  <2> HIDE DEF S
  <2> QED
    BY <2>1, LeastExists
<1>3. m \in j .. k /\ Nth(first, m) \in Cluster
  OBVIOUS
<1>4. m > j /\ m - 1 \in Nat /\ m - 1 \in j .. k /\ (m - 1) + 1 = m
  BY <1>1, <1>3
<1>5. Nth(first, m - 1) \notin Cluster
  <2>1. m - 1 \notin S
    BY <1>2, <1>3, <1>4
  <2> QED
    BY <1>4, <2>1
<1>6. Nth(first, m) = NextOf(fat, Nth(first, m - 1))
  BY <1>4, NthIs
<1> QED
  BY <1>3, <1>5, <1>6, ClusterFacts DEF NextOf, IsData

LEMMA NthAlong ==
    ASSUME fat \in FatType, NEW first, NEW k \in Nat, Nth(first, k) \in Cluster
    PROVE  LET p == [j \in 0 .. k |-> Nth(first, j)]
           IN  Along(fat, p, k + 1) /\ p[0] = first /\ p[k] = Nth(first, k)
<1> DEFINE p == [j \in 0 .. k |-> Nth(first, j)]
<1>1. \A j \in 0 .. k : Nth(first, j) \in Cluster
  BY NthBefore
<1>2. (k + 1) - 1 = k /\ (k + 1) - 2 = k - 1
  OBVIOUS
<1>3. p \in [0 .. k -> Cluster]
  BY <1>1
<1>4. \A j \in 0 .. k - 1 : fat[p[j]] = p[j + 1]
  <2>1. SUFFICES ASSUME NEW j \in 0 .. k - 1 PROVE fat[p[j]] = p[j + 1]
    OBVIOUS
  <2>2. j \in Nat /\ j \in 0 .. k /\ j + 1 \in 0 .. k
    OBVIOUS
  <2>3. Nth(first, j + 1) = NextOf(fat, Nth(first, j)) /\ Nth(first, j) \in Cluster
    BY <1>1, <2>2, NthIs
  <2>4. Nth(first, j + 1) = fat[Nth(first, j)]
    BY <2>3 DEF NextOf, IsData
  <2> QED
    BY <2>2, <2>4
<1>5. p[0] = first /\ p[k] = Nth(first, k)
  BY NthIs
<1> QED
  BY <1>2, <1>3, <1>4, <1>5 DEF Along

(* A chain that is there is the one its first cluster leads to.            *)
LEMMA AlongNthOf ==
    ASSUME NEW f, NEW n \in Nat, NEW p, Along(f, p, n), NEW j \in 0 .. n - 1
    PROVE  NthOf(f, p[0], j) = p[j]
<1> DEFINE S == {m \in 0 .. n - 1 : NthOf(f, p[0], m) # p[m]}
<1>1. SUFFICES ASSUME S # {} PROVE FALSE
  OBVIOUS
<1>2. PICK m \in S : \A x \in S : m <= x
  <2>1. S \in SUBSET Nat
    OBVIOUS
  <2> HIDE DEF S
  <2> QED
    BY <1>1, <2>1, LeastExists
<1>3. m \in 0 .. n - 1 /\ NthOf(f, p[0], m) # p[m]
  OBVIOUS
<1>4. m # 0
  BY <1>3, NthOfIs
<1>5. m - 1 \in Nat /\ m - 1 \in 0 .. n - 1 /\ m - 1 \in 0 .. n - 2 /\ (m - 1) + 1 = m
  BY <1>3, <1>4
<1>6. NthOf(f, p[0], m - 1) = p[m - 1]
  <2>1. m - 1 \notin S
    BY <1>2, <1>3, <1>5
  <2> QED
    BY <1>5, <2>1
<1>7. p[m - 1] \in Cluster /\ f[p[m - 1]] = p[m]
  BY <1>5 DEF Along
<1>8. NthOf(f, p[0], m) = NextOf(f, NthOf(f, p[0], m - 1))
  <2>1. \A k \in Nat : NthOf(f, p[0], k + 1) = NextOf(f, NthOf(f, p[0], k))
    BY NthOfIs
  <2>2. \A k \in Nat : k + 1 = m => NthOf(f, p[0], m) = NextOf(f, NthOf(f, p[0], k))
    BY <2>1
  <2> QED
    BY <1>5, <2>2
<1> QED
  BY <1>3, <1>6, <1>7, <1>8 DEF NextOf, IsData

LEMMA AlongNth ==
    ASSUME NEW n \in Nat, NEW p, Along(fat, p, n), NEW j \in 0 .. n - 1
    PROVE  Nth(p[0], j) = p[j]
<1>1. Nth(p[0], j) = NthOf(fat, p[0], j)
  BY DEF Nth, NthOf
<1> QED
  BY <1>1, AlongNthOf

LEMMA ClusterCount == IsFiniteSet(Cluster) /\ Cardinality(Cluster) = LastCluster - 1
BY FS_Interval, Fat32Assumption DEF Cluster

LEMMA ChainFacts ==
    ASSUME fat \in FatType, NEW first
    PROVE  /\ \A c : c \in Chain(first) <=> c \in Cluster /\ \E k \in 0 .. LastCluster : c = Nth(first, k)
           /\ IsFiniteSet(Chain(first)) /\ Cardinality(Chain(first)) \in Nat
           /\ first \notin Cluster => \A c : c \notin Chain(first)
<1>1. \A c : c \in Chain(first) <=> c \in Cluster /\ \E k \in 0 .. LastCluster : c = Nth(first, k)
  BY DEF Chain, IsData
<1>2. Chain(first) \in SUBSET Cluster
  BY <1>1
<1>3. IsFiniteSet(Chain(first)) /\ Cardinality(Chain(first)) \in Nat
  BY <1>2, ClusterCount, FS_Subset, FS_CardinalityType
<1>4. ASSUME first \notin Cluster, NEW c \in Chain(first) PROVE FALSE
  <2>1. PICK k \in 0 .. LastCluster : c = Nth(first, k) /\ c \in Cluster
    BY <1>1, <1>4
  <2>2. k \in Nat /\ 0 \in 0 .. k
    BY Fat32Assumption
  <2>3. Nth(first, 0) \in Cluster
    BY <2>1, <2>2, NthBefore
  <2> QED
    BY <1>4, <2>3, NthIs
<1> QED
  BY <1>1, <1>3, <1>4

(* What a chain holds is reached along it.                                 *)
LEMMA ChainReached ==
    ASSUME fat \in FatType, NEW first, NEW c \in Chain(first)
    PROVE  \E n \in Nat \ {0} : Reaches(fat, first, c, n)
<1>1. PICK k \in 0 .. LastCluster : c \in Cluster /\ c = Nth(first, k)
  BY ChainFacts
<1>2. k \in Nat
  BY Fat32Assumption
<1>3. Along(fat, [j \in 0 .. k |-> Nth(first, j)], k + 1)
  BY <1>1, <1>2, NthAlong
<1>4. /\ [j \in 0 .. k |-> Nth(first, j)][0] = first
      /\ [j \in 0 .. k |-> Nth(first, j)][(k + 1) - 1] = c
  BY <1>1, <1>2, NthIs
<1> QED
  BY <1>2, <1>3, <1>4 DEF Reaches

LEMMA ChainsApart ==
    ASSUME fat \in FatType, TableSound(fat), NEW a, NEW b, Starts(fat, a), Starts(fat, b),
           NEW c \in Chain(a), c \in Chain(b)
    PROVE  a = b
<1>1. PICK m \in Nat \ {0} : Reaches(fat, a, c, m)
  BY ChainReached
<1>2. PICK n \in Nat \ {0} : Reaches(fat, b, c, n)
  BY ChainReached
<1>3. PICK p : Along(fat, p, m) /\ p[0] = a /\ p[m - 1] = c
  BY <1>1 DEF Reaches
<1>4. PICK q : Along(fat, q, n) /\ q[0] = b /\ q[n - 1] = c
  BY <1>2 DEF Reaches
<1>5. m - 1 \in 0 .. m - 1 /\ n - 1 \in 0 .. n - 1 /\ m \in Nat /\ n \in Nat
  OBVIOUS
<1>6. Starts(fat, p[0]) /\ Starts(fat, q[0]) /\ p[m - 1] = q[n - 1]
  BY <1>3, <1>4
<1>7. p[0] = q[0]
  BY <1>3, <1>4, <1>5, <1>6, ChainsMeet
<1> QED
  BY <1>3, <1>4, <1>7
LEMMA ChainWhole ==
    ASSUME fat \in FatType, TableSound(fat), NEW first, Starts(fat, first)
    PROVE  Whole(first)
<1>1. \A c \in Chain(first) : fat[c] # Unused
  <2>1. SUFFICES ASSUME NEW c \in Chain(first) PROVE fat[c] # Unused
    OBVIOUS
  <2>2. PICK n \in Nat \ {0} : Reaches(fat, first, c, n)
    BY ChainReached
  <2>3. n \in Nat /\ n > 0
    OBVIOUS
  <2> QED
    BY <2>2, <2>3, ReachedUsed
<1>2. PICK k \in 0 .. LastCluster : Nth(first, k) \notin Cluster
  <2>1. SUFFICES ASSUME \A k \in 0 .. LastCluster : Nth(first, k) \in Cluster PROVE FALSE
    OBVIOUS
  <2>2. LastCluster \in Nat /\ LastCluster \in 0 .. LastCluster
    BY Fat32Assumption
  <2> DEFINE p == [j \in 0 .. LastCluster |-> Nth(first, j)]
  <2>3. Along(fat, p, LastCluster + 1)
    BY <2>1, <2>2, NthAlong
  <2>4. p[0] = first /\ \A j \in 0 .. LastCluster : p[j] \in Cluster
    BY <2>1, <2>2, NthIs
  <2>5. LastCluster + 1 \in Nat /\ (LastCluster + 1) - 1 = LastCluster
    BY <2>2
  <2>6. IsFiniteSet(Cluster) /\ ~(LastCluster + 1 <= Cardinality(Cluster))
    BY <2>2, ClusterCount
  <2> HIDE DEF p
  <2>7. \A j \in 0 .. (LastCluster + 1) - 1 : p[j] \in Cluster
    BY <2>4, <2>5
  <2>8. LastCluster + 1 > 0 => Starts(fat, p[0])
    BY <2>4
  <2> QED
    BY <2>3, <2>5, <2>6, <2>7, <2>8, ChainLength
<1>3. PICK m \in {j \in 0 .. LastCluster : Nth(first, j) \notin Cluster} :
          \A x \in {j \in 0 .. LastCluster : Nth(first, j) \notin Cluster} : m <= x
  <2> DEFINE S == {j \in 0 .. LastCluster : Nth(first, j) \notin Cluster}
  <2>1. S \in SUBSET Nat /\ S # {}
    BY <1>2
  <2> HIDE DEF S
  <2>2. PICK m \in S : \A x \in S : m <= x
    BY <2>1, LeastExists
  <2> QED
    BY <2>2 DEF S
<1>4. m # 0
  BY NthIs DEF Starts
<1>5. m - 1 \in 0 .. LastCluster /\ m - 1 \in Nat /\ (m - 1) + 1 = m /\ ~(m <= m - 1)
  BY <1>4, Fat32Assumption
<1>6. Nth(first, m - 1) \in Cluster
  BY <1>3, <1>5
<1>7. Nth(first, m) = fat[Nth(first, m - 1)]
  BY <1>5, <1>6, NthIs DEF NextOf, IsData
<1>8. Nth(first, m - 1) \in Chain(first)
  BY <1>5, <1>6, ChainFacts
<1>9. fat[Nth(first, m - 1)] = EndOfChain
  BY <1>1, <1>3, <1>6, <1>7, <1>8 DEF FatType
<1> QED
  BY <1>1, <1>8, <1>9 DEF Whole

LEMMA ChainLong ==
    ASSUME fat \in FatType, TableSound(fat), NEW first, first \in Cluster => Starts(fat, first),
           NEW n \in Nat, Long(fat, first, n)
    PROVE  n <= Cardinality(Chain(first))
<1>1. Cardinality(Chain(first)) \in Nat /\ IsFiniteSet(Chain(first))
  BY ChainFacts
<1>2. PICK p : Along(fat, p, n) /\ (n > 0 => p[0] = first)
  BY DEF Long
<1>3. CASE n = 0
  BY <1>1, <1>3
<1>4. CASE n > 0
  <2>1. p[0] = first /\ \A j \in 0 .. n - 1 : p[j] \in Cluster
    BY <1>2, <1>4 DEF Along
  <2>2. first \in Cluster
    <3>1. 0 \in 0 .. n - 1
      BY <1>4
    <3> QED
      BY <2>1, <3>1
  <2>3. n > 0 => Starts(fat, p[0])
    BY <2>1, <2>2
  <2>4. n <= Cardinality(Cluster)
    BY <1>2, <2>1, <2>3, ClusterCount, ChainLength
  <2>5. \A j \in 0 .. n - 1 : j \in 0 .. LastCluster
    BY <2>4, ClusterCount, Fat32Assumption
  <2>6. \A j \in 0 .. n - 1 : Nth(first, j) = p[j]
    BY <1>2, <2>1, AlongNth
  <2>7. \A j \in 0 .. n - 1 : p[j] \in Chain(first)
    BY <2>1, <2>5, <2>6, ChainFacts
  <2> QED
    BY <1>1, <1>2, <2>3, <2>7, ChainLength
<1> QED
  BY <1>3, <1>4

(* What a path can lead to is among the entries the invariant speaks of.   *)
LEMMA EntriesValid ==
    ASSUME slots \in SlotsType, NEW gone, \A e : e \notin gone, VolumeSound(fat, slots, gone)
    PROVE  \A e \in Entries : e \in Valid(slots, gone) /\ At(e) = EntryAt(slots, e)
<1>1. \A d \in Cluster : \A i \in Live(d) : <<d, i>> \in Valid(slots, gone)
  BY DEF Live, InUse, Valid, Holds, EntryAt
<1>2. ASSUME NEW i \in Live(Root), slots[Root][i].kind = "dir" PROVE slots[Root][i].cluster \in Cluster
  <2>1. <<Root, i>> \in Valid(slots, gone)
    BY <1>1, ClusterFacts
  <2>2. EntryAt(slots, <<Root, i>>) = slots[Root][i]
    BY DEF EntryAt
  <2> QED
    BY <1>2, <2>1, <2>2 DEF VolumeSound, DirsSound
<1>3. \A d \in Directories : d \in Cluster
  BY <1>2, ClusterFacts DEF Directories
<1> QED
  BY <1>1, <1>3 DEF Entries, At, EntryAt

(* The links, heads and lengths that the invariant keeps are what a reader *)
(* of whole chains sees.                                                   *)
LEMMA SoundConsistent ==
    ASSUME Inv
    PROVE  VolumeConsistent
<1>1. SUFFICES ASSUME health # "tainted", ~freed
               PROVE  /\ \A e \in Entries : IF At(e).kind = "dir" THEN DirEntryOk(At(e), e[1])
                                                                  ELSE FileEntryOk(At(e))
                      /\ \A e, f \in Entries :
                            e # f => Chain(At(e).cluster) \cap Chain(At(f).cluster) = {}
                      /\ \A e \in Entries : Root \notin Chain(At(e).cluster)
  BY DEF VolumeConsistent
<1>2. fat \in FatType /\ slots \in SlotsType /\ VolumeSound(fat, slots, Gone)
  BY <1>1 DEF Inv, Typed, Sound
<1>3. \A e : e \notin Gone
  BY <1>1 DEF Gone
<1>4. \A e \in Entries : e \in Valid(slots, Gone) /\ At(e) = EntryAt(slots, e)
  BY <1>2, <1>3, EntriesValid
<1>5. TableSound(fat)
  BY <1>2 DEF VolumeSound
<1>6. \A e \in Entries : At(e).cluster \in Cluster =>
          Starts(fat, At(e).cluster) /\ At(e).cluster # Root
  BY <1>2, <1>4 DEF VolumeSound, HeadsSound
<1>7. ASSUME NEW e \in Entries
      PROVE  IF At(e).kind = "dir" THEN DirEntryOk(At(e), e[1]) ELSE FileEntryOk(At(e))
  <2>1. At(e).cluster \in Cluster => Whole(At(e).cluster)
    BY <1>2, <1>5, <1>6, ChainWhole
  <2>2. CASE At(e).kind = "dir"
    <3>1. At(e).cluster \in Cluster /\ Dots(slots, At(e).cluster, e[1])
      BY <1>2, <1>4, <2>2 DEF VolumeSound, DirsSound
    <3> QED
      BY <2>1, <2>2, <3>1 DEF DirEntryOk, Dots, IsData
  <2>3. CASE At(e).kind # "dir"
    <3>1. At(e).kind = "file"
      BY <1>4, <2>3 DEF Valid, Holds
    <3>2. Long(fat, At(e).cluster, Needed(At(e).size))
      BY <1>2, <1>4, <3>1 DEF VolumeSound, FilesSound
    <3>3. Needed(At(e).size) \in Nat
      BY <1>2, <1>4, Sizes
    <3>4. Needed(At(e).size) <= Cardinality(Chain(At(e).cluster))
      BY <1>2, <1>5, <1>6, <3>2, <3>3, ChainLong
    <3> QED
      BY <2>1, <2>3, <3>4 DEF FileEntryOk, IsData
  <2> QED
    BY <2>2, <2>3
<1>8. ASSUME NEW e \in Entries, NEW f \in Entries, e # f,
             NEW c \in Chain(At(e).cluster), c \in Chain(At(f).cluster)
      PROVE  FALSE
  <2>1. At(e).cluster \in Cluster /\ At(f).cluster \in Cluster
    BY <1>2, <1>8, ChainFacts
  <2>2. At(e).cluster = At(f).cluster
    BY <1>2, <1>5, <1>6, <1>8, <2>1, ChainsApart
  <2> QED
    BY <1>2, <1>4, <1>8, <2>1, <2>2 DEF VolumeSound, HeadsSound
<1>9. ASSUME NEW e \in Entries, Root \in Chain(At(e).cluster) PROVE FALSE
  <2>1. At(e).cluster \in Cluster
    BY <1>2, <1>9, ChainFacts
  <2>2. Starts(fat, Root)
    BY <1>5 DEF TableSound
  <2>3. Root \in Chain(Root)
    <3>1. 0 \in 0 .. LastCluster
      BY Fat32Assumption
    <3> QED
      BY <1>2, <3>1, NthIs, ChainFacts, ClusterFacts
  <2>4. At(e).cluster = Root
    BY <1>2, <1>5, <1>6, <1>9, <2>1, <2>2, <2>3, ChainsApart
  <2> QED
    BY <1>6, <2>1, <2>4
<1> QED
  BY <1>7, <1>8, <1>9

(* What an entry names is allocated, complete and its own, and a directory *)
(* is initialised before an entry names it: after every single write of    *)
(* fat32.c and wherever an operation is cut short, unless it has freed     *)
(* clusters that an entry still names, or an append took a failed read for *)
(* the end of its file.                                                    *)
THEOREM EntriesOwnTheirChains == Spec => []VolumeConsistent
BY Invariant, SoundConsistent, PTL
=============================================================================
