-------------------------- MODULE Fat32FilesProofs --------------------------
(***************************************************************************)
(* Whoever lists and reads a volume finds the directories and the bytes    *)
(* that the operations wrote, and a cluster that is in use belongs to one  *)
(* of them, for a volume of any size, as long as no directory is removed   *)
(* that holds something (the code's own test misses some when a cluster    *)
(* has several sectors).                                                   *)
(*                                                                         *)
(* The first invariant, Kept, follows the listing through every single     *)
(* write: until the first cluster is freed it is what the operations       *)
(* promised, after that all of it but the entry the operation is about,    *)
(* and the last write of an operation brings that entry back.  The second, *)
(* Lossless, follows the beginnings of the chains: each is named by an     *)
(* entry that a path leads to, or is in a register of the operation.       *)
(***************************************************************************)
EXTENDS Fat32Proofs

Paths == Names \cup {"/"}

(* A path of one component leads to a directory of the root.               *)
Leads(s, path, dir) ==
    \/ path = "/" /\ dir = Root
    \/ \E i \in Slot : /\ Holds(s[Root][i]) /\ s[Root][i].kind = "dir"
                       /\ s[Root][i].name = path /\ s[Root][i].cluster = dir

Reachable(s, path, e) == Holds(EntryAt(s, e)) /\ Leads(s, path, e[1])

(* Byte k of the chain that begins with first.                             *)
ByteOf(f, d, first, k) ==
    LET c == NthOf(f, first, k \div ClusterBytes)
    IN  IF IsData(c) THEN d[c][k % ClusterBytes] ELSE "lost"

Content(f, d, entry) ==
    IF entry.kind = "file"
    THEN [i \in 1 .. entry.size |-> ByteOf(f, d, entry.cluster, i - 1)]
    ELSE <<>>

(* What a reader is told of an entry.                                      *)
Record(f, d, path, entry) ==
    [path |-> path, name |-> entry.name, kind |-> entry.kind, bytes |-> Content(f, d, entry)]

(* w is what a reader finds who leaves out the entries of out.             *)
Shows(f, s, d, w, out) ==
    /\ \A path \in Paths : \A e \in (Cluster \X Slot) \ out :
          Reachable(s, path, e) => Record(f, d, path, EntryAt(s, e)) \in w
    /\ \A r \in w : \E path \in Paths : \E e \in (Cluster \X Slot) \ out :
          Reachable(s, path, e) /\ r = Record(f, d, path, EntryAt(s, e))

(* Behind the end mark of a directory there is nothing.                    *)
EndIsLast(s) ==
    \A c \in Cluster : \A i, j \in Slot : i < j /\ s[c][i] = End => s[c][j] = End

NamesApart(s) ==
    \A c \in Cluster : \A i, j \in Slot :
        Holds(s[c][i]) =>
            /\ s[c][i].name \in Names
            /\ Holds(s[c][j]) /\ s[c][i].name = s[c][j].name => i = j

(* Nothing can be listed in the directory.                                 *)
Bare(s, dir) == \A i \in Slot : ~Holds(s[dir][i])

Others == {w \in want : ~Named(w)}

(* The volume shows what the operations promised, but for the entry at     *)
(* hand once its clusters are being freed.                                 *)
ListingKept ==
    /\ \A w \in want : w.bytes \in Seq(STRING)
    /\ Shows(fat, slots, data, IF freed THEN Others ELSE want, Gone)
    /\ EndIsLast(slots) /\ NamesApart(slots)

(* The operation is about the entry its path and name lead to.             *)
CallKept ==
    /\ pc # "idle" => call.path \in Paths /\ Leads(slots, call.path, call.dir)
    /\ pc \in Working => At(Target).name = call.name /\ \E w \in want : Named(w)
    /\ pc \in Working /\ call.op = "append" =>
          /\ reg.size = At(Target).size
          /\ reg.size > 0 => At(Target).cluster = reg.first
    /\ pc = "first" => reg.first \notin Cluster
    /\ pc \in {"free", "mark"} /\ call.op = "rmdir" => Bare(slots, At(Target).cluster)
    /\ pc = "create" /\ call.op = "mkdir" => Bare(slots, reg.first)

(* What has been written of the payload is in its place on the chain.      *)
PayloadKept ==
    /\ pc \notin {"data", "entry"} => reg.written = 0
    /\ pc \in {"data", "entry"} =>
          /\ reg.written \in 0 .. Len(call.payload)
          /\ \A i \in 0 .. reg.written - 1 :
                ByteOf(fat, data, reg.first, Base(call.op, reg.size) + i) = call.payload[i + 1]
    /\ pc = "entry" => reg.written = Len(call.payload)

DataOK == data = [c \in Cluster |-> data[c]]

Kept == DataOK /\ ListingKept /\ CallKept /\ PayloadKept

Claim == health # "tainted" => Kept

-----------------------------------------------------------------------------
(* Positions in a file.                                                    *)

LEMMA Positions ==
    ASSUME NEW k \in Nat
    PROVE  /\ k \div ClusterBytes \in Nat /\ (k % ClusterBytes) \in 0 .. ClusterBytes - 1
           /\ k = (k \div ClusterBytes) * ClusterBytes + (k % ClusterBytes)
           /\ \A n \in Nat : k < n => k \div ClusterBytes < Needed(n)
<1>1. ClusterBytes \in Nat /\ ClusterBytes > 0
  BY Fat32Assumption
<1>2. /\ k \div ClusterBytes \in Nat /\ (k % ClusterBytes) \in 0 .. ClusterBytes - 1
      /\ k = (k \div ClusterBytes) * ClusterBytes + (k % ClusterBytes)
  BY <1>1
<1>3. ASSUME NEW n \in Nat, k < n PROVE k \div ClusterBytes < Needed(n)
  <2> DEFINE q == k \div ClusterBytes
             m == Needed(n)
  <2>1. m \in Nat /\ n + ClusterBytes - 1 < m * ClusterBytes + ClusterBytes
    BY <1>1 DEF Needed
  <2>2. q \in Nat /\ q * ClusterBytes <= k /\ q * ClusterBytes \in Nat
    BY <1>1, <1>2
  <2> HIDE DEF q, m
  <2>3. ~(q < m) => m * ClusterBytes <= q * ClusterBytes
    <3>1. CASE q = m
      BY <1>1, <2>1, <3>1
    <3>2. CASE q > m
      BY <1>1, <2>1, <2>2, <3>2, Times
    <3> QED
      BY <2>1, <2>2, <3>1, <3>2
  <2>4. m * ClusterBytes \in Nat
    BY <1>1, <2>1
  <2>5. q < m
    BY <1>1, <1>3, <2>1, <2>2, <2>3, <2>4
  <2> QED
    BY <2>5 DEF q, m
<1> QED
  BY <1>2, <1>3

(* A position and a later one of the same cluster.                         *)
LEMMA SameCluster ==
    ASSUME NEW k \in Nat, NEW at \in Nat
    PROVE  /\ k \div ClusterBytes = at \div ClusterBytes =>
                 (k % ClusterBytes) - (at % ClusterBytes) = k - at
           /\ at <= k /\ k < at + ClusterBytes - (at % ClusterBytes) =>
                 k \div ClusterBytes = at \div ClusterBytes
<1> DEFINE q == k \div ClusterBytes
           r == at \div ClusterBytes
           x == k % ClusterBytes
           y == at % ClusterBytes
<1>1. ClusterBytes \in Nat /\ ClusterBytes > 0
  BY Fat32Assumption
<1>2. /\ q \in Nat /\ r \in Nat /\ x \in 0 .. ClusterBytes - 1 /\ y \in 0 .. ClusterBytes - 1
      /\ k = q * ClusterBytes + x /\ at = r * ClusterBytes + y
  BY Positions
<1>3. q * ClusterBytes \in Nat /\ r * ClusterBytes \in Nat
  BY <1>1, <1>2
<1> HIDE DEF q, r, x, y
<1>4. q = r => x - y = k - at
  BY <1>1, <1>2, <1>3
<1>5. ASSUME at <= k, k < at + ClusterBytes - y PROVE q = r
  <2>1. q > r => q * ClusterBytes >= r * ClusterBytes + ClusterBytes
    BY <1>1, <1>2, Times
  <2>2. q < r => r * ClusterBytes >= q * ClusterBytes + ClusterBytes
    BY <1>1, <1>2, Times
  <2> QED
    BY <1>1, <1>2, <1>3, <1>5, <2>1, <2>2
<1> QED
  BY <1>4, <1>5 DEF q, r, x, y

-----------------------------------------------------------------------------
(* Bytes.                                                                  *)

(* p is the chain of an entry, as far as its size needs it.                *)
Carries(f, p, first, size) ==
    Along(f, p, Needed(size)) /\ (size > 0 => p[0] = first)

LEMMA ByteAlong ==
    ASSUME NEW f, NEW d, NEW p, NEW first, NEW size \in Nat, Carries(f, p, first, size),
           NEW k \in 0 .. size - 1
    PROVE  /\ k \in Nat /\ (k \div ClusterBytes) \in 0 .. Needed(size) - 1
           /\ p[k \div ClusterBytes] \in Cluster
           /\ ByteOf(f, d, first, k) = d[p[k \div ClusterBytes]][k % ClusterBytes]
<1> DEFINE m == Needed(size)
           q == k \div ClusterBytes
<1>1. k \in Nat /\ k < size /\ size > 0 /\ m \in Nat
  BY NeededFacts
<1>2. q \in 0 .. m - 1
  BY <1>1, Positions
<1> HIDE DEF m, q
<1>3. Along(f, p, m) /\ p[0] = first
  BY <1>1 DEF Carries, m
<1>4. NthOf(f, first, q) = p[q]
  BY <1>1, <1>2, <1>3, AlongNthOf
<1>5. p[q] \in Cluster
  BY <1>2, <1>3 DEF Along
<1> QED
  BY <1>1, <1>2, <1>4, <1>5 DEF ByteOf, IsData, m, q

(* The bytes of an entry are the same in another table and other clusters. *)
SameBytes(f, d, g, b, entry) ==
    \A k \in 0 .. entry.size - 1 :
        ByteOf(g, b, entry.cluster, k) = ByteOf(f, d, entry.cluster, k)

LEMMA BytesCarried ==
    ASSUME NEW f, NEW d, NEW g, NEW b, NEW entry, entry.size \in Nat,
           NEW p, Carries(f, p, entry.cluster, entry.size), Carries(g, p, entry.cluster, entry.size),
           \A j \in 0 .. Needed(entry.size) - 1 : b[p[j]] = d[p[j]]
    PROVE  SameBytes(f, d, g, b, entry)
<1> SUFFICES ASSUME NEW k \in 0 .. entry.size - 1
             PROVE  ByteOf(g, b, entry.cluster, k) = ByteOf(f, d, entry.cluster, k)
  BY DEF SameBytes
<1> DEFINE q == k \div ClusterBytes
<1>1. /\ q \in 0 .. Needed(entry.size) - 1
      /\ ByteOf(f, d, entry.cluster, k) = d[p[q]][k % ClusterBytes]
      /\ ByteOf(g, b, entry.cluster, k) = b[p[q]][k % ClusterBytes]
  BY ByteAlong
<1> HIDE DEF q
<1> QED
  BY <1>1

(* A reader is told the same of the entry.                                 *)
Alike(f, d, g, b, entry) ==
    entry.size \in Nat /\ (entry.kind = "file" => SameBytes(f, d, g, b, entry))

LEMMA SameContent ==
    ASSUME NEW f, NEW d, NEW g, NEW b, NEW entry, Alike(f, d, g, b, entry), NEW path
    PROVE  Record(g, b, path, entry) = Record(f, d, path, entry)
<1> USE DEF Alike
<1>1. Content(g, b, entry) = Content(f, d, entry)
  <2>1. CASE entry.kind = "file"
    <3>1. \A i \in 1 .. entry.size :
             ByteOf(g, b, entry.cluster, i - 1) = ByteOf(f, d, entry.cluster, i - 1)
      <4>1. \A i \in 1 .. entry.size : i - 1 \in 0 .. entry.size - 1
        OBVIOUS
      <4> QED
        BY <2>1, <4>1 DEF SameBytes
    <3>2. [i \in 1 .. entry.size |-> ByteOf(g, b, entry.cluster, i - 1)]
          = [i \in 1 .. entry.size |-> ByteOf(f, d, entry.cluster, i - 1)]
      BY <3>1
    <3> QED
      BY <2>1, <3>2 DEF Content
  <2>2. CASE entry.kind # "file"
    BY <2>2 DEF Content
  <2> QED
    BY <2>1, <2>2
<1> QED
  BY <1>1 DEF Record

(* Every file has a chain that carries it.                                 *)
LEMMA FileCarried ==
    ASSUME NEW f, NEW s \in SlotsType, NEW gone, FilesSound(f, s, gone),
           NEW e \in Valid(s, gone), EntryAt(s, e).kind = "file"
    PROVE  \E p : Carries(f, p, EntryAt(s, e).cluster, EntryAt(s, e).size)
<1>1. EntryAt(s, e).size \in Nat /\ (EntryAt(s, e).size > 0 => Needed(EntryAt(s, e).size) > 0)
  BY Sizes, NeededFacts
<1>2. PICK p : /\ Along(f, p, Needed(EntryAt(s, e).size))
               /\ Needed(EntryAt(s, e).size) > 0 => p[0] = EntryAt(s, e).cluster
  BY DEF FilesSound, Long
<1> QED
  BY <1>1, <1>2 DEF Carries

-----------------------------------------------------------------------------
(* What a path leads to.                                                   *)

NoDirs(s, gone) == \A e \in gone : EntryAt(s, e).kind # "dir"

LedBy(s, gone, path, c) ==
    \/ path = "/" /\ c = Root
    \/ \E e \in Valid(s, gone) :
          /\ e[1] = Root /\ EntryAt(s, e).kind = "dir" /\ EntryAt(s, e).name = path
          /\ EntryAt(s, e).cluster = c /\ c # Root

LEMMA LedTo ==
    ASSUME NEW f, NEW s \in SlotsType, NEW gone, VolumeSound(f, s, gone), NoDirs(s, gone),
           NEW path, NEW c, Leads(s, path, c)
    PROVE  /\ LedBy(s, gone, path, c)
           /\ c \in Cluster /\ f[c] # Unused /\ ~Mine(f, s, gone, c)
<1>1. CASE path = "/" /\ c = Root
  BY <1>1, ClusterFacts DEF VolumeSound, TableSound, Starts, Mine, LedBy
<1>2. CASE ~(path = "/" /\ c = Root)
  <2>1. PICK i \in Slot : /\ Holds(s[Root][i]) /\ s[Root][i].kind = "dir"
                          /\ s[Root][i].name = path /\ s[Root][i].cluster = c
    BY <1>2 DEF Leads
  <2> DEFINE e == <<Root, i>>
  <2>2. e \in Cluster \X Slot /\ e[1] = Root /\ EntryAt(s, e) = s[Root][i]
    BY ClusterFacts DEF EntryAt
  <2> HIDE DEF e
  <2>3. e \in Valid(s, gone)
    BY <2>1, <2>2 DEF NoDirs, Valid
  <2>4. c \in Cluster /\ Starts(f, c) /\ c # Root
    BY <2>1, <2>2, <2>3 DEF VolumeSound, DirsSound, HeadsSound
  <2> QED
    BY <2>1, <2>2, <2>3, <2>4 DEF Starts, Mine, LedBy
<1> QED
  BY <1>1, <1>2

(* No two paths lead to one directory, and no path to two.                 *)
LEMMA PathsApart ==
    ASSUME NEW f, NEW s \in SlotsType, NEW gone, VolumeSound(f, s, gone), NoDirs(s, gone),
           NEW p, NEW q, NEW c, Leads(s, p, c), Leads(s, q, c)
    PROVE  p = q
<1>1. LedBy(s, gone, p, c) /\ LedBy(s, gone, q, c)
  BY LedTo
<1>2. c \in Cluster
  BY LedTo
<1>3. HeadsSound(f, s, gone)
  BY DEF VolumeSound
<1> QED
  BY <1>1, <1>2, <1>3 DEF HeadsSound, LedBy

LEMMA LeadsOnce ==
    ASSUME NEW s, NamesApart(s), NEW p, NEW c, NEW d, Leads(s, p, c), Leads(s, p, d)
    PROVE  c = d
<1>1. Root \in Cluster /\ "/" \notin Names
  BY ClusterFacts, Fat32Assumption
<1>2. \A i \in Slot : Holds(s[Root][i]) => s[Root][i].name \in Names
  BY <1>1 DEF NamesApart
<1>3. \A i, j \in Slot : Holds(s[Root][i]) /\ Holds(s[Root][j]) /\ s[Root][i].name = s[Root][j].name
                         => i = j
  BY <1>1 DEF NamesApart
<1>4. CASE p = "/"
  BY <1>1, <1>2, <1>4 DEF Leads
<1>5. CASE p # "/"
  BY <1>3, <1>5 DEF Leads
<1> QED
  BY <1>4, <1>5

(* A path and a name lead to one entry.                                    *)
LEMMA ReachedOnce ==
    ASSUME NEW s, NamesApart(s), NEW p, NEW x \in Cluster \X Slot, NEW y \in Cluster \X Slot,
           Reachable(s, p, x), Leads(s, p, y[1]), Holds(EntryAt(s, y)),
           EntryAt(s, x).name = EntryAt(s, y).name
    PROVE  x = y
<1>1. x[1] = y[1]
  BY LeadsOnce DEF Reachable
<1>2. x[2] = y[2]
  <2>1. x[1] \in Cluster /\ x[2] \in Slot /\ y[2] \in Slot
    OBVIOUS
  <2> QED
    BY <1>1, <2>1 DEF Reachable, NamesApart, EntryAt
<1> QED
  BY <1>1, <1>2

-----------------------------------------------------------------------------
(* One write, and what it leaves to be listed.                             *)

LEMMA ShowsFrame ==
    ASSUME NEW f, NEW s, NEW d, NEW w, NEW out, Shows(f, s, d, w, out), NEW g, NEW t, NEW b,
           \A path : \A e \in (Cluster \X Slot) \ out : Reachable(t, path, e) <=> Reachable(s, path, e),
           \A path : \A e \in (Cluster \X Slot) \ out : Reachable(s, path, e) =>
               Record(g, b, path, EntryAt(t, e)) = Record(f, d, path, EntryAt(s, e))
    PROVE  Shows(g, t, b, w, out)
BY DEF Shows

LEMMA ShowsTable ==
    ASSUME NEW f, NEW s \in SlotsType, NEW d, NEW w, NEW out, Shows(f, s, d, w, out), NEW g, NEW b,
           \A e \in Valid(s, out) : EntryAt(s, e).kind = "file" => SameBytes(f, d, g, b, EntryAt(s, e))
    PROVE  Shows(g, s, b, w, out)
<1>1. ASSUME NEW path, NEW e \in (Cluster \X Slot) \ out, Reachable(s, path, e)
      PROVE  Record(g, b, path, EntryAt(s, e)) = Record(f, d, path, EntryAt(s, e))
  <2>1. e \in Valid(s, out)
    BY <1>1 DEF Valid, Reachable
  <2>2. EntryAt(s, e).size \in Nat
    BY <2>1, Sizes
  <2>3. Alike(f, d, g, b, EntryAt(s, e))
    BY <2>1, <2>2 DEF Alike
  <2> QED
    BY <2>3, SameContent
<1> QED
  BY <1>1, ShowsFrame

(* A cluster is cleared that no path leads to.                             *)
LEMMA ReachCleared ==
    ASSUME NEW s, NEW t, NEW c \in Cluster, c # Root, \A d \in Cluster : d # c => t[d] = s[d],
           Bare(t, c), \A path : ~Leads(s, path, c)
    PROVE  /\ \A path, d : Leads(t, path, d) <=> Leads(s, path, d)
           /\ \A path : \A e \in Cluster \X Slot :
                 /\ Reachable(t, path, e) <=> Reachable(s, path, e)
                 /\ Reachable(s, path, e) => EntryAt(t, e) = EntryAt(s, e)
<1>1. t[Root] = s[Root]
  BY ClusterFacts
<1>2. \A path, d : Leads(t, path, d) <=> Leads(s, path, d)
  BY <1>1 DEF Leads
<1>3. \A e \in Cluster \X Slot : e[1] # c => EntryAt(t, e) = EntryAt(s, e)
  BY DEF EntryAt
<1>4. \A e \in Cluster \X Slot : e[1] = c => ~Holds(EntryAt(t, e))
  BY DEF Bare, EntryAt
<1> QED
  BY <1>2, <1>3, <1>4 DEF Reachable

(* One slot is written, which may hold a directory in which nothing is.    *)
LEMMA ReachSlot ==
    ASSUME NEW s, NEW t, NEW x \in Cluster \X Slot,
           \A e \in Cluster \X Slot : e # x => EntryAt(t, e) = EntryAt(s, e),
           Holds(EntryAt(s, x)) /\ EntryAt(s, x).kind = "dir" => Bare(s, EntryAt(s, x).cluster),
           Holds(EntryAt(t, x)) /\ EntryAt(t, x).kind = "dir" => Bare(s, EntryAt(t, x).cluster)
    PROVE  /\ \A path : \A e \in Cluster \X Slot :
                 e # x => (Reachable(t, path, e) <=> Reachable(s, path, e))
           /\ \A path : Leads(s, path, x[1]) => Leads(t, path, x[1])
<1>1. \A i \in Slot : /\ <<Root, i>> \in Cluster \X Slot /\ <<Root, i>>[1] = Root
                      /\ EntryAt(s, <<Root, i>>) = s[Root][i] /\ EntryAt(t, <<Root, i>>) = t[Root][i]
  BY ClusterFacts DEF EntryAt
<1>2. ASSUME NEW path, NEW e \in Cluster \X Slot, e # x, Holds(EntryAt(s, e)), NEW u, NEW v,
             \/ u = s /\ v = t
             \/ u = t /\ v = s,
             Leads(u, path, e[1])
      PROVE  Leads(v, path, e[1])
  <2>1. CASE path = "/" /\ e[1] = Root
    BY <2>1 DEF Leads
  <2>2. CASE ~(path = "/" /\ e[1] = Root)
    <3>1. PICK i \in Slot : /\ Holds(u[Root][i]) /\ u[Root][i].kind = "dir"
                            /\ u[Root][i].name = path /\ u[Root][i].cluster = e[1]
      BY <1>2, <2>2 DEF Leads
    <3>2. ASSUME <<Root, i>> = x PROVE FALSE
      <4>1. u[Root][i] = EntryAt(u, x)
        BY <3>2, <1>1, <1>2
      <4>2. Bare(s, e[1])
        BY <1>2, <3>1, <4>1
      <4> QED
        BY <1>2, <4>2 DEF Bare, EntryAt
    <3>3. v[Root][i] = u[Root][i]
      BY <1>1, <1>2, <3>2
    <3> QED
      BY <3>1, <3>3 DEF Leads
  <2> QED
    BY <2>1, <2>2
<1>3. ASSUME NEW path, Leads(s, path, x[1]) PROVE Leads(t, path, x[1])
  <2>1. CASE path = "/" /\ x[1] = Root
    BY <2>1 DEF Leads
  <2>2. CASE ~(path = "/" /\ x[1] = Root)
    <3>1. PICK i \in Slot : /\ Holds(s[Root][i]) /\ s[Root][i].kind = "dir"
                            /\ s[Root][i].name = path /\ s[Root][i].cluster = x[1]
      BY <1>3, <2>2 DEF Leads
    <3>2. ASSUME <<Root, i>> = x PROVE FALSE
      <4>1. s[Root][i] = EntryAt(s, x)
        BY <3>2, <1>1
      <4>2. Bare(s, x[1]) /\ Holds(EntryAt(s, x))
        BY <3>1, <4>1
      <4> QED
        BY <4>2 DEF Bare, EntryAt
    <3>3. t[Root][i] = s[Root][i]
      BY <1>1, <3>2
    <3> QED
      BY <3>1, <3>3 DEF Leads
  <2> QED
    BY <2>1, <2>2
<1>4. ASSUME NEW path, NEW e \in Cluster \X Slot, e # x
      PROVE  Reachable(t, path, e) <=> Reachable(s, path, e)
  <2>1. EntryAt(t, e) = EntryAt(s, e)
    BY <1>4
  <2> QED
    BY <1>2, <1>4, <2>1 DEF Reachable
<1> QED
  BY <1>3, <1>4

LEMMA RecordIs ==
    ASSUME NEW f, NEW d, NEW path, NEW entry
    PROVE  /\ Record(f, d, path, entry).path = path /\ Record(f, d, path, entry).name = entry.name
           /\ Record(f, d, path, entry).bytes = Content(f, d, entry)
BY DEF Record

(* The one record of a path and a name.                                    *)
OnlyRecord(f, d, w, path, entry) ==
    \A r \in w : r.path = path /\ r.name = entry.name => r = Record(f, d, path, entry)

(* The entry at hand is left out of the listing, and its record with it.   *)
LEMMA ShowsSplit ==
    ASSUME NEW f, NEW s \in SlotsType, NEW none, \A e : e \notin none, VolumeSound(f, s, none),
           NamesApart(s), NEW x \in Cluster \X Slot, Holds(EntryAt(s, x)),
           NEW path \in Paths, Leads(s, path, x[1]), NEW d, NEW w, Shows(f, s, d, w, none),
           NEW left, \A e : e \in left <=> e = x,
           NEW others, \A r : r \in others <=>
                          r \in w /\ ~(r.path = path /\ r.name = EntryAt(s, x).name)
    PROVE  /\ Shows(f, s, d, others, left)
           /\ Record(f, d, path, EntryAt(s, x)) \in w
           /\ OnlyRecord(f, d, w, path, EntryAt(s, x))
<1>1. NoDirs(s, none)
  BY DEF NoDirs
<1>2. \A p : Reachable(s, p, x) => p = path
  BY <1>1, PathsApart DEF Reachable
<1>3. \A p : \A e \in Cluster \X Slot :
         Reachable(s, p, e) /\ p = path /\ EntryAt(s, e).name = EntryAt(s, x).name => e = x
  BY ReachedOnce
<1>4. /\ \A p \in Paths : \A e \in Cluster \X Slot :
            Reachable(s, p, e) => Record(f, d, p, EntryAt(s, e)) \in w
      /\ \A r \in w : \E p \in Paths : \E e \in Cluster \X Slot :
            Reachable(s, p, e) /\ r = Record(f, d, p, EntryAt(s, e))
  BY DEF Shows
<1>5. Reachable(s, path, x)
  BY DEF Reachable
<1>6. ASSUME NEW r \in w, r.path = path, r.name = EntryAt(s, x).name
      PROVE  r = Record(f, d, path, EntryAt(s, x))
  BY <1>3, <1>4, <1>6, RecordIs
<1>7. ASSUME NEW p \in Paths, NEW e \in (Cluster \X Slot) \ left, Reachable(s, p, e)
      PROVE  Record(f, d, p, EntryAt(s, e)) \in others
  BY <1>3, <1>4, <1>7, RecordIs
<1>8. ASSUME NEW r \in others
      PROVE  \E p \in Paths : \E e \in (Cluster \X Slot) \ left :
                Reachable(s, p, e) /\ r = Record(f, d, p, EntryAt(s, e))
  <2>1. PICK p \in Paths, e \in Cluster \X Slot :
            Reachable(s, p, e) /\ r = Record(f, d, p, EntryAt(s, e))
    BY <1>4, <1>8
  <2>2. e # x
    BY <1>2, <1>8, <2>1, RecordIs
  <2> QED
    BY <2>1, <2>2
<1> QED
  BY <1>4, <1>5, <1>6, <1>7, <1>8 DEF Shows, OnlyRecord

(* One path leads to an entry.                                             *)
OnPath(s, path, x) ==
    path \in Paths /\ Reachable(s, path, x) /\ \A p : Reachable(s, p, x) => p = path

AddedTo(all, w, r) == \A x : x \in all <=> x \in w \/ x = r

(* The entry at hand is written, and its record comes into the listing.    *)
LEMMA ShowsWith ==
    ASSUME NEW f, NEW s, NEW d, NEW w, NEW x \in Cluster \X Slot, NEW left, \A e : e \in left <=> e = x,
           Shows(f, s, d, w, left), NEW none, \A e : e \notin none, NEW t,
           \A e \in Cluster \X Slot : e # x => EntryAt(t, e) = EntryAt(s, e),
           \A p : \A e \in Cluster \X Slot : e # x => (Reachable(t, p, e) <=> Reachable(s, p, e)),
           NEW path, OnPath(t, path, x),
           NEW all, AddedTo(all, w, Record(f, d, path, EntryAt(t, x)))
    PROVE  Shows(f, t, d, all, none)
<1>0. /\ path \in Paths /\ Reachable(t, path, x) /\ \A p : Reachable(t, p, x) => p = path
      /\ \A r : r \in all <=> r \in w \/ r = Record(f, d, path, EntryAt(t, x))
  BY DEF OnPath, AddedTo
<1>1. /\ \A p \in Paths : \A e \in Cluster \X Slot :
            e # x /\ Reachable(s, p, e) => Record(f, d, p, EntryAt(s, e)) \in w
      /\ \A r \in w : \E p \in Paths : \E e \in Cluster \X Slot :
            e # x /\ Reachable(s, p, e) /\ r = Record(f, d, p, EntryAt(s, e))
  BY DEF Shows
<1>2. ASSUME NEW p \in Paths, NEW e \in Cluster \X Slot, Reachable(t, p, e)
      PROVE  Record(f, d, p, EntryAt(t, e)) \in all
  <2>1. CASE e = x
    BY <1>0, <1>2, <2>1
  <2>2. CASE e # x
    BY <1>0, <1>1, <1>2, <2>2
  <2> QED
    BY <2>1, <2>2
<1>3. ASSUME NEW r \in all
      PROVE  \E p \in Paths : \E e \in Cluster \X Slot :
                Reachable(t, p, e) /\ r = Record(f, d, p, EntryAt(t, e))
  <2>1. CASE r = Record(f, d, path, EntryAt(t, x))
    BY <1>0, <2>1
  <2>2. CASE r \in w
    BY <1>1, <2>2
  <2> QED
    BY <1>0, <1>3, <2>1, <2>2
<1> QED
  BY <1>2, <1>3 DEF Shows

(* It is deleted, or was not there.                                        *)
LEMMA ShowsWithout ==
    ASSUME NEW f, NEW s, NEW d, NEW w, NEW x \in Cluster \X Slot, NEW left, \A e : e \in left <=> e = x,
           Shows(f, s, d, w, left), NEW none, \A e : e \notin none, NEW t,
           \A e \in Cluster \X Slot : e # x => EntryAt(t, e) = EntryAt(s, e),
           \A p : \A e \in Cluster \X Slot : e # x => (Reachable(t, p, e) <=> Reachable(s, p, e)),
           ~Holds(EntryAt(t, x))
    PROVE  Shows(f, t, d, w, none)
<1>1. /\ \A p \in Paths : \A e \in Cluster \X Slot :
            e # x /\ Reachable(s, p, e) => Record(f, d, p, EntryAt(s, e)) \in w
      /\ \A r \in w : \E p \in Paths : \E e \in Cluster \X Slot :
            e # x /\ Reachable(s, p, e) /\ r = Record(f, d, p, EntryAt(s, e))
  BY DEF Shows
<1>2. \A p : ~Reachable(t, p, x)
  BY DEF Reachable
<1> QED
  BY <1>1, <1>2 DEF Shows

LEMMA ShowsBut ==
    ASSUME NEW f, NEW s, NEW d, NEW w, NEW none, \A e : e \notin none, Shows(f, s, d, w, none),
           NEW x, ~Holds(EntryAt(s, x)), NEW left, \A e : e \in left <=> e = x
    PROVE  Shows(f, s, d, w, left)
<1>1. \A p : ~Reachable(s, p, x)
  BY DEF Reachable
<1> QED
  BY <1>1 DEF Shows

-----------------------------------------------------------------------------
(* The order of slots, and names.                                          *)

LEMMA TidyCleared ==
    ASSUME NEW s, EndIsLast(s), NamesApart(s), NEW t, NEW c,
           \A d \in Cluster : d # c => t[d] = s[d], Bare(t, c),
           \A i, j \in Slot : i < j /\ t[c][i] = End => t[c][j] = End
    PROVE  EndIsLast(t) /\ NamesApart(t)
<1>1. EndIsLast(t)
  <2>1. SUFFICES ASSUME NEW d \in Cluster, NEW i \in Slot, NEW j \in Slot, i < j, t[d][i] = End
                 PROVE  t[d][j] = End
    BY DEF EndIsLast
  <2>2. d # c => t[d] = s[d]
    OBVIOUS
  <2> QED
    BY <2>1, <2>2 DEF EndIsLast
<1>2. NamesApart(t)
  <2>1. SUFFICES ASSUME NEW d \in Cluster, NEW i \in Slot, NEW j \in Slot, Holds(t[d][i])
                 PROVE  /\ t[d][i].name \in Names
                        /\ Holds(t[d][j]) /\ t[d][i].name = t[d][j].name => i = j
    BY DEF NamesApart
  <2>2. d # c /\ t[d] = s[d]
    BY <2>1 DEF Bare
  <2> QED
    BY <2>1, <2>2 DEF NamesApart
<1> QED
  BY <1>1, <1>2

LEMMA TidySlot ==
    ASSUME NEW s, EndIsLast(s), NamesApart(s), NEW t, NEW x \in Cluster \X Slot,
           \A e \in Cluster \X Slot : e # x => EntryAt(t, e) = EntryAt(s, e),
           EntryAt(t, x) # End,
           \A j \in Slot : j < x[2] => s[x[1]][j] # End,
           Holds(EntryAt(t, x)) =>
               /\ EntryAt(t, x).name \in Names
               /\ \A j \in Slot : j # x[2] /\ Holds(s[x[1]][j]) => s[x[1]][j].name # EntryAt(t, x).name
    PROVE  EndIsLast(t) /\ NamesApart(t)
<1>1. /\ x[1] \in Cluster /\ x[2] \in Slot /\ EntryAt(t, x) = t[x[1]][x[2]]
      /\ \A d \in Cluster : \A i \in Slot : ~(d = x[1] /\ i = x[2]) => t[d][i] = s[d][i]
  <2>1. ASSUME NEW d \in Cluster, NEW i \in Slot, ~(d = x[1] /\ i = x[2]) PROVE t[d][i] = s[d][i]
    <3>1. <<d, i>> \in Cluster \X Slot /\ <<d, i>> # x
      BY <2>1
    <3>2. EntryAt(t, <<d, i>>) = EntryAt(s, <<d, i>>)
      BY <3>1
    <3> QED
      BY <3>2 DEF EntryAt
  <2> QED
    BY <2>1 DEF EntryAt
<1> DEFINE a == x[1]
           k == x[2]
<1>2. a \in Cluster /\ k \in Slot /\ EntryAt(t, x) = t[a][k] /\ t[a][k] # End
  BY <1>1
<1>3. \A d \in Cluster : \A i \in Slot : ~(d = a /\ i = k) => t[d][i] = s[d][i]
  BY <1>1
<1>4. \A j \in Slot : j < k => s[a][j] # End
  OBVIOUS
<1>5. Holds(t[a][k]) => /\ t[a][k].name \in Names
                        /\ \A j \in Slot : j # k /\ Holds(s[a][j]) => s[a][j].name # t[a][k].name
  BY <1>2
<1> HIDE DEF a, k
<1>6. Slot \subseteq Nat
  BY SlotFacts
<1>7. EndIsLast(t)
  <2>1. SUFFICES ASSUME NEW d \in Cluster, NEW i \in Slot, NEW j \in Slot, i < j, t[d][i] = End
                 PROVE  t[d][j] = End
    BY DEF EndIsLast
  <2>2. ~(d = a /\ i = k) /\ s[d][i] = End
    BY <1>2, <1>3, <2>1
  <2>3. ~(d = a /\ j = k)
    BY <1>4, <2>1, <2>2
  <2> QED
    BY <1>3, <2>1, <2>2, <2>3 DEF EndIsLast
<1>8. NamesApart(t)
  <2>1. SUFFICES ASSUME NEW d \in Cluster, NEW i \in Slot, NEW j \in Slot, Holds(t[d][i])
                 PROVE  /\ t[d][i].name \in Names
                        /\ Holds(t[d][j]) /\ t[d][i].name = t[d][j].name => i = j
    BY DEF NamesApart
  <2>2. CASE d = a
    BY <1>2, <1>3, <1>5, <2>1, <2>2 DEF NamesApart
  <2>3. CASE d # a
    BY <1>3, <2>1, <2>3 DEF NamesApart
  <2> QED
    BY <2>2, <2>3
<1> QED
  BY <1>7, <1>8

-----------------------------------------------------------------------------
(* One cluster changes, in the table or on disk, and the files keep their  *)
(* bytes.                                                                  *)

SameFiles(f, d, g, b, s, out) ==
    \A e \in Valid(s, out) : EntryAt(s, e).kind = "file" => SameBytes(f, d, g, b, EntryAt(s, e))

(* What a chain needs of its own bytes never is in c, or only as its last. *)
Spared(f, s, out, c) ==
    \A e \in Valid(s, out) : \A p : Carries(f, p, EntryAt(s, e).cluster, EntryAt(s, e).size) =>
        \A j \in 0 .. Needed(EntryAt(s, e).size) - 1 : p[j] # c

OnlyLast(f, s, out, c) ==
    \A e \in Valid(s, out) : \A p : Carries(f, p, EntryAt(s, e).cluster, EntryAt(s, e).size) =>
        \A j \in 0 .. Needed(EntryAt(s, e).size) - 1 :
            p[j] = c => j = Needed(EntryAt(s, e).size) - 1

LEMMA FilesFrame ==
    ASSUME NEW f, NEW s \in SlotsType, NEW out, FilesSound(f, s, out), NEW d, NEW g, NEW b, NEW c,
           \A x \in Cluster : x # c => g[x] = f[x],
           \A x \in Cluster : x # c => b[x] = d[x],
           Spared(f, s, out, c) \/ (OnlyLast(f, s, out, c) /\ b[c] = d[c])
    PROVE  SameFiles(f, d, g, b, s, out)
<1> SUFFICES ASSUME NEW e \in Valid(s, out), EntryAt(s, e).kind = "file"
             PROVE  SameBytes(f, d, g, b, EntryAt(s, e))
  BY DEF SameFiles
<1> DEFINE m == Needed(EntryAt(s, e).size)
<1>1. EntryAt(s, e).size \in Nat /\ m \in Nat
  BY Sizes
<1>2. PICK p : Carries(f, p, EntryAt(s, e).cluster, EntryAt(s, e).size)
  BY FileCarried
<1>3. \A j \in 0 .. m - 1 : p[j] = c => b[c] = d[c] /\ j = m - 1
  <2>1. Spared(f, s, out, c) => \A j \in 0 .. m - 1 : p[j] # c
    BY <1>2 DEF Spared
  <2>2. OnlyLast(f, s, out, c) => \A j \in 0 .. m - 1 : p[j] = c => j = m - 1
    BY <1>2 DEF OnlyLast
  <2> HIDE DEF m
  <2> QED
    BY <2>1, <2>2
<1>4. Along(f, p, m) /\ \A j \in 0 .. m - 1 : p[j] \in Cluster
  BY <1>2 DEF Carries, Along
<1>5. Along(g, p, m)
  <2> HIDE DEF m
  <2>1. \A j \in 0 .. m - 2 : p[j] # c
    BY <1>1, <1>3
  <2> QED
    BY <1>1, <1>4, <2>1, AlongKept
<1>6. Carries(g, p, EntryAt(s, e).cluster, EntryAt(s, e).size)
  BY <1>2, <1>5 DEF Carries
<1>7. \A j \in 0 .. m - 1 : b[p[j]] = d[p[j]]
  BY <1>3, <1>4
<1> QED
  BY <1>1, <1>2, <1>6, <1>7, BytesCarried

(* Where the chain of an entry begins, and that it goes through clusters   *)
(* in use.                                                                 *)
LEMMA ChainUsed ==
    ASSUME NEW f, NEW s \in SlotsType, NEW out, TableSound(f), HeadsSound(f, s, out),
           NEW e \in Valid(s, out), NEW p, Carries(f, p, EntryAt(s, e).cluster, EntryAt(s, e).size),
           NEW j \in 0 .. Needed(EntryAt(s, e).size) - 1
    PROVE  /\ Along(f, p, Needed(EntryAt(s, e).size)) /\ Needed(EntryAt(s, e).size) \in Nat
           /\ p[0] = EntryAt(s, e).cluster /\ p[0] \in Cluster /\ Starts(f, p[0])
           /\ p[j] \in Cluster /\ f[p[j]] # Unused
           /\ j = 0 \/ \E x \in Cluster : f[x] = p[j]
           /\ j < Needed(EntryAt(s, e).size) - 1 => f[p[j]] \in Cluster
<1> DEFINE m == Needed(EntryAt(s, e).size)
<1>1. EntryAt(s, e).size \in Nat /\ m \in Nat /\ (EntryAt(s, e).size = 0 => m = 0)
  BY Sizes, NeededFacts
<1>2. Along(f, p, m) /\ p[0] = EntryAt(s, e).cluster
  BY <1>1 DEF Carries
<1> HIDE DEF m
<1>3. /\ \A i \in 0 .. m - 1 : p[i] \in Cluster
      /\ \A i \in 0 .. m - 2 : f[p[i]] = p[i + 1]
  BY <1>2 DEF Along
<1>4. j \in 0 .. m - 1 /\ 0 \in 0 .. m - 1
  BY <1>1 DEF m
<1>5. p[0] \in Cluster /\ Starts(f, p[0])
  BY <1>2, <1>3, <1>4 DEF HeadsSound
<1>6. j > 0 => j - 1 \in 0 .. m - 1 /\ f[p[j - 1]] = p[j]
  <2>1. j > 0 => j - 1 \in 0 .. m - 2 /\ (j - 1) + 1 = j /\ j - 1 \in 0 .. m - 1
    BY <1>1, <1>4
  <2>2. j > 0 => f[p[j - 1]] = p[(j - 1) + 1]
    BY <1>3, <2>1
  <2> QED
    BY <2>1, <2>2
<1>7. p[j] \in Cluster /\ (j = 0 \/ \E x \in Cluster : f[x] = p[j])
  BY <1>3, <1>4, <1>6
<1>8. f[p[j]] # Unused
  BY <1>5, <1>7 DEF TableSound, Starts
<1>9. j < m - 1 => f[p[j]] \in Cluster
  <2>1. j < m - 1 => j \in 0 .. m - 2 /\ j + 1 \in 0 .. m - 1
    BY <1>1, <1>4
  <2> QED
    BY <1>3, <2>1
<1> QED
  BY <1>1, <1>2, <1>5, <1>7, <1>8, <1>9 DEF m

(* An unused cluster is taken and cleared.                                 *)
LEMMA FilesAllocate ==
    ASSUME NEW f, NEW s \in SlotsType, NEW out, VolumeSound(f, s, out), NEW d, NEW g, NEW b,
           NEW c \in Cluster, f[c] = Unused,
           \A x \in Cluster : x # c => g[x] = f[x], \A x \in Cluster : x # c => b[x] = d[x]
    PROVE  SameFiles(f, d, g, b, s, out)
<1>1. TableSound(f) /\ HeadsSound(f, s, out) /\ FilesSound(f, s, out)
  BY DEF VolumeSound
<1>2. ASSUME NEW e \in Valid(s, out), NEW p, Carries(f, p, EntryAt(s, e).cluster, EntryAt(s, e).size),
             NEW j \in 0 .. Needed(EntryAt(s, e).size) - 1
      PROVE  p[j] # c
  BY <1>1, <1>2, ChainUsed
<1>3. Spared(f, s, out, c)
  BY <1>2 DEF Spared
<1> QED
  BY <1>1, <1>3, FilesFrame

(* The last cluster of a chain gets a successor.                           *)
LEMMA FilesLink ==
    ASSUME NEW f, NEW s \in SlotsType, NEW out, VolumeSound(f, s, out), NEW d, NEW g,
           NEW c, f[c] \notin Cluster, \A x \in Cluster : x # c => g[x] = f[x]
    PROVE  SameFiles(f, d, g, d, s, out)
<1>1. TableSound(f) /\ HeadsSound(f, s, out) /\ FilesSound(f, s, out)
  BY DEF VolumeSound
<1>2. ASSUME NEW e \in Valid(s, out), NEW p, Carries(f, p, EntryAt(s, e).cluster, EntryAt(s, e).size),
             NEW j \in 0 .. Needed(EntryAt(s, e).size) - 1, p[j] = c
      PROVE  j = Needed(EntryAt(s, e).size) - 1
  <2>1. Needed(EntryAt(s, e).size) \in Nat /\ ~(j < Needed(EntryAt(s, e).size) - 1)
    BY <1>1, <1>2, ChainUsed
  <2> QED
    BY <2>1
<1>3. OnlyLast(f, s, out, c)
  BY <1>2 DEF OnlyLast
<1> QED
  BY <1>1, <1>3, FilesFrame

(* A cluster at the head of nobody's chain is freed.                       *)
LEMMA FilesRelease ==
    ASSUME NEW f, NEW s \in SlotsType, NEW out, VolumeSound(f, s, out), NEW d, NEW g,
           NEW c, Mine(f, s, out, c), \A x \in Cluster : x # c => g[x] = f[x]
    PROVE  SameFiles(f, d, g, d, s, out)
<1>1. TableSound(f) /\ HeadsSound(f, s, out) /\ FilesSound(f, s, out)
  BY DEF VolumeSound
<1>2. ASSUME NEW e \in Valid(s, out), NEW p, Carries(f, p, EntryAt(s, e).cluster, EntryAt(s, e).size),
             NEW j \in 0 .. Needed(EntryAt(s, e).size) - 1, p[j] = c
      PROVE  FALSE
  <2>1. p[0] = EntryAt(s, e).cluster /\ (j = 0 \/ \E x \in Cluster : f[x] = p[j])
    BY <1>1, <1>2, ChainUsed
  <2> QED
    BY <1>2, <2>1 DEF Mine, Starts
<1>3. Spared(f, s, out, c)
  BY <1>2 DEF Spared
<1> QED
  BY <1>1, <1>3, FilesFrame

(* Cluster n of a chain is touched by no other chain, and on its own it    *)
(* comes only there.                                                       *)
LEMMA ChainOwns ==
    ASSUME NEW f, NEW s \in SlotsType, NEW out, TableSound(f), HeadsSound(f, s, out),
           NEW first, Starts(f, first), NEW c, NEW n \in Nat, n > 0, Reaches(f, first, c, n),
           NEW e \in Valid(s, out), NEW p, Carries(f, p, EntryAt(s, e).cluster, EntryAt(s, e).size),
           NEW j \in 0 .. Needed(EntryAt(s, e).size) - 1, p[j] = c
    PROVE  j = n - 1 /\ EntryAt(s, e).cluster = first
<1>1. PICK q : Along(f, q, n) /\ q[0] = first /\ q[n - 1] = c
  BY DEF Reaches
<1>2. /\ Along(f, p, Needed(EntryAt(s, e).size)) /\ Needed(EntryAt(s, e).size) \in Nat
      /\ p[0] = EntryAt(s, e).cluster /\ Starts(f, p[0])
  BY ChainUsed
<1>3. n - 1 \in 0 .. n - 1
  OBVIOUS
<1>4. j = n - 1 /\ p[0] = q[0]
  BY <1>1, <1>2, <1>3, ChainsMeet
<1> QED
  BY <1>1, <1>2, <1>4

(* A chain is cut behind its cluster n.                                    *)
LEMMA FilesCut ==
    ASSUME NEW f, NEW s \in SlotsType, NEW out, VolumeSound(f, s, out), NEW d, NEW g,
           NEW first, Starts(f, first), NEW c, NEW n \in Nat, n > 0, Reaches(f, first, c, n),
           \A e \in Valid(s, out) :
               EntryAt(s, e).cluster = first => Needed(EntryAt(s, e).size) <= n,
           \A x \in Cluster : x # c => g[x] = f[x]
    PROVE  SameFiles(f, d, g, d, s, out)
<1>1. TableSound(f) /\ HeadsSound(f, s, out) /\ FilesSound(f, s, out)
  BY DEF VolumeSound
<1>2. ASSUME NEW e \in Valid(s, out), NEW p, Carries(f, p, EntryAt(s, e).cluster, EntryAt(s, e).size),
             NEW j \in 0 .. Needed(EntryAt(s, e).size) - 1, p[j] = c
      PROVE  j = Needed(EntryAt(s, e).size) - 1
  <2>1. j = n - 1 /\ EntryAt(s, e).cluster = first
    BY <1>1, <1>2, ChainOwns
  <2>2. Needed(EntryAt(s, e).size) \in Nat /\ Needed(EntryAt(s, e).size) <= n
    BY <2>1, Sizes
  <2> QED
    BY <1>2, <2>1, <2>2
<1>3. OnlyLast(f, s, out, c)
  BY <1>2 DEF OnlyLast
<1> QED
  BY <1>1, <1>3, FilesFrame

(* One turn of the loop that writes: where in the chain, and what it does. *)
Turn(f, p, n, at, chunk) ==
    /\ n \in Nat /\ Along(f, p, n) /\ at \in Nat /\ at \div ClusterBytes \in 0 .. n - 1
    /\ chunk \in Nat /\ chunk <= ClusterBytes - (at % ClusterBytes)

Written(d, b, p, at, payload, done, chunk) ==
    LET q == at \div ClusterBytes
        o == at % ClusterBytes
    IN  /\ \A x \in Cluster : x # p[q] => b[x] = d[x]
        /\ \A i \in 0 .. ClusterBytes - 1 :
              b[p[q]][i] = IF i \in o .. o + chunk - 1 THEN payload[done + 1 + i - o]
                                                     ELSE d[p[q]][i]

(* Bytes are written into a chain, behind those an entry counts as its own. *)
LEMMA FilesWrite ==
    ASSUME NEW f, NEW s \in SlotsType, NEW out, VolumeSound(f, s, out), NEW d, NEW b,
           NEW p, NEW n, NEW at, NEW chunk, Turn(f, p, n, at, chunk), Starts(f, p[0]),
           NEW payload, NEW done, Written(d, b, p, at, payload, done, chunk),
           \A e \in Valid(s, out) : EntryAt(s, e).cluster = p[0] => EntryAt(s, e).size <= at
    PROVE  SameFiles(f, d, f, b, s, out)
<1> DEFINE q == at \div ClusterBytes
           o == at % ClusterBytes
<1>0. /\ n \in Nat /\ Along(f, p, n) /\ at \in Nat /\ q \in 0 .. n - 1 /\ chunk \in Nat
      /\ \A x \in Cluster : x # p[q] => b[x] = d[x]
      /\ \A i \in 0 .. ClusterBytes - 1 :
            b[p[q]][i] = IF i \in o .. o + chunk - 1 THEN payload[done + 1 + i - o]
                                                   ELSE d[p[q]][i]
  BY DEF Turn, Written
<1>1. TableSound(f) /\ HeadsSound(f, s, out) /\ FilesSound(f, s, out)
  BY DEF VolumeSound
<1> SUFFICES ASSUME NEW e \in Valid(s, out), EntryAt(s, e).kind = "file",
                    NEW k \in 0 .. EntryAt(s, e).size - 1
             PROVE  ByteOf(f, b, EntryAt(s, e).cluster, k) = ByteOf(f, d, EntryAt(s, e).cluster, k)
  BY DEF SameFiles, SameBytes
<1> DEFINE m == Needed(EntryAt(s, e).size)
           j == k \div ClusterBytes
           i == k % ClusterBytes
<1>2. EntryAt(s, e).size \in Nat /\ m \in Nat /\ k \in Nat
  BY Sizes
<1>3. PICK r : Carries(f, r, EntryAt(s, e).cluster, EntryAt(s, e).size)
  BY <1>1, FileCarried
<1>4. /\ j \in 0 .. m - 1 /\ r[j] \in Cluster
      /\ ByteOf(f, d, EntryAt(s, e).cluster, k) = d[r[j]][i]
      /\ ByteOf(f, b, EntryAt(s, e).cluster, k) = b[r[j]][i]
  BY <1>2, <1>3, ByteAlong
<1>5. i \in 0 .. ClusterBytes - 1
  BY <1>2, Positions
<1>6. ASSUME r[j] = p[q] PROVE j = q /\ k < at
  <2>1. /\ Along(f, r, m) /\ r[0] = EntryAt(s, e).cluster /\ Starts(f, r[0])
    BY <1>1, <1>3, <1>4, ChainUsed
  <2> HIDE DEF m, j, q
  <2>2. j = q /\ r[0] = p[0]
    BY <1>0, <1>1, <1>2, <1>4, <1>6, <2>1, ChainsMeet
  <2>3. EntryAt(s, e).size <= at
    BY <2>1, <2>2
  <2> QED
    BY <1>0, <1>2, <2>2, <2>3
<1>7. j = q => i - o = k - at
  BY <1>0, <1>2, SameCluster
<1>8. o \in 0 .. ClusterBytes - 1
  BY <1>0, Positions
<1> HIDE DEF m, j, i, q, o
<1>9. r[j] = p[q] => i < o
  BY <1>0, <1>2, <1>5, <1>6, <1>7, <1>8
<1>10. r[j] = p[q] => b[r[j]][i] = d[r[j]][i]
  BY <1>0, <1>5, <1>8, <1>9
<1> QED
  BY <1>0, <1>4, <1>10

-----------------------------------------------------------------------------
(* The listing from step to step.                                          *)

(* All that the steps below take from the invariant of Fat32Proofs.        *)
Calm == Typed /\ Sound /\ health # "tainted"

LEMMA GoneIs ==
    ASSUME Calm
    PROVE  /\ pc = "idle" => ~freed
           /\ ~freed => \A e : e \notin Gone
           /\ freed => /\ \A e : e \in Gone <=> e = Target
                       /\ pc \in Working
           /\ call.op # "rmdir" => NoDirs(slots, Gone)
<1>1. pc = "idle" => ~freed
  BY DEF Calm, Typed
<1>2. ~freed => \A e : e \notin Gone
  BY DEF Gone
<1>3. freed => \A e : e \in Gone <=> e = Target
  BY DEF Gone
<1>4. freed => pc \in Working
  BY <1>1 DEF Calm, Typed, Sound, CreateSound, Steps, Working
<1>5. call.op # "rmdir" => NoDirs(slots, Gone)
  <2>1. CASE freed
    <3>1. call.op # "rmdir" => At(Target).kind = "file"
      BY <1>4, <2>1 DEF Calm, Sound, TargetSound
    <3>2. At(Target) = EntryAt(slots, Target)
      BY DEF At, EntryAt
    <3> QED
      BY <1>3, <2>1, <3>1, <3>2 DEF NoDirs
  <2>2. CASE ~freed
    BY <1>2, <2>2 DEF NoDirs
  <2> QED
    BY <2>1, <2>2
<1> QED
  BY <1>1, <1>2, <1>3, <1>4, <1>5

LEMMA SoundVolume ==
    ASSUME Calm
    PROVE  /\ fat \in FatType /\ slots \in SlotsType /\ VolumeSound(fat, slots, Gone)
           /\ TableSound(fat) /\ SlotsSound(slots) /\ HeadsSound(fat, slots, Gone)
BY DEF Calm, Typed, Sound, VolumeSound

(* The bytes of the files are where they were.                             *)
LEMMA ListedFiles ==
    ASSUME Calm, ListingKept, slots' = slots, want' = want, call' = call, freed' = freed,
           Gone' = Gone, SameFiles(fat, data, fat', data', slots, Gone)
    PROVE  ListingKept'
<1>1. slots \in SlotsType
  BY SoundVolume
<1>2. Others' = Others
  BY DEF Others, Named
<1>3. (IF freed' THEN Others' ELSE want') = (IF freed THEN Others ELSE want)
  BY <1>2
<1>4. Shows(fat', slots, data', IF freed THEN Others ELSE want, Gone)
  BY <1>1, ShowsTable DEF ListingKept, SameFiles
<1> QED
  BY <1>3, <1>4 DEF ListingKept

(* An operation ends early that has freed nothing an entry names.          *)
LEMMA KeptFinish ==
    ASSUME Calm, Kept, Finish, ~freed, slots' = slots, want' = want, data' = data,
           SameFiles(fat, data, fat', data', slots, Gone)
    PROVE  Kept'
<1>1. slots \in SlotsType
  BY SoundVolume
<1>2. Shows(fat', slots, data', want, Gone)
  BY <1>1, ShowsTable DEF Kept, ListingKept, SameFiles
<1>3. ~freed' /\ pc' = "idle" /\ reg'.written = 0
  BY DEF Finish, NoReg
<1>4. Gone' = Gone
  BY <1>3 DEF Gone
<1>5. ListingKept'
  BY <1>2, <1>3, <1>4 DEF Kept, ListingKept
<1>6. CallKept' /\ PayloadKept'
  BY <1>3 DEF CallKept, PayloadKept, Working
<1> QED
  BY <1>5, <1>6 DEF Kept, DataOK

LEMMA FilesStay ==
    SameFiles(fat, data, fat, data, slots, Gone)
BY DEF SameFiles, SameBytes

(* A cluster is taken and cleared.                                         *)
LEMMA DataExcept ==
    ASSUME DataOK, NEW c \in Cluster, NEW z, data' = [data EXCEPT ![c] = z]
    PROVE  DataOK' /\ data'[c] = z /\ \A x \in Cluster : x # c => data'[x] = data[x]
<1>1. data' = [x \in Cluster |-> IF x = c THEN z ELSE data[x]]
  BY DEF DataOK
<1> QED
  BY <1>1 DEF DataOK

LEMMA ListedAllocate ==
    ASSUME Calm, ListingKept, DataOK, pc # "idle", call.op # "rmdir",
           NEW c \in Cluster, Allocate(c), call' = call, freed' = freed, want' = want,
           reg'.slot = reg.slot
    PROVE  /\ ListingKept' /\ DataOK'
           /\ \A path, d : Leads(slots, path, d) => Leads(slots', path, d)
           /\ At(Target)' = At(Target)
<1>1. /\ fat \in FatType /\ slots \in SlotsType /\ VolumeSound(fat, slots, Gone)
      /\ NoDirs(slots, Gone)
  BY SoundVolume, GoneIs
<1>2. /\ fat[c] = Unused /\ \A d \in Cluster : d # c => fat'[d] = fat[d]
      /\ Gone' = Gone /\ At(Target)' = At(Target)
  BY AllocateSound DEF Calm
<1>3. slots' = [slots EXCEPT ![c] = NoSlots]
  BY AllocateTyped DEF Calm
<1>4. slots'[c] = NoSlots /\ \A d \in Cluster : d # c => slots'[d] = slots[d]
  BY <1>1, <1>3 DEF SlotsType
<1>5. DataOK' /\ \A d \in Cluster : d # c => data'[d] = data[d]
  BY DataExcept DEF Allocate
<1>6. Shows(fat', slots, data', IF freed THEN Others ELSE want, Gone)
  <2>1. SameFiles(fat, data, fat', data', slots, Gone)
    BY <1>1, <1>2, <1>5, FilesAllocate
  <2> QED
    BY <1>1, <2>1, ShowsTable DEF ListingKept, SameFiles
<1>7. c # Root /\ \A path : ~Leads(slots, path, c)
  BY <1>1, <1>2, LedTo DEF VolumeSound, TableSound, Starts
<1>8. Bare(slots', c) /\ \A i \in Slot : slots'[c][i] = End
  <2>1. \A i \in Slot : NoSlots[i] = End
    BY DEF NoSlots
  <2> QED
    BY <1>4, <2>1 DEF Bare, Holds, End, Entry
<1>9. /\ \A path, d : Leads(slots', path, d) <=> Leads(slots, path, d)
      /\ \A path : \A e \in Cluster \X Slot :
            /\ Reachable(slots', path, e) <=> Reachable(slots, path, e)
            /\ Reachable(slots, path, e) => EntryAt(slots', e) = EntryAt(slots, e)
  BY <1>4, <1>7, <1>8, ReachCleared
<1>10. Shows(fat', slots', data', IF freed THEN Others ELSE want, Gone)
  BY <1>6, <1>9, ShowsFrame
<1>11. EndIsLast(slots') /\ NamesApart(slots')
  BY <1>4, <1>8, TidyCleared DEF ListingKept
<1>12. Others' = Others
  BY DEF Others, Named
<1>13. (IF freed' THEN Others' ELSE want') = (IF freed THEN Others ELSE want)
  BY <1>12
<1>14. ListingKept'
  BY <1>2, <1>10, <1>11, <1>13 DEF ListingKept
<1> QED
  BY <1>2, <1>5, <1>9, <1>14

-----------------------------------------------------------------------------
(* The steps that lengthen or cut a chain.                                 *)

LEMMA CallStays ==
    ASSUME CallKept, pc \in Working, pc' \in Working, call' = call, want' = want,
           \A path, d : Leads(slots, path, d) => Leads(slots', path, d),
           At(Target)' = At(Target), reg'.size = reg.size,
           call.op = "append" /\ reg.size > 0 => reg'.first = reg.first,
           pc' = "first" => reg'.first \notin Cluster,
           pc' \in {"free", "mark"} /\ call.op = "rmdir" => Bare(slots', At(Target).cluster)
    PROVE  CallKept'
<1>1. pc # "idle" /\ pc' # "idle" /\ pc' # "create"
  BY DEF Working
<1>2. \A w : Named(w)' <=> Named(w)
  BY DEF Named
<1> QED
  BY <1>1, <1>2 DEF CallKept

(* The next cluster is found, or none is left to find.                     *)
LEMMA KeptFollow ==
    ASSUME Calm, Kept, Follow
    PROVE  Kept'
<1>1. pc = "extend" /\ pc' = "extend" /\ pc \in Working /\ pc \notin {"data", "entry"}
  BY DEF Follow, Working
<1>2. /\ reg'.slot = reg.slot /\ reg'.size = reg.size /\ reg'.first = reg.first
      /\ reg'.written = reg.written
  BY DEF Follow, Calm, Typed, RegType
<1>3. /\ fat' = fat /\ slots' = slots /\ data' = data /\ call' = call /\ freed' = freed
      /\ want' = want
  BY DEF Follow, diskVars
<1>4. At(Target)' = At(Target) /\ Gone' = Gone
  BY <1>2, <1>3 DEF At, Target, Gone
<1>5. ListingKept'
  BY <1>3, <1>4, FilesStay, ListedFiles DEF Kept
<1>6. CallKept'
  BY <1>1, <1>2, <1>3, <1>4, CallStays DEF Kept
<1>7. PayloadKept' /\ DataOK'
  BY <1>1, <1>2, <1>3 DEF Kept, PayloadKept, DataOK
<1> QED
  BY <1>5, <1>6, <1>7 DEF Kept

LEMMA EmptyBefore ==
    ASSUME Calm, CallKept, pc = "first"
    PROVE  ~(call.op = "append" /\ reg.size > 0)
<1> SUFFICES ASSUME call.op = "append", reg.size > 0 PROVE FALSE
  OBVIOUS
<1>1. pc \in Working /\ ~freed
  BY DEF Working, Calm, Sound, FreeSound
<1>2. Target \in Valid(slots, Gone) /\ EntryAt(slots, Target) = At(Target)
  BY <1>1, TargetValid DEF Calm, Sound
<1>3. At(Target).cluster = reg.first /\ At(Target).size = reg.size /\ reg.first \notin Cluster
  BY <1>1 DEF CallKept
<1>4. At(Target).kind = "file"
  BY <1>1 DEF Calm, Sound, TargetSound
<1>5. PICK p : Carries(fat, p, reg.first, reg.size)
  <2>1. FilesSound(fat, slots, Gone)
    BY SoundVolume DEF VolumeSound
  <2> QED
    BY <1>2, <1>3, <1>4, <2>1, SoundVolume, FileCarried
<1>6. reg.size \in Nat /\ Needed(reg.size) \in Nat /\ Needed(reg.size) > 0
  BY NeededFacts, Fat32Assumption DEF Calm, Typed, RegType
<1>7. p[0] = reg.first /\ p[0] \in Cluster
  BY <1>5, <1>6 DEF Carries, Along
<1> QED
  BY <1>3, <1>7

LEMMA KeptAllocateFirst ==
    ASSUME Calm, Kept, AllocateFirst
    PROVE  Kept'
<1>1. PICK c \in Cluster : Allocate(c) /\ reg' = [reg EXCEPT !.first = c, !.cluster = c]
  BY DEF AllocateFirst
<1>2. pc = "first" /\ pc' = "extend" /\ pc \in Working /\ pc \notin {"data", "entry"} /\ pc # "idle"
  BY DEF AllocateFirst, Working
<1>3. reg'.slot = reg.slot /\ reg'.size = reg.size /\ reg'.written = reg.written
  BY <1>1 DEF Calm, Typed, RegType
<1>4. call' = call /\ freed' = freed /\ want' = want
  BY DEF AllocateFirst
<1>5. call.op # "rmdir" /\ ~(call.op = "append" /\ reg.size > 0)
  BY <1>2, EmptyBefore DEF Calm, Sound, ChainSound, Kept
<1>6. /\ ListingKept' /\ DataOK'
      /\ \A path, d : Leads(slots, path, d) => Leads(slots', path, d)
      /\ At(Target)' = At(Target)
  BY <1>1, <1>2, <1>3, <1>4, <1>5, ListedAllocate DEF Kept
<1>7. CallKept'
  BY <1>2, <1>3, <1>4, <1>5, <1>6, CallStays DEF Kept, Working
<1>8. PayloadKept'
  BY <1>2, <1>3 DEF Kept, PayloadKept
<1> QED
  BY <1>6, <1>7, <1>8 DEF Kept

LEMMA KeptAllocateNext ==
    ASSUME Calm, Kept, AllocateNext
    PROVE  Kept'
<1>1. PICK c \in Cluster : Allocate(c) /\ reg' = [reg EXCEPT !.next = c]
  BY DEF AllocateNext
<1>2. pc = "extend" /\ pc' = "link" /\ pc \in Working /\ pc \notin {"data", "entry"} /\ pc # "idle"
  BY DEF AllocateNext, Working
<1>3. /\ reg'.slot = reg.slot /\ reg'.size = reg.size /\ reg'.written = reg.written
      /\ reg'.first = reg.first
  BY <1>1 DEF Calm, Typed, RegType
<1>4. call' = call /\ freed' = freed /\ want' = want
  BY DEF AllocateNext
<1>5. call.op # "rmdir"
  BY <1>2 DEF Calm, Sound, ChainSound
<1>6. /\ ListingKept' /\ DataOK'
      /\ \A path, d : Leads(slots, path, d) => Leads(slots', path, d)
      /\ At(Target)' = At(Target)
  BY <1>1, <1>2, <1>3, <1>4, <1>5, ListedAllocate DEF Kept
<1>7. CallKept'
  BY <1>2, <1>3, <1>4, <1>5, <1>6, CallStays DEF Kept, Working
<1>8. PayloadKept'
  BY <1>2, <1>3 DEF Kept, PayloadKept
<1> QED
  BY <1>6, <1>7, <1>8 DEF Kept

LEMMA KeptMakeDirCluster ==
    ASSUME Calm, Kept, MakeDirCluster
    PROVE  Kept'
<1>1. PICK c \in Cluster : Allocate(c) /\ reg' = [reg EXCEPT !.first = c]
  BY DEF MakeDirCluster
<1>2. pc = "mkdir" /\ pc' = "dots" /\ pc' \notin Working /\ pc # "idle"
  BY DEF MakeDirCluster, Working
<1>3. /\ reg'.slot = reg.slot /\ reg'.size = reg.size /\ reg'.written = reg.written
  BY <1>1 DEF Calm, Typed, RegType
<1>4. call' = call /\ freed' = freed /\ want' = want
  BY DEF MakeDirCluster
<1>5. call.op # "rmdir"
  BY <1>2 DEF Calm, Sound, CreateSound
<1>6. /\ ListingKept' /\ DataOK'
      /\ \A path, d : Leads(slots, path, d) => Leads(slots', path, d)
  BY <1>1, <1>2, <1>3, <1>4, <1>5, ListedAllocate DEF Kept
<1>7. CallKept'
  BY <1>2, <1>4, <1>6 DEF Kept, CallKept, Working
<1>8. PayloadKept'
  BY <1>2, <1>3 DEF Kept, PayloadKept
<1> QED
  BY <1>6, <1>7, <1>8 DEF Kept

LEMMA KeptLink ==
    ASSUME Calm, Kept, Link
    PROVE  Kept'
<1>1. pc = "link" /\ pc' = "extend" /\ pc \in Working /\ pc \notin {"data", "entry"}
  BY DEF Link, Working
<1>2. /\ reg'.slot = reg.slot /\ reg'.size = reg.size /\ reg'.first = reg.first
      /\ reg'.written = reg.written
  BY DEF Link, Calm, Typed, RegType
<1>3. /\ slots' = slots /\ data' = data /\ call' = call /\ freed' = freed /\ want' = want
  BY DEF Link
<1>4. At(Target)' = At(Target) /\ Gone' = Gone
  BY <1>2, <1>3 DEF At, Target, Gone
<1>5. SameFiles(fat, data, fat', data, slots, Gone)
  <2>1. fat[reg.cluster] = EndOfChain
    BY <1>1 DEF Calm, Sound, ChainSound
  <2>2. fat[reg.cluster] \notin Cluster
    BY <2>1, ClusterFacts
  <2>3. \A x \in Cluster : x # reg.cluster => fat'[x] = fat[x]
    BY SoundVolume DEF Link, FatType
  <2> QED
    BY <2>2, <2>3, SoundVolume, FilesLink
<1>6. ListingKept'
  BY <1>3, <1>4, <1>5, ListedFiles DEF Kept
<1>7. CallKept'
  BY <1>1, <1>2, <1>3, <1>4, CallStays DEF Kept, Working
<1>8. PayloadKept' /\ DataOK'
  BY <1>1, <1>2, <1>3 DEF Kept, PayloadKept, DataOK
<1> QED
  BY <1>6, <1>7, <1>8 DEF Kept

(* A chain is cut behind what the file needs.                              *)
LEMMA KeptTerminate ==
    ASSUME Calm, Kept, Terminate
    PROVE  Kept'
<1>1. /\ pc = "extend" /\ reg.left = 0 /\ pc' \in {"trim", "data"}
      /\ pc \in Working /\ pc' \in Working /\ pc \notin {"data", "entry"}
  BY DEF Terminate, Working
<1>2. /\ reg'.slot = reg.slot /\ reg'.size = reg.size /\ reg'.first = reg.first
      /\ reg'.written = reg.written
  BY DEF Terminate, Calm, Typed, RegType
<1>3. /\ slots' = slots /\ data' = data /\ call' = call /\ freed' = freed /\ want' = want
  BY DEF Terminate
<1>4. At(Target)' = At(Target) /\ Gone' = Gone
  BY <1>2, <1>3 DEF At, Target, Gone
<1>5. SameFiles(fat, data, fat', data', slots, Gone)
  <2> DEFINE n == Needed(Total)
  <2>1. Total \in Nat /\ n \in Nat /\ n > 0 /\ n - reg.left = n
    BY <1>1, TotalFacts DEF Calm, Sound, ChainSound
  <2>2. HeadOK /\ Reaches(fat, reg.first, reg.cluster, n)
    BY <1>1, <2>1 DEF Calm, Sound, ChainSound
  <2>3. /\ Starts(fat, reg.first)
        /\ \A e \in Valid(slots, Gone) :
              EntryAt(slots, e).cluster = reg.first => EntryAt(slots, e).size <= Total
    BY <1>1, <2>2, SoundVolume, HeadStarts DEF Calm, Sound
  <2>4. \A e \in Valid(slots, Gone) :
           EntryAt(slots, e).cluster = reg.first => Needed(EntryAt(slots, e).size) <= n
    BY <2>1, <2>3, SoundVolume, Sizes, NeededFacts
  <2>5. \A x \in Cluster : x # reg.cluster => fat'[x] = fat[x]
    BY SoundVolume DEF Terminate, FatType
  <2> HIDE DEF n
  <2> QED
    BY <1>3, <2>1, <2>2, <2>3, <2>4, <2>5, SoundVolume, FilesCut
<1>6. ListingKept'
  BY <1>3, <1>4, <1>5, ListedFiles DEF Kept
<1>7. CallKept'
  BY <1>1, <1>2, <1>3, <1>4, CallStays DEF Kept
<1>8. PayloadKept' /\ DataOK'
  <2>1. Len(call.payload) \in Nat
    BY PayloadFacts DEF Calm, Typed, CallType
  <2> QED
    BY <1>1, <1>2, <1>3, <2>1 DEF Kept, PayloadKept, DataOK
<1> QED
  BY <1>6, <1>7, <1>8 DEF Kept

(* What is behind the cut is freed.                                        *)
LEMMA KeptTrim ==
    ASSUME Calm, Kept, FreeCluster, pc = "trim"
    PROVE  Kept'
<1>1. /\ pc \in Working /\ pc \notin {"data", "entry"} /\ ~freed
  BY DEF Calm, Sound, FreeSound, Working
<1>2. slots' = slots /\ data' = data /\ want' = want
  BY DEF FreeCluster, Fail
<1>3. SameFiles(fat, data, fat', data', slots, Gone)
  <2>1. Mine(fat, slots, Gone, reg.cluster)
    BY DEF Calm, Sound, FreeSound
  <2>2. \A x \in Cluster : x # reg.cluster => fat'[x] = fat[x]
    BY SoundVolume DEF FreeCluster, FatType
  <2> QED
    BY <1>2, <2>1, <2>2, SoundVolume, FilesRelease
<1>4. PICK next \in ReadFat(reg.cluster) :
          LET r == [reg EXCEPT !.guard = @ + 1, !.cluster = next]
          IN  \/ r.guard > FreeGuard /\ Fail(pc = "free")
              \/ /\ r.guard <= FreeGuard
                 /\ freed' = (freed \/ pc = "free")
                 /\ IF IsData(next) THEN pc' = pc /\ reg' = r ELSE Freed(r)
                 /\ UNCHANGED <<call, want, calls>>
  BY DEF FreeCluster
<1> DEFINE r == [reg EXCEPT !.guard = @ + 1, !.cluster = next]
<1>5. CASE Fail(pc = "free")
  <2>1. Finish
    BY <1>5 DEF Fail
  <2> QED
    BY <1>1, <1>2, <1>3, <2>1, KeptFinish
<1>6. CASE /\ freed' = (freed \/ pc = "free")
           /\ IF IsData(next) THEN pc' = pc /\ reg' = r ELSE Freed(r)
           /\ UNCHANGED <<call, want, calls>>
  <2>1. pc' \in {"trim", "data"} /\ reg' = r /\ call' = call
    BY <1>6 DEF Freed
  <2>2. /\ reg'.slot = reg.slot /\ reg'.size = reg.size /\ reg'.first = reg.first
        /\ reg'.written = reg.written
    BY <2>1 DEF Calm, Typed, RegType
  <2>4. At(Target)' = At(Target) /\ Gone' = Gone /\ freed' = freed
    <3>1. freed = FALSE /\ (freed \/ pc = "free") = FALSE
      BY <1>1 DEF Calm, Typed
    <3>2. freed' = FALSE
      BY <1>6, <3>1
    <3> QED
      BY <1>2, <2>1, <2>2, <3>1, <3>2 DEF At, Target, Gone
  <2>5. ListingKept'
    BY <1>2, <1>3, <2>1, <2>4, ListedFiles DEF Kept
  <2>6. CallKept'
    BY <1>1, <1>2, <2>1, <2>2, <2>4, CallStays DEF Kept, Working
  <2>7. PayloadKept' /\ DataOK'
    <3>1. Len(call.payload) \in Nat
      BY PayloadFacts DEF Calm, Typed, CallType
    <3> QED
      BY <1>1, <1>2, <2>1, <2>2, <3>1 DEF Kept, PayloadKept, DataOK
  <2> QED
    BY <2>5, <2>6, <2>7 DEF Kept
<1> QED
  BY <1>4, <1>5, <1>6

(* An operation that fails leaves all there was.                           *)
LEMMA KeptFail ==
    ASSUME Calm, Kept, Fail(freed), UNCHANGED diskVars, health' # "tainted"
    PROVE  Kept'
<1>1. Finish /\ ~freed /\ want' = want
  BY DEF Fail, Worsens, Calm
<1>2. fat' = fat /\ slots' = slots /\ data' = data
  BY DEF diskVars
<1> QED
  BY <1>1, <1>2, FilesStay, KeptFinish

LEMMA KeptDataWritten ==
    ASSUME Calm, Kept, DataWritten
    PROVE  Kept'
<1>1. /\ pc = "data" /\ pc' = "entry" /\ pc \in Working /\ pc' \in Working
      /\ reg.written = Len(call.payload)
  BY DEF DataWritten, Working
<1>2. /\ fat' = fat /\ slots' = slots /\ data' = data /\ call' = call /\ reg' = reg
      /\ freed' = freed /\ want' = want
  BY DEF DataWritten, diskVars
<1>3. At(Target)' = At(Target) /\ Gone' = Gone
  BY <1>2 DEF At, Target, Gone
<1>4. ListingKept'
  BY <1>2, <1>3, FilesStay, ListedFiles DEF Kept
<1>5. CallKept'
  BY <1>1, <1>2, <1>3, CallStays DEF Kept
<1>6. PayloadKept' /\ DataOK'
  BY <1>1, <1>2 DEF Kept, PayloadKept, DataOK
<1> QED
  BY <1>4, <1>5, <1>6 DEF Kept

-----------------------------------------------------------------------------
(* The steps that free the chain of an entry.                              *)

LEMMA PayloadSeq ==
    ASSUME NEW payload \in Payloads \cup {<<>>}
    PROVE  payload \in Seq(STRING)
<1>1. <<>> \in Seq(STRING)
  OBVIOUS
<1> QED
  BY <1>1, Fat32Assumption

LEMMA ShownOthers ==
    ASSUME Calm, Kept, pc \in Working, NEW left, \A e : e \in left <=> e = Target
    PROVE  Shows(fat, slots, data, Others, left)
<1>1. CASE freed
  <2>1. \A e : e \in Gone <=> e = Target
    BY <1>1, GoneIs
  <2>2. Shows(fat, slots, data, Others, Gone)
    BY <1>1 DEF Kept, ListingKept
  <2> QED
    BY <2>1, <2>2 DEF Shows
<1>2. CASE ~freed
  <2>1. \A e : e \notin Gone
    BY <1>2, GoneIs
  <2>2. Shows(fat, slots, data, want, Gone) /\ NamesApart(slots)
    BY <1>2 DEF Kept, ListingKept
  <2>3. /\ Target \in Cluster \X Slot /\ EntryAt(slots, Target) = At(Target)
        /\ Holds(EntryAt(slots, Target))
    BY TargetValid DEF Calm, Sound, TargetSound
  <2>4. /\ call.path \in Paths /\ Leads(slots, call.path, Target[1])
        /\ At(Target).name = call.name
    BY DEF Kept, CallKept, Working, Target
  <2>5. \A r : r \in Others <=> r \in want /\ ~(r.path = call.path /\ r.name = EntryAt(slots, Target).name)
    BY <2>3, <2>4 DEF Others, Named
  <2>6. slots \in SlotsType /\ VolumeSound(fat, slots, Gone)
    BY SoundVolume
  <2> QED
    BY <2>1, <2>2, <2>3, <2>4, <2>5, <2>6, ShowsSplit
<1> QED
  BY <1>1, <1>2

LEMMA ExtendingKeeps ==
    ASSUME NEW r \in RegType, NEW op, NEW payload \in Payloads \cup {<<>>},
           Extending(r, op, payload)
    PROVE  reg'.written = r.written /\ pc' \in {"entry", "first", "extend"}
BY DEF Extending, RegType

(* Where the freeing of a chain goes on.                                   *)
LEMMA FreeIs ==
    ASSUME Calm, FreeCluster, pc = "free", health' # "tainted"
    PROVE  /\ freed' = TRUE /\ call' = call /\ want' = want
           /\ reg'.slot = reg.slot /\ reg'.size = reg.size /\ reg'.written = reg.written
           /\ pc' \in {"free", "mark", "entry", "first"} /\ (pc' = "first" => reg'.first = 0)
           /\ pc' = "entry" => call.op = "write" /\ call.payload = <<>>
<1>1. PICK next \in ReadFat(reg.cluster) :
          LET r == [reg EXCEPT !.guard = @ + 1, !.cluster = next]
          IN  \/ r.guard > FreeGuard /\ Fail(pc = "free")
              \/ /\ r.guard <= FreeGuard
                 /\ freed' = (freed \/ pc = "free")
                 /\ IF IsData(next) THEN pc' = pc /\ reg' = r ELSE Freed(r)
                 /\ UNCHANGED <<call, want, calls>>
  BY DEF FreeCluster
<1> DEFINE r == [reg EXCEPT !.guard = @ + 1, !.cluster = next]
           z == [r EXCEPT !.first = 0]
<1>2. ~Fail(pc = "free")
  BY DEF Fail, Worsens
<1>3. /\ freed' = (freed \/ pc = "free") /\ call' = call /\ want' = want
      /\ IF IsData(next) THEN pc' = pc /\ reg' = r ELSE Freed(r)
  BY <1>1, <1>2
<1>4. freed' = TRUE
  BY <1>3
<1>5. next \in {Unused, EndOfChain} \cup Cluster
  BY SoundVolume DEF ReadFat, FatType, Calm, Typed
<1>6. r \in RegType /\ r.slot = reg.slot /\ r.size = reg.size /\ r.written = reg.written
  <2>1. reg \in RegType /\ reg.guard + 1 \in Nat
    BY DEF Calm, Typed, RegType
  <2> QED
    BY <1>5, <2>1 DEF RegType
<1>7. /\ z \in RegType /\ z.slot = reg.slot /\ z.size = reg.size /\ z.written = reg.written
      /\ z.first = 0
  BY <1>6 DEF RegType
<1> HIDE DEF r, z
<1>8. CASE IsData(next)
  BY <1>3, <1>4, <1>6, <1>8
<1>9. CASE ~IsData(next) /\ call.op # "write"
  <2>1. pc' = "mark" /\ reg' = r
    BY <1>3, <1>9 DEF Freed
  <2> QED
    BY <1>3, <1>4, <1>6, <2>1
<1>10. CASE ~IsData(next) /\ call.op = "write"
  <2>1. Extending(z, call.op, call.payload)
    BY <1>3, <1>10 DEF Freed, r, z
  <2>2. call.payload \in Payloads \cup {<<>>}
    BY DEF Calm, Typed, CallType
  <2>3. 0 \notin Cluster
    BY ClusterFacts
  <2>4. /\ reg'.slot = z.slot /\ reg'.size = z.size
        /\ \/ Final(call.op, z.size, call.payload) = 0 /\ pc' = "entry"
           \/ pc' = "first" /\ reg'.first = z.first
    BY <1>7, <2>1, <2>2, <2>3, ExtendingIs
  <2>5. reg'.written = z.written
    BY <1>7, <2>1, <2>2, ExtendingKeeps
  <2>6. Final(call.op, z.size, call.payload) = 0 => call.payload = <<>>
    <3>1. Final(call.op, z.size, call.payload) = 0 + Len(call.payload)
      BY <1>10 DEF Final, Base
    <3>2. call.payload \in Seq(STRING)
      BY <2>2, PayloadSeq
    <3> QED
      BY <3>1, <3>2
  <2> QED
    BY <1>3, <1>4, <1>7, <1>10, <2>4, <2>5, <2>6
<1> QED
  BY <1>8, <1>9, <1>10

LEMMA KeptFree ==
    ASSUME Calm, Kept, FreeCluster, pc = "free", health' # "tainted"
    PROVE  Kept'
<1>1. pc \in Working /\ pc \notin {"data", "entry"} /\ pc # "idle"
  BY DEF Working
<1>2. slots' = slots /\ data' = data
  BY DEF FreeCluster
<1>3. /\ freed' = TRUE /\ call' = call /\ want' = want
      /\ reg'.slot = reg.slot /\ reg'.size = reg.size /\ reg'.written = reg.written
      /\ pc' \in {"free", "mark", "entry", "first"} /\ (pc' = "first" => reg'.first = 0)
      /\ pc' = "entry" => call.op = "write" /\ call.payload = <<>>
  BY FreeIs
<1>4. Target' = Target /\ At(Target)' = At(Target)
  BY <1>2, <1>3 DEF At, Target
<1>5. \A e : e \in Gone' <=> e = Target
  BY <1>3, <1>4 DEF Gone
<1>6. SameFiles(fat, data, fat', data, slots, Gone')
  <2>1. VolumeSound(fat, slots, Gone') /\ Mine(fat, slots, Gone', reg.cluster)
    BY <1>5, FreeingIs DEF Calm
  <2>2. \A x \in Cluster : x # reg.cluster => fat'[x] = fat[x]
    BY SoundVolume DEF FreeCluster, FatType
  <2> QED
    BY <2>1, <2>2, SoundVolume, FilesRelease
<1>7. Shows(fat', slots, data, Others, Gone')
  <2>1. Shows(fat, slots, data, Others, Gone')
    BY <1>1, <1>5, ShownOthers
  <2> QED
    BY <1>6, <2>1, SoundVolume, ShowsTable DEF SameFiles
<1>8. ListingKept'
  <2>1. Others' = Others
    BY <1>3 DEF Others, Named
  <2> QED
    BY <1>2, <1>3, <1>7, <2>1 DEF Kept, ListingKept
<1>9. CallKept'
  <2>1. call.op # "append"
    BY DEF Calm, Sound, FreeSound
  <2>2. 0 \notin Cluster
    BY ClusterFacts
  <2>3. call.op = "rmdir" => Bare(slots, At(Target).cluster)
    BY DEF Kept, CallKept
  <2>4. pc' \in Working
    BY <1>3 DEF Working
  <2> QED
    BY <1>1, <1>2, <1>3, <1>4, <2>1, <2>2, <2>3, <2>4, CallStays DEF Kept
<1>10. PayloadKept' /\ DataOK'
  <2>1. reg'.written = 0
    BY <1>1, <1>3 DEF Kept, PayloadKept
  <2>2. pc' = "entry" => Len(call.payload) = 0
    BY <1>3
  <2>3. pc' \notin {"data"}
    BY <1>3
  <2> QED
    BY <1>2, <1>3, <2>1, <2>2, <2>3 DEF Kept, PayloadKept, DataOK
<1> QED
  BY <1>8, <1>9, <1>10 DEF Kept

-----------------------------------------------------------------------------
(* The payload reaches the clusters of its file.                           *)

(* Nothing an entry counts as its own lies behind what an append keeps.    *)
LEMMA HeadBase ==
    ASSUME Calm, pc \in Working, HeadOK
    PROVE  \A e \in Valid(slots, Gone) :
              EntryAt(slots, e).cluster = reg.first => EntryAt(slots, e).size <= Base(call.op, reg.size)
<1>1. CASE Mine(fat, slots, Gone, reg.first)
  BY <1>1 DEF Mine
<1>2. CASE /\ ~freed /\ call.op = "append" /\ reg.first \in Cluster
           /\ At(Target).cluster = reg.first /\ At(Target).size = reg.size
  <2>1. Target \in Valid(slots, Gone) /\ EntryAt(slots, Target) = At(Target)
    BY <1>2, TargetValid DEF Calm, Sound
  <2>2. \A e \in Valid(slots, Gone) : EntryAt(slots, e).cluster = reg.first => e = Target
    BY <1>2, <2>1, SoundVolume DEF HeadsSound
  <2>3. reg.size \in Nat /\ Base(call.op, reg.size) = reg.size
    BY <1>2, Fat32Assumption DEF Calm, Typed, RegType, Base
  <2> QED
    BY <1>2, <2>1, <2>2, <2>3
<1> QED
  BY <1>1, <1>2 DEF HeadOK

LEMMA WriteIs ==
    ASSUME Calm, Kept, WriteData
    PROVE  LET base  == Base(call.op, reg.size)
               at    == base + reg.written
               chunk == Chunk(at % ClusterBytes, Len(call.payload) - reg.written)
               n     == Needed(Total)
           IN  /\ base \in Nat /\ Total = base + Len(call.payload)
               /\ Len(call.payload) \in Nat /\ reg.written \in Nat
               /\ reg.written + chunk <= Len(call.payload)
               /\ reg'.written = reg.written + chunk
               /\ HeadOK /\ Starts(fat, reg.first) /\ DataOK'
               /\ \E p : /\ Turn(fat, p, n, at, chunk) /\ p[0] = reg.first
                         /\ Written(data, data', p, at, call.payload, reg.written, chunk)
<1> DEFINE base == Base(call.op, reg.size)
           at == base + reg.written
           q == at \div ClusterBytes
           o == at % ClusterBytes
           rest == Len(call.payload) - reg.written
           chunk == Chunk(o, rest)
           n == Needed(Total)
           c == Nth(reg.first, q)
           block == [i \in 0 .. ClusterBytes - 1 |->
                        IF i \in o .. o + chunk - 1
                        THEN call.payload[reg.written + 1 + i - o] ELSE data[c][i]]
<1>1. /\ pc = "data" /\ pc \in Working /\ reg.written < Len(call.payload)
      /\ reg' = [reg EXCEPT !.written = @ + chunk]
      /\ data' = [data EXCEPT ![c] = block]
  BY DEF WriteData, Working
<1>2. Len(call.payload) \in Nat /\ reg.written \in Nat
  BY <1>1, PayloadFacts DEF Calm, Typed, CallType, Kept, PayloadKept
<1>3. base \in Nat
  BY Fat32Assumption DEF Calm, Typed, RegType, Base
<1>4. Total = base + Len(call.payload) /\ Total \in Nat /\ n \in Nat
  BY TotalFacts DEF Total, Final, Calm
<1> HIDE DEF n, base
<1>5. at \in Nat /\ at < Total /\ Total > 0
  <2>1. reg.written < Len(call.payload)
    BY <1>1
  <2> QED
    BY <1>2, <1>3, <1>4, <2>1
<1>6. q \in 0 .. n - 1 /\ o \in 0 .. ClusterBytes - 1
  <2>1. at \div ClusterBytes \in Nat /\ at \div ClusterBytes < Needed(Total) /\ o \in 0 .. ClusterBytes - 1
    BY <1>4, <1>5, Positions
  <2> QED
    BY <1>4, <2>1 DEF n
<1>7. ClusterBytes \in Nat
  BY Fat32Assumption
<1> HIDE DEF at, q, o
<1>8. chunk \in Nat /\ chunk <= rest /\ chunk <= ClusterBytes - o
  BY <1>1, <1>2, <1>6, <1>7 DEF Chunk
<1>9. HeadOK /\ Long(fat, reg.first, n)
  BY <1>1, <1>5 DEF Calm, Sound, ChainSound, n
<1>10. PICK p : Along(fat, p, n) /\ p[0] = reg.first
  <2>1. n > 0
    BY <1>4, <1>6
  <2> QED
    BY <1>9, <2>1 DEF Long
<1>11. p[q] = c /\ p[q] \in Cluster
  BY <1>4, <1>6, <1>10, AlongNth DEF Along, c
<1>12. Starts(fat, reg.first)
  BY <1>1, <1>9, SoundVolume, HeadStarts DEF Calm, Sound
<1> HIDE DEF c, chunk, rest
<1>13. DataOK' /\ data'[c] = block /\ \A x \in Cluster : x # c => data'[x] = data[x]
  <2> HIDE DEF block
  <2> QED
    BY <1>1, <1>11, DataExcept DEF Kept
<1>14. \A i \in 0 .. ClusterBytes - 1 :
          data'[c][i] = IF i \in o .. o + chunk - 1
                        THEN call.payload[reg.written + 1 + i - o] ELSE data[c][i]
  BY <1>13
<1>15. Turn(fat, p, n, at, chunk) /\ Written(data, data', p, at, call.payload, reg.written, chunk)
  BY <1>4, <1>5, <1>6, <1>8, <1>10, <1>11, <1>13, <1>14 DEF Turn, Written, q, o
<1>16. reg'.written = reg.written + chunk
  BY <1>1 DEF Calm, Typed, RegType
<1>17. reg.written + chunk <= Len(call.payload)
  BY <1>2, <1>8 DEF rest
<1>18. \E r : /\ Turn(fat, r, n, at, chunk) /\ r[0] = reg.first
              /\ Written(data, data', r, at, call.payload, reg.written, chunk)
  BY <1>10, <1>15
<1> QED
  BY <1>2, <1>3, <1>4, <1>9, <1>12, <1>13, <1>16, <1>17, <1>18 DEF n, base, at, o, chunk, rest

(* What is written is there to be read, and what was written stays.        *)
Reads(f, d, first, base, payload, i) == ByteOf(f, d, first, base + i) = payload[i + 1]

InTurn(n, at, chunk, base, done, i) ==
    /\ base \in Nat /\ done \in Nat /\ at = base + done /\ i \in 0 .. done + chunk - 1
    /\ (base + i) \div ClusterBytes < n

LEMMA WrittenRead ==
    ASSUME NEW f, TableSound(f), NEW d, NEW b, NEW n, NEW p, NEW at, NEW chunk,
           Turn(f, p, n, at, chunk), Starts(f, p[0]), NEW payload, NEW done,
           Written(d, b, p, at, payload, done, chunk),
           NEW base, NEW i, InTurn(n, at, chunk, base, done, i),
           i < done => Reads(f, d, p[0], base, payload, i)
    PROVE  Reads(f, b, p[0], base, payload, i)
<1> DEFINE k == base + i
           q == at \div ClusterBytes
           o == at % ClusterBytes
           j == k \div ClusterBytes
           m == k % ClusterBytes
<1>1. /\ k \in Nat /\ ClusterBytes \in Nat /\ n \in Nat /\ Along(f, p, n) /\ at \in Nat
      /\ q \in 0 .. n - 1 /\ chunk \in Nat /\ chunk <= ClusterBytes - o
      /\ base \in Nat /\ done \in Nat /\ at = base + done /\ i \in 0 .. done + chunk - 1 /\ j < n
  BY Fat32Assumption DEF Turn, InTurn
<1>2. j \in 0 .. n - 1 /\ m \in 0 .. ClusterBytes - 1 /\ o \in 0 .. ClusterBytes - 1 /\ q \in 0 .. n - 1
  <2>1. j \in Nat /\ m \in 0 .. ClusterBytes - 1
    BY <1>1, Positions
  <2>2. o \in 0 .. ClusterBytes - 1
    BY <1>1, Positions
  <2> QED
    BY <1>1, <2>1, <2>2
<1>3. (j = q => m - o = k - at) /\ (at <= k /\ k < at + ClusterBytes - o => j = q)
  BY <1>1, SameCluster
<1>5. /\ \A x \in Cluster : x # p[q] => b[x] = d[x]
      /\ \A y \in 0 .. ClusterBytes - 1 :
            b[p[q]][y] = IF y \in o .. o + chunk - 1
                         THEN payload[done + 1 + y - o] ELSE d[p[q]][y]
  BY DEF Written
<1> HIDE DEF j, m, q, o
<1>6. NthOf(f, p[0], j) = p[j] /\ p[j] \in Cluster
  <2>1. NthOf(f, p[0], j) = p[j]
    BY <1>1, <1>2, AlongNthOf
  <2>2. p[j] \in Cluster
    BY <1>1, <1>2 DEF Along
  <2> QED
    BY <2>1, <2>2
<1>7. ByteOf(f, d, p[0], k) = d[p[j]][m] /\ ByteOf(f, b, p[0], k) = b[p[j]][m]
  BY <1>6 DEF ByteOf, IsData, j, m
<1>8. CASE i < done
  <2>1. p[j] = p[q] => j = q
    BY <1>1, <1>2, ChainsMeet
  <2>2. p[j] = p[q] => m < o
    BY <1>1, <1>2, <1>3, <1>8, <2>1
  <2>3. p[j] = p[q] => b[p[j]][m] = d[p[j]][m]
    BY <1>1, <1>2, <1>5, <2>2
  <2>4. b[p[j]][m] = d[p[j]][m]
    BY <1>5, <1>6, <2>3
  <2> QED
    BY <1>7, <1>8, <2>4 DEF Reads
<1>9. CASE i >= done
  <2>1. at <= k /\ k < at + ClusterBytes - o
    BY <1>1, <1>2, <1>9
  <2>2. j = q /\ m - o = i - done /\ m \in o .. o + chunk - 1
    BY <1>1, <1>2, <1>3, <1>9, <2>1
  <2>3. b[p[q]][m] = payload[done + 1 + m - o]
    BY <1>2, <1>5, <2>2
  <2>4. done + 1 + m - o = i + 1
    BY <1>1, <1>2, <2>2
  <2> QED
    BY <1>7, <2>2, <2>3, <2>4 DEF Reads
<1>10. i < done \/ i >= done
  BY <1>1
<1> QED
  BY <1>8, <1>9, <1>10

LEMMA KeptWriteData ==
    ASSUME Calm, Kept, WriteData
    PROVE  Kept'
<1> DEFINE base == Base(call.op, reg.size)
           at == base + reg.written
           chunk == Chunk(at % ClusterBytes, Len(call.payload) - reg.written)
           n == Needed(Total)
<1>1. /\ pc = "data" /\ pc' = "data" /\ pc \in Working /\ pc' \in Working
      /\ fat' = fat /\ slots' = slots /\ call' = call /\ freed' = freed /\ want' = want
  BY DEF WriteData, Working
<1>2. /\ reg'.slot = reg.slot /\ reg'.size = reg.size /\ reg'.first = reg.first
  BY DEF WriteData, Calm, Typed, RegType
<1>3. /\ base \in Nat /\ Total = base + Len(call.payload)
      /\ Len(call.payload) \in Nat /\ reg.written \in Nat
      /\ reg.written + chunk <= Len(call.payload)
      /\ reg'.written = reg.written + chunk
      /\ HeadOK /\ Starts(fat, reg.first) /\ DataOK'
      /\ \E p : /\ Turn(fat, p, n, at, chunk) /\ p[0] = reg.first
                /\ Written(data, data', p, at, call.payload, reg.written, chunk)
  BY WriteIs
<1>4. PICK p : /\ Turn(fat, p, n, at, chunk) /\ p[0] = reg.first
               /\ Written(data, data', p, at, call.payload, reg.written, chunk)
  BY <1>3
<1>5. At(Target)' = At(Target) /\ Gone' = Gone
  BY <1>1, <1>2 DEF At, Target, Gone
<1>6. \A k \in Nat : k < Total => k \div ClusterBytes < n
  <2>1. Total \in Nat
    BY TotalFacts DEF Calm
  <2> QED
    BY <2>1, Positions
<1>7. \A i \in 0 .. reg.written - 1 : ByteOf(fat, data, reg.first, base + i) = call.payload[i + 1]
  BY <1>1 DEF Kept, PayloadKept
<1>8. at = base + reg.written
  OBVIOUS
<1>8a. chunk \in Nat
  BY <1>4 DEF Turn
<1> HIDE DEF base, chunk, n
<1>9. \A e \in Valid(slots, Gone) : EntryAt(slots, e).cluster = reg.first => EntryAt(slots, e).size <= base
  BY <1>1, <1>3, HeadBase DEF base
<1> HIDE DEF at
<1>10. SameFiles(fat, data, fat, data', slots, Gone)
  <2>1. \A e \in Valid(slots, Gone) : EntryAt(slots, e).cluster = p[0] => EntryAt(slots, e).size <= at
    <3>1. \A e \in Valid(slots, Gone) : EntryAt(slots, e).size \in Nat
      BY SoundVolume, Sizes
    <3> QED
      BY <1>3, <1>4, <1>8, <1>9, <3>1
  <2>2. Starts(fat, p[0])
    BY <1>3, <1>4
  <2>3. slots \in SlotsType /\ VolumeSound(fat, slots, Gone)
    BY SoundVolume
  <2> QED
    BY <1>4, <2>1, <2>2, <2>3, FilesWrite
<1>11. ListingKept'
  BY <1>1, <1>5, <1>10, ListedFiles DEF Kept
<1>12. CallKept'
  BY <1>1, <1>2, <1>5, CallStays DEF Kept
<1>13. ASSUME NEW i \in 0 .. reg.written + chunk - 1
       PROVE  Reads(fat, data', reg.first, base, call.payload, i)
  <2>1. base + i \in Nat /\ base + i < Total
    BY <1>3, <1>8a
  <2>2. (base + i) \div ClusterBytes < n
    BY <1>6, <2>1
  <2>3. i < reg.written => i \in 0 .. reg.written - 1
    BY <1>3
  <2>4. i < reg.written => Reads(fat, data, p[0], base, call.payload, i)
    BY <1>4, <1>7, <2>3 DEF Reads
  <2>5. TableSound(fat) /\ Starts(fat, p[0])
    BY <1>3, <1>4, SoundVolume
  <2>6. InTurn(n, at, chunk, base, reg.written, i)
    BY <1>3, <1>8, <2>2 DEF InTurn
  <2>7. Reads(fat, data', p[0], base, call.payload, i)
    BY <1>4, <2>4, <2>5, <2>6, WrittenRead
  <2> QED
    BY <1>4, <2>7
<1>14. PayloadKept'
  <2>1. reg'.written \in 0 .. Len(call.payload)
    BY <1>3, <1>8a
  <2>2. \A i \in 0 .. reg'.written - 1 : Reads(fat, data', reg.first, base, call.payload, i)
    <3>1. reg'.written - 1 = reg.written + chunk - 1
      BY <1>3, <1>8a
    <3> QED
      BY <1>13, <3>1
  <2>3. Base(call'.op, reg'.size) = base
    BY <1>1, <1>2 DEF base
  <2>4. \A i \in 0 .. reg'.written - 1 :
           ByteOf(fat', data', reg'.first, Base(call'.op, reg'.size) + i) = call'.payload[i + 1]
    BY <1>1, <1>2, <2>2, <2>3 DEF Reads
  <2> QED
    BY <1>1, <2>1, <2>4 DEF PayloadKept
<1> QED
  BY <1>3, <1>11, <1>12, <1>14 DEF Kept

-----------------------------------------------------------------------------
(* The steps that write directories.                                       *)

LEMMA KeptWriteDots ==
    ASSUME Calm, Kept, WriteDots
    PROVE  Kept'
<1> DEFINE c == reg.first
           dots == [NoSlots EXCEPT ![1] = Entry("dir", ".", reg.first, 0),
                                   ![2] = Entry("dir", "..", call.dir, 0)]
<1>1. /\ pc = "dots" /\ pc' = "create" /\ pc' \notin Working
      /\ fat' = fat /\ data' = data /\ call' = call /\ reg' = reg /\ freed' = freed /\ want' = want
      /\ slots' = [slots EXCEPT ![c] = dots]
  BY DEF WriteDots, Working
<1>2. Mine(fat, slots, Gone, c) /\ c \in Cluster /\ c # Root /\ call.op = "mkdir" /\ ~freed
  BY <1>1 DEF Calm, Sound, CreateSound, Mine, Starts
<1>3. slots'[c] = dots /\ \A d \in Cluster : d # c => slots'[d] = slots[d]
  BY <1>1, <1>2, SoundVolume DEF SlotsType
<1>4. \A path : ~Leads(slots, path, c)
  BY <1>2, SoundVolume, GoneIs, LedTo
<1>5. /\ dots[1] = Entry("dir", ".", c, 0) /\ dots[2] = Entry("dir", "..", call.dir, 0)
      /\ \A i \in Slot : i # 1 /\ i # 2 => dots[i] = End
  BY SlotFacts DEF NoSlots
<1> HIDE DEF dots
<1>6. Bare(slots', c)
  BY <1>3, <1>5 DEF Bare, Holds, End, Entry
<1>7. \A i, j \in Slot : i < j /\ slots'[c][i] = End => slots'[c][j] = End
  <2>1. dots[1] # End /\ dots[2] # End
    BY <1>5 DEF End, Entry
  <2>2. Slot \subseteq Nat \ {0}
    BY SlotFacts
  <2>3. \A i, j \in Slot : i < j /\ dots[i] = End => dots[j] = End
    BY <1>5, <2>1, <2>2
  <2> QED
    BY <1>3, <2>3
<1> HIDE DEF c
<1>8. /\ \A path, d : Leads(slots', path, d) <=> Leads(slots, path, d)
      /\ \A path : \A e \in Cluster \X Slot :
            /\ Reachable(slots', path, e) <=> Reachable(slots, path, e)
            /\ Reachable(slots, path, e) => EntryAt(slots', e) = EntryAt(slots, e)
  BY <1>2, <1>3, <1>4, <1>6, ReachCleared
<1>9. Gone' = Gone /\ Others' = Others
  BY <1>1 DEF Gone, Target, Others, Named
<1>10. Shows(fat, slots', data, IF freed THEN Others ELSE want, Gone)
  BY <1>8, ShowsFrame DEF Kept, ListingKept
<1>11. EndIsLast(slots') /\ NamesApart(slots')
  BY <1>3, <1>6, <1>7, TidyCleared DEF Kept, ListingKept
<1>12. ListingKept'
  BY <1>1, <1>9, <1>10, <1>11 DEF Kept, ListingKept
<1>13. CallKept'
  BY <1>1, <1>6, <1>8 DEF Kept, CallKept, c
<1>14. PayloadKept' /\ DataOK'
  BY <1>1 DEF Kept, PayloadKept, DataOK
<1> QED
  BY <1>12, <1>13, <1>14 DEF Kept

(* The slot of the operation is written, and the others stay.              *)
LEMMA OwnSlot ==
    ASSUME Calm, Kept, pc \in Working, NEW t,
           \A e \in Cluster \X Slot : e # Target => EntryAt(t, e) = EntryAt(slots, e),
           EntryAt(t, Target) # End,
           EntryAt(t, Target).kind = "file" \/ ~Holds(EntryAt(t, Target)),
           Holds(EntryAt(t, Target)) => EntryAt(t, Target).name = At(Target).name,
           call.op = "rmdir" => pc = "mark"
    PROVE  /\ Target \in Cluster \X Slot /\ EndIsLast(t) /\ NamesApart(t)
           /\ \A path : \A e \in Cluster \X Slot :
                 e # Target => (Reachable(t, path, e) <=> Reachable(slots, path, e))
           /\ Leads(t, call.path, call.dir)
<1>1. /\ Target \in Cluster \X Slot /\ EntryAt(slots, Target) = At(Target) /\ Holds(At(Target))
      /\ Target[1] = call.dir /\ Target[2] = reg.slot
  BY TargetValid DEF Calm, Sound, TargetSound, Target
<1>2. At(Target) = slots[call.dir][reg.slot] /\ call.dir \in Cluster /\ reg.slot \in Slot
  BY <1>1 DEF At
<1>3. EndIsLast(slots) /\ NamesApart(slots) /\ Leads(slots, call.path, call.dir)
  BY DEF Kept, ListingKept, CallKept, Working
<1>4. At(Target).kind = "dir" => Bare(slots, At(Target).cluster)
  <2>1. At(Target).kind = "dir" => call.op = "rmdir"
    BY DEF Calm, Sound, TargetSound
  <2> QED
    BY <2>1 DEF Kept, CallKept
<1>5. /\ \A path : \A e \in Cluster \X Slot :
            e # Target => (Reachable(t, path, e) <=> Reachable(slots, path, e))
      /\ \A path : Leads(slots, path, Target[1]) => Leads(t, path, Target[1])
  <2>1. Holds(EntryAt(t, Target)) /\ EntryAt(t, Target).kind = "dir"
           => Bare(slots, EntryAt(t, Target).cluster)
    OBVIOUS
  <2>2. Holds(EntryAt(slots, Target)) /\ EntryAt(slots, Target).kind = "dir"
           => Bare(slots, EntryAt(slots, Target).cluster)
    BY <1>1, <1>4
  <2> HIDE DEF Target
  <2> QED
    BY <1>1, <2>1, <2>2, ReachSlot
<1>6. \A j \in Slot : j < Target[2] => slots[Target[1]][j] # End
  <2>1. slots[call.dir][reg.slot] # End
    BY <1>1, <1>2 DEF Holds, End, Entry
  <2> QED
    BY <1>1, <1>2, <1>3, <2>1 DEF EndIsLast
<1>7. Holds(EntryAt(t, Target)) =>
         /\ EntryAt(t, Target).name \in Names
         /\ \A j \in Slot : j # Target[2] /\ Holds(slots[Target[1]][j])
               => slots[Target[1]][j].name # EntryAt(t, Target).name
  BY <1>1, <1>2, <1>3 DEF NamesApart
<1>8. EndIsLast(t) /\ NamesApart(t)
  <2> HIDE DEF Target
  <2> QED
    BY <1>1, <1>3, <1>6, <1>7, TidySlot
<1> QED
  BY <1>1, <1>3, <1>5, <1>8

LEMMA KeptMarkDeleted ==
    ASSUME Calm, Kept, MarkDeleted
    PROVE  Kept'
<1>1. /\ pc = "mark" /\ pc \in Working /\ Finish /\ fat' = fat /\ data' = data
      /\ slots' = [slots EXCEPT ![call.dir][reg.slot] = Deleted]
  BY DEF MarkDeleted, Working
<1>2. want' = Others
  BY DEF MarkDeleted, Others
<1>3. /\ EntryAt(slots', Target) = Deleted
      /\ \A e \in Cluster \X Slot : e # Target => EntryAt(slots', e) = EntryAt(slots, e)
  <2>1. slots \in SlotsType /\ call.dir \in Cluster /\ reg.slot \in Slot
    BY DEF Calm, Typed, CallType, RegType
  <2> QED
    BY <1>1, <2>1 DEF Target, EntryAt, SlotsType
<1>4. Deleted # End /\ ~Holds(Deleted)
  BY DEF Deleted, End, Entry, Holds
<1>5. /\ Target \in Cluster \X Slot /\ EndIsLast(slots') /\ NamesApart(slots')
      /\ \A path : \A e \in Cluster \X Slot :
            e # Target => (Reachable(slots', path, e) <=> Reachable(slots, path, e))
  BY <1>1, <1>3, <1>4, OwnSlot
<1>6. ~freed' /\ pc' = "idle" /\ reg'.written = 0
  BY <1>1 DEF Finish, NoReg
<1>7. \A e : e \notin Gone'
  BY <1>6 DEF Gone
<1>8. Shows(fat, slots', data, Others, Gone')
  <2> DEFINE left == {Target}
  <2>1. \A e : e \in left <=> e = Target
    OBVIOUS
  <2> HIDE DEF left
  <2>2. Shows(fat, slots, data, Others, left)
    BY <1>1, <2>1, ShownOthers
  <2>3. ~Holds(EntryAt(slots', Target))
    BY <1>3, <1>4
  <2> QED
    BY <1>3, <1>5, <1>7, <2>1, <2>2, <2>3, ShowsWithout
<1>9. ListingKept'
  <2>1. \A w \in want' : w.bytes \in Seq(STRING)
    BY <1>2 DEF Others, Kept, ListingKept
  <2> QED
    BY <1>1, <1>2, <1>5, <1>6, <1>8, <2>1 DEF ListingKept
<1>10. CallKept' /\ PayloadKept' /\ DataOK'
  BY <1>1, <1>6 DEF CallKept, PayloadKept, Working, Kept, DataOK
<1> QED
  BY <1>9, <1>10 DEF Kept

(* The record of the entry at hand, as long as its clusters are its own.   *)
LEMMA OldRecord ==
    ASSUME Calm, Kept, pc \in Working, ~freed, NEW old \in want, Named(old)
    PROVE  old = Record(fat, data, call.path, At(Target))
<1>1. \A e : e \notin Gone
  BY GoneIs
<1>2. Shows(fat, slots, data, want, Gone) /\ NamesApart(slots)
  BY DEF Kept, ListingKept
<1>3. /\ Target \in Cluster \X Slot /\ EntryAt(slots, Target) = At(Target)
      /\ Holds(EntryAt(slots, Target))
  BY TargetValid DEF Calm, Sound, TargetSound
<1>4. /\ call.path \in Paths /\ Leads(slots, call.path, Target[1])
      /\ At(Target).name = call.name
  BY DEF Kept, CallKept, Working, Target
<1>5. \A r : r \in Others <=> r \in want /\ ~(r.path = call.path /\ r.name = EntryAt(slots, Target).name)
  BY <1>3, <1>4 DEF Others, Named
<1>6. slots \in SlotsType /\ VolumeSound(fat, slots, Gone)
  BY SoundVolume
<1> DEFINE left == {Target}
<1>7. \A e : e \in left <=> e = Target
  OBVIOUS
<1> HIDE DEF left
<1>8. OnlyRecord(fat, data, want, call.path, EntryAt(slots, Target))
  BY <1>1, <1>2, <1>3, <1>4, <1>5, <1>6, <1>7, ShowsSplit
<1> QED
  BY <1>3, <1>4, <1>8 DEF Named, OnlyRecord

(* What an append keeps, and the payload behind it, is what the chain      *)
(* holds.                                                                  *)
LEMMA EntryBytes ==
    ASSUME Calm, Kept, pc = "entry", NEW old \in want, Named(old),
           NEW entry, entry.kind = "file", entry.cluster = reg.first, entry.size = Total
    PROVE  /\ Content(fat, data, entry) = SubSeq(old.bytes, 1, Base(call.op, reg.size)) \o call.payload
           /\ Content(fat, data, entry) \in Seq(STRING)
<1> DEFINE base == Base(call.op, reg.size)
           kept == SubSeq(old.bytes, 1, base)
           len == Len(call.payload)
           read(i) == ByteOf(fat, data, reg.first, i - 1)
<1>1. /\ pc \in Working /\ old.bytes \in Seq(STRING) /\ call.payload \in Seq(STRING)
      /\ reg.written = len
  BY PayloadSeq DEF Working, Kept, ListingKept, PayloadKept, Calm, Typed, CallType
<1>2. base \in Nat /\ len \in Nat /\ Total = base + len
  BY <1>1, Fat32Assumption DEF Calm, Typed, RegType, Base, Total, Final
<1>3. \A i \in 0 .. len - 1 : ByteOf(fat, data, reg.first, base + i) = call.payload[i + 1]
  <2>1. \A i \in 0 .. reg.written - 1 :
           ByteOf(fat, data, reg.first, Base(call.op, reg.size) + i) = call.payload[i + 1]
    BY DEF Kept, PayloadKept
  <2> QED
    BY <1>1, <2>1
<1>4. ASSUME base > 0 PROVE Len(old.bytes) = base /\ \A i \in 1 .. base : old.bytes[i] = read(i)
  <2>1. call.op = "append" /\ reg.size = base /\ ~freed
    BY <1>4 DEF Base, Calm, Sound, FreeSound
  <2>2. At(Target).size = base /\ At(Target).cluster = reg.first /\ At(Target).kind = "file"
    BY <1>1, <1>4, <2>1 DEF Kept, CallKept, Calm, Sound, TargetSound
  <2>3. old.bytes = Content(fat, data, At(Target))
    BY <1>1, <2>1, OldRecord, RecordIs
  <2>4. old.bytes = [i \in 1 .. base |-> read(i)]
    BY <2>2, <2>3 DEF Content
  <2> HIDE DEF base, read
  <2>5. DOMAIN old.bytes = 1 .. base
    BY <2>4
  <2> QED
    BY <1>1, <1>2, <2>4, <2>5
<1> HIDE DEF base
<1>5. kept \in Seq(STRING) /\ Len(kept) = base /\ \A i \in 1 .. base : kept[i] = read(i)
  <2>1. \A i \in 1 .. base : old.bytes[i] \in STRING
    BY <1>1, <1>2, <1>4
  <2>2. /\ kept \in Seq(STRING)
        /\ Len(kept) = IF 1 <= base THEN base - 1 + 1 ELSE 0
        /\ \A i \in 1 .. base - 1 + 1 : kept[i] = old.bytes[1 + i - 1]
    BY <1>2, <2>1, SubSeqProperties
  <2>3. \A i \in 1 .. base : kept[i] = old.bytes[i]
    BY <1>2, <2>2
  <2> HIDE DEF kept, read
  <2> QED
    BY <1>2, <1>4, <2>2, <2>3
<1> HIDE DEF kept
<1>6. /\ kept \o call.payload \in Seq(STRING) /\ Len(kept \o call.payload) = base + len
      /\ \A i \in 1 .. base + len : (kept \o call.payload)[i] =
             IF i <= base THEN kept[i] ELSE call.payload[i - base]
  BY <1>1, <1>5, ConcatProperties
<1>7. \A i \in 1 .. base + len : (kept \o call.payload)[i] = read(i)
  <2>1. SUFFICES ASSUME NEW i \in 1 .. base + len PROVE (kept \o call.payload)[i] = read(i)
    OBVIOUS
  <2>2. CASE i <= base
    <3>1. i \in 1 .. base
      BY <1>2, <2>2
    <3>2. kept[i] = read(i)
      BY <1>5, <3>1
    <3>3. (kept \o call.payload)[i] = kept[i]
      BY <1>6, <2>2
    <3> QED
      BY <3>2, <3>3
  <2>3. CASE i > base
    <3>1. i - base - 1 \in 0 .. len - 1 /\ base + (i - base - 1) = i - 1 /\ (i - base - 1) + 1 = i - base
      BY <1>2, <2>3
    <3>2. ByteOf(fat, data, reg.first, i - 1) = call.payload[i - base]
      BY <1>3, <3>1
    <3>3. (kept \o call.payload)[i] = call.payload[i - base]
      BY <1>2, <1>6, <2>3
    <3> QED
      BY <3>2, <3>3
  <2>4. i <= base \/ i > base
    BY <1>2
  <2> QED
    BY <2>2, <2>3, <2>4
<1>8. Content(fat, data, entry) = [i \in 1 .. base + len |-> read(i)]
  BY <1>2 DEF Content
<1> DEFINE all == kept \o call.payload
<1>9. all \in Seq(STRING) /\ Len(all) = base + len /\ \A i \in 1 .. base + len : all[i] = read(i)
  BY <1>6, <1>7
<1> HIDE DEF all, read
<1>10. all = [i \in 1 .. base + len |-> read(i)]
  <2>1. all = [i \in 1 .. base + len |-> all[i]]
    BY <1>2, <1>9
  <2> QED
    BY <1>9, <2>1
<1> QED
  BY <1>8, <1>9, <1>10 DEF all, kept, base

LEMMA KeptWriteEntry ==
    ASSUME Calm, Kept, WriteEntry, Calm'
    PROVE  Kept'
<1> DEFINE new == [At(Target) EXCEPT !.cluster = reg.first, !.size = Total]
           old == CHOOSE w \in want : Named(w)
           bytes == SubSeq(old.bytes, 1, Base(call.op, reg.size)) \o call.payload
           rec == [path |-> call.path, name |-> call.name, kind |-> "file", bytes |-> bytes]
<1>1. /\ new.kind = At(Target).kind /\ new.name = At(Target).name
      /\ new.cluster = reg.first /\ new.size = Total
      /\ Target \in Cluster \X Slot /\ slots' = [slots EXCEPT ![call.dir][reg.slot] = new]
  BY WriteEntryIs DEF Calm
<1>2. pc = "entry" /\ pc \in Working /\ Finish /\ fat' = fat /\ data' = data
  BY DEF WriteEntry, Working
<1>3. \A r : r \in want' <=> r \in Others \/ r = rec
  BY DEF WriteEntry, Promise, Others
<1>4. old \in want /\ Named(old)
  BY <1>2 DEF Kept, CallKept
<1> HIDE DEF old, new
<1>5. /\ EntryAt(slots', Target) = new
      /\ \A e \in Cluster \X Slot : e # Target => EntryAt(slots', e) = EntryAt(slots, e)
  <2>1. slots \in SlotsType /\ call.dir \in Cluster /\ reg.slot \in Slot
    BY DEF Calm, Typed, CallType, RegType
  <2> QED
    BY <1>1, <2>1 DEF Target, EntryAt, SlotsType
<1>6. new.kind = "file" /\ Holds(new) /\ new.name = call.name /\ call.op # "rmdir" /\ new # End
  <2>1. At(Target).kind = "file" /\ Holds(At(Target)) /\ call.op # "rmdir"
    BY <1>2 DEF Calm, Sound, TargetSound, ChainSound
  <2>2. At(Target).name = call.name
    BY <1>2 DEF Kept, CallKept
  <2> QED
    BY <1>1, <2>1, <2>2 DEF Holds, End, Entry
<1>7. Content(fat, data, new) = bytes /\ bytes \in Seq(STRING)
  BY <1>1, <1>2, <1>4, <1>6, EntryBytes
<1> HIDE DEF bytes
<1>8. Record(fat, data, call.path, EntryAt(slots', Target)) = rec
  BY <1>5, <1>6, <1>7 DEF Record
<1>9. \A w \in want' : w.bytes \in Seq(STRING)
  <2>1. rec.bytes \in Seq(STRING)
    BY <1>7
  <2> HIDE DEF rec
  <2> QED
    BY <1>3, <2>1 DEF Kept, ListingKept, Others
<1> HIDE DEF rec
<1>10. /\ EndIsLast(slots') /\ NamesApart(slots')
       /\ \A path : \A e \in Cluster \X Slot :
             e # Target => (Reachable(slots', path, e) <=> Reachable(slots, path, e))
       /\ Leads(slots', call.path, call.dir)
  BY <1>1, <1>2, <1>5, <1>6, OwnSlot
<1>11. ~freed' /\ pc' = "idle" /\ reg'.written = 0
  BY <1>2 DEF Finish, NoReg
<1>12. \A e : e \notin Gone'
  BY <1>11 DEF Gone
<1>13. Shows(fat, slots', data, want', Gone')
  <2> DEFINE left == {Target}
  <2>1. \A e : e \in left <=> e = Target
    OBVIOUS
  <2> HIDE DEF left
  <2>2. Shows(fat, slots, data, Others, left)
    BY <1>2, <2>1, ShownOthers
  <2>3. OnPath(slots', call.path, Target)
    <3>1. call.path \in Paths /\ Target[1] = call.dir
      BY <1>2 DEF Kept, CallKept, Target
    <3>2. slots' \in SlotsType /\ VolumeSound(fat', slots', Gone') /\ NoDirs(slots', Gone')
      BY <1>12, SoundVolume DEF Calm, Typed, Sound, NoDirs
    <3>3. \A p : Leads(slots', p, call.dir) => p = call.path
      BY <1>10, <3>2, PathsApart
    <3> QED
      BY <1>5, <1>6, <1>10, <3>1, <3>3 DEF Reachable, OnPath
  <2>4. AddedTo(want', Others, Record(fat, data, call.path, EntryAt(slots', Target)))
    BY <1>3, <1>8 DEF AddedTo
  <2> QED
    BY <1>1, <1>5, <1>10, <1>12, <2>1, <2>2, <2>3, <2>4, ShowsWith
<1>14. ListingKept'
  BY <1>2, <1>9, <1>10, <1>11, <1>13 DEF ListingKept
<1>15. CallKept' /\ PayloadKept' /\ DataOK'
  BY <1>2, <1>11 DEF CallKept, PayloadKept, Working, Kept, DataOK
<1> QED
  BY <1>14, <1>15 DEF Kept

-----------------------------------------------------------------------------
(* The steps that find or make an entry.                                   *)

LEMMA SlotsBelow ==
    ASSUME NEW j \in Slot, NEW i \in 1 .. j
    PROVE  i \in Slot /\ (i = j \/ i < j)
<1> DEFINE n == SectorsPerCluster * SlotsPerSector
<1>1. n \in Nat /\ Slot = 1 .. n
  BY Fat32Assumption DEF Slot
<1> HIDE DEF n
<1> QED
  BY <1>1

(* The slot a creation gets is the first with nothing in it, and no entry  *)
(* of the directory has the name.                                          *)
LEMMA FindMore ==
    ASSUME slots \in SlotsType, SlotsSound(slots), EndIsLast(slots), NEW dir \in Cluster, NEW n,
           Find(dir, n).status # "found"
    PROVE  /\ \A j \in Slot : Holds(slots[dir][j]) => slots[dir][j].name # n
           /\ Find(dir, n).status = "free" =>
                 \A j \in Slot : j < Find(dir, n).slot => slots[dir][j] # End
<1> DEFINE hits == {i \in InUse(dir) : slots[dir][i] # Deleted /\ slots[dir][i].name = n}
           free == {i \in Slot : slots[dir][i] = End} \cup {i \in InUse(dir) : slots[dir][i] = Deleted}
<1>1. Find(dir, n) = IF hits # {} THEN [status |-> "found", slot |-> Least(hits)]
                     ELSE IF InUse(dir) = Slot THEN [status |-> "failed", slot |-> 1]
                     ELSE [status |-> "free", slot |-> Least(free)]
  BY DEF Find
<1>2. Slot \subseteq Nat
  BY SlotFacts
<1>3. hits = {}
  BY <1>1
<1>4. ASSUME NEW j \in Slot, Holds(slots[dir][j]) PROVE slots[dir][j].name # n
  <2>1. slots[dir][j] # End /\ slots[dir][j] # Deleted
    BY <1>4 DEF Holds, End, Deleted, Entry
  <2>2. \A i \in 1 .. j : slots[dir][i] # End
    <3>1. \A i \in 1 .. j : i \in Slot /\ (i = j \/ i < j)
      BY SlotsBelow
    <3> QED
      BY <1>4, <2>1, <3>1 DEF EndIsLast
  <2>3. j \in InUse(dir)
    BY <2>2 DEF InUse
  <2> QED
    BY <1>3, <2>1, <2>3
<1>5. ASSUME Find(dir, n).status = "free", NEW j \in Slot, j < Find(dir, n).slot
      PROVE  slots[dir][j] # End
  <2>1. Find(dir, n).slot = Least(free) /\ InUse(dir) # Slot
    BY <1>1, <1>3, <1>5
  <2>2. PICK i \in Slot : slots[dir][i] = End
    <3>1. \A i \in InUse(dir) : i \in Slot
      BY DEF InUse
    <3>2. PICK k \in Slot : k \notin InUse(dir)
      BY <2>1, <3>1
    <3>3. PICK i \in 1 .. k : slots[dir][i] = End
      BY <3>2 DEF InUse
    <3>4. i \in Slot
      BY <3>2, <3>3, SlotsBelow
    <3> QED
      BY <3>3, <3>4
  <2>3. free \in SUBSET Nat /\ free # {}
    BY <1>2, <2>2 DEF InUse
  <2>4. \A y \in free : Least(free) <= y
    <3> HIDE DEF free
    <3>1. \E m \in free : \A y \in free : m <= y
      BY <2>3, LeastExists
    <3> QED
      BY <3>1 DEF Least
  <2>5. Least(free) \in Nat
    <3> HIDE DEF free
    <3>1. \E m \in free : \A y \in free : m <= y
      BY <2>3, LeastExists
    <3> QED
      BY <2>3, <3>1 DEF Least
  <2>6. slots[dir][j] = End => j \in free
    OBVIOUS
  <2> HIDE DEF free
  <2>7. slots[dir][j] = End => Least(free) <= j
    BY <2>4, <2>6
  <2> QED
    BY <1>2, <1>5, <2>1, <2>5, <2>7
<1> QED
  BY <1>4, <1>5

LEMMA OpenedCall ==
    ASSUME NEW r \in RegType, NEW op \in {"write", "append"}, NEW payload \in Payloads \cup {<<>>},
           Opened(r, op, payload), r.written = 0, call'.op = op, call'.payload = payload,
           EntryAt(slots', <<call'.dir, r.slot>>).name = call'.name,
           EntryAt(slots', <<call'.dir, r.slot>>).size = r.size,
           EntryAt(slots', <<call'.dir, r.slot>>).cluster = r.first,
           call'.path \in Paths, Leads(slots', call'.path, call'.dir),
           \E w \in want' : Named(w)'
    PROVE  CallKept' /\ PayloadKept'
<1>1. /\ reg'.slot = r.slot /\ reg'.size = r.size /\ reg'.written = 0
      /\ \/ pc' = "free" /\ reg'.first = r.first
         \/ Final(op, r.size, payload) = 0 /\ pc' = "entry"
         \/ pc' = "extend" /\ reg'.first = r.first
         \/ pc' = "first" /\ reg'.first = r.first /\ r.first \notin Cluster
  <2>1. CASE op = "write" /\ r.first \in Cluster
    <3>1. pc' = "free" /\ reg' = [r EXCEPT !.cluster = r.first]
      BY <2>1 DEF Opened, IsData
    <3> QED
      BY <3>1 DEF RegType
  <2>2. CASE ~(op = "write" /\ r.first \in Cluster)
    <3>1. Extending(r, op, payload)
      BY <2>2 DEF Opened, IsData
    <3>2. reg'.written = 0
      BY <3>1, ExtendingKeeps
    <3> QED
      BY <3>1, <3>2, ExtendingIs
  <2> QED
    BY <2>1, <2>2
<1>2. Target' = <<call'.dir, r.slot>> /\ At(Target)' = EntryAt(slots', <<call'.dir, r.slot>>)
  BY <1>1 DEF Target, At, EntryAt
<1>3. Final(op, r.size, payload) = 0 => Len(payload) = 0 /\ (op = "append" => r.size = 0)
  <2>1. Len(payload) \in Nat /\ r.size \in Nat
    BY PayloadFacts, Fat32Assumption DEF RegType
  <2> QED
    BY <2>1 DEF Final, Base
<1>4. pc' # "idle" /\ pc' # "create" /\ pc' # "data" /\ call'.op # "rmdir"
  BY <1>1
<1>5. call'.op = "append" => /\ reg'.size = At(Target)'.size
                             /\ reg'.size > 0 => At(Target)'.cluster = reg'.first
  <2>1. CASE pc' = "entry"
    <3>1. ~(reg'.size > 0) \/ op # "append"
      BY <1>1, <1>3, <2>1
    <3> QED
      BY <1>1, <1>2, <3>1
  <2>2. CASE pc' # "entry"
    BY <1>1, <1>2, <2>2
  <2> QED
    BY <2>1, <2>2
<1>6. CallKept'
  BY <1>1, <1>2, <1>4, <1>5 DEF CallKept
<1>7. PayloadKept'
  <2>1. pc' = "entry" => Len(call'.payload) = 0
    BY <1>1, <1>3
  <2> QED
    BY <1>1, <1>4, <2>1 DEF PayloadKept
<1> QED
  BY <1>6, <1>7

LEMMA KeptCreate ==
    ASSUME Calm, Kept, Create, Calm'
    PROVE  Kept'
<1>1. /\ pc = "create" /\ call \in CallType /\ call.name \in Names /\ reg \in RegType
      /\ slots \in SlotsType /\ SlotsSound(slots) /\ call.dir \in Cluster /\ data' = data
      /\ call.payload \in Payloads \cup {<<>>}
  BY SoundVolume DEF Create, Calm, Typed, CallType
<1>2. ~freed /\ reg.size = 0 /\ call.op \in {"touch", "write", "append", "mkdir"} /\ reg.written = 0
  BY <1>1 DEF Calm, Sound, CreateSound, Kept, PayloadKept
<1>3. CASE Find(call.dir, call.name).status # "free"
  <2>1. Fail(freed) /\ UNCHANGED diskVars
    BY <1>3 DEF Create, diskVars
  <2> QED
    BY <2>1, KeptFail DEF Calm
<1>4. CASE Find(call.dir, call.name).status = "free"
  <2> DEFINE slot == Find(call.dir, call.name).slot
             kind == IF call.op = "mkdir" THEN "dir" ELSE "file"
             new  == Entry(kind, call.name, reg.first, 0)
             x    == <<call.dir, slot>>
             r    == [reg EXCEPT !.slot = slot]
             rec  == [path |-> call.path, name |-> call.name, kind |-> kind, bytes |-> <<>>]
  <2>1. /\ <<call.dir, slot>> \in Cluster \X Slot /\ new \in EntryType
        /\ slots[call.dir][slot] \in {End, Deleted}
        /\ slots' = [slots EXCEPT ![call.dir][slot] = new]
        /\ slots' \in SlotsType /\ fat' = fat
        /\ r \in RegType
        /\ IF call.op \in {"write", "append"}
           THEN Opened(r, call.op, call.payload) /\ call' = call /\ freed' = freed
           ELSE Finish
    BY <1>4, CreateIs DEF Calm
  <2>2. AddedTo(want', Others, rec)
    BY <1>4 DEF Create, Promise, Others, AddedTo
  <2>3. /\ new.kind = kind /\ new.name = call.name /\ new.cluster = reg.first /\ new.size = 0
        /\ r.slot = slot /\ r.first = reg.first /\ r.size = 0 /\ r.written = 0
    BY <1>1, <1>2 DEF Entry, RegType
  <2>4. /\ \A j \in Slot : Holds(slots[call.dir][j]) => slots[call.dir][j].name # call.name
        /\ \A j \in Slot : j < slot => slots[call.dir][j] # End
    BY <1>1, <1>4, FindMore DEF Kept, ListingKept
  <2> HIDE DEF slot, new, r
  <2>5. /\ x \in Cluster \X Slot /\ x[1] = call.dir /\ x[2] = slot
        /\ EntryAt(slots, x) \in {End, Deleted} /\ EntryAt(slots', x) = new
        /\ \A e \in Cluster \X Slot : e # x => EntryAt(slots', e) = EntryAt(slots, e)
    BY <1>1, <2>1 DEF EntryAt, SlotsType
  <2>6. ~Holds(EntryAt(slots, x)) /\ Holds(new) /\ new # End
    <3>1. call.name \notin {".", ".."}
      BY <1>1, Fat32Assumption
    <3> QED
      BY <2>3, <2>5, <3>1 DEF Holds, End, Deleted, Entry
  <2>7. /\ EndIsLast(slots) /\ NamesApart(slots) /\ Shows(fat, slots, data, want, Gone)
        /\ call.path \in Paths /\ Leads(slots, call.path, call.dir)
        /\ \A w \in want : w.bytes \in Seq(STRING)
        /\ call.op = "mkdir" => Bare(slots, reg.first)
    BY <1>1, <1>2 DEF Kept, ListingKept, CallKept
  <2>8. ~freed' /\ \A e : e \notin Gone'
    <3>1. ~freed'
      BY <1>2, <2>1 DEF Finish
    <3> QED
      BY <3>1 DEF Gone
  <2>9. \A e : e \notin Gone
    BY <1>2 DEF Gone
  <2> HIDE DEF x
  <2>10. /\ \A path : \A e \in Cluster \X Slot :
               e # x => (Reachable(slots', path, e) <=> Reachable(slots, path, e))
         /\ Leads(slots', call.path, call.dir)
    <3>1. Holds(EntryAt(slots', x)) /\ EntryAt(slots', x).kind = "dir"
             => Bare(slots, EntryAt(slots', x).cluster)
      BY <2>3, <2>5, <2>7
    <3>2. Holds(EntryAt(slots, x)) /\ EntryAt(slots, x).kind = "dir"
             => Bare(slots, EntryAt(slots, x).cluster)
      BY <2>6
    <3>3. /\ \A path : \A e \in Cluster \X Slot :
                e # x => (Reachable(slots', path, e) <=> Reachable(slots, path, e))
          /\ \A path : Leads(slots, path, x[1]) => Leads(slots', path, x[1])
      BY <2>5, <3>1, <3>2, ReachSlot
    <3> QED
      BY <2>5, <2>7, <3>3
  <2>11. EndIsLast(slots') /\ NamesApart(slots')
    <3>1. \A j \in Slot : j < x[2] => slots[x[1]][j] # End
      BY <2>4, <2>5
    <3>2. Holds(EntryAt(slots', x)) =>
             /\ EntryAt(slots', x).name \in Names
             /\ \A j \in Slot : j # x[2] /\ Holds(slots[x[1]][j])
                   => slots[x[1]][j].name # EntryAt(slots', x).name
      BY <1>1, <2>3, <2>4, <2>5
    <3> QED
      BY <2>5, <2>6, <2>7, <3>1, <3>2, TidySlot
  <2>12. \A w \in want : ~Named(w)
    <3>1. ASSUME NEW w \in want, Named(w) PROVE FALSE
      <4>1. PICK path \in Paths : \E e \in (Cluster \X Slot) \ Gone :
               Reachable(slots, path, e) /\ w = Record(fat, data, path, EntryAt(slots, e))
        BY <2>7 DEF Shows
      <4>2. PICK e \in Cluster \X Slot :
               Reachable(slots, path, e) /\ w = Record(fat, data, path, EntryAt(slots, e))
        BY <4>1
      <4>3. path = call.path /\ EntryAt(slots, e).name = call.name
        BY <3>1, <4>2, RecordIs DEF Named
      <4>4. e[1] = call.dir
        BY <2>7, <4>2, <4>3, LeadsOnce DEF Reachable
      <4>5. e[2] \in Slot /\ EntryAt(slots, e) = slots[call.dir][e[2]] /\ Holds(EntryAt(slots, e))
        BY <4>2, <4>4 DEF EntryAt, Reachable
      <4> QED
        BY <2>4, <4>3, <4>5
    <3> QED
      BY <3>1
  <2>13. Record(fat, data, call.path, EntryAt(slots', x)) = rec
    <3>1. Content(fat, data, new) = <<>>
      <4>1. \A i \in 1 .. 0 : FALSE
        OBVIOUS
      <4> QED
        BY <2>3 DEF Content
    <3> QED
      BY <2>3, <2>5, <3>1 DEF Record
  <2>14. Shows(fat, slots', data, want', Gone')
    <3> DEFINE left == {x}
    <3>1. \A e : e \in left <=> e = x
      OBVIOUS
    <3> HIDE DEF left
    <3>2. Shows(fat, slots, data, want, left)
      BY <2>6, <2>7, <2>9, <3>1, ShowsBut
    <3>3. OnPath(slots', call.path, x)
      <4>1. slots' \in SlotsType /\ VolumeSound(fat', slots', Gone') /\ NoDirs(slots', Gone')
        BY <2>8, SoundVolume DEF Calm, Typed, Sound, NoDirs
      <4>2. \A p : Leads(slots', p, call.dir) => p = call.path
        BY <2>10, <4>1, PathsApart
      <4> QED
        BY <2>5, <2>6, <2>7, <2>10, <4>2 DEF Reachable, OnPath
    <3>4. AddedTo(want', want, Record(fat, data, call.path, EntryAt(slots', x)))
      BY <2>2, <2>12, <2>13 DEF AddedTo, Others
    <3> QED
      BY <2>5, <2>8, <2>10, <3>1, <3>2, <3>3, <3>4, ShowsWith
  <2>15. ListingKept'
    <3>1. \A w \in want' : w.bytes \in Seq(STRING)
      <4>1. <<>> \in Seq(STRING)
        OBVIOUS
      <4>2. rec.bytes \in Seq(STRING)
        BY <4>1
      <4> HIDE DEF rec
      <4> QED
        BY <2>2, <2>7, <4>2 DEF AddedTo, Others
    <3> QED
      BY <1>1, <2>1, <2>8, <2>11, <2>14, <3>1 DEF ListingKept
  <2>16. CallKept' /\ PayloadKept'
    <3>1. CASE call.op \in {"write", "append"}
      <4>1. Opened(r, call.op, call.payload) /\ call' = call
        BY <2>1, <3>1
      <4>2. <<call'.dir, r.slot>> = x
        BY <2>3, <4>1 DEF x
      <4>3. \E w \in want' : Named(w)'
        <5>1. rec \in want' /\ rec.path = call'.path /\ rec.name = call'.name
          BY <2>2, <4>1 DEF AddedTo
        <5> QED
          BY <5>1 DEF Named
      <4> HIDE DEF rec
      <4> QED
        BY <1>1, <2>1, <2>3, <2>5, <2>7, <2>10, <3>1, <4>1, <4>2, <4>3, OpenedCall
    <3>2. CASE call.op \notin {"write", "append"}
      <4>1. pc' = "idle" /\ reg'.written = 0
        BY <2>1, <3>2 DEF Finish, NoReg
      <4> QED
        BY <4>1 DEF CallKept, PayloadKept, Working
    <3> QED
      BY <3>1, <3>2
  <2> QED
    BY <1>1, <2>15, <2>16 DEF Kept, DataOK
<1> QED
  BY <1>3, <1>4

(* Every parent is where its path leads.                                   *)
LEMMA ParentLeads ==
    ASSUME Calm, pc = "idle", NEW p \in Parents
    PROVE  p.path \in Paths /\ Leads(slots, p.path, p.cluster) /\ p.cluster \in Cluster
<1>1. \A e : e \notin Gone
  BY GoneIs
<1>2. /\ slots \in SlotsType /\ SlotsSound(slots) /\ VolumeSound(fat, slots, Gone)
  BY SoundVolume
<1>3. p.cluster \in Cluster /\ p.path \in Paths
  BY <1>1, <1>2, ParentFacts DEF Paths
<1>4. CASE p = [path |-> "/", cluster |-> Root]
  BY <1>3, <1>4 DEF Leads
<1>5. CASE p # [path |-> "/", cluster |-> Root]
  <2>1. PICK n \in Names : /\ Find(Root, n).status = "found" /\ Found(Root, n).kind = "dir"
                           /\ p = [path |-> n, cluster |-> Found(Root, n).cluster]
    BY <1>5 DEF Parents
  <2>2. /\ <<Root, Find(Root, n).slot>> \in Cluster \X Slot
        /\ EntryAt(slots, <<Root, Find(Root, n).slot>>) = Found(Root, n)
        /\ Holds(Found(Root, n)) /\ Found(Root, n).name = n
    BY <1>2, <2>1, ClusterFacts, FoundFacts, FindFacts
  <2>3. Find(Root, n).slot \in Slot /\ slots[Root][Find(Root, n).slot] = Found(Root, n)
    BY <2>2 DEF EntryAt
  <2> QED
    BY <1>3, <2>1, <2>2, <2>3 DEF Leads
<1> QED
  BY <1>4, <1>5

LEMMA KeptBegin ==
    ASSUME Calm, Kept, Ready, NEW p \in Parents, NEW n \in Names, NEW op, NEW payload,
           Begin(op, p, n, payload)
    PROVE  /\ ListingKept' /\ DataOK'
           /\ call'.path \in Paths /\ Leads(slots', call'.path, call'.dir)
           /\ call'.op = op /\ call'.payload = payload /\ call'.name = n
           /\ call'.dir = p.cluster /\ call'.path = p.path
           /\ slots' = slots /\ want' = want /\ fat' = fat
           /\ reg = NoReg /\ reg.written = 0 /\ reg \in RegType /\ ~freed
           /\ \A e : e \notin Gone
<1>1. pc = "idle" /\ ~freed /\ reg = NoReg
  BY DEF Ready, Calm, Typed
<1>2. \A e : e \notin Gone
  BY <1>1, GoneIs
<1>3. /\ fat' = fat /\ slots' = slots /\ data' = data /\ freed' = freed /\ want' = want
      /\ call'.op = op /\ call'.payload = payload /\ call'.name = n
      /\ call'.dir = p.cluster /\ call'.path = p.path
  BY DEF Begin, diskVars
<1>4. \A e : e \notin Gone'
  BY <1>1, <1>3 DEF Gone
<1>5. Shows(fat, slots, data, want, Gone)
  BY <1>1 DEF Kept, ListingKept
<1>6. Shows(fat, slots, data, want, Gone')
  BY <1>2, <1>4, <1>5 DEF Shows
<1>7. ListingKept'
  BY <1>1, <1>3, <1>6 DEF Kept, ListingKept
<1>8. call'.path \in Paths /\ Leads(slots', call'.path, call'.dir)
  BY <1>1, <1>3, ParentLeads
<1>9. reg.written = 0 /\ reg \in RegType /\ DataOK'
  BY <1>1, <1>3 DEF Kept, DataOK, NoReg, Calm, Typed
<1> QED
  BY <1>1, <1>2, <1>3, <1>7, <1>8, <1>9

(* An entry that is found is in the listing.                               *)
LEMMA KeptFound ==
    ASSUME Calm, Kept, Ready, NEW p \in Parents, NEW n \in Names, NEW op, NEW payload,
           Begin(op, p, n, payload), Find(p.cluster, n).status = "found"
    PROVE  LET x == <<call'.dir, Find(p.cluster, n).slot>>
           IN  /\ EntryAt(slots', x) = Found(p.cluster, n)
               /\ Found(p.cluster, n).name = n /\ Found(p.cluster, n) \in EntryType
               /\ Holds(Found(p.cluster, n))
               /\ x \in Cluster \X Slot
               /\ \E w \in want' : Named(w)'
<1> DEFINE x == <<p.cluster, Find(p.cluster, n).slot>>
<1>1. /\ call'.path \in Paths /\ Leads(slots', call'.path, call'.dir) /\ call'.name = n
      /\ call'.dir = p.cluster /\ slots' = slots /\ want' = want /\ ~freed
      /\ \A e : e \notin Gone
  BY KeptBegin
<1>2. slots \in SlotsType /\ SlotsSound(slots) /\ p.cluster \in Cluster
  BY SoundVolume, ParentLeads DEF Ready
<1>3. /\ x \in Cluster \X Slot /\ EntryAt(slots, x) = Found(p.cluster, n)
      /\ Holds(Found(p.cluster, n)) /\ Found(p.cluster, n) \in EntryType
      /\ Found(p.cluster, n).name = n
  BY <1>2, FoundFacts, FindFacts
<1>4. x[1] = p.cluster
  OBVIOUS
<1> HIDE DEF x
<1>5. Record(fat, data, call'.path, EntryAt(slots, x)) \in want
  <2>1. Reachable(slots, call'.path, x)
    BY <1>1, <1>3, <1>4 DEF Reachable
  <2> QED
    BY <1>1, <1>3, <2>1 DEF Kept, ListingKept, Shows
<1>6. \E w \in want' : Named(w)'
  <2>1. Record(fat, data, call'.path, EntryAt(slots, x)).path = call'.path
        /\ Record(fat, data, call'.path, EntryAt(slots, x)).name = call'.name
    BY <1>1, <1>3, RecordIs
  <2> QED
    BY <1>1, <1>5, <2>1 DEF Named
<1>7. <<call'.dir, Find(p.cluster, n).slot>> = x
  BY <1>1 DEF x
<1> QED
  BY <1>1, <1>3, <1>6, <1>7

LEMMA KeptCreating ==
    ASSUME Calm, Kept, Ready, NEW p \in Parents, NEW n \in Names, NEW op, NEW payload,
           Begin(op, p, n, payload), reg' = reg,
           pc' = "mkdir" \/ (pc' = "create" /\ op # "mkdir")
    PROVE  Kept'
<1>1. /\ ListingKept' /\ DataOK' /\ call'.path \in Paths /\ Leads(slots', call'.path, call'.dir)
      /\ call'.op = op /\ reg.written = 0
  BY KeptBegin
<1> QED
  BY <1>1 DEF Kept, CallKept, PayloadKept, Working

LEMMA KeptCallWrite ==
    ASSUME Calm, Kept, CallWrite
    PROVE  Kept'
<1>1. PICK p \in Parents, n \in Names, op \in {"write", "append"}, payload \in Payloads :
          LET e == Found(p.cluster, n)
          IN  /\ Begin(op, p, n, payload)
              /\ \/ /\ Find(p.cluster, n).status = "free"
                    /\ pc' = "create" /\ reg' = reg
                 \/ /\ Find(p.cluster, n).status = "found" /\ e.kind # "dir"
                    /\ Final(op, e.size, payload) <= MaxFileBytes
                    /\ Opened([reg EXCEPT !.slot = Find(p.cluster, n).slot,
                                          !.size = e.size, !.first = e.cluster], op, payload)
  BY DEF CallWrite
<1>2. Ready /\ Begin(op, p, n, payload)
  BY <1>1 DEF CallWrite
<1>3. CASE pc' = "create" /\ reg' = reg
  BY <1>2, <1>3, KeptCreating
<1>4. CASE ~(pc' = "create" /\ reg' = reg)
  <2> DEFINE slot == Find(p.cluster, n).slot
             e == Found(p.cluster, n)
             r == [reg EXCEPT !.slot = slot, !.size = e.size, !.first = e.cluster]
             x == <<call'.dir, slot>>
  <2>1. Find(p.cluster, n).status = "found" /\ Opened(r, op, payload)
    BY <1>1, <1>4
  <2>2. /\ ListingKept' /\ DataOK' /\ call'.path \in Paths /\ Leads(slots', call'.path, call'.dir)
        /\ call'.op = op /\ call'.payload = payload /\ call'.name = n
        /\ reg.written = 0 /\ reg \in RegType
    BY <1>2, KeptBegin
  <2>3. /\ EntryAt(slots', x) = e /\ e.name = n /\ e \in EntryType /\ x \in Cluster \X Slot
        /\ \E w \in want' : Named(w)'
    BY <1>2, <2>1, KeptFound
  <2>4. slot \in Slot
    BY <2>3
  <2> HIDE DEF slot, e
  <2>5. r \in RegType /\ r.slot = slot /\ r.size = e.size /\ r.first = e.cluster /\ r.written = 0
    BY <2>2, <2>3, <2>4 DEF RegType, EntryType
  <2> HIDE DEF r
  <2>6. EntryAt(slots', <<call'.dir, r.slot>>) = e
    BY <2>3, <2>5
  <2>7. CallKept' /\ PayloadKept'
    BY <2>1, <2>2, <2>3, <2>5, <2>6, OpenedCall
  <2> QED
    BY <2>2, <2>7 DEF Kept
<1> QED
  BY <1>3, <1>4

(* What a reader takes from a directory is all that is in it.              *)
LEMMA LiveIs ==
    ASSUME slots \in SlotsType, EndIsLast(slots), NEW dir \in Cluster
    PROVE  \A i : i \in Live(dir) <=> i \in Slot /\ Holds(slots[dir][i])
<1>1. ASSUME NEW i \in Slot, Holds(slots[dir][i]) PROVE i \in InUse(dir)
  <2>1. slots[dir][i] # End
    BY <1>1 DEF Holds, End, Entry
  <2>2. \A j \in 1 .. i : j \in Slot /\ (j = i \/ j < i)
    BY SlotsBelow
  <2>3. \A j \in 1 .. i : slots[dir][j] # End
    BY <1>1, <2>1, <2>2 DEF EndIsLast
  <2> QED
    BY <2>3 DEF InUse
<1>2. \A i \in InUse(dir) : i \in Slot
  BY DEF InUse
<1> QED
  BY <1>1, <1>2 DEF Live, Holds

(* No directory is removed that holds something.                           *)
EmptyRemoved == pc = "idle" /\ pc' # "idle" /\ call'.op = "rmdir" => Live(reg'.first) = {}

LEMMA KeptCallRemove ==
    ASSUME Calm, Kept, CallRemove, EmptyRemoved
    PROVE  Kept'
<1>1. PICK p \in Parents, n \in Names, op \in {"rm", "rmdir"} :
          LET e == Found(p.cluster, n)
          IN  /\ Find(p.cluster, n).status = "found"
              /\ (e.kind = "dir") = (op = "rmdir")
              /\ op = "rmdir" => LooksEmpty(e.cluster)
              /\ Begin(op, p, n, <<>>)
              /\ pc' = Removal(e.cluster)
              /\ reg' = [reg EXCEPT !.slot = Find(p.cluster, n).slot, !.first = e.cluster,
                                    !.cluster = e.cluster]
  BY DEF CallRemove
<1> DEFINE slot == Find(p.cluster, n).slot
           e == Found(p.cluster, n)
           x == <<call'.dir, slot>>
<1>2. /\ Ready /\ Begin(op, p, n, <<>>) /\ Find(p.cluster, n).status = "found"
      /\ (e.kind = "dir") = (op = "rmdir") /\ pc' \in {"free", "mark"}
  BY <1>1 DEF CallRemove, Removal
<1>3. /\ ListingKept' /\ DataOK' /\ call'.path \in Paths /\ Leads(slots', call'.path, call'.dir)
      /\ call'.op = op /\ call'.name = n /\ slots' = slots
      /\ reg.written = 0 /\ reg \in RegType /\ ~freed /\ \A y : y \notin Gone
  BY <1>2, KeptBegin
<1>4. /\ EntryAt(slots', x) = e /\ e.name = n /\ e \in EntryType /\ x \in Cluster \X Slot
      /\ \E w \in want' : Named(w)'
      /\ Holds(e)
  BY <1>2, KeptFound
<1>5. reg'.slot = slot /\ reg'.first = e.cluster /\ reg'.written = 0
  BY <1>1, <1>3 DEF RegType
<1>6. At(Target)' = e
  BY <1>4, <1>5 DEF At, Target, EntryAt
<1>7. op = "rmdir" => Bare(slots', e.cluster)
  <2>1. SUFFICES ASSUME op = "rmdir" PROVE Bare(slots, e.cluster)
    BY <1>3
  <2>2. Live(e.cluster) = {}
    BY <1>2, <1>3, <1>5, <2>1 DEF EmptyRemoved, Ready
  <2>3. e.kind = "dir"
    BY <1>2, <2>1
  <2>4. e.cluster \in Cluster
    <3>1. x \in Valid(slots, Gone) /\ EntryAt(slots, x) = e
      BY <1>3, <1>4 DEF Valid
    <3> HIDE DEF e, x
    <3> QED
      BY <2>3, <3>1, SoundVolume DEF VolumeSound, DirsSound
  <2> HIDE DEF e
  <2>5. \A i : i \in Live(e.cluster) <=> i \in Slot /\ Holds(slots[e.cluster][i])
    BY <2>4, SoundVolume, LiveIs DEF Kept, ListingKept
  <2> QED
    BY <2>2, <2>5 DEF Bare
<1> HIDE DEF e
<1>8. CallKept'
  BY <1>2, <1>3, <1>4, <1>6, <1>7 DEF CallKept
<1>9. PayloadKept'
  BY <1>2, <1>5 DEF PayloadKept
<1> QED
  BY <1>3, <1>8, <1>9 DEF Kept

-----------------------------------------------------------------------------
(* Every step keeps what the volume shows.                                 *)

LEMMA FormattedEmpty ==
    ASSUME NEW f, NEW d, NEW w, NEW gone, w = {}
    PROVE  /\ EndIsLast(FormattedSlots) /\ NamesApart(FormattedSlots)
           /\ Shows(f, FormattedSlots, d, w, gone)
<1>1. \A c \in Cluster : \A i \in Slot : ~Holds(FormattedSlots[c][i])
  BY SlotFacts DEF FormattedSlots, NoSlots, Holds, End, Entry
<1>2. EndIsLast(FormattedSlots) /\ NamesApart(FormattedSlots)
  <2>1. \A c \in Cluster : \A i, j \in Slot :
           i < j /\ FormattedSlots[c][i] = End => FormattedSlots[c][j] = End
    <3>1. \A c \in Cluster : \A j \in Slot : j # 1 => FormattedSlots[c][j] = End
      BY SlotFacts DEF FormattedSlots, NoSlots
    <3>2. \A i, j \in Slot : i < j => j # 1
      BY SlotFacts
    <3> QED
      BY <3>1, <3>2
  <2> QED
    BY <1>1, <2>1 DEF EndIsLast, NamesApart
<1>3. Shows(f, FormattedSlots, d, w, gone)
  <2>1. \A path : \A e \in Cluster \X Slot : ~Reachable(FormattedSlots, path, e)
    BY <1>1 DEF Reachable, EntryAt
  <2> QED
    BY <2>1 DEF Shows
<1> QED
  BY <1>2, <1>3

LEMMA FormattedKept ==
    ASSUME pc' = "idle", fat' = FormattedFat, slots' = FormattedSlots, data' = NoData, want' = {},
           reg' = NoReg, freed' = FALSE
    PROVE  Kept'
<1>1. ListingKept'
  BY FormattedEmpty DEF ListingKept
<1>2. DataOK'
  BY DEF DataOK, NoData
<1>3. reg'.written = 0
  BY DEF NoReg
<1> QED
  BY <1>1, <1>2, <1>3 DEF Kept, CallKept, PayloadKept, Working

LEMMA InitKept ==
    ASSUME Init
    PROVE  Kept
<1>1. ListingKept
  BY FormattedEmpty DEF ListingKept, Init
<1>2. DataOK
  BY DEF DataOK, NoData, Init
<1>3. reg.written = 0
  BY DEF NoReg, Init
<1> QED
  BY <1>1, <1>2, <1>3 DEF Kept, CallKept, PayloadKept, Working, Init

LEMMA KeptStep ==
    ASSUME Calm, Kept, Step, Calm'
    PROVE  Kept'
<1>1. health' # "tainted" /\ UNCHANGED diskVars /\ Fail(freed) => Kept'
  BY KeptFail
<1>2. health' # "tainted"
  BY DEF Calm
<1>3. AllocateFirst => Kept'
  BY KeptAllocateFirst
<1>4. Follow => Kept'
  BY KeptFollow
<1>5. AllocateNext => Kept'
  BY KeptAllocateNext
<1>6. Link => Kept'
  BY KeptLink
<1>7. Terminate => Kept'
  BY KeptTerminate
<1>8. OutOfSpace => Kept'
  BY <1>1, <1>2 DEF OutOfSpace
<1>9. FreeCluster => Kept'
  BY <1>2, KeptFree, KeptTrim DEF FreeCluster
<1>10. WriteData => Kept'
  BY KeptWriteData
<1>11. DataWritten => Kept'
  BY KeptDataWritten
<1>12. AppendNothing => Kept'
  BY <1>1, <1>2 DEF AppendNothing
<1>13. MakeDirCluster => Kept'
  BY KeptMakeDirCluster
<1>14. WriteDots => Kept'
  BY KeptWriteDots
<1>15. Create => Kept'
  BY KeptCreate
<1>16. WriteEntry => Kept'
  BY KeptWriteEntry
<1>17. MarkDeleted => Kept'
  BY KeptMarkDeleted
<1> QED
  BY <1>3, <1>4, <1>5, <1>6, <1>7, <1>8, <1>9, <1>10, <1>11, <1>12, <1>13, <1>14, <1>15,
     <1>16, <1>17 DEF Step

LEMMA KeptCall ==
    ASSUME Calm, Kept, Call, EmptyRemoved
    PROVE  Kept'
<1>1. CallTouch => Kept'
  <2>1. SUFFICES ASSUME CallTouch PROVE Kept'
    OBVIOUS
  <2>2. PICK p \in Parents, n \in Names : Begin("touch", p, n, <<>>)
    BY <2>1 DEF CallTouch
  <2>3. Ready /\ pc' = "create" /\ reg' = reg
    BY <2>1 DEF CallTouch
  <2> QED
    BY <2>2, <2>3, KeptCreating
<1>2. CallMakeDir => Kept'
  <2>1. SUFFICES ASSUME CallMakeDir PROVE Kept'
    OBVIOUS
  <2>2. PICK p \in Parents, n \in Names : Begin("mkdir", p, n, <<>>)
    BY <2>1 DEF CallMakeDir
  <2>3. Ready /\ pc' = "mkdir" /\ reg' = reg
    BY <2>1 DEF CallMakeDir
  <2> QED
    BY <2>2, <2>3, KeptCreating
<1> QED
  BY <1>1, <1>2, KeptCallWrite, KeptCallRemove DEF Call

LEMMA KeptSame ==
    ASSUME Kept, UNCHANGED vars
    PROVE  Kept'
BY DEF Kept, DataOK, ListingKept, CallKept, PayloadKept, Others, Named, Gone, Target, At, vars, diskVars

LEMMA KeptNext ==
    ASSUME Inv, Inv', Claim, Next \/ UNCHANGED vars, EmptyRemoved \/ UNCHANGED vars
    PROVE  Claim'
<1> SUFFICES ASSUME health' # "tainted" PROVE Kept'
  BY DEF Claim
<1>1. CASE Format
  <2>1. pc = "idle" /\ freed = FALSE /\ reg = NoReg
    BY <1>1 DEF Format, Inv, Typed
  <2> QED
    BY <1>1, <2>1, FormattedKept DEF Format
<1>2. CASE ~Format
  <2>1. health # "tainted"
    BY <1>2, Tainted
  <2>2. Calm /\ Calm' /\ Kept
    BY <2>1 DEF Inv, Calm, Claim
  <2>3. CASE UNCHANGED vars
    BY <2>2, <2>3, KeptSame
  <2>4. CASE ~(UNCHANGED vars)
    <3>1. Call => Kept'
      BY <2>2, <2>4, KeptCall
    <3>2. Step => Kept'
      BY <2>2, KeptStep
    <3>3. DiskFails => Kept'
      BY <2>2, KeptFail DEF DiskFails, Calm
    <3> QED
      BY <1>2, <2>4, <3>1, <3>2, <3>3 DEF Next
  <2> QED
    BY <2>3, <2>4
<1> QED
  BY <1>1, <1>2

-----------------------------------------------------------------------------
(* What a reader is told between two operations.                           *)

LEMMA SeenIs ==
    ASSUME slots \in SlotsType, EndIsLast(slots), NEW dir \in Cluster, NEW path
    PROVE  \A r : r \in Seen(path, dir) <=>
              \E i \in Slot : Holds(slots[dir][i]) /\ r = Record(fat, data, path, slots[dir][i])
<1>1. \A i : i \in Live(dir) <=> i \in Slot /\ Holds(slots[dir][i])
  BY LiveIs
<1>2. \A i : slots[dir][i].kind = "file" => Bytes(slots[dir][i]) = Content(fat, data, slots[dir][i])
  <2>1. \A first, k : Nth(first, k) = NthOf(fat, first, k)
    BY DEF Nth, NthOf
  <2> QED
    BY <2>1 DEF Bytes, Content, ByteOf
<1> DEFINE told(i) ==
        [path |-> path, name |-> slots[dir][i].name, kind |-> slots[dir][i].kind,
         bytes |-> IF slots[dir][i].kind = "file" THEN Bytes(slots[dir][i]) ELSE <<>>]
<1>3. \A i : told(i) = Record(fat, data, path, slots[dir][i])
  BY <1>2 DEF Record, Content
<1>4. \A r : r \in Seen(path, dir) <=> \E i \in Live(dir) : r = told(i)
  BY DEF Seen
<1> HIDE DEF told
<1> QED
  BY <1>1, <1>3, <1>4

(* A directory of the root is where its name leads, and nothing else is.   *)
LEMMA OnDiskIs ==
    ASSUME Calm, ~freed, EndIsLast(slots), NamesApart(slots)
    PROVE  \A r : r \in OnDisk <=>
              \E path \in Paths : \E e \in Cluster \X Slot :
                  Reachable(slots, path, e) /\ r = Record(fat, data, path, EntryAt(slots, e))
<1>1. slots \in SlotsType /\ Root \in Cluster
  BY SoundVolume, ClusterFacts
<1>2. \A i : i \in Live(Root) <=> i \in Slot /\ Holds(slots[Root][i])
  BY <1>1, LiveIs
<1> DEFINE Dirs == {j \in Live(Root) : slots[Root][j].kind = "dir"}
<1>3. \A j : j \in Dirs <=> j \in Slot /\ Holds(slots[Root][j]) /\ slots[Root][j].kind = "dir"
  BY <1>2
<1>4. \A j \in Dirs : slots[Root][j].cluster \in Cluster /\ slots[Root][j].name \in Paths
  <2>1. SUFFICES ASSUME NEW j \in Dirs
                 PROVE  slots[Root][j].cluster \in Cluster /\ slots[Root][j].name \in Paths
    OBVIOUS
  <2>2. j \in Slot /\ Holds(slots[Root][j]) /\ slots[Root][j].kind = "dir"
    BY <1>3, <2>1
  <2>3. EntryAt(slots, <<Root, j>>) = slots[Root][j]
    BY DEF EntryAt
  <2>4. \A e : e \notin Gone
    BY GoneIs
  <2>5. <<Root, j>> \in Valid(slots, Gone)
    BY <1>1, <2>2, <2>3, <2>4 DEF Valid
  <2>6. slots[Root][j].cluster \in Cluster
    BY <2>2, <2>3, <2>5, SoundVolume DEF VolumeSound, DirsSound
  <2>7. slots[Root][j].name \in Paths
    BY <1>1, <2>2 DEF NamesApart, Paths
  <2> QED
    BY <2>6, <2>7
<1>5. \A path, dir : Leads(slots, path, dir) <=>
          \/ path = "/" /\ dir = Root
          \/ \E j \in Dirs : path = slots[Root][j].name /\ dir = slots[Root][j].cluster
  BY <1>3 DEF Leads
<1>6. \A r : r \in OnDisk <=> \/ r \in Seen("/", Root)
                              \/ \E j \in Dirs : r \in Seen(slots[Root][j].name, slots[Root][j].cluster)
  BY DEF OnDisk
<1> HIDE DEF Dirs
<1>7. \A r : r \in OnDisk <=>
          \E path \in Paths : \E dir \in Cluster : Leads(slots, path, dir) /\ r \in Seen(path, dir)
  <2>1. "/" \in Paths
    BY DEF Paths
  <2> QED
    BY <1>1, <1>4, <1>5, <1>6, <2>1
<1>8. ASSUME NEW path, NEW dir \in Cluster, NEW r, Leads(slots, path, dir)
      PROVE  r \in Seen(path, dir) <=>
                \E e \in Cluster \X Slot : e[1] = dir /\ Reachable(slots, path, e)
                                           /\ r = Record(fat, data, path, EntryAt(slots, e))
  <2>1. r \in Seen(path, dir) <=>
           \E i \in Slot : Holds(slots[dir][i]) /\ r = Record(fat, data, path, slots[dir][i])
    BY <1>1, SeenIs
  <2>2. ASSUME NEW i \in Slot, Holds(slots[dir][i]), r = Record(fat, data, path, slots[dir][i])
        PROVE  \E e \in Cluster \X Slot : e[1] = dir /\ Reachable(slots, path, e)
                                          /\ r = Record(fat, data, path, EntryAt(slots, e))
    <3>1. PICK e : e = <<dir, i>>
      OBVIOUS
    <3>2. e \in Cluster \X Slot /\ e[1] = dir /\ EntryAt(slots, e) = slots[dir][i]
      BY <3>1 DEF EntryAt
    <3> QED
      BY <1>8, <2>2, <3>2 DEF Reachable
  <2>3. ASSUME NEW e \in Cluster \X Slot, e[1] = dir, Reachable(slots, path, e),
               r = Record(fat, data, path, EntryAt(slots, e))
        PROVE  \E i \in Slot : Holds(slots[dir][i]) /\ r = Record(fat, data, path, slots[dir][i])
    <3>1. e[2] \in Slot /\ EntryAt(slots, e) = slots[dir][e[2]]
      BY <2>3 DEF EntryAt
    <3> QED
      BY <2>3, <3>1 DEF Reachable
  <2> QED
    BY <2>1, <2>2, <2>3
<1>9. \A path : \A e \in Cluster \X Slot : Reachable(slots, path, e) =>
          e[1] \in Cluster /\ Leads(slots, path, e[1])
  BY DEF Reachable
<1> QED
  BY <1>7, <1>8, <1>9

LEMMA KeptShown ==
    ASSUME Inv, Claim
    PROVE  FilesKept
<1>1. SUFFICES ASSUME pc = "idle", health # "tainted" PROVE OnDisk = want
  BY DEF FilesKept
<1>2. Calm /\ Kept
  BY <1>1 DEF Inv, Calm, Claim
<1>3. ~freed /\ \A e : e \notin Gone
  BY <1>1, <1>2, GoneIs
<1>4. EndIsLast(slots) /\ NamesApart(slots) /\ Shows(fat, slots, data, want, Gone)
  BY <1>2, <1>3 DEF Kept, ListingKept
<1>5. \A r : r \in OnDisk <=>
          \E path \in Paths : \E e \in Cluster \X Slot :
              Reachable(slots, path, e) /\ r = Record(fat, data, path, EntryAt(slots, e))
  BY <1>2, <1>3, <1>4, OnDiskIs
<1>6. \A e : e \in (Cluster \X Slot) \ Gone <=> e \in Cluster \X Slot
  BY <1>3
<1>7. \A r : r \in OnDisk <=> r \in want
  BY <1>4, <1>5, <1>6 DEF Shows
<1> QED
  BY <1>7

(* As long as rmdir removes only directories that hold nothing, whoever    *)
(* lists and reads the volume finds the directories and the bytes that the *)
(* operations of fat32.c wrote, whatever else is called and whatever       *)
(* fails, until an operation is cut short between the first cluster it     *)
(* frees and its last write, or an append takes a failed read for the end  *)
(* of its file.                                                            *)
THEOREM FilesAreKept == Spec /\ RmdirOnlyEmpty => []FilesKept
<1>1. Init => Claim
  BY InitKept DEF Claim
<1>2. Inv /\ Inv' /\ Claim /\ [Next]_vars /\ [EmptyRemoved]_vars => Claim'
  BY KeptNext
<1>3. Inv /\ Claim => FilesKept
  BY KeptShown
<1>4. RmdirOnlyEmpty <=> [][EmptyRemoved]_vars
  BY DEF RmdirOnlyEmpty, EmptyRemoved
<1> QED
  BY <1>1, <1>2, <1>3, <1>4, Invariant, PTL DEF Spec

(* With one sector in a cluster, the scan of fat32_remove_dir sees all.    *)
LEMMA LooksEmptyIs ==
    ASSUME SectorsPerCluster = 1, NEW dir, LooksEmpty(dir), NEW parent, Dots(slots, dir, parent)
    PROVE  Live(dir) = {}
<1>1. SUFFICES ASSUME NEW i \in Live(dir) PROVE FALSE
  OBVIOUS
<1>2. Slot = 1 .. SlotsPerSector
  BY Fat32Assumption DEF Slot
<1>3. /\ i \in 1 .. SlotsPerSector /\ \A j \in 1 .. i : slots[dir][j] # End
      /\ slots[dir][i].kind \in {"file", "dir"} /\ slots[dir][i].name \notin {".", ".."}
  BY <1>2 DEF Live, InUse
<1>4. i \in 3 .. SlotsPerSector
  <2>1. i # 1 /\ i # 2
    BY <1>3 DEF Dots, Entry
  <2> QED
    BY <1>3, <2>1, Fat32Assumption
<1>5. \A j \in 1 .. i : 0 * SlotsPerSector + j = j
  BY <1>3, Fat32Assumption
<1>6. slots[dir][i] = Deleted
  <2>1. 0 \in 0 .. SectorsPerCluster - 1
    OBVIOUS
  <2>2. (\A j \in 1 .. i : slots[dir][0 * SlotsPerSector + j] # End)
            => slots[dir][0 * SlotsPerSector + i] = Deleted
    BY <1>4, <2>1 DEF LooksEmpty
  <2>3. i \in 1 .. i
    BY <1>4, Fat32Assumption
  <2> QED
    BY <1>3, <1>5, <2>2, <2>3
<1> QED
  BY <1>3, <1>6 DEF Deleted, Entry

LEMMA EmptyIsRemoved ==
    ASSUME Inv, SectorsPerCluster = 1, Next
    PROVE  EmptyRemoved
<1>1. SUFFICES ASSUME pc = "idle", pc' # "idle", call'.op = "rmdir" PROVE Live(reg'.first) = {}
  BY DEF EmptyRemoved
<1>2. ~Step
  BY <1>1 DEF Step, AllocateFirst, Follow, AllocateNext, Link, Terminate, OutOfSpace, FreeCluster,
              WriteData, DataWritten, AppendNothing, MakeDirCluster, WriteDots, Create,
              WriteEntry, MarkDeleted
<1>3. ~DiskFails /\ ~Format
  BY <1>1 DEF DiskFails, Format
<1>4. ~CallTouch /\ ~CallMakeDir /\ ~CallWrite
  <2>1. \A op, p, n, payload : Begin(op, p, n, payload) => op = "rmdir"
    BY <1>1 DEF Begin
  <2> QED
    BY <2>1 DEF CallTouch, CallMakeDir, CallWrite
<1>5. CallRemove
  BY <1>2, <1>3, <1>4 DEF Next, Call
<1>6. PICK p \in Parents, n \in Names, op \in {"rm", "rmdir"} :
          LET e == Found(p.cluster, n)
          IN  /\ Find(p.cluster, n).status = "found"
              /\ (e.kind = "dir") = (op = "rmdir")
              /\ op = "rmdir" => LooksEmpty(e.cluster)
              /\ Begin(op, p, n, <<>>)
              /\ pc' = Removal(e.cluster)
              /\ reg' = [reg EXCEPT !.slot = Find(p.cluster, n).slot, !.first = e.cluster,
                                    !.cluster = e.cluster]
  BY <1>5 DEF CallRemove
<1> DEFINE e == Found(p.cluster, n)
           x == <<p.cluster, Find(p.cluster, n).slot>>
<1>7. Calm /\ Ready
  BY <1>5 DEF Inv, Calm, CallRemove, Ready
<1>8. op = "rmdir"
  BY <1>1, <1>6 DEF Begin
<1>9. e.kind = "dir" /\ LooksEmpty(e.cluster) /\ Find(p.cluster, n).status = "found"
  BY <1>6, <1>8
<1>10. reg'.first = e.cluster
  BY <1>6, <1>7 DEF Calm, Typed, RegType
<1>11. x \in Valid(slots, Gone) /\ EntryAt(slots, x) = e
  <2>1. slots \in SlotsType /\ SlotsSound(slots) /\ p.cluster \in Cluster
    BY <1>1, <1>7, SoundVolume, ParentLeads
  <2>2. x \in Cluster \X Slot /\ EntryAt(slots, x) = e /\ Holds(e)
    BY <1>9, <2>1, FoundFacts, FindFacts
  <2>3. \A y : y \notin Gone
    BY <1>1, <1>7, GoneIs
  <2> QED
    BY <2>2, <2>3 DEF Valid
<1> HIDE DEF e, x
<1>12. Dots(slots, e.cluster, x[1])
  BY <1>7, <1>9, <1>11, SoundVolume DEF VolumeSound, DirsSound
<1> QED
  BY <1>9, <1>10, <1>12, LooksEmptyIs

(* Where a cluster is one sector, fat32_remove_dir removes only            *)
(* directories that hold nothing: no slot behind an end mark of a sector   *)
(* escapes its scan.                                                       *)
THEOREM SmallClusters == SectorsPerCluster = 1 => (Spec => RmdirOnlyEmpty)
<1>1. SectorsPerCluster = 1 /\ Inv /\ [Next]_vars => [EmptyRemoved]_vars
  BY EmptyIsRemoved
<1>2. RmdirOnlyEmpty <=> [][EmptyRemoved]_vars
  BY DEF RmdirOnlyEmpty, EmptyRemoved
<1>3. SUFFICES ASSUME SectorsPerCluster = 1 PROVE Spec => RmdirOnlyEmpty
  OBVIOUS
<1>4. Inv /\ [Next]_vars => [EmptyRemoved]_vars
  BY <1>1, <1>3
<1> QED
  BY <1>2, <1>4, Invariant, PTL DEF Spec

(* So on such a volume every call of fat32.c keeps what the others wrote,  *)
(* with no condition on what is removed.                                   *)
THEOREM FilesAreKeptInSmallClusters == SectorsPerCluster = 1 => (Spec => []FilesKept)
BY FilesAreKept, SmallClusters

-----------------------------------------------------------------------------
(* No cluster is lost.                                                     *)

(* S holds the beginning of every chain, and what follows.                 *)
HoldsChains(f, S) ==
    /\ \A h : Starts(f, h) => h \in S
    /\ \A c \in S : f[c] \in Cluster => f[c] \in S

(* Every cluster in use is on a chain that begins somewhere.               *)
AllOnChains(f) ==
    \A S \in SUBSET Cluster :
        HoldsChains(f, S) => \A c \in Cluster : f[c] # Unused => c \in S

(* A path leads to the entry that names the chain.                         *)
Owned(s, out, h) ==
    \E path \in Paths : \E e \in (Cluster \X Slot) \ out :
        Reachable(s, path, e) /\ EntryAt(s, e).cluster = h

(* The operation has the chain in its registers.                           *)
InHand(h) ==
    \/ pc \in {"create", "dots", "extend", "link", "trim", "data", "entry"} /\ h = reg.first
    \/ pc = "link" /\ h = reg.next
    \/ pc \in {"free", "trim"} /\ h = reg.cluster

ChainsKnown ==
    \A h \in Cluster : Starts(fat, h) => h = Root \/ Owned(slots, Gone, h) \/ InHand(h)

(* An empty file has no cluster, and the entry at hand none but the chain  *)
(* that the operation holds.                                               *)
EmptyFiles(s, out) ==
    \A e \in Valid(s, out) :
        EntryAt(s, e).kind = "file" /\ EntryAt(s, e).size = 0 => EntryAt(s, e).cluster \notin Cluster

TargetHeld ==
    /\ pc \in {"first", "extend", "link", "trim", "data", "entry"} /\ ~freed
          /\ At(Target).cluster \in Cluster => reg.first = At(Target).cluster
    /\ pc = "mark" /\ ~freed => At(Target).cluster \notin Cluster

Lossless ==
    /\ fat[Root] = EndOfChain
    /\ AllOnChains(fat) /\ ChainsKnown
    /\ EmptyFiles(slots, Gone) /\ TargetHeld

NoneLost == health = "sound" => Lossless

(* One write of the table: what is on a chain, and where chains begin.     *)

LEMMA ChainsAllocate ==
    ASSUME NEW f \in FatType, TableSound(f), AllOnChains(f), NEW c \in Cluster, f[c] = Unused,
           NEW g, g[c] = EndOfChain, \A d \in Cluster : d # c => g[d] = f[d]
    PROVE  /\ AllOnChains(g)
           /\ \A h \in Cluster : Starts(g, h) => h = c \/ Starts(f, h)
<1>1. EndOfChain \notin Cluster /\ Unused \notin Cluster
  BY ClusterFacts
<1>2. \A h : Starts(f, h) => Starts(g, h)
  BY AllocateTable
<1>3. Starts(g, c)
  BY AllocateTable
<1>4. AllOnChains(g)
  <2>1. SUFFICES ASSUME NEW S \in SUBSET Cluster, HoldsChains(g, S),
                        NEW x \in Cluster, g[x] # Unused
                 PROVE  x \in S
    BY DEF AllOnChains
  <2>2. HoldsChains(f, S)
    <3>1. \A h : Starts(f, h) => h \in S
      BY <1>2, <2>1 DEF HoldsChains
    <3>2. \A d \in S : f[d] \in Cluster => f[d] \in S
      BY <1>1, <2>1 DEF HoldsChains
    <3> QED
      BY <3>1, <3>2 DEF HoldsChains
  <2>3. x = c \/ x \in S
    BY <2>1, <2>2 DEF AllOnChains
  <2> QED
    BY <1>3, <2>1, <2>3 DEF HoldsChains
<1>5. ASSUME NEW h \in Cluster, Starts(g, h), h # c PROVE Starts(f, h)
  BY <1>1, <1>5 DEF Starts, FatType
<1> QED
  BY <1>4, <1>5

LEMMA ChainsLink ==
    ASSUME NEW f \in FatType, AllOnChains(f), NEW x \in Cluster, NEW y \in Cluster, x # y,
           f[x] = EndOfChain, f[y] = EndOfChain,
           NEW g, g[x] = y, \A d \in Cluster : d # x => g[d] = f[d]
    PROVE  /\ AllOnChains(g)
           /\ \A h \in Cluster : Starts(g, h) => Starts(f, h)
<1>1. EndOfChain \notin Cluster /\ Unused \notin Cluster /\ Unused # EndOfChain
  BY ClusterFacts
<1>2. \A h : Starts(f, h) => h = y \/ Starts(g, h)
  BY <1>1 DEF Starts
<1>3. AllOnChains(g)
  <2>1. SUFFICES ASSUME NEW S \in SUBSET Cluster, HoldsChains(g, S),
                        NEW z \in Cluster, g[z] # Unused
                 PROVE  z \in S
    BY DEF AllOnChains
  <2> DEFINE T == S \cup {y}
  <2>2. \A e : e \in T <=> e \in S \/ e = y
    OBVIOUS
  <2>3. T \in SUBSET Cluster
    OBVIOUS
  <2> HIDE DEF T
  <2>4. HoldsChains(f, T)
    <3>1. \A h : Starts(f, h) => h \in T
      BY <1>2, <2>1, <2>2 DEF HoldsChains
    <3>2. \A d \in T : f[d] \in Cluster => f[d] \in T
      BY <1>1, <2>1, <2>2 DEF HoldsChains
    <3> QED
      BY <3>1, <3>2 DEF HoldsChains
  <2>5. \A e \in Cluster : f[e] # Unused => e \in T
    BY <2>3, <2>4 DEF AllOnChains
  <2>6. x \in S
    BY <1>1, <2>2, <2>5
  <2>7. y \in S
    BY <2>1, <2>6 DEF HoldsChains
  <2>8. f[z] # Unused
    BY <1>1, <2>1
  <2> QED
    BY <2>2, <2>5, <2>7, <2>8
<1>4. ASSUME NEW h \in Cluster, Starts(g, h) PROVE Starts(f, h)
  BY <1>1, <1>4 DEF Starts
<1> QED
  BY <1>3, <1>4

LEMMA ChainsCut ==
    ASSUME NEW f \in FatType, TableSound(f), AllOnChains(f), NEW x \in Cluster, f[x] # Unused,
           NEW g, g[x] = EndOfChain, \A d \in Cluster : d # x => g[d] = f[d]
    PROVE  /\ AllOnChains(g)
           /\ \A h \in Cluster : Starts(g, h) => h = f[x] \/ Starts(f, h)
<1>1. EndOfChain \notin Cluster /\ Unused \notin Cluster /\ Unused # EndOfChain
  BY ClusterFacts
<1>2. \A h : Starts(f, h) => Starts(g, h)
  BY <1>1 DEF Starts
<1>3. f[x] \in Cluster => Starts(g, f[x])
  BY <1>1 DEF Starts, TableSound
<1>4. AllOnChains(g)
  <2>1. SUFFICES ASSUME NEW S \in SUBSET Cluster, HoldsChains(g, S),
                        NEW z \in Cluster, g[z] # Unused
                 PROVE  z \in S
    BY DEF AllOnChains
  <2>2. HoldsChains(f, S)
    <3>1. \A h : Starts(f, h) => h \in S
      BY <1>2, <2>1 DEF HoldsChains
    <3>2. \A d \in S : f[d] \in Cluster => f[d] \in S
      BY <1>3, <2>1 DEF HoldsChains
    <3> QED
      BY <3>1, <3>2 DEF HoldsChains
  <2>3. f[z] # Unused
    BY <2>1
  <2> QED
    BY <2>1, <2>2, <2>3 DEF AllOnChains
<1>5. ASSUME NEW h \in Cluster, Starts(g, h), h # f[x] PROVE Starts(f, h)
  BY <1>1, <1>5 DEF Starts
<1> QED
  BY <1>4, <1>5

LEMMA ChainsRelease ==
    ASSUME NEW f \in FatType, TableSound(f), AllOnChains(f), NEW x, Starts(f, x),
           NEW g, g[x] = Unused, \A d \in Cluster : d # x => g[d] = f[d]
    PROVE  /\ AllOnChains(g)
           /\ \A h \in Cluster : Starts(g, h) => h # x /\ (h = f[x] \/ Starts(f, h))
<1>1. EndOfChain \notin Cluster /\ Unused \notin Cluster /\ x \in Cluster
  BY ClusterFacts DEF Starts
<1>2. \A h : Starts(f, h) => h = x \/ Starts(g, h)
  BY <1>1 DEF Starts
<1>3. f[x] \in Cluster => f[x] # x /\ Starts(g, f[x])
  BY <1>1 DEF Starts, TableSound
<1>4. AllOnChains(g)
  <2>1. SUFFICES ASSUME NEW S \in SUBSET Cluster, HoldsChains(g, S),
                        NEW z \in Cluster, g[z] # Unused
                 PROVE  z \in S
    BY DEF AllOnChains
  <2> DEFINE T == S \cup {x}
  <2>2. \A e : e \in T <=> e \in S \/ e = x
    OBVIOUS
  <2>3. T \in SUBSET Cluster
    BY <1>1
  <2> HIDE DEF T
  <2>4. HoldsChains(f, T)
    <3>1. \A h : Starts(f, h) => h \in T
      BY <1>2, <2>1, <2>2 DEF HoldsChains
    <3>2. \A d \in T : f[d] \in Cluster => f[d] \in T
      BY <1>3, <2>1, <2>2 DEF HoldsChains
    <3> QED
      BY <3>1, <3>2 DEF HoldsChains
  <2>5. \A e \in Cluster : f[e] # Unused => e \in T
    BY <2>3, <2>4 DEF AllOnChains
  <2>6. z # x /\ f[z] # Unused
    BY <2>1
  <2> QED
    BY <2>2, <2>5, <2>6
<1>5. ASSUME NEW h \in Cluster, Starts(g, h) PROVE h # x /\ (h = f[x] \/ Starts(f, h))
  BY <1>1, <1>5 DEF Starts
<1> QED
  BY <1>4, <1>5

(* The steps that leave the directories as they are.                       *)

LEMMA RootApart ==
    ASSUME Calm, fat[Root] = EndOfChain, NEW x, x # Root, \A d \in Cluster : d # x => fat'[d] = fat[d]
    PROVE  fat'[Root] = EndOfChain
BY ClusterFacts

LEMMA LeakQuiet ==
    ASSUME Lossless, slots' = slots, Gone' = Gone, At(Target)' = At(Target), freed' = freed,
           fat'[Root] = EndOfChain, AllOnChains(fat'),
           \A h \in Cluster : Starts(fat', h) => Starts(fat, h) \/ InHand(h)',
           \A h : InHand(h) => InHand(h)' \/ ~Starts(fat', h),
           \/ pc' = "free"
           \/ /\ pc' \in {"first", "extend", "link", "trim", "data", "entry"}
              /\ pc \in {"first", "extend", "link", "trim", "data", "entry"}
              /\ reg'.first = reg.first
    PROVE  Lossless'
<1>1. EmptyFiles(slots', Gone')
  BY DEF Lossless
<1>2. ChainsKnown'
  <2>1. \A h : Owned(slots', Gone', h) <=> Owned(slots, Gone, h)
    OBVIOUS
  <2> QED
    BY <2>1 DEF Lossless, ChainsKnown
<1>3. TargetHeld'
  BY DEF Lossless, TargetHeld
<1> QED
  BY <1>1, <1>2, <1>3 DEF Lossless

LEMMA LeakFollow ==
    ASSUME Calm, Lossless, Follow
    PROVE  Lossless'
<1>1. /\ pc = "extend" /\ pc' = "extend" /\ fat' = fat /\ slots' = slots /\ call' = call
      /\ freed' = freed
  BY DEF Follow, diskVars
<1>2. reg'.slot = reg.slot /\ reg'.first = reg.first
  BY DEF Follow, Calm, Typed, RegType
<1>3. At(Target)' = At(Target) /\ Gone' = Gone
  BY <1>1, <1>2 DEF At, Target, Gone
<1>4. \A h : InHand(h) => InHand(h)'
  BY <1>1, <1>2 DEF InHand
<1>5. fat'[Root] = EndOfChain /\ AllOnChains(fat') /\ \A h : Starts(fat', h) => Starts(fat, h)
  BY <1>1 DEF Lossless
<1> QED
  BY <1>1, <1>2, <1>3, <1>4, <1>5, LeakQuiet

LEMMA LeakWritten ==
    ASSUME Calm, Lossless, WriteData \/ DataWritten
    PROVE  Lossless'
<1>1. /\ pc = "data" /\ pc' \in {"data", "entry"} /\ fat' = fat /\ slots' = slots /\ call' = call
      /\ freed' = freed
  BY DEF WriteData, DataWritten, diskVars
<1>2. reg'.slot = reg.slot /\ reg'.first = reg.first
  <2>1. CASE WriteData
    BY <2>1 DEF WriteData, Calm, Typed, RegType
  <2>2. CASE DataWritten
    BY <2>2 DEF DataWritten
  <2> QED
    BY <2>1, <2>2
<1>3. At(Target)' = At(Target) /\ Gone' = Gone
  BY <1>1, <1>2 DEF At, Target, Gone
<1>4. \A h : InHand(h) => InHand(h)'
  BY <1>1, <1>2 DEF InHand
<1>5. fat'[Root] = EndOfChain /\ AllOnChains(fat') /\ \A h : Starts(fat', h) => Starts(fat, h)
  BY <1>1 DEF Lossless
<1> QED
  BY <1>1, <1>2, <1>3, <1>4, <1>5, LeakQuiet

(* The chain that is built never goes through the root.                    *)
LEMMA ChainAvoidsRoot ==
    ASSUME Calm, pc \in {"extend", "link"}
    PROVE  reg.cluster # Root /\ reg.cluster \in Cluster /\ fat[reg.cluster] # Unused
<1> DEFINE n == Needed(Total) - reg.left
<1>1. n \in Nat /\ n > 0
  BY TotalFacts DEF Calm, Sound, ChainSound
<1>2. Reaches(fat, reg.first, reg.cluster, n) /\ HeadOK
  BY DEF Calm, Sound, ChainSound
<1>3. /\ TableSound(fat) /\ Starts(fat, reg.first) /\ reg.first # Root /\ Starts(fat, Root)
  BY <1>2, SoundVolume, HeadStarts DEF Calm, Sound, Working, TableSound
<1> HIDE DEF n
<1>4. reg.cluster \in Cluster /\ fat[reg.cluster] # Unused
  BY <1>1, <1>2, <1>3, ReachedUsed
<1>5. ASSUME reg.cluster = Root PROVE FALSE
  <2>1. PICK p : Along(fat, p, n) /\ p[0] = reg.first /\ p[n - 1] = Root
    BY <1>2, <1>5 DEF Reaches
  <2>2. PICK q : Along(fat, q, 1) /\ q[0] = Root
    <3>1. Reaches(fat, Root, Root, 1)
      BY ReachesFirst, ClusterFacts
    <3> QED
      BY <3>1 DEF Reaches
  <2>3. n - 1 \in 0 .. n - 1 /\ 0 \in 0 .. 1 - 1 /\ 1 \in Nat
    BY <1>1
  <2>4. Starts(fat, p[0]) /\ Starts(fat, q[0]) /\ p[n - 1] = q[0]
    BY <1>3, <2>1, <2>2
  <2>5. p[0] = q[0]
    BY <1>1, <1>3, <2>1, <2>2, <2>3, <2>4, ChainsMeet
  <2> QED
    BY <1>3, <2>1, <2>2, <2>5
<1> QED
  BY <1>4, <1>5

LEMMA LeakLink ==
    ASSUME Calm, Lossless, Link
    PROVE  Lossless'
<1>1. pc = "link" /\ pc' = "extend" /\ slots' = slots /\ call' = call /\ freed' = freed
  BY DEF Link
<1>2. reg'.slot = reg.slot /\ reg'.first = reg.first
  BY DEF Link, Calm, Typed, RegType
<1>3. At(Target)' = At(Target) /\ Gone' = Gone
  BY <1>1, <1>2 DEF At, Target, Gone
<1>4. reg.cluster # Root /\ reg.cluster \in Cluster
  BY <1>1, ChainAvoidsRoot
<1>5. /\ reg.next \in Cluster /\ reg.next # reg.cluster
      /\ fat[reg.next] = EndOfChain /\ fat[reg.cluster] = EndOfChain
  BY <1>1 DEF Calm, Typed, Sound, ChainSound
<1>6. fat \in FatType /\ fat' = [fat EXCEPT ![reg.cluster] = reg.next]
  BY SoundVolume DEF Link
<1>7. fat'[reg.cluster] = reg.next /\ \A d \in Cluster : d # reg.cluster => fat'[d] = fat[d]
  BY <1>4, <1>6 DEF FatType
<1>8. /\ AllOnChains(fat') /\ fat'[Root] = EndOfChain
      /\ \A h \in Cluster : Starts(fat', h) => Starts(fat, h)
  <2>1. AllOnChains(fat) /\ fat[Root] = EndOfChain /\ fat \in FatType
    BY <1>6 DEF Lossless
  <2>2. fat'[Root] = EndOfChain
    BY <1>4, <1>7, <2>1, RootApart
  <2> QED
    BY <1>4, <1>5, <1>7, <2>1, <2>2, ChainsLink
<1>9. ~Starts(fat', reg.next)
  BY <1>4, <1>7 DEF Starts
<1>10. \A h : InHand(h) => InHand(h)' \/ ~Starts(fat', h)
  BY <1>1, <1>2, <1>9 DEF InHand
<1> QED
  BY <1>1, <1>2, <1>3, <1>8, <1>10, LeakQuiet

LEMMA LeakTerminate ==
    ASSUME Calm, Lossless, Terminate, health' = "sound"
    PROVE  Lossless'
<1>1. PICK next \in ReadFat(reg.cluster) :
          /\ pc' = IF IsData(next) THEN "trim" ELSE "data"
          /\ reg' = [reg EXCEPT !.cluster = next]
          /\ IF next # fat[reg.cluster] THEN Worsens("leaky") ELSE health' = health
  BY DEF Terminate
<1>2. next = fat[reg.cluster]
  BY <1>1 DEF Worsens, Calm
<1>3. pc = "extend" /\ pc' \in {"trim", "data"} /\ slots' = slots /\ call' = call /\ freed' = freed
  BY <1>1 DEF Terminate
<1>4. reg'.slot = reg.slot /\ reg'.first = reg.first /\ reg'.cluster = fat[reg.cluster]
  BY <1>1, <1>2 DEF Calm, Typed, RegType
<1>5. At(Target)' = At(Target) /\ Gone' = Gone
  BY <1>3, <1>4 DEF At, Target, Gone
<1>6. reg.cluster # Root /\ reg.cluster \in Cluster /\ fat[reg.cluster] # Unused
  BY <1>3, ChainAvoidsRoot
<1>7. fat \in FatType /\ TableSound(fat) /\ fat' = [fat EXCEPT ![reg.cluster] = EndOfChain]
  BY SoundVolume DEF Terminate
<1>8. fat'[reg.cluster] = EndOfChain /\ \A d \in Cluster : d # reg.cluster => fat'[d] = fat[d]
  BY <1>6, <1>7 DEF FatType
<1>9. /\ AllOnChains(fat') /\ fat'[Root] = EndOfChain
      /\ \A h \in Cluster : Starts(fat', h) => h = fat[reg.cluster] \/ Starts(fat, h)
  <2>1. AllOnChains(fat) /\ fat[Root] = EndOfChain /\ fat \in FatType /\ TableSound(fat)
    BY <1>7 DEF Lossless
  <2>2. fat'[Root] = EndOfChain
    BY <1>6, <1>8, <2>1, RootApart
  <2> QED
    BY <1>6, <1>8, <2>1, <2>2, ChainsCut
<1>10. ASSUME NEW h \in Cluster, Starts(fat', h) PROVE Starts(fat, h) \/ InHand(h)'
  <2>1. next \in Cluster => pc' = "trim"
    BY <1>1 DEF IsData
  <2>2. h = next => InHand(h)'
    BY <1>2, <1>4, <1>10, <2>1 DEF InHand
  <2> QED
    BY <1>2, <1>9, <1>10, <2>2
<1>11. \A h : InHand(h) => InHand(h)'
  BY <1>3, <1>4 DEF InHand
<1> QED
  BY <1>3, <1>4, <1>5, <1>9, <1>10, <1>11, LeakQuiet

LEMMA LeakTrim ==
    ASSUME Calm, Lossless, FreeCluster, pc = "trim", health' = "sound"
    PROVE  Lossless'
<1>1. PICK next \in ReadFat(reg.cluster) :
          LET r == [reg EXCEPT !.guard = @ + 1, !.cluster = next]
          IN  \/ r.guard > FreeGuard /\ Fail(pc = "free")
              \/ /\ r.guard <= FreeGuard
                 /\ freed' = (freed \/ pc = "free")
                 /\ IF next # fat[reg.cluster] THEN Worsens("leaky") ELSE health' = health
                 /\ IF IsData(next) THEN pc' = pc /\ reg' = r ELSE Freed(r)
                 /\ UNCHANGED <<call, want, calls>>
  BY DEF FreeCluster
<1> DEFINE r == [reg EXCEPT !.guard = @ + 1, !.cluster = next]
<1>2. ~Fail(pc = "free") /\ ~Worsens("leaky")
  BY DEF Fail, Worsens, Calm
<1>3. /\ freed' = (freed \/ pc = "free") /\ call' = call
      /\ next = fat[reg.cluster]
      /\ IF IsData(next) THEN pc' = pc /\ reg' = r ELSE Freed(r)
  BY <1>1, <1>2
<1>4. reg' = r /\ pc' \in {"trim", "data"} /\ (IsData(next) => pc' = "trim")
  BY <1>3 DEF Freed
<1>5. /\ reg'.slot = reg.slot /\ reg'.first = reg.first /\ reg'.cluster = fat[reg.cluster]
  BY <1>3, <1>4 DEF Calm, Typed, RegType
<1>6. slots' = slots /\ freed' = freed
  <2>1. ~freed /\ freed \in BOOLEAN
    BY DEF Calm, Typed, Sound, FreeSound
  <2>2. freed = FALSE /\ (freed \/ pc = "free") = FALSE
    BY <2>1
  <2> QED
    BY <1>3, <2>2 DEF FreeCluster
<1>7. At(Target)' = At(Target) /\ Gone' = Gone
  BY <1>3, <1>5, <1>6 DEF At, Target, Gone
<1>8. Starts(fat, reg.cluster) /\ reg.cluster # Root /\ reg.cluster \in Cluster
  BY DEF Calm, Sound, FreeSound, Mine, Starts
<1>9. fat \in FatType /\ TableSound(fat) /\ fat' = [fat EXCEPT ![reg.cluster] = Unused]
  BY SoundVolume DEF FreeCluster
<1>10. fat'[reg.cluster] = Unused /\ \A d \in Cluster : d # reg.cluster => fat'[d] = fat[d]
  BY <1>8, <1>9 DEF FatType
<1>11. /\ AllOnChains(fat') /\ fat'[Root] = EndOfChain
       /\ \A h \in Cluster : Starts(fat', h) => h # reg.cluster /\ (h = fat[reg.cluster] \/ Starts(fat, h))
  <2>1. AllOnChains(fat) /\ fat[Root] = EndOfChain /\ fat \in FatType /\ TableSound(fat)
    BY <1>9 DEF Lossless
  <2>2. fat'[Root] = EndOfChain
    BY <1>8, <1>10, <2>1, RootApart
  <2> QED
    BY <1>8, <1>10, <2>1, <2>2, ChainsRelease
<1>12. ASSUME NEW h \in Cluster, Starts(fat', h) PROVE Starts(fat, h) \/ InHand(h)'
  <2>1. next \in Cluster => pc' = "trim"
    BY <1>4 DEF IsData
  <2>2. h = next => InHand(h)'
    BY <1>3, <1>5, <1>12, <2>1 DEF InHand
  <2> QED
    BY <1>3, <1>11, <1>12, <2>2
<1>13. \A h : InHand(h) => InHand(h)' \/ ~Starts(fat', h)
  <2>1. ~Starts(fat', reg.cluster)
    BY <1>10 DEF Starts
  <2> QED
    BY <1>4, <1>5, <2>1 DEF InHand
<1> QED
  BY <1>4, <1>5, <1>6, <1>7, <1>11, <1>12, <1>13, LeakQuiet

LEMMA FreeChain ==
    ASSUME Calm, FreeCluster, pc = "free", health' = "sound"
    PROVE  /\ reg'.cluster = fat[reg.cluster] \/ fat[reg.cluster] \notin Cluster
           /\ fat[reg.cluster] \in Cluster => pc' = "free"
<1>1. PICK next \in ReadFat(reg.cluster) :
          LET r == [reg EXCEPT !.guard = @ + 1, !.cluster = next]
          IN  \/ r.guard > FreeGuard /\ Fail(pc = "free")
              \/ /\ r.guard <= FreeGuard
                 /\ freed' = (freed \/ pc = "free")
                 /\ IF next # fat[reg.cluster] THEN Worsens("leaky") ELSE health' = health
                 /\ IF IsData(next) THEN pc' = pc /\ reg' = r ELSE Freed(r)
                 /\ UNCHANGED <<call, want, calls>>
  BY DEF FreeCluster
<1> DEFINE r == [reg EXCEPT !.guard = @ + 1, !.cluster = next]
<1>2. ~Fail(pc = "free") /\ ~Worsens("leaky")
  BY DEF Fail, Worsens, Calm
<1>3. /\ next = fat[reg.cluster]
      /\ IF IsData(next) THEN pc' = pc /\ reg' = r ELSE Freed(r)
  BY <1>1, <1>2
<1>4. r.cluster = next
  BY DEF Calm, Typed, RegType
<1> HIDE DEF r
<1> QED
  BY <1>3, <1>4 DEF IsData

LEMMA LeakFree ==
    ASSUME Calm, Lossless, FreeCluster, pc = "free", health' = "sound"
    PROVE  Lossless'
<1>1. /\ freed' = TRUE /\ call' = call /\ reg'.slot = reg.slot
      /\ pc' \in {"free", "mark", "entry", "first"}
  BY FreeIs
<1>2. Target' = Target /\ At(Target)' = At(Target) /\ slots' = slots
  BY <1>1 DEF At, Target, FreeCluster
<1>3. \A e : e \in Gone' <=> e = Target
  BY <1>1, <1>2 DEF Gone
<1>4. /\ VolumeSound(fat, slots, Gone') /\ Mine(fat, slots, Gone', reg.cluster)
  BY <1>3, FreeingIs DEF Calm
<1>5. /\ Starts(fat, reg.cluster) /\ reg.cluster # Root /\ reg.cluster \in Cluster
      /\ \A e \in Valid(slots, Gone') : EntryAt(slots, e).cluster # reg.cluster
  BY <1>4 DEF Mine, Starts
<1>6. fat \in FatType /\ TableSound(fat) /\ fat' = [fat EXCEPT ![reg.cluster] = Unused]
  BY SoundVolume DEF FreeCluster
<1>7. fat'[reg.cluster] = Unused /\ \A d \in Cluster : d # reg.cluster => fat'[d] = fat[d]
  BY <1>5, <1>6 DEF FatType
<1>8. /\ AllOnChains(fat') /\ fat'[Root] = EndOfChain
      /\ \A h \in Cluster : Starts(fat', h) => h # reg.cluster /\ (h = fat[reg.cluster] \/ Starts(fat, h))
  <2>1. AllOnChains(fat) /\ fat[Root] = EndOfChain /\ fat \in FatType /\ TableSound(fat)
    BY <1>6 DEF Lossless
  <2>2. fat'[Root] = EndOfChain
    BY <1>5, <1>7, <2>1, RootApart
  <2> QED
    BY <1>5, <1>7, <2>1, <2>2, ChainsRelease
<1>9. ASSUME NEW h \in Cluster, Owned(slots, Gone, h) PROVE h = reg.cluster \/ Owned(slots, Gone', h)
  <2>1. PICK path \in Paths : \E e \in (Cluster \X Slot) \ Gone :
           Reachable(slots, path, e) /\ EntryAt(slots, e).cluster = h
    BY <1>9 DEF Owned
  <2>2. PICK e \in (Cluster \X Slot) \ Gone : Reachable(slots, path, e) /\ EntryAt(slots, e).cluster = h
    BY <2>1
  <2>3. CASE e = Target
    <3>1. ~freed
      BY <2>2, <2>3, GoneIs
    <3>2. At(Target).cluster = reg.cluster
      BY <3>1 DEF Calm, Sound, FreeSound
    <3> QED
      BY <2>2, <2>3, <3>2 DEF At, EntryAt
  <2>4. CASE e # Target
    BY <1>3, <2>2, <2>4 DEF Owned
  <2> QED
    BY <2>3, <2>4
<1>10. ASSUME NEW h \in Cluster, Starts(fat', h) PROVE h = Root \/ Owned(slots', Gone', h) \/ InHand(h)'
  <2>1. CASE h = fat[reg.cluster]
    <3>1. pc' = "free" /\ reg'.cluster = h
      BY <1>10, <2>1, FreeChain
    <3> QED
      BY <3>1 DEF InHand
  <2>2. CASE Starts(fat, h) /\ h # reg.cluster
    <3>1. h = Root \/ Owned(slots, Gone, h) \/ InHand(h)
      BY <1>10, <2>2 DEF Lossless, ChainsKnown
    <3>2. ~InHand(h)
      BY <2>2 DEF InHand
    <3> QED
      BY <1>2, <1>9, <1>10, <2>2, <3>1, <3>2
  <2> QED
    BY <1>8, <1>10, <2>1, <2>2
<1>11. EmptyFiles(slots', Gone')
  <2>1. \A e : e \in Valid(slots, Gone') => e \in Valid(slots, Gone)
    <3>1. freed => \A e : e \in Gone <=> e = Target
      BY GoneIs
    <3>2. ~freed => \A e : e \notin Gone
      BY GoneIs
    <3> QED
      BY <1>3, <3>1, <3>2 DEF Valid
  <2> QED
    BY <1>2, <2>1 DEF Lossless, EmptyFiles
<1>12. TargetHeld'
  BY <1>1 DEF TargetHeld
<1>13. ChainsKnown'
  BY <1>10 DEF ChainsKnown
<1> QED
  BY <1>8, <1>11, <1>12, <1>13 DEF Lossless

(* A cluster is cleared that no path leads to.                             *)
LEMMA LeakCleared ==
    ASSUME NEW s, NEW t, NEW out, NEW c \in Cluster, c # Root, \A d \in Cluster : d # c => t[d] = s[d],
           Bare(t, c), \A path : ~Leads(s, path, c), EmptyFiles(s, out)
    PROVE  EmptyFiles(t, out) /\ \A h : Owned(s, out, h) => Owned(t, out, h)
<1>1. \A path : \A e \in Cluster \X Slot :
          /\ Reachable(t, path, e) <=> Reachable(s, path, e)
          /\ Reachable(s, path, e) => EntryAt(t, e) = EntryAt(s, e)
  BY ReachCleared
<1>2. \A h : Owned(s, out, h) => Owned(t, out, h)
  BY <1>1 DEF Owned
<1>3. EmptyFiles(t, out)
  <2>1. \A e \in Cluster \X Slot : e[1] # c => EntryAt(t, e) = EntryAt(s, e)
    BY DEF EntryAt
  <2>2. \A e \in Cluster \X Slot : e[1] = c => ~Holds(EntryAt(t, e))
    BY DEF Bare, EntryAt
  <2> QED
    BY <2>1, <2>2 DEF EmptyFiles, Valid
<1> QED
  BY <1>2, <1>3

LEMMA LeakAllocate ==
    ASSUME Calm, Lossless, pc # "idle", call.op # "rmdir",
           NEW c \in Cluster, Allocate(c), call' = call, freed' = freed, reg'.slot = reg.slot
    PROVE  /\ fat'[Root] = EndOfChain /\ AllOnChains(fat') /\ EmptyFiles(slots', Gone')
           /\ \A h \in Cluster : Starts(fat', h) => h = c \/ Starts(fat, h)
           /\ \A h : Owned(slots, Gone, h) => Owned(slots', Gone', h)
           /\ At(Target)' = At(Target)
<1>1. /\ fat \in FatType /\ slots \in SlotsType /\ VolumeSound(fat, slots, Gone)
      /\ NoDirs(slots, Gone) /\ TableSound(fat)
  BY SoundVolume, GoneIs
<1>2. /\ fat[c] = Unused /\ fat'[c] = EndOfChain /\ \A d \in Cluster : d # c => fat'[d] = fat[d]
      /\ Gone' = Gone /\ At(Target)' = At(Target)
  BY AllocateSound DEF Calm
<1>3. slots' = [slots EXCEPT ![c] = NoSlots]
  BY AllocateTyped DEF Calm
<1>4. slots'[c] = NoSlots /\ \A d \in Cluster : d # c => slots'[d] = slots[d]
  BY <1>1, <1>3 DEF SlotsType
<1>5. c # Root /\ \A path : ~Leads(slots, path, c)
  BY <1>1, <1>2, LedTo DEF TableSound, Starts
<1>6. Bare(slots', c)
  <2>1. \A i \in Slot : NoSlots[i] = End
    BY DEF NoSlots
  <2> QED
    BY <1>4, <2>1 DEF Bare, Holds, End, Entry
<1>7. AllOnChains(fat) /\ fat[Root] = EndOfChain /\ EmptyFiles(slots, Gone)
  BY DEF Lossless
<1>8. EmptyFiles(slots', Gone) /\ \A h : Owned(slots, Gone, h) => Owned(slots', Gone, h)
  BY <1>4, <1>5, <1>6, <1>7, LeakCleared
<1>9. AllOnChains(fat') /\ \A h \in Cluster : Starts(fat', h) => h = c \/ Starts(fat, h)
  BY <1>1, <1>2, <1>7, ChainsAllocate
<1>10. fat'[Root] = EndOfChain
  BY <1>2, <1>5, <1>7, RootApart
<1> QED
  BY <1>2, <1>8, <1>9, <1>10

LEMMA LeakAllocating ==
    ASSUME Calm, Lossless, Kept, AllocateFirst \/ AllocateNext \/ MakeDirCluster
    PROVE  Lossless'
<1>1. PICK c \in Cluster :
          /\ Allocate(c)
          /\ \/ pc = "first" /\ pc' = "extend" /\ reg' = [reg EXCEPT !.first = c, !.cluster = c]
             \/ pc = "extend" /\ pc' = "link" /\ reg' = [reg EXCEPT !.next = c]
             \/ pc = "mkdir" /\ pc' = "dots" /\ reg' = [reg EXCEPT !.first = c]
  BY DEF AllocateFirst, AllocateNext, MakeDirCluster
<1>2. call' = call /\ freed' = freed
  BY DEF AllocateFirst, AllocateNext, MakeDirCluster
<1>3. /\ reg'.slot = reg.slot
      /\ \/ pc = "first" /\ pc' = "extend" /\ reg'.first = c
         \/ pc = "extend" /\ pc' = "link" /\ reg'.next = c /\ reg'.first = reg.first
         \/ pc = "mkdir" /\ pc' = "dots" /\ reg'.first = c
  BY <1>1 DEF Calm, Typed, RegType
<1>4. pc # "idle" /\ call.op # "rmdir"
  BY <1>3 DEF Calm, Sound, ChainSound, CreateSound
<1>5. /\ fat'[Root] = EndOfChain /\ AllOnChains(fat') /\ EmptyFiles(slots', Gone')
      /\ \A h \in Cluster : Starts(fat', h) => h = c \/ Starts(fat, h)
      /\ \A h : Owned(slots, Gone, h) => Owned(slots', Gone', h)
      /\ At(Target)' = At(Target)
  BY <1>1, <1>2, <1>3, <1>4, LeakAllocate
<1>6. InHand(c)' /\ \A h : InHand(h) => InHand(h)'
  BY <1>3 DEF InHand
<1>7. ChainsKnown'
  BY <1>5, <1>6 DEF Lossless, ChainsKnown
<1>8. TargetHeld'
  <2>1. pc = "first" => reg.first \notin Cluster
    BY DEF Kept, CallKept
  <2> QED
    BY <1>2, <1>3, <1>5, <2>1 DEF Lossless, TargetHeld
<1> QED
  BY <1>5, <1>7, <1>8 DEF Lossless

(* The steps that write directories.                                       *)

LEMMA DotsAre ==
    ASSUME NEW one, NEW two, NEW dots,
           dots = [NoSlots EXCEPT ![1] = one, ![2] = two]
    PROVE  /\ dots[1] = one /\ dots[2] = two
           /\ \A i \in Slot : i # 1 /\ i # 2 => dots[i] = End
<1>1. 1 \in Slot /\ 2 \in Slot
  BY SlotFacts
<1>2. dots = [i \in Slot |-> IF i = 2 THEN two ELSE IF i = 1 THEN one ELSE End]
  BY <1>1 DEF NoSlots
<1> QED
  BY <1>1, <1>2

LEMMA LeakWriteDots ==
    ASSUME Calm, Kept, Lossless, WriteDots
    PROVE  Lossless'
<1> DEFINE c == reg.first
           dots == [NoSlots EXCEPT ![1] = Entry("dir", ".", reg.first, 0),
                                   ![2] = Entry("dir", "..", call.dir, 0)]
<1>1. /\ pc = "dots" /\ pc' = "create" /\ fat' = fat /\ call' = call /\ reg' = reg /\ freed' = freed
      /\ slots' = [slots EXCEPT ![c] = dots]
  BY DEF WriteDots
<1>2. Mine(fat, slots, Gone, c) /\ c \in Cluster /\ c # Root /\ ~freed
  BY <1>1 DEF Calm, Sound, CreateSound, Mine, Starts
<1>3. slots'[c] = dots /\ \A d \in Cluster : d # c => slots'[d] = slots[d]
  BY <1>1, <1>2, SoundVolume DEF SlotsType
<1>4. \A path : ~Leads(slots, path, c)
  BY <1>1, <1>2, SoundVolume, GoneIs, LedTo DEF Calm, Sound, CreateSound
<1>5. /\ dots[1] = Entry("dir", ".", c, 0) /\ dots[2] = Entry("dir", "..", call.dir, 0)
      /\ \A i \in Slot : i # 1 /\ i # 2 => dots[i] = End
  BY DotsAre
<1> HIDE DEF dots
<1>6. Bare(slots', c)
  BY <1>3, <1>5 DEF Bare, Holds, End, Entry
<1>7. Gone' = Gone
  BY <1>1 DEF Gone, Target
<1>8. EmptyFiles(slots', Gone) /\ \A h : Owned(slots, Gone, h) => Owned(slots', Gone, h)
  <2>1. EmptyFiles(slots, Gone)
    BY DEF Lossless
  <2> HIDE DEF c
  <2> QED
    BY <1>2, <1>3, <1>4, <1>6, <2>1, LeakCleared
<1>9. \A h : InHand(h) => InHand(h)'
  BY <1>1 DEF InHand
<1>10. ChainsKnown'
  BY <1>1, <1>7, <1>8, <1>9 DEF Lossless, ChainsKnown
<1>11. TargetHeld'
  BY <1>1 DEF TargetHeld
<1> QED
  BY <1>1, <1>7, <1>8, <1>10, <1>11 DEF Lossless

LEMMA LeakMarkDeleted ==
    ASSUME Calm, Kept, Lossless, MarkDeleted
    PROVE  Lossless'
<1>1. /\ pc = "mark" /\ pc \in Working /\ pc' = "idle" /\ freed' = FALSE /\ fat' = fat
      /\ slots' = [slots EXCEPT ![call.dir][reg.slot] = Deleted]
  BY DEF MarkDeleted, Working, Finish
<1>2. /\ EntryAt(slots', Target) = Deleted
      /\ \A e \in Cluster \X Slot : e # Target => EntryAt(slots', e) = EntryAt(slots, e)
  <2>1. slots \in SlotsType /\ call.dir \in Cluster /\ reg.slot \in Slot
    BY DEF Calm, Typed, CallType, RegType
  <2> QED
    BY <1>1, <2>1 DEF Target, EntryAt, SlotsType
<1>3. Deleted # End /\ ~Holds(Deleted)
  BY DEF Deleted, End, Entry, Holds
<1>4. \A path : \A e \in Cluster \X Slot :
          e # Target => (Reachable(slots', path, e) <=> Reachable(slots, path, e))
  BY <1>1, <1>2, <1>3, OwnSlot
<1>5. \A e : e \notin Gone'
  BY <1>1 DEF Gone
<1>6. ASSUME NEW h \in Cluster, Owned(slots, Gone, h) PROVE Owned(slots', Gone', h)
  <2>1. PICK path \in Paths : \E e \in (Cluster \X Slot) \ Gone :
           Reachable(slots, path, e) /\ EntryAt(slots, e).cluster = h
    BY <1>6 DEF Owned
  <2>2. PICK e \in (Cluster \X Slot) \ Gone : Reachable(slots, path, e) /\ EntryAt(slots, e).cluster = h
    BY <2>1
  <2>3. e # Target
    <3>1. ASSUME e = Target PROVE FALSE
      <4>1. ~freed
        BY <2>2, <3>1, GoneIs
      <4>2. At(Target).cluster \notin Cluster
        BY <1>1, <4>1 DEF Lossless, TargetHeld
      <4> QED
        BY <2>2, <3>1, <4>2 DEF At, EntryAt
    <3> QED
      BY <3>1
  <2> QED
    BY <1>2, <1>4, <1>5, <2>2, <2>3 DEF Owned
<1>7. \A h : ~InHand(h)
  BY <1>1 DEF InHand
<1>8. ChainsKnown'
  BY <1>1, <1>6, <1>7 DEF Lossless, ChainsKnown
<1>9. EmptyFiles(slots', Gone')
  <2>1. \A e : e \in Gone => e = Target
    BY GoneIs
  <2>2. \A e \in Valid(slots', Gone') : e \in Valid(slots, Gone) /\ EntryAt(slots', e) = EntryAt(slots, e)
    BY <1>2, <1>3, <2>1 DEF Valid
  <2> QED
    BY <2>2 DEF Lossless, EmptyFiles
<1>10. TargetHeld'
  BY <1>1 DEF TargetHeld
<1> QED
  BY <1>1, <1>8, <1>9, <1>10 DEF Lossless

LEMMA LeakWriteEntry ==
    ASSUME Calm, Kept, Lossless, WriteEntry
    PROVE  Lossless'
<1> DEFINE new == [At(Target) EXCEPT !.cluster = reg.first, !.size = Total]
<1>1. /\ new.kind = At(Target).kind /\ new.name = At(Target).name
      /\ new.cluster = reg.first /\ new.size = Total
      /\ Target \in Cluster \X Slot /\ slots' = [slots EXCEPT ![call.dir][reg.slot] = new]
  BY WriteEntryIs DEF Calm
<1>2. pc = "entry" /\ pc \in Working /\ pc' = "idle" /\ freed' = FALSE /\ fat' = fat
  BY DEF WriteEntry, Working, Finish
<1> HIDE DEF new
<1>3. /\ EntryAt(slots', Target) = new
      /\ \A e \in Cluster \X Slot : e # Target => EntryAt(slots', e) = EntryAt(slots, e)
  <2>1. slots \in SlotsType /\ call.dir \in Cluster /\ reg.slot \in Slot
    BY DEF Calm, Typed, CallType, RegType
  <2> QED
    BY <1>1, <2>1 DEF Target, EntryAt, SlotsType
<1>4. new.kind = "file" /\ Holds(new) /\ call.op # "rmdir" /\ new # End
  <2>1. At(Target).kind = "file" /\ Holds(At(Target)) /\ call.op # "rmdir"
    BY <1>2 DEF Calm, Sound, TargetSound, ChainSound
  <2> QED
    BY <1>1, <2>1 DEF Holds, End, Entry
<1>5. /\ \A path : \A e \in Cluster \X Slot :
            e # Target => (Reachable(slots', path, e) <=> Reachable(slots, path, e))
      /\ Leads(slots', call.path, call.dir)
  BY <1>1, <1>2, <1>3, <1>4, OwnSlot
<1>6. \A e : e \notin Gone'
  BY <1>2 DEF Gone
<1>7. Owned(slots', Gone', reg.first)
  <2>1. call.path \in Paths /\ Target[1] = call.dir
    BY <1>2 DEF Kept, CallKept, Target
  <2>2. Reachable(slots', call.path, Target)
    BY <1>3, <1>4, <1>5, <2>1 DEF Reachable
  <2> QED
    BY <1>1, <1>3, <1>6, <2>1, <2>2 DEF Owned
<1>8. ASSUME NEW h \in Cluster, Owned(slots, Gone, h) PROVE Owned(slots', Gone', h)
  <2>1. PICK path \in Paths : \E e \in (Cluster \X Slot) \ Gone :
           Reachable(slots, path, e) /\ EntryAt(slots, e).cluster = h
    BY <1>8 DEF Owned
  <2>2. PICK e \in (Cluster \X Slot) \ Gone : Reachable(slots, path, e) /\ EntryAt(slots, e).cluster = h
    BY <2>1
  <2>3. CASE e = Target
    <3>1. ~freed
      BY <2>2, <2>3, GoneIs
    <3>2. At(Target).cluster = h
      BY <2>2, <2>3 DEF At, EntryAt
    <3>3. reg.first = h
      BY <1>2, <1>8, <3>1, <3>2 DEF Lossless, TargetHeld
    <3> QED
      BY <1>7, <3>3
  <2>4. CASE e # Target
    BY <1>3, <1>5, <1>6, <2>2, <2>4 DEF Owned
  <2> QED
    BY <2>3, <2>4
<1>9. \A h : InHand(h) => h = reg.first
  BY <1>2 DEF InHand
<1>10. ChainsKnown'
  BY <1>2, <1>7, <1>8, <1>9 DEF Lossless, ChainsKnown
<1>11. EmptyFiles(slots', Gone')
  <2>1. \A e : e \in Gone => e = Target
    BY GoneIs
  <2>2. \A e \in Valid(slots', Gone') : e # Target
           => e \in Valid(slots, Gone) /\ EntryAt(slots', e) = EntryAt(slots, e)
    BY <1>3, <2>1 DEF Valid
  <2>3. Total = 0 => reg.first \notin Cluster
    BY <1>2, ClusterFacts DEF Calm, Sound, ChainSound
  <2>4. EntryAt(slots', Target).size = 0 => EntryAt(slots', Target).cluster \notin Cluster
    BY <1>1, <1>3, <2>3
  <2> QED
    BY <2>2, <2>4 DEF Lossless, EmptyFiles
<1>12. TargetHeld'
  BY <1>2 DEF TargetHeld
<1> QED
  BY <1>2, <1>10, <1>11, <1>12 DEF Lossless

LEMMA OpenedHeld ==
    ASSUME NEW r \in RegType, NEW op \in {"write", "append"}, NEW payload \in Payloads \cup {<<>>},
           Opened(r, op, payload),
           EntryAt(slots', <<call'.dir, r.slot>>).cluster = r.first,
           r.size = 0 => r.first \notin Cluster
    PROVE  TargetHeld'
<1>1. /\ reg'.slot = r.slot
      /\ \/ pc' = "free"
         \/ pc' = "entry" /\ r.first \notin Cluster
         \/ pc' \in {"extend", "first"} /\ reg'.first = r.first
  <2>1. CASE op = "write" /\ r.first \in Cluster
    BY <2>1, OpenedIs, ExtendingIs
  <2>2. CASE ~(op = "write" /\ r.first \in Cluster)
    <3>1. Extending(r, op, payload)
      BY <2>2, OpenedIs
    <3>2. Final(op, r.size, payload) = 0 => op = "write" \/ r.size = 0
      <4>1. Len(payload) \in Nat /\ r.size \in Nat
        BY PayloadFacts, Fat32Assumption DEF RegType
      <4> QED
        BY <4>1 DEF Final, Base
    <3>3. Final(op, r.size, payload) = 0 => r.first \notin Cluster
      BY <2>2, <3>2
    <3> QED
      BY <3>1, <3>3, ExtendingIs
  <2> QED
    BY <2>1, <2>2
<1>2. At(Target)'.cluster = r.first
  BY <1>1 DEF At, Target, EntryAt
<1> QED
  BY <1>1, <1>2 DEF TargetHeld

LEMMA LeakCreate ==
    ASSUME Calm, Kept, Lossless, Create, health' = "sound"
    PROVE  Lossless'
<1>1. /\ pc = "create" /\ call \in CallType /\ call.name \in Names /\ reg \in RegType
      /\ slots \in SlotsType /\ call.dir \in Cluster /\ call.payload \in Payloads \cup {<<>>}
  BY SoundVolume DEF Create, Calm, Typed, CallType
<1>2. ~freed /\ reg.size = 0 /\ call.op \in {"touch", "write", "append", "mkdir"}
  BY <1>1 DEF Calm, Sound, CreateSound
<1>3. Find(call.dir, call.name).status = "free"
  BY DEF Create, Fail, Worsens, Calm
<1> DEFINE slot == Find(call.dir, call.name).slot
           kind == IF call.op = "mkdir" THEN "dir" ELSE "file"
           new  == Entry(kind, call.name, reg.first, 0)
           x    == <<call.dir, slot>>
           r    == [reg EXCEPT !.slot = slot]
<1>4. /\ <<call.dir, slot>> \in Cluster \X Slot
      /\ slots[call.dir][slot] \in {End, Deleted}
      /\ slots' = [slots EXCEPT ![call.dir][slot] = new]
      /\ fat' = fat /\ r \in RegType
      /\ IF call.op \in {"write", "append"}
         THEN Opened(r, call.op, call.payload) /\ call' = call /\ freed' = freed
         ELSE Finish
  BY <1>3, CreateIs DEF Calm
<1>5. /\ new.kind = kind /\ new.name = call.name /\ new.cluster = reg.first /\ new.size = 0
      /\ r.slot = slot /\ r.first = reg.first /\ r.size = 0
  BY <1>1, <1>2 DEF Entry, RegType
<1> HIDE DEF slot, new, r
<1>6. /\ x \in Cluster \X Slot /\ x[1] = call.dir /\ x[2] = slot
      /\ EntryAt(slots, x) \in {End, Deleted} /\ EntryAt(slots', x) = new
      /\ \A e \in Cluster \X Slot : e # x => EntryAt(slots', e) = EntryAt(slots, e)
  BY <1>1, <1>4 DEF EntryAt, SlotsType
<1>7. ~Holds(EntryAt(slots, x)) /\ Holds(new)
  <2>1. call.name \notin {".", ".."}
    BY <1>1, Fat32Assumption
  <2> QED
    BY <1>5, <1>6, <2>1 DEF Holds, End, Deleted, Entry
<1>8. /\ call.path \in Paths /\ Leads(slots, call.path, call.dir)
      /\ call.op = "mkdir" => Bare(slots, reg.first)
  BY <1>1 DEF Kept, CallKept
<1>9. (\A e : e \notin Gone) /\ \A e : e \notin Gone'
  <2>1. ~freed'
    BY <1>2, <1>4 DEF Finish
  <2> QED
    BY <1>2, <2>1 DEF Gone
<1> HIDE DEF x
<1>10. /\ \A path : \A e \in Cluster \X Slot :
             e # x => (Reachable(slots', path, e) <=> Reachable(slots, path, e))
       /\ Leads(slots', call.path, x[1])
  <2>1. Holds(EntryAt(slots', x)) /\ EntryAt(slots', x).kind = "dir"
           => Bare(slots, EntryAt(slots', x).cluster)
    BY <1>5, <1>6, <1>8
  <2>2. Holds(EntryAt(slots, x)) /\ EntryAt(slots, x).kind = "dir"
           => Bare(slots, EntryAt(slots, x).cluster)
    BY <1>7
  <2>3. /\ \A path : \A e \in Cluster \X Slot :
              e # x => (Reachable(slots', path, e) <=> Reachable(slots, path, e))
        /\ \A path : Leads(slots, path, x[1]) => Leads(slots', path, x[1])
    BY <1>6, <2>1, <2>2, ReachSlot
  <2> QED
    BY <1>6, <1>8, <2>3
<1>11. Owned(slots', Gone', reg.first)
  <2>1. Reachable(slots', call.path, x)
    BY <1>6, <1>7, <1>10 DEF Reachable
  <2> QED
    BY <1>5, <1>6, <1>8, <1>9, <2>1 DEF Owned
<1>12. ASSUME NEW h, Owned(slots, Gone, h) PROVE Owned(slots', Gone', h)
  <2>1. PICK path \in Paths : \E e \in (Cluster \X Slot) \ Gone :
           Reachable(slots, path, e) /\ EntryAt(slots, e).cluster = h
    BY <1>12 DEF Owned
  <2>2. PICK e \in (Cluster \X Slot) \ Gone : Reachable(slots, path, e) /\ EntryAt(slots, e).cluster = h
    BY <2>1
  <2>3. e # x
    BY <1>7, <2>2 DEF Reachable
  <2> QED
    BY <1>6, <1>9, <1>10, <2>2, <2>3 DEF Owned
<1>13. \A h : InHand(h) => h = reg.first
  BY <1>1 DEF InHand
<1>14. ChainsKnown'
  BY <1>4, <1>11, <1>12, <1>13 DEF Lossless, ChainsKnown
<1>15. kind = "file" => reg.first \notin Cluster
  BY <1>1, ClusterFacts DEF Calm, Sound, CreateSound
<1>16. EmptyFiles(slots', Gone')
  <2>1. \A e \in Valid(slots', Gone') : e # x
           => e \in Valid(slots, Gone) /\ EntryAt(slots', e) = EntryAt(slots, e)
    BY <1>6, <1>9 DEF Valid
  <2>2. EntryAt(slots', x).kind = "file" => EntryAt(slots', x).cluster \notin Cluster
    BY <1>5, <1>6, <1>15
  <2> QED
    BY <2>1, <2>2 DEF Lossless, EmptyFiles
<1>17. TargetHeld'
  <2>1. CASE call.op \in {"write", "append"}
    <3>1. Opened(r, call.op, call.payload) /\ call' = call /\ kind = "file"
      BY <1>4, <2>1
    <3>2. EntryAt(slots', <<call'.dir, r.slot>>).cluster = r.first
      BY <1>5, <1>6, <3>1 DEF x
    <3>3. r.first \notin Cluster
      BY <1>5, <1>15, <3>1
    <3> QED
      BY <1>1, <1>4, <2>1, <3>1, <3>2, <3>3, OpenedHeld
  <2>2. CASE call.op \notin {"write", "append"}
    BY <1>4, <2>2 DEF Finish, TargetHeld
  <2> QED
    BY <2>1, <2>2
<1> QED
  BY <1>4, <1>14, <1>16, <1>17 DEF Lossless

(* A call that begins leaves the table and the directories as they are.    *)
LEMMA LeakBegin ==
    ASSUME Calm, Lossless, Ready, fat' = fat, slots' = slots, freed' = freed
    PROVE  /\ fat'[Root] = EndOfChain /\ AllOnChains(fat')
           /\ EmptyFiles(slots', Gone') /\ ChainsKnown'
<1>1. pc = "idle" /\ ~freed
  BY DEF Ready, Calm, Typed
<1>2. (\A e : e \notin Gone) /\ \A e : e \notin Gone'
  BY <1>1 DEF Gone
<1>3. \A e : e \in Valid(slots', Gone') => e \in Valid(slots, Gone)
  BY <1>2 DEF Valid
<1>4. EmptyFiles(slots', Gone')
  BY <1>3 DEF Lossless, EmptyFiles
<1>5. \A h : Owned(slots, Gone, h) => Owned(slots', Gone', h)
  BY <1>2 DEF Owned
<1>6. \A h : ~InHand(h)
  BY <1>1 DEF InHand
<1>7. ChainsKnown'
  BY <1>5, <1>6 DEF Lossless, ChainsKnown
<1> QED
  BY <1>4, <1>7 DEF Lossless

LEMMA LeakCallWrite ==
    ASSUME Calm, Kept, Lossless, CallWrite
    PROVE  TargetHeld'
<1>1. PICK p \in Parents, n \in Names, op \in {"write", "append"}, payload \in Payloads :
          LET e == Found(p.cluster, n)
          IN  /\ Begin(op, p, n, payload)
              /\ \/ /\ Find(p.cluster, n).status = "free"
                    /\ pc' = "create" /\ reg' = reg
                 \/ /\ Find(p.cluster, n).status = "found" /\ e.kind # "dir"
                    /\ Final(op, e.size, payload) <= MaxFileBytes
                    /\ Opened([reg EXCEPT !.slot = Find(p.cluster, n).slot,
                                          !.size = e.size, !.first = e.cluster], op, payload)
  BY DEF CallWrite
<1>2. Ready /\ Begin(op, p, n, payload)
  BY <1>1 DEF CallWrite
<1>3. CASE pc' = "create"
  BY <1>3 DEF TargetHeld
<1>4. CASE pc' # "create"
  <2> DEFINE slot == Find(p.cluster, n).slot
             e == Found(p.cluster, n)
             r == [reg EXCEPT !.slot = slot, !.size = e.size, !.first = e.cluster]
             x == <<call'.dir, slot>>
  <2>1. Find(p.cluster, n).status = "found" /\ e.kind # "dir" /\ Opened(r, op, payload)
    BY <1>1, <1>4
  <2>2. reg \in RegType /\ slots' = slots /\ \A y : y \notin Gone
    BY <1>2, KeptBegin
  <2>3. EntryAt(slots', x) = e /\ Holds(e) /\ e \in EntryType /\ x \in Cluster \X Slot
    BY <1>2, <2>1, KeptFound
  <2>4. slot \in Slot
    BY <2>3
  <2> HIDE DEF slot, e
  <2>5. r \in RegType /\ r.slot = slot /\ r.size = e.size /\ r.first = e.cluster
    BY <2>2, <2>3, <2>4 DEF RegType, EntryType
  <2> HIDE DEF r
  <2>6. EntryAt(slots', <<call'.dir, r.slot>>) = e
    BY <2>3, <2>5
  <2> HIDE DEF x
  <2>7. x \in Valid(slots, Gone) /\ EntryAt(slots, x) = e /\ e.kind = "file"
    BY <2>1, <2>2, <2>3 DEF Valid, Holds
  <2>8. e.size = 0 => e.cluster \notin Cluster
    BY <2>7 DEF Lossless, EmptyFiles
  <2> QED
    BY <2>1, <2>5, <2>6, <2>8, OpenedHeld
<1> QED
  BY <1>3, <1>4

LEMMA LeakCallRemove ==
    ASSUME Calm, Kept, Lossless, CallRemove
    PROVE  TargetHeld'
<1>1. PICK p \in Parents, n \in Names, op \in {"rm", "rmdir"} :
          LET e == Found(p.cluster, n)
          IN  /\ Find(p.cluster, n).status = "found"
              /\ (e.kind = "dir") = (op = "rmdir")
              /\ op = "rmdir" => LooksEmpty(e.cluster)
              /\ Begin(op, p, n, <<>>)
              /\ pc' = Removal(e.cluster)
              /\ reg' = [reg EXCEPT !.slot = Find(p.cluster, n).slot, !.first = e.cluster,
                                    !.cluster = e.cluster]
  BY DEF CallRemove
<1> DEFINE slot == Find(p.cluster, n).slot
           e == Found(p.cluster, n)
           x == <<call'.dir, slot>>
<1>2. /\ Ready /\ Begin(op, p, n, <<>>) /\ Find(p.cluster, n).status = "found"
      /\ pc' \in {"free", "mark"} /\ (pc' = "mark" => e.cluster \notin Cluster)
  BY <1>1 DEF CallRemove, Removal, IsData
<1>3. reg \in RegType
  BY <1>2, KeptBegin
<1>4. EntryAt(slots', x) = e
  BY <1>2, KeptFound
<1>5. reg'.slot = slot
  BY <1>1, <1>3 DEF RegType
<1>6. At(Target)' = e
  BY <1>4, <1>5 DEF At, Target, EntryAt
<1> HIDE DEF e
<1> QED
  BY <1>2, <1>6 DEF TargetHeld

LEMMA LeakCall ==
    ASSUME Calm, Kept, Lossless, Call
    PROVE  Lossless'
<1>1. Ready /\ fat' = fat /\ slots' = slots /\ freed' = freed
  BY DEF Call, CallTouch, CallWrite, CallMakeDir, CallRemove, Begin, diskVars
<1>2. TargetHeld'
  <2>1. CASE CallTouch \/ CallMakeDir
    BY <2>1 DEF CallTouch, CallMakeDir, TargetHeld
  <2> QED
    BY <2>1, LeakCallWrite, LeakCallRemove DEF Call
<1> QED
  BY <1>1, <1>2, LeakBegin DEF Lossless

(* A formatted volume, and every step.                                     *)

LEMMA FormattedLossless ==
    ASSUME NEW out
    PROVE  /\ FormattedFat[Root] = EndOfChain /\ AllOnChains(FormattedFat)
           /\ \A h \in Cluster : Starts(FormattedFat, h) => h = Root
           /\ EmptyFiles(FormattedSlots, out)
<1>1. \A c \in Cluster : FormattedFat[c] = IF c = Root THEN EndOfChain ELSE Unused
  BY DEF FormattedFat
<1>2. EndOfChain \notin Cluster /\ Unused \notin Cluster /\ Unused # EndOfChain /\ Root \in Cluster
  BY ClusterFacts
<1>3. Starts(FormattedFat, Root) /\ \A h \in Cluster : Starts(FormattedFat, h) => h = Root
  BY <1>1, <1>2 DEF Starts
<1>4. AllOnChains(FormattedFat)
  BY <1>1, <1>3 DEF AllOnChains, HoldsChains
<1>5. \A e \in Cluster \X Slot : ~Holds(EntryAt(FormattedSlots, e))
  <2>1. \A c \in Cluster : \A i \in Slot : ~Holds(FormattedSlots[c][i])
    BY SlotFacts DEF FormattedSlots, NoSlots, Holds, End, Entry
  <2> QED
    BY <2>1 DEF EntryAt
<1>6. EmptyFiles(FormattedSlots, out)
  BY <1>5 DEF EmptyFiles, Valid
<1> QED
  BY <1>1, <1>2, <1>3, <1>4, <1>6

LEMMA InitLossless ==
    ASSUME Init
    PROVE  Lossless
<1>1. fat = FormattedFat /\ slots = FormattedSlots /\ pc = "idle"
  BY DEF Init
<1> QED
  BY <1>1, FormattedLossless DEF Lossless, ChainsKnown, TargetHeld

LEMMA FormattedNone ==
    ASSUME pc' = "idle", fat' = FormattedFat, slots' = FormattedSlots
    PROVE  Lossless'
BY FormattedLossless DEF Lossless, ChainsKnown, TargetHeld

(* Only a format makes a volume sound again, and whatever fails harms it.  *)
LEMMA SoundBefore ==
    ASSUME Next \/ UNCHANGED vars, health' = "sound", ~Format
    PROVE  health = "sound" /\ ~DiskFails /\ ~OutOfSpace /\ ~AppendNothing
<1>1. ~DiskFails /\ ~OutOfSpace /\ ~AppendNothing
  BY DEF DiskFails, OutOfSpace, AppendNothing, Fail, Worsens
<1>2. Call => health = "sound"
  BY DEF Call, CallTouch, CallWrite, CallMakeDir, CallRemove, Begin
<1>3. Step => health = "sound"
  <2>1. AllocateFirst \/ Follow \/ AllocateNext \/ Link \/ Terminate => health = "sound"
    BY DEF AllocateFirst, Follow, AllocateNext, Link, Terminate, Worsens
  <2>2. WriteData \/ DataWritten => health = "sound"
    BY DEF WriteData, DataWritten
  <2>3. FreeCluster => Fail(pc = "free") \/ Worsens("leaky") \/ health' = health
    BY DEF FreeCluster
  <2>4. FreeCluster => health = "sound"
    BY <2>3 DEF Fail, Worsens
  <2>5. MakeDirCluster \/ WriteDots \/ Create \/ WriteEntry \/ MarkDeleted => health = "sound"
    BY DEF MakeDirCluster, WriteDots, Create, WriteEntry, MarkDeleted, Fail, Worsens
  <2> QED
    BY <1>1, <2>1, <2>2, <2>4, <2>5 DEF Step
<1>4. UNCHANGED vars => health = "sound"
  BY DEF vars
<1> QED
  BY <1>1, <1>2, <1>3, <1>4 DEF Next

LEMMA LeakStep ==
    ASSUME Calm, Kept, Lossless, Step, health' = "sound", ~OutOfSpace, ~AppendNothing
    PROVE  Lossless'
<1>1. AllocateFirst \/ AllocateNext \/ MakeDirCluster => Lossless'
  BY LeakAllocating
<1>2. Follow => Lossless'
  BY LeakFollow
<1>3. Link => Lossless'
  BY LeakLink
<1>4. Terminate => Lossless'
  BY LeakTerminate
<1>5. FreeCluster => Lossless'
  BY LeakFree, LeakTrim DEF FreeCluster
<1>6. WriteData \/ DataWritten => Lossless'
  BY LeakWritten
<1>7. WriteDots => Lossless'
  BY LeakWriteDots
<1>8. Create => Lossless'
  BY LeakCreate
<1>9. WriteEntry => Lossless'
  BY LeakWriteEntry
<1>10. MarkDeleted => Lossless'
  BY LeakMarkDeleted
<1> QED
  BY <1>1, <1>2, <1>3, <1>4, <1>5, <1>6, <1>7, <1>8, <1>9, <1>10 DEF Step

LEMMA LeakSame ==
    ASSUME Lossless, UNCHANGED vars
    PROVE  Lossless'
BY DEF Lossless, ChainsKnown, TargetHeld, InHand, Gone, Target, At, vars, diskVars

LEMMA LeakNext ==
    ASSUME Inv, Claim, NoneLost, Next \/ UNCHANGED vars
    PROVE  NoneLost'
<1> SUFFICES ASSUME health' = "sound" PROVE Lossless'
  BY DEF NoneLost
<1>1. CASE Format
  <2>1. pc' = "idle" /\ fat' = FormattedFat /\ slots' = FormattedSlots
    BY <1>1 DEF Format
  <2> QED
    BY <2>1, FormattedNone
<1>2. CASE ~Format
  <2>1. health = "sound" /\ ~DiskFails /\ ~OutOfSpace /\ ~AppendNothing
    BY <1>2, SoundBefore
  <2>2. Calm /\ Kept /\ Lossless
    BY <2>1 DEF Inv, Calm, Claim, NoneLost
  <2>3. CASE UNCHANGED vars
    BY <2>2, <2>3, LeakSame
  <2>4. CASE ~(UNCHANGED vars)
    <3>1. Call => Lossless'
      BY <2>2, LeakCall
    <3>2. Step => Lossless'
      BY <2>1, <2>2, LeakStep
    <3> QED
      BY <1>2, <2>1, <2>4, <3>1, <3>2 DEF Next
  <2> QED
    BY <2>3, <2>4
<1> QED
  BY <1>1, <1>2

(* What begins where a chain begins, and all that is behind.               *)
LEMMA ChainClosed ==
    ASSUME fat \in FatType, TableSound(fat), NEW h, Starts(fat, h), NEW c \in Chain(h),
           fat[c] \in Cluster
    PROVE  fat[c] \in Chain(h)
<1>1. PICK k \in 0 .. LastCluster : c \in Cluster /\ c = Nth(h, k)
  BY ChainFacts
<1>2. LastCluster \in Nat /\ k \in Nat /\ k + 1 \in Nat
  BY Fat32Assumption
<1>3. Nth(h, k + 1) = fat[c]
  <2>1. Nth(h, k + 1) = NextOf(fat, Nth(h, k))
    BY <1>2, NthIs
  <2> QED
    BY <1>1, <2>1 DEF NextOf, IsData
<1>4. k + 1 \in 0 .. LastCluster
  <2> DEFINE p == [j \in 0 .. k + 1 |-> Nth(h, j)]
  <2>1. Along(fat, p, (k + 1) + 1) /\ p[0] = h
    BY <1>2, <1>3, NthAlong
  <2> HIDE DEF p
  <2>2. \A j \in 0 .. ((k + 1) + 1) - 1 : p[j] \in Cluster
    BY <2>1 DEF Along
  <2>3. (k + 1) + 1 \in Nat /\ ((k + 1) + 1 > 0 => Starts(fat, p[0]))
    BY <1>2, <2>1
  <2>4. (k + 1) + 1 <= Cardinality(Cluster)
    BY <2>1, <2>2, <2>3, ClusterCount, ChainLength
  <2> QED
    BY <1>2, <2>4, ClusterCount
<1> QED
  BY <1>3, <1>4, ChainFacts

LEMMA StartOnChain ==
    ASSUME fat \in FatType, NEW h \in Cluster
    PROVE  h \in Chain(h)
<1>1. 0 \in 0 .. LastCluster
  BY Fat32Assumption
<1> QED
  BY <1>1, NthIs, ChainFacts

(* The root is one cluster.                                                *)
LEMMA RootChain ==
    ASSUME fat \in FatType, fat[Root] = EndOfChain, NEW c \in Chain(Root)
    PROVE  c = Root
<1>1. PICK k \in 0 .. LastCluster : c \in Cluster /\ c = Nth(Root, k)
  BY ChainFacts
<1>2. CASE k = 0
  BY <1>1, <1>2, NthIs
<1>3. CASE k # 0
  <2>1. k \in Nat /\ 1 \in 0 .. k /\ 0 \in Nat
    BY <1>3, Fat32Assumption
  <2>2. Nth(Root, 1) \in Cluster
    BY <1>1, <2>1, NthBefore
  <2>3. Nth(Root, 0) = Root /\ Nth(Root, 0 + 1) = NextOf(fat, Nth(Root, 0))
    BY <2>1, NthIs
  <2>4. Nth(Root, 1) = EndOfChain
    BY <2>3, ClusterFacts DEF NextOf, IsData
  <2> QED
    BY <2>2, <2>4, ClusterFacts
<1> QED
  BY <1>2, <1>3

(* What a path leads to is among the entries of the volume.                *)
LEMMA OwnedEntry ==
    ASSUME Calm, EndIsLast(slots), NEW h, Owned(slots, Gone, h)
    PROVE  \E e \in Entries : At(e).cluster = h
<1>1. slots \in SlotsType /\ Root \in Cluster
  BY SoundVolume, ClusterFacts
<1>2. PICK path \in Paths : \E e \in (Cluster \X Slot) \ Gone :
         Reachable(slots, path, e) /\ EntryAt(slots, e).cluster = h
  BY DEF Owned
<1>3. PICK e \in (Cluster \X Slot) \ Gone : Reachable(slots, path, e) /\ EntryAt(slots, e).cluster = h
  BY <1>2
<1>4. /\ e[1] \in Cluster /\ e[2] \in Slot /\ e = <<e[1], e[2]>>
      /\ Holds(slots[e[1]][e[2]]) /\ At(e).cluster = h
  BY <1>3 DEF Reachable, EntryAt, At
<1>5. e[2] \in Live(e[1])
  BY <1>1, <1>4, LiveIs
<1>6. e[1] \in Directories
  <2>1. Leads(slots, path, e[1])
    BY <1>3 DEF Reachable
  <2>2. CASE e[1] = Root
    BY <2>2 DEF Directories
  <2>3. CASE e[1] # Root
    <3>1. PICK i \in Slot : /\ Holds(slots[Root][i]) /\ slots[Root][i].kind = "dir"
                            /\ slots[Root][i].cluster = e[1]
      BY <2>1, <2>3 DEF Leads
    <3>2. i \in Live(Root)
      BY <1>1, <3>1, LiveIs
    <3> QED
      BY <3>1, <3>2 DEF Directories
  <2> QED
    BY <2>2, <2>3
<1>7. e \in Entries
  BY <1>4, <1>5, <1>6 DEF Entries
<1> QED
  BY <1>4, <1>7

LEMMA NoneLeaks ==
    ASSUME Inv, Claim, NoneLost
    PROVE  NothingLeaks
<1>1. SUFFICES ASSUME pc = "idle", health = "sound", NEW x \in Cluster \ {Root}, fat[x] # Unused
               PROVE  \E e \in Entries : x \in Chain(At(e).cluster)
  BY DEF NothingLeaks
<1>2. Calm /\ Kept /\ Lossless
  BY <1>1 DEF Inv, Calm, Claim, NoneLost
<1>3. fat \in FatType /\ TableSound(fat)
  BY <1>2, SoundVolume
<1> DEFINE S == {c \in Cluster : \E h \in Cluster : Starts(fat, h) /\ c \in Chain(h)}
<1>4. S \in SUBSET Cluster
  OBVIOUS
<1>5. \A c : c \in S <=> c \in Cluster /\ \E h \in Cluster : Starts(fat, h) /\ c \in Chain(h)
  OBVIOUS
<1> HIDE DEF S
<1>6. HoldsChains(fat, S)
  <2>1. ASSUME NEW h, Starts(fat, h) PROVE h \in S
    <3>1. h \in Cluster
      BY <2>1 DEF Starts
    <3> QED
      BY <1>3, <1>5, <2>1, <3>1, StartOnChain
  <2>2. ASSUME NEW c \in S, fat[c] \in Cluster PROVE fat[c] \in S
    <3>1. PICK h \in Cluster : Starts(fat, h) /\ c \in Chain(h)
      BY <1>5
    <3>2. fat[c] \in Chain(h)
      BY <1>3, <2>2, <3>1, ChainClosed
    <3> QED
      BY <1>5, <2>2, <3>1, <3>2
  <2> QED
    BY <2>1, <2>2 DEF HoldsChains
<1>7. x \in S
  <2>1. AllOnChains(fat)
    BY <1>2 DEF Lossless
  <2> QED
    BY <1>1, <1>4, <1>6, <2>1 DEF AllOnChains
<1>8. PICK h \in Cluster : Starts(fat, h) /\ x \in Chain(h)
  BY <1>5, <1>7
<1>9. h # Root
  <2>1. fat[Root] = EndOfChain
    BY <1>2 DEF Lossless
  <2> QED
    BY <1>1, <1>3, <1>8, <2>1, RootChain
<1>10. Owned(slots, Gone, h)
  <2>1. ~InHand(h)
    BY <1>1 DEF InHand
  <2> QED
    BY <1>2, <1>8, <1>9, <2>1 DEF Lossless, ChainsKnown
<1>11. PICK e \in Entries : At(e).cluster = h
  BY <1>2, <1>10, OwnedEntry DEF Kept, ListingKept
<1> QED
  BY <1>8, <1>11

(* As long as rmdir removes only directories that hold nothing, every      *)
(* cluster that is marked as used between two operations of fat32.c is on  *)
(* the chain of an entry that a path leads to, unless an operation was cut *)
(* short: a failed mkdir, an append of nothing or a lost table read may    *)
(* leave clusters behind, an operation that returns 0 never does.          *)
THEOREM NothingIsLost == Spec /\ RmdirOnlyEmpty => []NothingLeaks
<1>1. Init => Claim
  BY InitKept DEF Claim
<1>2. Init => NoneLost
  BY InitLossless DEF NoneLost
<1>3. Inv /\ Inv' /\ Claim /\ [Next]_vars /\ [EmptyRemoved]_vars => Claim'
  BY KeptNext
<1>4. Inv /\ Claim /\ NoneLost /\ [Next]_vars => NoneLost'
  BY LeakNext
<1>5. Inv /\ Claim /\ NoneLost => NothingLeaks
  BY NoneLeaks
<1>6. RmdirOnlyEmpty <=> [][EmptyRemoved]_vars
  BY DEF RmdirOnlyEmpty, EmptyRemoved
<1> QED
  BY <1>1, <1>2, <1>3, <1>4, <1>5, <1>6, Invariant, PTL DEF Spec

(* On a volume of one-sector clusters no condition is needed for that.     *)
THEOREM NothingIsLostInSmallClusters == SectorsPerCluster = 1 => (Spec => []NothingLeaks)
BY NothingIsLost, SmallClusters
=============================================================================
