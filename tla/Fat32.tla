-------------------------------- MODULE Fat32 --------------------------------
(***************************************************************************)
(* The operations of src/src/filesystem/fat32/fat32.c that change a        *)
(* mounted volume, one action per sector write.                            *)
(*                                                                         *)
(* The kernel thread runs one operation at a time and nothing is cached    *)
(* between them, so what interferes with an operation is failure: a disk   *)
(* that is full, a directory that is full, a chain longer than the guard   *)
(* of free_cluster_chain, a sector transfer that fails (a write may report *)
(* failure after the data reached the disk) and a power failure.  Each     *)
(* ends the operation where it is and leaves on disk what was written,     *)
(* but for a failed read of the allocation table, which the code takes for *)
(* the end of a chain.                                                     *)
(*                                                                         *)
(* A directory is one cluster: the code never extends one.  Its slots and  *)
(* the bytes of a file cluster are two functions of the cluster.  Paths    *)
(* have one or two components, and none is the volume label: a file of     *)
(* that name is taken for the label entry of the root, and never listed.   *)
(*                                                                         *)
(* Two variables are history.  want is what the completed steps of the     *)
(* operations promise a reader.  health is "leaky" once an operation was   *)
(* cut short or lost part of a chain it frees, and "tainted" once one was  *)
(* cut short after it had freed clusters that a directory entry still      *)
(* names, or an append took a failed read for the end of its file.  On a   *)
(* tainted volume a cluster may be handed out twice: nothing more is       *)
(* claimed of it and only a format follows.                                *)
(***************************************************************************)
EXTENDS Integers, SequencesExt

CONSTANTS
    LastCluster,       \* clusters are 2 .. LastCluster
    SectorsPerCluster, SlotsPerSector,
    ClusterBytes,
    FreeGuard,         \* 4096 in free_cluster_chain
    Names, VolumeLabel,
    Payloads,          \* what applications write
    MaxFileBytes,      \* bound: the size of a file
    MaxCalls,          \* bound: operations between two formats
    Faults             \* may a transfer or the power fail?

NoName == ""

ASSUME Fat32Assumption ==
    /\ LastCluster \in Nat /\ LastCluster >= 2
    /\ SectorsPerCluster \in Nat \ {0}
    /\ SlotsPerSector \in Nat /\ SlotsPerSector >= 3
    /\ ClusterBytes \in Nat \ {0} /\ FreeGuard \in Nat
    /\ Names # {} /\ {".", "..", NoName, "/", VolumeLabel} \cap Names = {}
    /\ MaxFileBytes \in Nat /\ MaxCalls \in Nat /\ Faults \in BOOLEAN
    /\ \A p \in Payloads : p \in Seq(STRING) /\ Len(p) <= MaxFileBytes

VARIABLES
    fat,                 \* the allocation table
    slots, data,         \* the clusters, as directories and as file bytes
    pc, call,            \* what the operation does next, and its arguments
    reg,                 \* its registers
    freed,               \* has it freed clusters that an entry names?
    want, health, calls

diskVars == <<fat, slots, data>>
vars == <<diskVars, pc, call, reg, freed, want, health, calls>>

Cluster == 2 .. LastCluster

Root == 2

Unused == 0

EndOfChain == LastCluster + 1

IsData(c) == c \in Cluster

Slot == 1 .. SectorsPerCluster * SlotsPerSector

Entry(kind, name, cluster, size) ==
    [kind |-> kind, name |-> name, cluster |-> cluster, size |-> size]

End == Entry("end", NoName, 0, 0)

Deleted == Entry("deleted", NoName, 0, 0)

Zeroed == [i \in 0 .. ClusterBytes - 1 |-> "0"]

NoSlots == [i \in Slot |-> End]

NoCall == [op |-> "none", path |-> NoName, dir |-> Root, name |-> NoName, payload |-> <<>>]

NoReg == [slot |-> 1, size |-> 0, first |-> 0, cluster |-> 0, next |-> 0, left |-> 0,
          written |-> 0, guard |-> 0]

(* fat32_format_volume leaves an empty root with the label entry in it.    *)
FormattedFat == [c \in Cluster |-> IF c = Root THEN EndOfChain ELSE Unused]

FormattedSlots ==
    [c \in Cluster |->
        IF c = Root THEN [NoSlots EXCEPT ![1] = Entry("label", VolumeLabel, 0, 0)]
        ELSE NoSlots]

NoData == [c \in Cluster |-> Zeroed]

Init ==
    /\ fat = FormattedFat /\ slots = FormattedSlots /\ data = NoData
    /\ want = {} /\ health = "sound" /\ calls = 0
    /\ pc = "idle" /\ call = NoCall /\ reg = NoReg /\ freed = FALSE

-----------------------------------------------------------------------------
(* Chains and directories.                                                 *)

(* The cluster k links behind first.                                       *)
Nth(first, k) ==
    LET at[n \in 0 .. k] == IF n = 0 THEN first
                            ELSE IF IsData(at[n - 1]) THEN fat[at[n - 1]] ELSE EndOfChain
    IN  at[k]

Chain(first) == {c \in {Nth(first, k) : k \in 0 .. LastCluster} : IsData(c)}

Least(S) == CHOOSE x \in S : \A y \in S : x <= y

(* The slots a reader of the directory comes to before the end mark.       *)
InUse(dir) == {i \in Slot : \A j \in 1 .. i : slots[dir][j] # End}

(* find_entry_in_directory fails at the end of a directory without an end  *)
(* mark, even if it met a deleted slot.                                    *)
Find(dir, name) ==
    LET hits == {i \in InUse(dir) : slots[dir][i] # Deleted /\ slots[dir][i].name = name}
        free == {i \in Slot : slots[dir][i] = End}
                \cup {i \in InUse(dir) : slots[dir][i] = Deleted}
    IN  IF hits # {} THEN [status |-> "found", slot |-> Least(hits)]
        ELSE IF InUse(dir) = Slot THEN [status |-> "failed", slot |-> 1]
        ELSE [status |-> "free", slot |-> Least(free)]

Found(dir, name) == slots[dir][Find(dir, name).slot]

(* Where a path may lead: the root, or a directory in it.                  *)
Parents ==
    {[path |-> "/", cluster |-> Root]} \cup
    {[path |-> n, cluster |-> Found(Root, n).cluster] :
        n \in {m \in Names : Find(Root, m).status = "found" /\ Found(Root, m).kind = "dir"}}

(* The scan of fat32_remove_dir: in every sector up to the first end mark, *)
(* and in every sector without the first two slots.                        *)
LooksEmpty(dir) ==
    \A s \in 0 .. SectorsPerCluster - 1, k \in 3 .. SlotsPerSector :
        LET at(j) == slots[dir][s * SlotsPerSector + j]
        IN  (\A j \in 1 .. k : at(j) # End) => at(k) = Deleted

-----------------------------------------------------------------------------
(* The ends of an operation.                                               *)

Finish ==
    /\ pc' = "idle" /\ call' = NoCall /\ reg' = NoReg /\ freed' = FALSE

Worsens(to) == health' = IF health = "tainted" THEN health ELSE to

Fail(hurt) ==
    /\ Finish
    /\ Worsens(IF hurt THEN "tainted" ELSE "leaky")
    /\ UNCHANGED <<want, calls>>

(* A transfer or the power fails.                                          *)
DiskFails ==
    /\ Faults /\ pc # "idle"
    /\ Fail(freed)
    /\ UNCHANGED diskVars

-----------------------------------------------------------------------------
(* The calls, up to their first write.  A call that is refused before it   *)
(* has written anything changes nothing and is left out.                   *)

Begin(op, parent, name, payload) ==
    /\ call' = [op |-> op, path |-> parent.path, dir |-> parent.cluster, name |-> name,
                payload |-> payload]
    /\ calls' = calls + 1
    /\ UNCHANGED <<diskVars, freed, want, health>>

Ready == pc = "idle" /\ health # "tainted" /\ calls < MaxCalls

\* Mutant: clusters are counted in full.
NeededFloor(size) == size \div ClusterBytes

Needed(size) == (size + ClusterBytes - 1) \div ClusterBytes

\* Mutant: an append starts at the beginning of the file.
BaseZero(op, size) == 0

(* What of the file stays, and what it will be.                            *)
Base(op, size) == IF op = "append" THEN size ELSE 0

Final(op, size, payload) == Base(op, size) + Len(payload)

(* fat32_write_file with the entry in hand: the registers at its next step *)
(* are r but for the clusters still to come.                               *)
Extending(r, op, payload) ==
    LET final == Final(op, r.size, payload)
    IN  IF final = 0
        THEN pc' = "entry" /\ reg' = [r EXCEPT !.first = 0]
        ELSE /\ pc' = IF IsData(r.first) THEN "extend" ELSE "first"
             /\ reg' = [r EXCEPT !.cluster = r.first, !.left = Needed(final) - 1]

Opened(r, op, payload) ==
    IF op = "write" /\ IsData(r.first)
    THEN pc' = "free" /\ reg' = [r EXCEPT !.cluster = r.first]
    ELSE Extending(r, op, payload)

CallTouch ==
    /\ Ready
    /\ \E p \in Parents, n \in Names :
          /\ Find(p.cluster, n).status = "free"
          /\ Begin("touch", p, n, <<>>)
    /\ pc' = "create" /\ reg' = reg

CallWrite ==
    /\ Ready
    /\ \E p \in Parents, n \in Names, op \in {"write", "append"}, payload \in Payloads :
          LET e == Found(p.cluster, n)
          IN  /\ Begin(op, p, n, payload)
              /\ \/ /\ Find(p.cluster, n).status = "free"
                    /\ pc' = "create" /\ reg' = reg
                 \/ /\ Find(p.cluster, n).status = "found" /\ e.kind # "dir"
                    /\ Final(op, e.size, payload) <= MaxFileBytes
                    /\ Opened([reg EXCEPT !.slot = Find(p.cluster, n).slot,
                                          !.size = e.size, !.first = e.cluster], op, payload)

CallMakeDir ==
    /\ Ready
    /\ \E p \in Parents, n \in Names :
          /\ Find(p.cluster, n).status # "found"
          /\ Begin("mkdir", p, n, <<>>)
    /\ pc' = "mkdir" /\ reg' = reg

\* Mutant: the clusters are not freed.
MarkOnly(first) == "mark"

Removal(first) == IF IsData(first) THEN "free" ELSE "mark"

(* fat32_remove_file and fat32_remove_dir                                  *)
CallRemove ==
    /\ Ready
    /\ \E p \in Parents, n \in Names, op \in {"rm", "rmdir"} :
          LET e == Found(p.cluster, n)
          IN  /\ Find(p.cluster, n).status = "found"
              /\ (e.kind = "dir") = (op = "rmdir")
              /\ op = "rmdir" => LooksEmpty(e.cluster)
              /\ Begin(op, p, n, <<>>)
              /\ pc' = Removal(e.cluster)
              /\ reg' = [reg EXCEPT !.slot = Find(p.cluster, n).slot, !.first = e.cluster,
                                    !.cluster = e.cluster]

-----------------------------------------------------------------------------
(* Allocation and chains.                                                  *)

(* read_fat_entry: a sector that cannot be read is the end of the chain.   *)
ReadFat(c) == {fat[c]} \cup (IF Faults THEN {EndOfChain} ELSE {})

FreeClusters == {c \in Cluster : fat[c] = Unused}

\* Mutant: the cluster is not marked.
MarkedLater(c) == fat

Marked(c) == [fat EXCEPT ![c] = EndOfChain]

(* The lowest free cluster, marked and then cleared.  (A failed read makes *)
(* the scan pass over a cluster; which free one it takes makes no          *)
(* difference to what follows.)                                            *)
Allocate(c) ==
    /\ FreeClusters # {} /\ c = Least(FreeClusters)
    /\ fat' = Marked(c)
    /\ slots' = [slots EXCEPT ![c] = NoSlots]
    /\ data' = [data EXCEPT ![c] = Zeroed]

AllocateFirst ==
    /\ pc = "first"
    /\ \E c \in Cluster :
          /\ Allocate(c)
          /\ reg' = [reg EXCEPT !.first = c, !.cluster = c]
    /\ pc' = "extend"
    /\ UNCHANGED <<call, freed, want, health, calls>>

Follow ==
    /\ pc = "extend" /\ reg.left > 0
    /\ \E next \in ReadFat(reg.cluster) :
          /\ IsData(next)
          /\ reg' = [reg EXCEPT !.cluster = next, !.left = @ - 1]
    /\ UNCHANGED <<diskVars, pc, call, freed, want, health, calls>>

(* After a failed read the rest of the chain is replaced by a new cluster. *)
AllocateNext ==
    /\ pc = "extend" /\ reg.left > 0
    /\ \E next \in ReadFat(reg.cluster), c \in Cluster :
          /\ ~IsData(next)
          /\ Allocate(c)
          /\ reg' = [reg EXCEPT !.next = c]
    /\ IF IsData(fat[reg.cluster]) THEN Worsens("tainted") ELSE health' = health
    /\ pc' = "link"
    /\ UNCHANGED <<call, freed, want, calls>>

Link ==
    /\ pc = "link"
    /\ fat' = [fat EXCEPT ![reg.cluster] = reg.next]
    /\ reg' = [reg EXCEPT !.cluster = reg.next, !.left = @ - 1]
    /\ pc' = "extend"
    /\ UNCHANGED <<slots, data, call, freed, want, health, calls>>

(* The chain is long enough: it ends here, and what is behind is freed,    *)
(* or lost if a read fails.                                                *)
Terminate ==
    /\ pc = "extend" /\ reg.left = 0
    /\ fat' = [fat EXCEPT ![reg.cluster] = EndOfChain]
    /\ \E next \in ReadFat(reg.cluster) :
          /\ pc' = IF IsData(next) THEN "trim" ELSE "data"
          /\ reg' = [reg EXCEPT !.cluster = next]
          /\ IF next # fat[reg.cluster] THEN Worsens("leaky") ELSE health' = health
    /\ UNCHANGED <<slots, data, call, freed, want, calls>>

OutOfSpace ==
    /\ \/ pc \in {"first", "mkdir"}
       \/ pc = "extend" /\ reg.left > 0 /\ ~IsData(fat[reg.cluster])
    /\ FreeClusters = {}
    /\ Fail(freed)
    /\ UNCHANGED diskVars

(* After the last cluster of free_cluster_chain.                           *)
Freed(r) ==
    CASE pc = "trim" -> pc' = "data" /\ reg' = r
      [] pc = "free" /\ call.op # "write" -> pc' = "mark" /\ reg' = r
      [] OTHER -> Extending([r EXCEPT !.first = 0], call.op, call.payload)

(* One turn of its loop.  A chain longer than the guard is given up after  *)
(* that much of it has been freed.                                         *)
FreeCluster ==
    /\ pc \in {"free", "trim"}
    /\ fat' = [fat EXCEPT ![reg.cluster] = Unused]
    /\ \E next \in ReadFat(reg.cluster) :
          LET r == [reg EXCEPT !.guard = @ + 1, !.cluster = next]
          IN  \/ r.guard > FreeGuard /\ Fail(pc = "free")
              \/ /\ r.guard <= FreeGuard
                 /\ freed' = (freed \/ pc = "free")
                 /\ IF next # fat[reg.cluster] THEN Worsens("leaky") ELSE health' = health
                 /\ IF IsData(next) THEN pc' = pc /\ reg' = r ELSE Freed(r)
                 /\ UNCHANGED <<call, want, calls>>
    /\ UNCHANGED <<slots, data>>

-----------------------------------------------------------------------------
(* File bytes.                                                             *)

\* Mutant: a chunk of nothing.
ChunkOfNothing(offset, rest) == 0

Chunk(offset, rest) == IF rest < ClusterBytes - offset THEN rest ELSE ClusterBytes - offset

WriteData ==
    /\ pc = "data" /\ reg.written < Len(call.payload)
    /\ LET at == Base(call.op, reg.size) + reg.written
           c == Nth(reg.first, at \div ClusterBytes)
           offset == at % ClusterBytes
           chunk == Chunk(offset, Len(call.payload) - reg.written)
       IN  /\ data' = [data EXCEPT ![c] = [i \in 0 .. ClusterBytes - 1 |->
                          IF i \in offset .. offset + chunk - 1
                          THEN call.payload[reg.written + 1 + i - offset] ELSE @[i]]]
           /\ reg' = [reg EXCEPT !.written = @ + chunk]
    /\ UNCHANGED <<fat, slots, pc, call, freed, want, health, calls>>

(* An append of nothing follows the chain to the end of the file, where    *)
(* there may be no cluster.                                                *)
EndFound == IsData(Nth(reg.first, Base(call.op, reg.size) \div ClusterBytes))

DataWritten ==
    /\ pc = "data" /\ reg.written = Len(call.payload)
    /\ call.payload = <<>> => EndFound
    /\ pc' = "entry"
    /\ UNCHANGED <<diskVars, call, reg, freed, want, health, calls>>

AppendNothing ==
    /\ pc = "data" /\ call.payload = <<>> /\ ~EndFound
    /\ Fail(freed)
    /\ UNCHANGED diskVars

-----------------------------------------------------------------------------
(* Directory entries.                                                      *)

Named(w) == w.path = call.path /\ w.name = call.name

Promise(kind, bytes) ==
    {w \in want : ~Named(w)}
        \cup {[path |-> call.path, name |-> call.name, kind |-> kind, bytes |-> bytes]}

MakeDirCluster ==
    /\ pc = "mkdir"
    /\ \E c \in Cluster : Allocate(c) /\ reg' = [reg EXCEPT !.first = c]
    /\ pc' = "dots"
    /\ UNCHANGED <<call, freed, want, health, calls>>

WriteDots ==
    /\ pc = "dots"
    /\ slots' = [slots EXCEPT ![reg.first] =
          [NoSlots EXCEPT ![1] = Entry("dir", ".", reg.first, 0),
                          ![2] = Entry("dir", "..", call.dir, 0)]]
    /\ pc' = "create"
    /\ UNCHANGED <<fat, data, call, reg, freed, want, health, calls>>

(* create_entry_in_directory, which fails in a full directory.             *)
Create ==
    /\ pc = "create"
    /\ LET f == Find(call.dir, call.name)
           kind == IF call.op = "mkdir" THEN "dir" ELSE "file"
       IN  IF f.status # "free"
           THEN Fail(freed) /\ UNCHANGED slots
           ELSE /\ slots' = [slots EXCEPT ![call.dir][f.slot] =
                                Entry(kind, call.name, reg.first, 0)]
                /\ want' = Promise(kind, <<>>)
                /\ UNCHANGED <<health, calls>>
                /\ IF call.op \in {"write", "append"}
                   THEN /\ Opened([reg EXCEPT !.slot = f.slot], call.op, call.payload)
                        /\ UNCHANGED <<call, freed>>
                   ELSE Finish
    /\ UNCHANGED <<fat, data>>

(* The last write of fat32_write_file                                      *)
WriteEntry ==
    /\ pc = "entry"
    /\ slots' = [slots EXCEPT ![call.dir][reg.slot].cluster = reg.first,
                              ![call.dir][reg.slot].size =
                                    Final(call.op, reg.size, call.payload)]
    /\ want' = LET old == CHOOSE w \in want : Named(w)
               IN  Promise("file", SubSeq(old.bytes, 1, Base(call.op, reg.size))
                                       \o call.payload)
    /\ Finish
    /\ UNCHANGED <<fat, data, health, calls>>

(* The last write of a removal                                             *)
MarkDeleted ==
    /\ pc = "mark"
    /\ slots' = [slots EXCEPT ![call.dir][reg.slot] = Deleted]
    /\ want' = {w \in want : ~Named(w)}
    /\ Finish
    /\ UNCHANGED <<fat, data, health, calls>>

-----------------------------------------------------------------------------
(* fat32_format_volume and a mount, done without a failure.  The code       *)
(* leaves the file clusters as they are; they are cleared when allocated.   *)
Format ==
    /\ pc = "idle"
    /\ fat' = FormattedFat /\ slots' = FormattedSlots /\ data' = NoData
    /\ want' = {} /\ health' = "sound" /\ calls' = 0
    /\ UNCHANGED <<pc, call, reg, freed>>

Call == CallTouch \/ CallWrite \/ CallMakeDir \/ CallRemove

Step ==
    \/ AllocateFirst \/ Follow \/ AllocateNext \/ Link \/ Terminate \/ OutOfSpace
    \/ FreeCluster \/ WriteData \/ DataWritten \/ AppendNothing
    \/ MakeDirCluster \/ WriteDots \/ Create \/ WriteEntry \/ MarkDeleted

Next == Call \/ Step \/ DiskFails \/ Format

(* The thread goes on with an operation it has begun.                      *)
Spec == Init /\ [][Next]_vars /\ WF_vars(pc # "idle" /\ Step)

-----------------------------------------------------------------------------
TypeOK ==
    /\ fat \in [Cluster -> {Unused, EndOfChain} \cup Cluster]
    /\ \A c \in Cluster, i \in Slot :
          /\ slots[c][i].kind \in {"end", "deleted", "file", "dir", "label"}
          /\ slots[c][i].cluster \in {0} \cup Cluster
          /\ slots[c][i].size \in 0 .. MaxFileBytes
    /\ pc \in {"idle", "create", "mkdir", "dots", "free", "first", "extend", "link", "trim",
               "data", "entry", "mark"}
    /\ call.op \in {"none", "touch", "write", "append", "mkdir", "rm", "rmdir"}
    /\ reg.first \in {0} \cup Cluster /\ reg.left \in Nat
    /\ freed \in BOOLEAN /\ health \in {"sound", "leaky", "tainted"}

Live(dir) == {i \in InUse(dir) : slots[dir][i].kind \in {"file", "dir"}
                                 /\ slots[dir][i].name \notin {".", ".."}}

Directories ==
    {Root} \cup {slots[Root][i].cluster : i \in {j \in Live(Root) : slots[Root][j].kind = "dir"}}

(* Every entry a path can lead to, by directory and slot.                  *)
Entries == UNION {{<<d, i>> : i \in Live(d)} : d \in Directories}

At(e) == slots[e[1]][e[2]]

Whole(first) ==
    /\ \A c \in Chain(first) : fat[c] # Unused
    /\ \E c \in Chain(first) : fat[c] = EndOfChain

FileEntryOk(e) ==
    /\ Needed(e.size) <= Cardinality(Chain(e.cluster))
    /\ IsData(e.cluster) => Whole(e.cluster)

DirEntryOk(e, parent) ==
    /\ IsData(e.cluster) /\ Whole(e.cluster)
    /\ slots[e.cluster][1] = Entry("dir", ".", e.cluster, 0)
    /\ slots[e.cluster][2] = Entry("dir", "..", parent, 0)

(* In every state but those between the first cluster freed and the last   *)
(* write of an overwrite or removal, so also after any operation was cut   *)
(* short outside of them: what an entry names is allocated, complete and   *)
(* its own, and a directory is initialised before an entry names it.       *)
VolumeConsistent ==
    health # "tainted" /\ ~freed =>
        /\ \A e \in Entries : IF At(e).kind = "dir" THEN DirEntryOk(At(e), e[1])
                                                    ELSE FileEntryOk(At(e))
        /\ \A e, f \in Entries :
              e # f => Chain(At(e).cluster) \cap Chain(At(f).cluster) = {}
        /\ \A e \in Entries : Root \notin Chain(At(e).cluster)

Bytes(e) == [i \in 1 .. e.size |->
                 LET c == Nth(e.cluster, (i - 1) \div ClusterBytes)
                 IN  IF IsData(c) THEN data[c][(i - 1) % ClusterBytes] ELSE "lost"]

Seen(path, dir) ==
    {[path |-> path, name |-> slots[dir][i].name, kind |-> slots[dir][i].kind,
      bytes |-> IF slots[dir][i].kind = "file" THEN Bytes(slots[dir][i]) ELSE <<>>] :
        i \in Live(dir)}

OnDisk ==
    Seen("/", Root) \cup
    UNION {Seen(slots[Root][i].name, slots[Root][i].cluster) :
              i \in {j \in Live(Root) : slots[Root][j].kind = "dir"}}

(* Whoever lists and reads the volume finds the directories and the bytes  *)
(* that the operations wrote: all of an operation that returned 0, all     *)
(* that was there before of an append, a touch or a mkdir that did not.    *)
FilesKept == pc = "idle" /\ health # "tainted" => OnDisk = want

(* Operations that succeed lose no cluster.                                *)
NothingLeaks ==
    pc = "idle" /\ health = "sound" =>
        \A c \in Cluster \ {Root} :
            fat[c] # Unused => \E e \in Entries : c \in Chain(At(e).cluster)

(* Every operation comes to an end.                                        *)
CallReturns == []<>(pc = "idle")

(* command.c:171 says "Non-empty directories cannot be removed."           *)
RmdirOnlyEmpty ==
    [][pc = "idle" /\ pc' # "idle" /\ call'.op = "rmdir" => Live(reg'.first) = {}]_vars
=============================================================================
