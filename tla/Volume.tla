------------------------------- MODULE Volume -------------------------------
(***************************************************************************)
(* Partitions and the mounted volume: the window of blockdev.c, the MBR    *)
(* slots of partition_manager.c, mounting, shrinking and formatting in     *)
(* fat32.c, and the commands and the application that combine them.        *)
(*                                                                         *)
(* Three copies of one fact have to agree: where a volume ends is in the   *)
(* MBR, in its boot sector and in memory (the cached slots, the window and *)
(* fs.total_sectors).  A sector write may fail, or report failure after    *)
(* the data reached the disk ("landed"), and the power may go between two  *)
(* writes.  A call that only reads, or writes one sector, is one step.     *)
(*                                                                         *)
(* Space is counted in units; a MiB has Align of them and the MBR is in    *)
(* unit 0.  A volume is a record at the unit of its boot sector: the sizes *)
(* in the boot sector and in its backup, and the last unit in which a file *)
(* has data.  These stay on the disk when the MBR entry is deleted.        *)
(*                                                                         *)
(* History: sound is FALSE for a volume on which a write was cut short,    *)
(* failed after landing, or could not be undone; owed is a shrink that     *)
(* ended with "retry"; fresh are partitions created and not yet formatted. *)
(***************************************************************************)
EXTENDS Integers, FiniteSets, FiniteSetsExt

CONSTANTS
    DriveUnits, Align,
    MaxPartitions,     \* PARTITION_MANAGER_MAX_PARTITIONS
    MinUnits,          \* what FAT32_MIN_CLUSTER_COUNT clusters take
    Disks,             \* the drives at boot, a set of functions of Drives
    MaxCalls           \* bound: calls that write

Drives == {0, 1}

Slots == 1 .. MaxPartitions

Units == 0 .. DriveUnits - 1

Size == 0 .. DriveUnits

(* The entries of an MBR, the volumes that start in a unit, and drives.     *)
Entry == [type : {"none", "fat32", "extended", "gpt", "other"}, start : Nat, count : Nat,
          active : BOOLEAN]

VolumeRecord == [primary : Size, backup : Size, high : Size, sound : BOOLEAN]

DriveState == [signed : BOOLEAN, table : [Slots -> Entry], vol : [Units -> VolumeRecord]]

(* No file of a volume lies behind its end.                                *)
FilesFit(v) == v.sound /\ v.primary # 0 => v.high < v.primary

Blank == [primary |-> 0, backup |-> 0, high |-> 0, sound |-> TRUE]

Formatted(count) == [primary |-> count, backup |-> count, high |-> 0, sound |-> TRUE]

Empty == [type |-> "none", start |-> 0, count |-> 0, active |-> FALSE]

Partition(type, start, count, active) ==
    [type |-> type, start |-> start, count |-> count, active |-> active]

ASSUME VolumeAssumption ==
    /\ Align \in Nat \ {0} /\ DriveUnits \in Nat /\ DriveUnits > Align
    /\ MaxPartitions \in Nat \ {0} /\ MinUnits \in Nat \ {0} /\ MaxCalls \in Nat
    /\ \A disks \in Disks :
           /\ disks \in [Drives -> DriveState]
           /\ \A d \in Drives, u \in Units : FilesFit(disks[d].vol[u])

VARIABLES
    disk,         \* per drive: signature, MBR entries, volumes
    mem,          \* drive, slot cache, selected slot, window, mounted volume
    pc, reg,      \* the next write of a shrink or a format, and its registers
    owed, fresh,
    calls

vars == <<disk, mem, pc, reg, owed, fresh, calls>>

-----------------------------------------------------------------------------
(* blockdev.c and the readers of partition_manager.c.                      *)

Whole == [start |-> 0, count |-> DriveUnits]

Region(p) == [start |-> p.start, count |-> p.count]

IsFat32(p) == p.type = "fat32"

\* Mutant: an entry may reach behind the end of the drive.
InDriveUnchecked(p) == p.type # "none" /\ p.count # 0 /\ p.start < DriveUnits

InDrive(p) ==
    /\ p.type # "none" /\ p.count # 0
    /\ p.start < DriveUnits /\ p.count <= DriveUnits - p.start

(* valid_fat32_boot_sector on the first sector of a region.                *)
ValidBoot(drive, region) ==
    LET total == drive.vol[region.start].primary
    IN  total # 0 /\ total <= region.count

NoParts == [i \in Slots |-> Empty]

(* partition_count: the last slot that is not empty.                       *)
PartitionCount(m) == Max({0} \cup {i \in Slots : m.parts[i] # Empty})

Superfloppy(m) == m.superfloppy

Selected(m) == m.selected # 0

(* The window that a call restores when it is done with the MBR.           *)
Home(m) == IF Selected(m) THEN Region(m.parts[m.selected]) ELSE Whole

(* The entries fall in the drive, behind the MBR, and apart.               *)
ValidTable(table) ==
    /\ \A i \in Slots :
           IF table[i].type = "none" THEN table[i].start = 0 /\ table[i].count = 0
           ELSE table[i].start # 0 /\ InDrive(table[i])
    /\ \A i, j \in Slots :
           i < j /\ table[i].count # 0 /\ table[j].count # 0
           => \/ table[i].start >= table[j].start + table[j].count
              \/ table[j].start >= table[i].start + table[i].count

NotMounted == [mounted |-> FALSE, total |-> 0]

Unmount(m) == [m EXCEPT !.fs = NotMounted]

(* fat32_mount: reads the first sector of the window.  d are the drives as *)
(* they are by then.                                                       *)
FatMount(d, m, readOk) ==
    [m EXCEPT !.fs =
        IF readOk /\ ValidBoot(d[m.drive], m.window)
        THEN [mounted |-> TRUE, total |-> d[m.drive].vol[m.window.start].primary]
        ELSE NotMounted]

(* The slots try_select_fat32_partition takes, unless they are in bad.     *)
Selectable(drive, bad) ==
    {i \in Slots \ bad : LET p == drive.table[i]
                         IN  IsFat32(p) /\ InDrive(p) /\ ValidBoot(drive, Region(p))}

Hybrid(drive) == \E i \in Slots : drive.table[i].type = "gpt"

(* partition_manager_init: bad are the slots whose boot sector cannot be   *)
(* read.  It succeeded when a slot is selected or the disk is one volume.  *)
PmInit(d, m, mbrOk, bad) ==
    LET drive == d[m.drive]
        none == [m EXCEPT !.parts = NoParts, !.selected = 0,
                          !.superfloppy = FALSE, !.window = Whole]
        cached == [none EXCEPT !.parts = drive.table]
        some == Selectable(drive, bad)
        active == {i \in some : drive.table[i].active}
    IN  IF ~mbrOk THEN none
        ELSE IF ValidBoot(drive, Whole)
        THEN [none EXCEPT !.superfloppy = TRUE]
        ELSE IF ~drive.signed THEN none
        ELSE IF some = {} \/ Hybrid(drive) THEN cached
        ELSE LET i == Min(IF active # {} THEN active ELSE some)
             IN  [cached EXCEPT !.selected = i, !.window = Region(drive.table[i])]

Ready(m) == Selected(m) \/ Superfloppy(m)

(* partition_manager_select: a slot that is refused for its boot sector    *)
(* leaves the window of the slot that was selected.                        *)
Eligible(m, i) ==
    /\ i <= PartitionCount(m) /\ ~Superfloppy(m)
    /\ InDrive(m.parts[i]) /\ IsFat32(m.parts[i])

CanSelect(d, m, i, readOk) ==
    Eligible(m, i) /\ readOk /\ ValidBoot(d[m.drive], Region(m.parts[i]))

Select(d, m, i, readOk) ==
    IF CanSelect(d, m, i, readOk)
    THEN [m EXCEPT !.selected = i, !.window = Region(m.parts[i])]
    ELSE IF Eligible(m, i) THEN [m EXCEPT !.window = Home(m)]
    ELSE m

-----------------------------------------------------------------------------
(* Mounting.  Reads fail as rd says: the MBR and the boot sectors in       *)
(* partition_manager_init, and each of the others on its own.              *)

NoFailures == [mbr |-> TRUE, bad |-> {}, select |-> TRUE, mount |-> TRUE, again |-> TRUE]

InitReads ==
    {NoFailures, [NoFailures EXCEPT !.mbr = FALSE]} \cup
    {[NoFailures EXCEPT !.bad = b, !.mount = ok] :
        b \in {{}} \cup {{i} : i \in Slots}, ok \in BOOLEAN}

Reads == {[rd EXCEPT !.select = ok, !.again = again] :
            rd \in InitReads, ok \in BOOLEAN, again \in BOOLEAN}

Remount(d, m, rd) ==
    LET found == PmInit(d, Unmount(m), rd.mbr, rd.bad)
    IN  IF Ready(found) THEN FatMount(d, found, rd.mount) ELSE found

\* Mutant: the slot before is selected again and not mounted.
MountResultUnmounted(m, i, rd) ==
    LET tried == Select(disk, Unmount(m), i, rd.select)
        mounted == FatMount(disk, tried, rd.mount)
    IN  IF CanSelect(disk, m, i, rd.select) /\ mounted.fs.mounted THEN mounted
        ELSE IF Selected(m) THEN Select(disk, Unmount(tried), m.selected, rd.again)
        ELSE Remount(disk, tried, rd)

(* The commands: mount the slot, or go back to the one before.             *)
MountResult(m, i, rd) ==
    LET tried == Select(disk, Unmount(m), i, rd.select)
        mounted == FatMount(disk, tried, rd.mount)
        back == Select(disk, Unmount(tried), m.selected, rd.again)
    IN  IF CanSelect(disk, m, i, rd.select) /\ mounted.fs.mounted THEN mounted
        ELSE IF Selected(m) THEN FatMount(disk, back, rd.again)
        ELSE Remount(disk, tried, rd)

OnDrive(m, d) == [m EXCEPT !.drive = d, !.window = Whole]

(* The command drive.                                                      *)
DriveResult(m, d, rd) ==
    LET there == Remount(disk, OnDrive(m, d), rd)
    IN  IF there.fs.mounted THEN there
        ELSE Remount(disk, OnDrive(there, m.drive),
                     [rd EXCEPT !.mbr = rd.again, !.mount = rd.again])

MemAtBoot == [drive |-> 0, parts |-> NoParts, selected |-> 0, superfloppy |-> FALSE,
              window |-> Whole, fs |-> NotMounted]

NoReg == [slot |-> 0, new |-> 0, by |-> 0]

PlaceOf(i) == <<mem.drive, i>>

NothingOwed == [at |-> <<>>, by |-> 0]

Init ==
    /\ disk \in Disks
    /\ mem = Remount(disk, MemAtBoot, NoFailures)
    /\ pc = "idle" /\ reg = NoReg
    /\ owed = NothingOwed /\ fresh = {} /\ calls = 0

Idle == pc = "idle"

MountSlot ==
    /\ Idle
    /\ mem' \in {MountResult(mem, i, rd) : i \in Slots, rd \in Reads}
    /\ UNCHANGED <<disk, pc, reg, owed, fresh, calls>>

SwitchDrive ==
    /\ Idle
    /\ mem' \in {DriveResult(mem, d, rd) : d \in Drives, rd \in Reads}
    /\ UNCHANGED <<disk, pc, reg, owed, fresh, calls>>

-----------------------------------------------------------------------------
(* The calls that write the MBR: create and delete.  Each reads it, checks *)
(* it and writes it back, and the command then mounts the volume again.    *)

Outcome == {"ok", "failed", "landed"}

Landed(outcome) == outcome # "failed"

Here == disk[mem.drive]

Writes == Idle /\ calls < MaxCalls /\ calls' = calls + 1

(* read_full_drive_mbr works with a selected slot only.                    *)
Editable == ~Superfloppy(mem) /\ Selected(mem)

SetTable(i, entry) == [disk EXCEPT ![mem.drive].table[i] = entry]

\* Mutant: a failed write leaves the window on the whole drive.
AfterMbrWhole(outcome, newDisk) ==
    /\ disk' = IF Landed(outcome) THEN newDisk ELSE disk
    /\ IF outcome = "ok" THEN mem' \in {Remount(disk', mem, rd) : rd \in InitReads}
       ELSE mem' = [mem EXCEPT !.window = Whole]

(* What follows the write of the MBR in the commands.                      *)
AfterMbr(outcome, newDisk) ==
    /\ disk' = IF Landed(outcome) THEN newDisk ELSE disk
    /\ IF outcome = "ok" THEN mem' \in {Remount(disk', mem, rd) : rd \in InitReads}
       ELSE mem' = [mem EXCEPT !.window = Home(mem)]

FirstEmptySlot == {i \in Slots : Here.table[i] = Empty}

\* Mutant: the new partition may take the first unit of the next.
FitsTouching(n) ==
    {u \in Units : /\ u % Align = 0 /\ u >= Align /\ u + n <= DriveUnits
                   /\ \A i \in Slots : LET p == Here.table[i]
                                       IN  \/ p.count = 0 \/ u >= p.start + p.count
                                           \/ p.start + 1 >= u + n}

(* Where an aligned partition of n units fits.                             *)
Fits(n) ==
    {u \in Units : /\ u % Align = 0 /\ u >= Align /\ u + n <= DriveUnits
                   /\ \A i \in Slots : LET p == Here.table[i]
                                       IN  \/ p.count = 0 \/ u >= p.start + p.count
                                           \/ p.start >= u + n}

Create ==
    /\ Writes /\ Editable /\ Here.signed /\ ValidTable(Here.table) /\ FirstEmptySlot # {}
    /\ \E mib \in 1 .. DriveUnits \div Align, outcome \in Outcome :
         /\ Fits(mib * Align) # {}
         /\ LET start == Min(Fits(mib * Align))
                new == Partition("fat32", start, mib * Align, FALSE)
            IN  /\ AfterMbr(outcome, SetTable(Min(FirstEmptySlot), new))
                /\ fresh' = IF Landed(outcome) THEN fresh \cup {<<mem.drive, start>>} ELSE fresh
    /\ UNCHANGED <<pc, reg, owed>>

(* Only an entry that is what the cache says, and not the mounted one.     *)
Deletable(i) ==
    /\ Editable /\ i <= PartitionCount(mem) /\ InDrive(mem.parts[i])
    /\ i # mem.selected /\ mem.parts[i].type \notin {"extended", "gpt"}
    /\ Region(Here.table[i]) = Region(mem.parts[i])
    /\ Here.table[i].type = mem.parts[i].type

Delete ==
    /\ Writes
    /\ \E i \in Slots, outcome \in Outcome :
         /\ Deletable(i)
         /\ AfterMbr(outcome, SetTable(i, Empty))
         /\ fresh' = IF Landed(outcome) THEN fresh \ {<<mem.drive, Here.table[i].start>>} ELSE fresh
         /\ owed' = IF Landed(outcome) /\ owed.at = PlaceOf(i) THEN NothingOwed ELSE owed
    /\ UNCHANGED <<pc, reg>>

-----------------------------------------------------------------------------
(* Shrinking the mounted volume: the backup boot sector, the boot sector,  *)
(* and then the MBR.                                                       *)

Base == mem.parts[reg.slot].start

Vol == Here.vol[Base]

SetVol(v) == [disk EXCEPT ![mem.drive].vol[Base] = v]

Shaken(v) == [v EXCEPT !.sound = FALSE]

Step(next) == pc' = next /\ UNCHANGED <<reg, calls>>

Return == pc' = "idle" /\ reg' = NoReg /\ UNCHANGED calls

(* What partition_manager_shrink asks before it touches the volume.        *)
Shrinkable(i, by) ==
    /\ Editable /\ i <= PartitionCount(mem) /\ InDrive(mem.parts[i])
    /\ i = mem.selected /\ IsFat32(mem.parts[i])
    /\ by < mem.parts[i].count
    /\ Here.signed /\ ValidTable(Here.table)
    /\ Region(Here.table[i]) = Region(mem.parts[i])
    /\ Here.table[i].type = mem.parts[i].type

(* fat32_shrink_volume accepts a size the volume already has; any other    *)
(* must be smaller, large enough, and leave out no cluster in use.         *)
AlreadyShrunk(new) == mem.fs.mounted /\ new <= mem.window.count /\ new = mem.fs.total

\* Mutant: the first unit behind the new end may be in use.
TailLooksFree(u, new) == Here.vol[u].high <= new

TailIsFree(u, new) == Here.vol[u].high < new

CanShrinkFat(u, new) ==
    /\ mem.fs.mounted /\ new < mem.fs.total /\ new >= MinUnits
    /\ TailIsFree(u, new)
    /\ Here.vol[u].primary = mem.fs.total

ShrinkBegin ==
    /\ Writes
    /\ \E i \in Slots, mib \in 1 .. DriveUnits \div Align :
         LET by == mib * Align
             new == mem.parts[i].count - by
         IN  /\ Shrinkable(i, by)
             /\ \/ AlreadyShrunk(new) /\ pc' = "table"
                \/ CanShrinkFat(mem.parts[i].start, new) /\ pc' = "backup"
             /\ reg' = [slot |-> i, new |-> new, by |-> by]
             /\ mem' = [mem EXCEPT !.window = Region(mem.parts[i])]
             /\ owed' = IF owed.at = PlaceOf(i) /\ owed.by # by THEN NothingOwed ELSE owed
    /\ UNCHANGED <<disk, fresh>>

\* Mutant: the MBR follows before the boot sector.
ShrinkBackupOnly(outcome) ==
    /\ pc = "backup"
    /\ \/ outcome = "ok" /\ disk' = SetVol([Vol EXCEPT !.backup = reg.new]) /\ Step("table")
       \/ outcome = "failed" /\ disk' = disk /\ Return
       \/ /\ outcome = "landed"
          /\ disk' = SetVol(Shaken([Vol EXCEPT !.backup = reg.new])) /\ Return
    /\ UNCHANGED <<mem, owed, fresh>>

ShrinkBackup(outcome) ==
    /\ pc = "backup"
    /\ \/ outcome = "ok" /\ disk' = SetVol([Vol EXCEPT !.backup = reg.new]) /\ Step("primary")
       \/ outcome = "failed" /\ disk' = disk /\ Return
       \/ /\ outcome = "landed"
          /\ disk' = SetVol(Shaken([Vol EXCEPT !.backup = reg.new])) /\ Return
    /\ UNCHANGED <<mem, owed, fresh>>

ShrinkPrimary(outcome) ==
    /\ pc = "primary"
    /\ \/ /\ outcome = "ok" /\ disk' = SetVol([Vol EXCEPT !.primary = reg.new])
          /\ mem' = [mem EXCEPT !.fs.total = reg.new] /\ Step("table")
       \/ outcome = "failed" /\ disk' = disk /\ mem' = mem /\ Step("rollback")
       \/ /\ outcome = "landed" /\ disk' = SetVol(Shaken([Vol EXCEPT !.primary = reg.new]))
          /\ mem' = mem /\ Step("rollback")
    /\ UNCHANGED <<owed, fresh>>

ShrinkRollback(outcome) ==
    /\ pc = "rollback"
    /\ disk' = SetVol(IF Landed(outcome) THEN [Vol EXCEPT !.backup = mem.fs.total]
                      ELSE Shaken(Vol))
    /\ Return /\ UNCHANGED <<mem, owed, fresh>>

\* Mutant: the cache is changed although the MBR could not be written.
ShrinkTableCached(outcome) ==
    /\ pc = "table"
    /\ disk' = IF Landed(outcome)
               THEN SetTable(reg.slot, [Here.table[reg.slot] EXCEPT !.count = reg.new])
               ELSE disk
    /\ mem' = [mem EXCEPT !.parts[reg.slot].count = reg.new, !.window.count = reg.new]
    /\ owed' = IF outcome = "failed" THEN [at |-> PlaceOf(reg.slot), by |-> reg.by]
               ELSE IF owed.at = PlaceOf(reg.slot) THEN NothingOwed ELSE owed
    /\ Return /\ UNCHANGED fresh

ShrinkTable(outcome) ==
    /\ pc = "table"
    /\ AfterMbr(outcome, SetTable(reg.slot, [Here.table[reg.slot] EXCEPT !.count = reg.new]))
    /\ owed' = IF outcome = "failed" THEN [at |-> PlaceOf(reg.slot), by |-> reg.by]
               ELSE IF owed.at = PlaceOf(reg.slot) THEN NothingOwed ELSE owed
    /\ Return /\ UNCHANGED fresh

-----------------------------------------------------------------------------
(* The format of the application: the allocation tables and the root, the  *)
(* backup boot sector, the boot sector, and then a mount of what is found. *)

Formattable(i) ==
    /\ ~Superfloppy(mem) /\ i <= PartitionCount(mem)
    /\ InDrive(mem.parts[i]) /\ IsFat32(mem.parts[i])

FormatBegin ==
    /\ Writes
    /\ \E i \in Slots :
         /\ Formattable(i)
         /\ reg' = [slot |-> i, new |-> mem.parts[i].count, by |-> 0]
         /\ mem' = [Unmount(mem) EXCEPT !.window = Region(mem.parts[i])]
    /\ pc' = "wipe" /\ UNCHANGED <<disk, owed, fresh>>

FormatEnds == Return /\ mem' \in {Remount(disk', mem, rd) : rd \in InitReads}

FormatWipe(outcome) ==
    /\ pc = "wipe"
    /\ disk' = IF Landed(outcome) THEN SetVol(Shaken([Vol EXCEPT !.high = 0])) ELSE disk
    /\ IF outcome = "ok" THEN Step("format_backup") /\ mem' = mem ELSE FormatEnds
    /\ owed' = IF Landed(outcome) /\ owed.at = PlaceOf(reg.slot) THEN NothingOwed ELSE owed
    /\ UNCHANGED fresh

FormatBackup(outcome) ==
    /\ pc = "format_backup"
    /\ disk' = IF Landed(outcome) THEN SetVol([Vol EXCEPT !.backup = reg.new]) ELSE disk
    /\ IF outcome = "ok" THEN Step("format_primary") /\ mem' = mem ELSE FormatEnds
    /\ UNCHANGED <<owed, fresh>>

FormatPrimary(outcome) ==
    /\ pc = "format_primary"
    /\ disk' = IF Landed(outcome) THEN SetVol(Formatted(reg.new)) ELSE disk
    /\ fresh' = IF Landed(outcome) THEN fresh \ {<<mem.drive, Base>>} ELSE fresh
    /\ FormatEnds /\ UNCHANGED owed

-----------------------------------------------------------------------------
(* Files come and go on the mounted volume; what they overwrite may have   *)
(* been the boot sector of a volume no entry names any more.               *)
UseFiles ==
    /\ Idle /\ mem.fs.mounted
    /\ LET u == mem.window.start
       IN  \E h \in 0 .. mem.fs.total - 1 :
             disk' = [disk EXCEPT ![mem.drive].vol = [v \in Units |->
                        IF v = u THEN [Here.vol[u] EXCEPT !.high = h]
                        ELSE IF v - u \in Here.vol[u].high + 1 .. h THEN Blank
                        ELSE Here.vol[v]]]
    /\ UNCHANGED <<mem, pc, reg, owed, fresh, calls>>

(* The power goes, at any point, and the kernel boots from the first drive. *)
Reboot ==
    /\ disk' = IF pc \in {"primary", "rollback", "format_backup", "format_primary"}
               THEN SetVol(Shaken(Vol)) ELSE disk
    /\ mem' \in {Remount(disk', MemAtBoot, rd) : rd \in InitReads}
    /\ pc' = "idle" /\ reg' = NoReg
    /\ UNCHANGED <<owed, fresh, calls>>

Next ==
    \/ MountSlot \/ SwitchDrive \/ Create \/ Delete \/ ShrinkBegin \/ FormatBegin
    \/ \E outcome \in Outcome :
         \/ ShrinkBackup(outcome) \/ ShrinkPrimary(outcome)
         \/ ShrinkRollback(outcome) \/ ShrinkTable(outcome)
         \/ FormatWipe(outcome) \/ FormatBackup(outcome) \/ FormatPrimary(outcome)
    \/ UseFiles \/ Reboot

Spec == Init /\ [][Next]_vars

-----------------------------------------------------------------------------
TypeOK ==
    /\ \A d \in Drives : \A u \in Units : disk[d].vol[u] \in VolumeRecord
    /\ mem.drive \in Drives /\ mem.selected \in {0} \cup Slots
    /\ mem.window.start \in Units /\ mem.window.start + mem.window.count <= DriveUnits
    /\ mem.fs \in [mounted : BOOLEAN, total : Size]
    /\ pc \in {"idle", "backup", "primary", "rollback", "table",
              "wipe", "format_backup", "format_primary"}
    /\ reg \in [slot : {0} \cup Slots, new : Size, by : Size]
    /\ calls \in 0 .. MaxCalls

(* No call makes a sound table one with overlapping entries, or entries    *)
(* outside of the drive (validate_mbr_entries before every change).        *)
TableStaysSound ==
    [][\A d \in Drives : ValidTable(disk[d].table) => ValidTable(disk'[d].table)]_disk

(* Between two calls the window is that of the mounted volume, and the     *)
(* volume is no larger: the restores of every error path work out.         *)
MountedInWindow ==
    Idle /\ mem.fs.mounted =>
        /\ Ready(mem) /\ mem.window = Home(mem) /\ mem.fs.total <= mem.window.count
        /\ LET v == Here.vol[mem.window.start] IN v.sound => mem.fs.total = v.primary

(* A write that landed although it failed leaves the cache stale.          *)
CacheIsCurrent == ~Superfloppy(mem) /\ mem.parts = Here.table

EntryHolds(d, u) ==
    \E i \in Slots :
        LET p == disk[d].table[i]
        IN  p.start = u /\ IsFat32(p) /\ disk[d].vol[u].primary \in 1 .. p.count

(* No write of a shrink, whatever comes of it, and no power failure between *)
(* them takes away the entry that holds the volume ("the old MBR still      *)
(* safely contains the smaller filesystem").                                *)
StaysMountable ==
    [][\A d \in Drives, u \in Units :
          /\ pc \in {"backup", "primary", "rollback", "table"}
          /\ d = mem.drive /\ u = Base /\ EntryHolds(d, u)
          => EntryHolds(d, u)']_vars

(* No file of a volume that can be mounted lies behind its end.            *)
FilesInside ==
    \A d \in Drives, i \in Slots :
        LET p == disk[d].table[i]
            v == disk[d].vol[p.start]
        IN  IsFat32(p) /\ InDrive(p) /\ v.primary \in 1 .. p.count /\ v.sound
            => v.high < v.primary

(* After a shrink whose MBR write failed "repeating the same shrink will   *)
(* finish the table update", also after other calls and a restart.         *)
RetryCompletes ==
    LET i == mem.selected
    IN  Idle /\ mem.fs.mounted /\ owed.at = PlaceOf(i) =>
            Shrinkable(i, owed.by) /\ AlreadyShrunk(mem.parts[i].count - owed.by)

(* When the disk can be read, asking for another volume leaves that or the *)
(* one before mounted ("previous volume restored"), and so does asking for *)
(* another drive, except on a hybrid disk, which is mounted by hand only.  *)
PreviousRestored ==
    Idle /\ mem.fs.mounted =>
        /\ \A i \in Slots : LET after == MountResult(mem, i, NoFailures)
                            IN  after.fs.mounted /\ after.selected \in {i, mem.selected}
        /\ Superfloppy(mem) \/ (CacheIsCurrent /\ ~Hybrid(Here)) =>
               \A d \in Drives : DriveResult(mem, d, NoFailures).fs.mounted

(* "It is unformatted; format it before mounting": a partition that was    *)
(* created is not mounted before it is formatted.                          *)
NewNeedsFormat ==
    mem.fs.mounted /\ Selected(mem) =>
        <<mem.drive, mem.parts[mem.selected].start>> \notin fresh

=============================================================================
