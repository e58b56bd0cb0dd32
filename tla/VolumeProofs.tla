---------------------------- MODULE VolumeProofs ----------------------------
(***************************************************************************)
(* For drives of every size with any partition table, overlapping ones as  *)
(* well, and any number of calls: what is mounted is the volume that is in *)
(* the window, no write of a shrink loses the entry that holds the volume, *)
(* and no error path leaves a volume that ends before its files do.        *)
(***************************************************************************)
EXTENDS Volume, FiniteSetTheorems, WellFoundedInduction, TLAPS

DrivesOK(dk) ==
    /\ dk \in [Drives -> DriveState]
    /\ \A d \in Drives, u \in Units : FilesFit(dk[d].vol[u])

Window == [start : Nat, count : Nat]

Mem == [drive : Drives, parts : [Slots -> Entry], selected : {0} \cup Slots,
        superfloppy : BOOLEAN, window : Window, fs : [mounted : BOOLEAN, total : Size]]

(* What is selected is in the drive, and the window is there.              *)
Placed(dk, m) ==
    /\ m \in Mem /\ m.window = Home(m)
    /\ Superfloppy(m) => ~Selected(m)
    /\ Selected(m) => LET p == m.parts[m.selected]
                      IN  IsFat32(p) /\ InDrive(p)
    /\ \A i \in Slots : m.parts[i].type # "none" => dk[m.drive].signed

(* What is mounted begins in the window, and ends no later than it: where  *)
(* the boot sector says, unless a write of it landed although it failed.   *)
Mounted(dk, m) ==
    m.fs.mounted =>
        /\ Ready(m)
        /\ LET v == dk[m.drive].vol[m.window.start]
           IN  /\ m.fs.total <= m.window.count /\ v.primary \in 1 .. m.fs.total
               /\ v.sound => v.primary = m.fs.total

Shrinking == {"backup", "primary", "rollback", "table"}

Formatting == {"wipe", "format_backup", "format_primary"}

(* A shrink works on the mounted volume, whose entry on the disk is what   *)
(* the cache says; the smaller size holds its files and is not nothing.    *)
ShrinkOK ==
    pc \in Shrinking =>
        /\ Selected(mem) /\ reg.slot = mem.selected /\ mem.fs.mounted
        /\ Region(Here.table[reg.slot]) = Region(mem.parts[reg.slot])
        /\ IsFat32(Here.table[reg.slot])
        /\ reg.new \in 1 .. mem.parts[reg.slot].count - 1
        /\ pc \in {"backup", "primary"} =>
              Vol.primary = mem.fs.total /\ reg.new < mem.fs.total /\ Vol.high < reg.new
        /\ pc = "table" => mem.fs.total = reg.new

FormatOK ==
    pc \in Formatting =>
        /\ ~mem.fs.mounted /\ reg.slot \in Slots /\ mem \in Mem
        /\ LET p == mem.parts[reg.slot]
           IN  InDrive(p) /\ mem.window = Region(p) /\ reg.new = p.count

IInv ==
    /\ DrivesOK(disk) /\ Mounted(disk, mem)
    /\ pc \notin Formatting => Placed(disk, mem)
    /\ pc \in {"idle"} \cup Shrinking \cup Formatting
    /\ reg \in [slot : {0} \cup Slots, new : Size, by : Size]
    /\ calls \in 0 .. MaxCalls
    /\ ShrinkOK /\ FormatOK
-----------------------------------------------------------------------------
(* Sets of numbers.                                                        *)
LEMMA LeastExists ==
    ASSUME NEW S \in SUBSET Nat, S # {}
    PROVE  \E m \in S : \A n \in S : m <= n
<1> DEFINE F == {0 .. n : n \in S}
<1>1. IsWellFoundedOn(StrictSubsetOrdering(Nat), FiniteSubsetsOf(Nat))
  BY FS_StrictSubsetOrderingWellFounded
<1>2. F \subseteq FiniteSubsetsOf(Nat) /\ F # {}
  <2>1. \A n \in S : 0 .. n \in SUBSET Nat /\ IsFiniteSet(0 .. n)
    BY FS_Interval
  <2> QED
    BY <2>1 DEF FiniteSubsetsOf
<1>3. PICK T \in F : \A U \in F : <<U, T>> \notin StrictSubsetOrdering(Nat)
  <2> HIDE DEF F
  <2> QED
    BY <1>1, <1>2, WFMin
<1>4. PICK m \in S : T = 0 .. m
  OBVIOUS
<1>5. ASSUME NEW n \in S, ~ (m <= n) PROVE FALSE
  <2>1. n \in Nat /\ m \in Nat /\ n < m
    BY <1>5
  <2>2. /\ 0 .. n \in SUBSET Nat /\ 0 .. m \in SUBSET Nat
        /\ 0 .. n \subseteq 0 .. m /\ 0 .. n # 0 .. m
    <3>1. m \in 0 .. m /\ m \notin 0 .. n
      BY <2>1
    <3> QED
      BY <2>1, <3>1
  <2>3. <<0 .. n, 0 .. m>> \in StrictSubsetOrdering(Nat)
    BY <2>2 DEF StrictSubsetOrdering
  <2>4. 0 .. n \in F
    OBVIOUS
  <2> QED
    BY <1>3, <1>4, <2>3, <2>4
<1> QED
  BY <1>5

LEMMA MinProperties ==
    ASSUME NEW S \in SUBSET Nat, S # {}
    PROVE  Min(S) \in S /\ \A n \in S : Min(S) <= n
BY LeastExists DEF Min

LEMMA MaxProperties ==
    ASSUME NEW S \in SUBSET Nat, S # {}, NEW b \in Nat, \A n \in S : n <= b
    PROVE  Max(S) \in S /\ \A n \in S : Max(S) >= n
<1> DEFINE T == {b - n : n \in S}
<1>1. T \in SUBSET Nat /\ T # {}
  <2>1. \A n \in S : b - n \in Nat
    OBVIOUS
  <2> QED
    BY <2>1
<1>2. PICK t \in T : \A u \in T : t <= u
  BY <1>1, LeastExists
<1>3. PICK m \in S : t = b - m
  BY <1>2
<1>4. ASSUME NEW n \in S PROVE m >= n
  <2>1. b - m <= b - n
    BY <1>2, <1>3
  <2>2. b \in Nat /\ m \in Nat /\ n \in Nat
    OBVIOUS
  <2> QED
    BY <2>1, <2>2
<1>5. \E x \in S : \A y \in S : x >= y
  BY <1>4
<1> QED
  BY <1>5 DEF Max

-----------------------------------------------------------------------------
(* What the operations on the memory of blockdev.c, partition_manager.c    *)
(* and fat32.c do to the window and the mounted volume.                    *)
LEMMA Sizes ==
    /\ DriveUnits \in Nat /\ DriveUnits > 0 /\ 0 \in Units /\ 0 \in Size
    /\ Align \in Nat /\ Align > 0 /\ MaxPartitions \in Nat /\ MaxPartitions > 0
    /\ MinUnits \in Nat /\ MinUnits > 0 /\ MaxCalls \in Nat
    /\ Slots \in SUBSET Nat /\ 0 \notin Slots
    /\ Whole \in Window /\ 0 \in Drives /\ NotMounted \in [mounted : BOOLEAN, total : Size]
    /\ Empty \in Entry /\ NoParts \in [Slots -> Entry]
BY VolumeAssumption
DEF Units, Size, Slots, Whole, Window, Drives, NotMounted, Empty, Entry, NoParts

LEMMA InDriveRegion ==
    ASSUME NEW p \in Entry, InDrive(p)
    PROVE  /\ Region(p) \in Window /\ Region(p).start = p.start /\ Region(p).count = p.count
           /\ p.start \in Units /\ p.count \in 1 .. DriveUnits /\ p.start + p.count <= DriveUnits
<1>1. p.start \in Nat /\ p.count \in Nat /\ p.count # 0
  BY DEF Entry, InDrive
<1>2. p.start < DriveUnits /\ p.count <= DriveUnits - p.start
  BY DEF InDrive
<1> QED
  BY <1>1, <1>2, Sizes DEF Region, Window, Units

LEMMA PlacedWindow ==
    ASSUME NEW dk, NEW m, Placed(dk, m)
    PROVE  /\ m.window \in Window /\ m.window.start \in Units
           /\ m.window.count \in 1 .. DriveUnits
           /\ m.window.start + m.window.count <= DriveUnits
<1>1. CASE Selected(m)
  <2>1. m.selected \in Slots /\ m.parts[m.selected] \in Entry /\ InDrive(m.parts[m.selected])
    BY <1>1 DEF Placed, Mem, Selected
  <2>2. m.window = Region(m.parts[m.selected])
    BY <1>1 DEF Placed, Home
  <2> QED
    BY <2>1, <2>2, InDriveRegion
<1>2. CASE ~Selected(m)
  <2>1. m.window = Whole
    BY <1>2 DEF Placed, Home
  <2> QED
    BY <2>1, Sizes DEF Whole, Window
<1> QED
  BY <1>1, <1>2

LEMMA FsReplaced ==
    ASSUME NEW m \in Mem, NEW fs \in [mounted : BOOLEAN, total : Size]
    PROVE  LET n == [m EXCEPT !.fs = fs]
           IN  /\ n \in Mem /\ n.fs = fs /\ n.drive = m.drive /\ n.parts = m.parts
               /\ n.selected = m.selected /\ n.superfloppy = m.superfloppy
               /\ n.window = m.window
BY DEF Mem

LEMMA UnmountKeeps ==
    ASSUME NEW dk, NEW m \in Mem
    PROVE  /\ Unmount(m) \in Mem /\ ~Unmount(m).fs.mounted
           /\ Unmount(m).drive = m.drive /\ Unmount(m).parts = m.parts
           /\ Unmount(m).selected = m.selected /\ Unmount(m).superfloppy = m.superfloppy
           /\ Unmount(m).window = m.window
           /\ Placed(dk, m) => Placed(dk, Unmount(m))
<1> DEFINE n == Unmount(m)
<1>1. /\ n \in Mem /\ n.fs = NotMounted /\ n.drive = m.drive /\ n.parts = m.parts
      /\ n.selected = m.selected /\ n.superfloppy = m.superfloppy /\ n.window = m.window
  BY Sizes, FsReplaced DEF Unmount
<1> HIDE DEF n
<1>2. ~n.fs.mounted
  BY <1>1 DEF NotMounted
<1>3. Placed(dk, m) => Placed(dk, n)
  BY <1>1 DEF Placed, Home, Selected, Superfloppy
<1> QED
  BY <1>1, <1>2, <1>3 DEF n

LEMMA FatMountKeeps ==
    ASSUME NEW dk, DrivesOK(dk), NEW m, Placed(dk, m), Ready(m), NEW readOk
    PROVE  /\ Placed(dk, FatMount(dk, m, readOk)) /\ Mounted(dk, FatMount(dk, m, readOk))
           /\ FatMount(dk, m, readOk).selected = m.selected
           /\ FatMount(dk, m, readOk).drive = m.drive
           /\ readOk /\ ValidBoot(dk[m.drive], m.window)
              => FatMount(dk, m, readOk).fs.mounted
<1> DEFINE v == dk[m.drive].vol[m.window.start]
           fs == IF readOk /\ ValidBoot(dk[m.drive], m.window)
                 THEN [mounted |-> TRUE, total |-> v.primary] ELSE NotMounted
           n == FatMount(dk, m, readOk)
<1>1. m \in Mem /\ m.drive \in Drives /\ m.window.start \in Units /\ m.window.count \in Nat
  BY PlacedWindow DEF Placed, Mem
<1>2. v \in VolumeRecord /\ v.primary \in Size
  BY <1>1 DEF DrivesOK, DriveState, VolumeRecord
<1>3. fs \in [mounted : BOOLEAN, total : Size]
  BY <1>2, Sizes
<1>4. n = [m EXCEPT !.fs = fs]
  BY DEF FatMount
<1>5. ValidBoot(dk[m.drive], m.window) => v.primary # 0 /\ v.primary <= m.window.count
  BY DEF ValidBoot
<1>6. /\ readOk /\ ValidBoot(dk[m.drive], m.window) => fs.mounted
      /\ fs.mounted => ValidBoot(dk[m.drive], m.window) /\ fs.total = v.primary
  BY DEF NotMounted
<1> HIDE DEF fs, n
<1>7. /\ n \in Mem /\ n.fs = fs /\ n.drive = m.drive /\ n.parts = m.parts
      /\ n.selected = m.selected /\ n.superfloppy = m.superfloppy /\ n.window = m.window
  BY <1>1, <1>3, <1>4, FsReplaced
<1>8. Placed(dk, n) /\ Ready(n)
  BY <1>7 DEF Placed, Home, Selected, Superfloppy, Ready
<1>9. Mounted(dk, n)
  BY <1>1, <1>2, <1>5, <1>6, <1>7, <1>8 DEF Mounted, Size
<1> QED
  BY <1>6, <1>7, <1>8, <1>9 DEF n
LEMMA SelectKeeps ==
    ASSUME NEW dk, NEW m, Placed(dk, m), NEW i \in Slots, NEW readOk
    PROVE  LET n == Select(dk, m, i, readOk)
           IN  /\ Placed(dk, n) /\ n.fs = m.fs /\ n.drive = m.drive /\ n.parts = m.parts
               /\ n.superfloppy = m.superfloppy
               /\ IF CanSelect(dk, m, i, readOk)
                  THEN n.selected = i /\ n.window = Region(m.parts[i])
                  ELSE n.selected = m.selected /\ n.window = m.window
<1> DEFINE n == Select(dk, m, i, readOk)
<1>1. m \in Mem /\ m.window = Home(m) /\ m.parts[i] \in Entry /\ i # 0
  BY Sizes DEF Placed, Mem
<1>2. CASE CanSelect(dk, m, i, readOk)
  <2>1. ~Superfloppy(m) /\ InDrive(m.parts[i]) /\ IsFat32(m.parts[i])
    BY <1>2 DEF CanSelect, Eligible
  <2>2. Region(m.parts[i]) \in Window
    BY <1>1, <2>1, InDriveRegion
  <2>3. n = [m EXCEPT !.selected = i, !.window = Region(m.parts[i])]
    BY <1>2 DEF Select
  <2> HIDE DEF n
  <2>4. /\ n \in Mem /\ n.fs = m.fs /\ n.drive = m.drive /\ n.parts = m.parts
        /\ n.superfloppy = m.superfloppy /\ n.selected = i /\ n.window = Region(m.parts[i])
    BY <1>1, <2>2, <2>3 DEF Mem
  <2>5. Placed(dk, n)
    BY <1>1, <2>1, <2>4 DEF Placed, Home, Selected, Superfloppy
  <2> QED
    BY <1>2, <2>4, <2>5 DEF n
<1>3. CASE ~CanSelect(dk, m, i, readOk)
  <2>1. n = [m EXCEPT !.window = m.window] \/ n = m
    BY <1>1, <1>3 DEF Select
  <2> HIDE DEF n
  <2>2. n = m
    BY <1>1, <2>1 DEF Mem
  <2> QED
    BY <1>3, <2>2 DEF n
<1> QED
  BY <1>2, <1>3

LEMMA PmInitKeeps ==
    ASSUME NEW dk, DrivesOK(dk), NEW m \in Mem, NEW mbrOk, NEW bad
    PROVE  LET n == PmInit(dk, m, mbrOk, bad)
           IN  /\ Placed(dk, n) /\ n.fs = m.fs /\ n.drive = m.drive
               /\ Ready(n) /\ bad = {} => ValidBoot(dk[n.drive], n.window)
               /\ mbrOk /\ ValidBoot(dk[m.drive], Whole) => Ready(n) /\ n.selected = 0
               /\ mbrOk /\ dk[m.drive].signed /\ Selectable(dk[m.drive], bad) # {}
                     /\ ~Hybrid(dk[m.drive]) => Ready(n)
<1> DEFINE n == PmInit(dk, m, mbrOk, bad)
           drive == dk[m.drive]
           none == [m EXCEPT !.parts = NoParts, !.selected = 0,
                             !.superfloppy = FALSE, !.window = Whole]
           cached == [none EXCEPT !.parts = drive.table]
           some == Selectable(drive, bad)
           active == {i \in some : drive.table[i].active}
           i == Min(IF active # {} THEN active ELSE some)
<1>1. /\ m.drive \in Drives /\ drive \in DriveState /\ drive.table \in [Slots -> Entry]
      /\ drive.signed \in BOOLEAN
  BY DEF Mem, DrivesOK, DriveState
<1>2. n = IF ~mbrOk THEN none
          ELSE IF ValidBoot(drive, Whole) THEN [none EXCEPT !.superfloppy = TRUE]
          ELSE IF ~drive.signed THEN none
          ELSE IF some = {} \/ Hybrid(drive) THEN cached
          ELSE [cached EXCEPT !.selected = i, !.window = Region(drive.table[i])]
  BY DEF PmInit
<1>3. /\ none \in Mem /\ none.fs = m.fs /\ none.drive = m.drive /\ none.window = Whole
      /\ none.parts = NoParts /\ none.selected = 0 /\ none.superfloppy = FALSE
  BY Sizes DEF Mem
<1> HIDE DEF none
<1>4. /\ cached \in Mem /\ cached.fs = m.fs /\ cached.drive = m.drive /\ cached.window = Whole
      /\ cached.parts = drive.table /\ cached.selected = 0 /\ cached.superfloppy = FALSE
  BY <1>1, <1>3 DEF Mem
<1> HIDE DEF cached, drive
<1>5. \A k \in Slots : NoParts[k].type = "none"
  BY DEF NoParts, Empty
<1>6. CASE n = none
  <2>1. Placed(dk, n) /\ ~Ready(n)
    BY <1>3, <1>5, <1>6 DEF Placed, Home, Selected, Superfloppy, Ready
  <2>2. /\ mbrOk => ~ValidBoot(drive, Whole)
        /\ mbrOk /\ some # {} /\ ~Hybrid(drive) => ~drive.signed
    <3>1. CASE mbrOk /\ ValidBoot(drive, Whole)
      <4>1. n.superfloppy = TRUE
        BY <1>2, <1>3, <3>1 DEF Mem
      <4> QED
        BY <1>3, <1>6, <4>1
    <3>2. CASE mbrOk /\ ~ValidBoot(drive, Whole) /\ drive.signed /\ some # {} /\ ~Hybrid(drive)
      <4>1. some \in SUBSET Nat /\ active \in SUBSET Nat /\ 0 \notin some
        BY Sizes DEF Selectable
      <4>2. i \in some
        BY <3>2, <4>1, MinProperties
      <4>3. n = [cached EXCEPT !.selected = i, !.window = Region(drive.table[i])]
        BY <1>2, <3>2
      <4>4. n.selected = i
        BY <1>4, <4>3 DEF Mem
      <4> QED
        BY <1>3, <1>6, <4>1, <4>2, <4>4
    <3> QED
      BY <3>1, <3>2
  <2> QED
    BY <1>3, <1>6, <2>1, <2>2 DEF drive
<1>7. CASE mbrOk /\ ValidBoot(drive, Whole)
  <2>1. n = [none EXCEPT !.superfloppy = TRUE]
    BY <1>2, <1>7
  <2>2. /\ n \in Mem /\ n.fs = m.fs /\ n.drive = m.drive /\ n.window = Whole
        /\ n.parts = NoParts /\ n.selected = 0 /\ n.superfloppy = TRUE
    BY <1>3, <2>1 DEF Mem
  <2>3. Placed(dk, n) /\ Ready(n)
    BY <1>5, <2>2 DEF Placed, Home, Selected, Superfloppy, Ready
  <2> QED
    BY <1>7, <2>2, <2>3 DEF drive
<1>8. CASE mbrOk /\ ~ValidBoot(drive, Whole) /\ drive.signed /\ (some = {} \/ Hybrid(drive))
  <2>1. n = cached
    BY <1>2, <1>8
  <2>2. Placed(dk, n) /\ ~Ready(n)
    BY <1>4, <1>8, <2>1 DEF Placed, Home, Selected, Superfloppy, Ready, drive
  <2> QED
    BY <1>4, <1>8, <2>1, <2>2 DEF drive
<1>9. CASE mbrOk /\ ~ValidBoot(drive, Whole) /\ drive.signed /\ some # {} /\ ~Hybrid(drive)
  <2>1. some \in SUBSET Nat /\ active \in SUBSET Nat /\ active \subseteq some
    BY Sizes DEF Selectable
  <2>2. i \in some
    BY <1>9, <2>1, MinProperties
  <2> HIDE DEF i
  <2>3. /\ i \in Slots /\ i # 0 /\ IsFat32(drive.table[i]) /\ InDrive(drive.table[i])
        /\ ValidBoot(drive, Region(drive.table[i])) /\ drive.table[i] \in Entry
    BY <1>1, <2>2, Sizes DEF Selectable
  <2>4. Region(drive.table[i]) \in Window
    BY <2>3, InDriveRegion
  <2>5. n = [cached EXCEPT !.selected = i, !.window = Region(drive.table[i])]
    BY <1>2, <1>9 DEF i
  <2>6. /\ n \in Mem /\ n.fs = m.fs /\ n.drive = m.drive /\ n.window = Region(drive.table[i])
        /\ n.parts = drive.table /\ n.selected = i /\ n.superfloppy = FALSE
    BY <1>4, <2>3, <2>4, <2>5 DEF Mem
  <2>7. Placed(dk, n) /\ Ready(n)
    BY <1>9, <2>3, <2>6 DEF Placed, Home, Selected, Superfloppy, Ready, drive
  <2> QED
    BY <1>9, <2>3, <2>6, <2>7 DEF drive
<1> QED
  BY <1>2, <1>6, <1>7, <1>8, <1>9

LEMMA RemountKeeps ==
    ASSUME NEW dk, DrivesOK(dk), NEW m \in Mem, NEW rd
    PROVE  LET n == Remount(dk, m, rd)
           IN  Placed(dk, n) /\ Mounted(dk, n) /\ n.drive = m.drive
<1> DEFINE found == PmInit(dk, Unmount(m), rd.mbr, rd.bad)
           n == Remount(dk, m, rd)
<1>1. Unmount(m) \in Mem /\ Unmount(m).drive = m.drive /\ ~Unmount(m).fs.mounted
  BY UnmountKeeps
<1>2. Placed(dk, found) /\ found.drive = m.drive /\ ~found.fs.mounted
  BY <1>1, PmInitKeeps
<1>3. n = IF Ready(found) THEN FatMount(dk, found, rd.mount) ELSE found
  BY DEF Remount
<1> HIDE DEF found, n
<1>4. CASE Ready(found)
  <2>1. n = FatMount(dk, found, rd.mount)
    BY <1>3, <1>4
  <2>2. /\ Placed(dk, FatMount(dk, found, rd.mount)) /\ Mounted(dk, FatMount(dk, found, rd.mount))
        /\ FatMount(dk, found, rd.mount).drive = found.drive
    BY <1>2, <1>4, FatMountKeeps
  <2>3. Placed(dk, n) /\ Mounted(dk, n) /\ n.drive = m.drive
    BY <1>2, <2>1, <2>2
  <2> QED
    BY <2>3 DEF n
<1>5. CASE ~Ready(found)
  <2>1. Placed(dk, n) /\ Mounted(dk, n) /\ n.drive = m.drive
    BY <1>2, <1>3, <1>5 DEF Mounted
  <2> QED
    BY <2>1 DEF n
<1> QED
  BY <1>4, <1>5

(* mount, with every way in which a read may fail.                         *)
LEMMA MountKeeps ==
    ASSUME DrivesOK(disk), Placed(disk, mem), NEW i \in Slots, NEW rd
    PROVE  Placed(disk, MountResult(mem, i, rd)) /\ Mounted(disk, MountResult(mem, i, rd))
<1> DEFINE tried == Select(disk, Unmount(mem), i, rd.select)
           mounted == FatMount(disk, tried, rd.mount)
           back == Select(disk, Unmount(tried), mem.selected, rd.again)
           n == MountResult(mem, i, rd)
           can == CanSelect(disk, mem, i, rd.select)
<1>1. n = IF can /\ mounted.fs.mounted THEN mounted
          ELSE IF Selected(mem) THEN FatMount(disk, back, rd.again)
          ELSE Remount(disk, tried, rd)
  BY DEF MountResult
<1>2. mem \in Mem /\ mem.selected \in {0} \cup Slots
  BY DEF Placed, Mem
<1>3. /\ Placed(disk, Unmount(mem)) /\ Unmount(mem).parts = mem.parts
      /\ Unmount(mem).drive = mem.drive /\ Unmount(mem).superfloppy = mem.superfloppy
      /\ Unmount(mem).selected = mem.selected
  BY <1>2, UnmountKeeps
<1>4. can <=> CanSelect(disk, Unmount(mem), i, rd.select)
  BY <1>3 DEF CanSelect, Eligible, PartitionCount, Superfloppy
<1> HIDE DEF n, can
<1>5. /\ Placed(disk, tried)
      /\ can => Selected(tried)
      /\ ~can => tried.selected = mem.selected
  BY <1>3, <1>4, SelectKeeps, Sizes DEF Selected
<1> HIDE DEF tried
<1>6. CASE can /\ mounted.fs.mounted
  <2>1. Ready(tried)
    BY <1>5, <1>6 DEF Ready
  <2>2. n = FatMount(disk, tried, rd.mount)
    BY <1>1, <1>6
  <2> QED
    BY <1>5, <2>1, <2>2, FatMountKeeps DEF n
<1>7. CASE ~(can /\ mounted.fs.mounted) /\ Selected(mem)
  <2>1. mem.selected \in Slots /\ tried \in Mem
    BY <1>2, <1>5, <1>7 DEF Selected, Placed
  <2>2. Placed(disk, Unmount(tried)) /\ Unmount(tried).selected = tried.selected
    BY <1>5, <2>1, UnmountKeeps
  <2>3. /\ Placed(disk, back)
        /\ back.selected \in {mem.selected, tried.selected}
    BY <2>1, <2>2, SelectKeeps
  <2> HIDE DEF back
  <2>4. Ready(back)
    BY <1>5, <1>7, <2>1, <2>3, Sizes DEF Ready, Selected
  <2>5. n = FatMount(disk, back, rd.again)
    BY <1>1, <1>7
  <2> QED
    BY <2>3, <2>4, <2>5, FatMountKeeps DEF n
<1>8. CASE ~(can /\ mounted.fs.mounted) /\ ~Selected(mem)
  <2>1. n = Remount(disk, tried, rd) /\ tried \in Mem
    BY <1>1, <1>5, <1>8 DEF Placed
  <2> QED
    BY <2>1, RemountKeeps DEF n
<1> QED
  BY <1>6, <1>7, <1>8
LEMMA DriveKeeps ==
    ASSUME DrivesOK(disk), mem \in Mem, NEW d \in Drives, NEW rd
    PROVE  Placed(disk, DriveResult(mem, d, rd)) /\ Mounted(disk, DriveResult(mem, d, rd))
<1> DEFINE there == Remount(disk, OnDrive(mem, d), rd)
           again == [rd EXCEPT !.mbr = rd.again, !.mount = rd.again]
           n == DriveResult(mem, d, rd)
<1>1. \A m \in Mem, e \in Drives : OnDrive(m, e) \in Mem
  BY Sizes DEF OnDrive, Mem
<1>2. Placed(disk, there) /\ Mounted(disk, there)
  BY <1>1, RemountKeeps
<1> HIDE DEF there
<1>3. OnDrive(there, mem.drive) \in Mem
  BY <1>1, <1>2 DEF Placed, Mem
<1>4. n = there \/ n = Remount(disk, OnDrive(there, mem.drive), again)
  BY DEF DriveResult, there
<1> HIDE DEF n, again
<1>5. Placed(disk, n) /\ Mounted(disk, n)
  BY <1>2, <1>3, <1>4, RemountKeeps
<1> QED
  BY <1>5 DEF n

-----------------------------------------------------------------------------
(* What the writes do to the drives.                                       *)
SameMbr(dk) == \A d \in Drives : dk[d].signed = disk[d].signed /\ dk[d].table = disk[d].table

SameVolumes(dk) == \A d \in Drives : dk[d].signed = disk[d].signed /\ dk[d].vol = disk[d].vol

LEMMA VolumeWrites ==
    ASSUME DrivesOK(disk), mem.drive \in Drives, Base \in Units, NEW v \in VolumeRecord, FilesFit(v)
    PROVE  /\ DrivesOK(SetVol(v)) /\ SameMbr(SetVol(v))
           /\ \A d \in Drives, u \in Units :
                 SetVol(v)[d].vol[u] = IF d = mem.drive /\ u = Base THEN v ELSE disk[d].vol[u]
<1> DEFINE dk == SetVol(v)
           h == disk[mem.drive]
           new == [h EXCEPT !.vol = [h.vol EXCEPT ![Base] = v]]
<1>1. disk \in [Drives -> DriveState] /\ h \in DriveState /\ h.vol \in [Units -> VolumeRecord]
  BY DEF DrivesOK, DriveState
<1>2. dk = [disk EXCEPT ![mem.drive] = new]
  BY DEF SetVol
<1>3. [h.vol EXCEPT ![Base] = v] \in [Units -> VolumeRecord]
  BY <1>1
<1>4. /\ new \in DriveState /\ new.signed = h.signed /\ new.table = h.table
      /\ new.vol = [h.vol EXCEPT ![Base] = v]
  BY <1>1, <1>3 DEF DriveState
<1> HIDE DEF new, dk
<1>5. /\ dk \in [Drives -> DriveState] /\ dk[mem.drive] = new
      /\ \A d \in Drives \ {mem.drive} : dk[d] = disk[d]
  BY <1>1, <1>2, <1>4
<1>6. SameMbr(dk)
  BY <1>4, <1>5 DEF SameMbr
<1>7. ASSUME NEW d \in Drives, NEW u \in Units
      PROVE  dk[d].vol[u] = IF d = mem.drive /\ u = Base THEN v ELSE disk[d].vol[u]
  <2>1. CASE d = mem.drive
    BY <1>1, <1>4, <1>5, <2>1
  <2>2. CASE d # mem.drive
    BY <1>5, <2>2
  <2> QED
    BY <2>1, <2>2
<1>8. DrivesOK(dk)
  BY <1>5, <1>7 DEF DrivesOK
<1> QED
  BY <1>6, <1>7, <1>8 DEF dk

LEMMA TableWrites ==
    ASSUME DrivesOK(disk), mem.drive \in Drives, NEW i \in Slots, NEW entry \in Entry
    PROVE  /\ DrivesOK(SetTable(i, entry)) /\ SameVolumes(SetTable(i, entry))
           /\ \A d \in Drives, j \in Slots :
                 SetTable(i, entry)[d].table[j] =
                    IF d = mem.drive /\ j = i THEN entry ELSE disk[d].table[j]
<1> DEFINE dk == SetTable(i, entry)
           h == disk[mem.drive]
           new == [h EXCEPT !.table = [h.table EXCEPT ![i] = entry]]
<1>1. disk \in [Drives -> DriveState] /\ h \in DriveState /\ h.table \in [Slots -> Entry]
  BY DEF DrivesOK, DriveState
<1>2. dk = [disk EXCEPT ![mem.drive] = new]
  BY DEF SetTable
<1>3. [h.table EXCEPT ![i] = entry] \in [Slots -> Entry]
  BY <1>1
<1>4. /\ new \in DriveState /\ new.signed = h.signed /\ new.vol = h.vol
      /\ new.table = [h.table EXCEPT ![i] = entry]
  BY <1>1, <1>3 DEF DriveState
<1> HIDE DEF new, dk
<1>5. /\ dk \in [Drives -> DriveState] /\ dk[mem.drive] = new
      /\ \A d \in Drives \ {mem.drive} : dk[d] = disk[d]
  BY <1>1, <1>2, <1>4
<1>6. SameVolumes(dk)
  BY <1>4, <1>5 DEF SameVolumes
<1>7. ASSUME NEW d \in Drives, NEW j \in Slots
      PROVE  dk[d].table[j] = IF d = mem.drive /\ j = i THEN entry ELSE disk[d].table[j]
  <2>1. CASE d = mem.drive
    BY <1>1, <1>4, <1>5, <2>1
  <2>2. CASE d # mem.drive
    BY <1>5, <2>2
  <2> QED
    BY <2>1, <2>2
<1>8. DrivesOK(dk)
  BY <1>5, <1>6 DEF DrivesOK, SameVolumes
<1> QED
  BY <1>6, <1>7, <1>8 DEF dk

LEMMA PlacedAnyDisk ==
    ASSUME NEW m, Placed(disk, m), NEW dk, SameMbr(dk) \/ SameVolumes(dk)
    PROVE  Placed(dk, m)
<1>1. m.drive \in Drives
  BY DEF Placed, Mem
<1>2. dk[m.drive].signed = disk[m.drive].signed
  BY <1>1 DEF SameMbr, SameVolumes
<1> QED
  BY <1>2 DEF Placed

(* A write of the MBR, and what the commands do after it.                  *)
LEMMA AfterMbrKeeps ==
    ASSUME DrivesOK(disk), Placed(disk, mem), Mounted(disk, mem),
           NEW dk, DrivesOK(dk), SameVolumes(dk), NEW outcome, AfterMbr(outcome, dk)
    PROVE  /\ disk' \in {disk, dk} /\ DrivesOK(disk') /\ Placed(disk', mem') /\ Mounted(disk', mem')
           /\ mem'.drive = mem.drive
<1>1. disk' \in {disk, dk} /\ DrivesOK(disk') /\ mem \in Mem
  BY DEF AfterMbr, Placed
<1>2. CASE outcome = "ok"
  <2>1. PICK rd \in InitReads : mem' = Remount(disk', mem, rd)
    BY <1>2 DEF AfterMbr
  <2> QED
    BY <1>1, <2>1, RemountKeeps
<1>3. CASE outcome # "ok"
  <2>1. mem' = [mem EXCEPT !.window = mem.window]
    BY <1>3 DEF AfterMbr, Placed
  <2>2. mem' = mem
    BY <1>1, <2>1 DEF Mem
  <2>3. Placed(dk, mem) /\ Mounted(dk, mem)
    <3>1. Placed(dk, mem) /\ mem.drive \in Drives
      BY <1>1, PlacedAnyDisk DEF Mem
    <3>2. dk[mem.drive].vol = disk[mem.drive].vol
      BY <3>1 DEF SameVolumes
    <3> QED
      BY <3>1, <3>2 DEF Mounted
  <2> QED
    BY <1>1, <2>2, <2>3
<1> QED
  BY <1>2, <1>3-----------------------------------------------------------------------------
(* The steps.                                                              *)
Calls == reg \in [slot : {0} \cup Slots, new : Size, by : Size] /\ calls \in 0 .. MaxCalls

LEMMA Atom ==
    \A o \in Outcome : Landed(o) <=> o # "failed"
BY DEF Landed

LEMMA IdleInv ==
    ASSUME DrivesOK(disk), Placed(disk, mem), Mounted(disk, mem), Idle, Calls
    PROVE  IInv
BY DEF IInv, Idle, Calls, ShrinkOK, FormatOK, Shrinking, Formatting

LEMMA IdleFacts ==
    ASSUME IInv, Idle
    PROVE  DrivesOK(disk) /\ Placed(disk, mem) /\ Mounted(disk, mem) /\ mem \in Mem /\ Calls
BY DEF IInv, Idle, Formatting, Placed, Calls

LEMMA InitOK == Init => IInv
<1> SUFFICES ASSUME Init PROVE IInv
  OBVIOUS
<1>1. DrivesOK(disk)
  BY VolumeAssumption DEF Init, DrivesOK
<1>2. MemAtBoot \in Mem
  BY Sizes DEF MemAtBoot, Mem
<1>3. Placed(disk, mem) /\ Mounted(disk, mem)
  BY <1>1, <1>2, RemountKeeps DEF Init
<1>4. Calls /\ Idle
  BY Sizes DEF Init, Calls, NoReg, Idle
<1> QED
  BY <1>1, <1>3, <1>4, IdleInv

LEMMA MountSlotStep == IInv /\ MountSlot => IInv'
<1> SUFFICES ASSUME IInv, MountSlot PROVE IInv'
  OBVIOUS
<1>1. Idle
  BY DEF MountSlot
<1>2. PICK i \in Slots, rd \in Reads : mem' = MountResult(mem, i, rd)
  BY DEF MountSlot
<1>3. Placed(disk, mem') /\ Mounted(disk, mem')
  BY <1>1, <1>2, IdleFacts, MountKeeps
<1>4. disk' = disk /\ Idle' /\ Calls'
  BY <1>1, IdleFacts DEF MountSlot, Idle, Calls
<1>5. DrivesOK(disk)' /\ Placed(disk, mem)' /\ Mounted(disk, mem)'
  BY <1>1, <1>3, <1>4, IdleFacts DEF DrivesOK, Placed, Mounted
<1> QED
  BY <1>4, <1>5, IdleInv, PTL

LEMMA SwitchDriveStep == IInv /\ SwitchDrive => IInv'
<1> SUFFICES ASSUME IInv, SwitchDrive PROVE IInv'
  OBVIOUS
<1>1. Idle
  BY DEF SwitchDrive
<1>2. PICK d \in Drives, rd \in Reads : mem' = DriveResult(mem, d, rd)
  BY DEF SwitchDrive
<1>3. Placed(disk, mem') /\ Mounted(disk, mem')
  BY <1>1, <1>2, IdleFacts, DriveKeeps
<1>4. disk' = disk /\ Idle' /\ Calls'
  BY <1>1, IdleFacts DEF SwitchDrive, Idle, Calls
<1>5. DrivesOK(disk)' /\ Placed(disk, mem)' /\ Mounted(disk, mem)'
  BY <1>1, <1>3, <1>4, IdleFacts DEF DrivesOK, Placed, Mounted
<1> QED
  BY <1>4, <1>5, IdleInv, PTL
LEMMA WriteCounts == ASSUME IInv, Writes PROVE calls' \in 0 .. MaxCalls
BY Sizes DEF IInv, Writes

LEMMA MbrStep ==
    ASSUME IInv, pc \notin Formatting, NEW i \in Slots, NEW entry \in Entry,
           NEW outcome \in Outcome, AfterMbr(outcome, SetTable(i, entry)), Idle', Calls'
    PROVE  IInv'
<1>1. /\ DrivesOK(disk) /\ Placed(disk, mem) /\ Mounted(disk, mem) /\ mem.drive \in Drives
  BY DEF IInv, Placed, Mem
<1>2. DrivesOK(SetTable(i, entry)) /\ SameVolumes(SetTable(i, entry))
  BY <1>1, TableWrites
<1>3. DrivesOK(disk') /\ Placed(disk', mem') /\ Mounted(disk', mem')
  BY <1>1, <1>2, AfterMbrKeeps
<1>4. DrivesOK(disk)' /\ Placed(disk, mem)' /\ Mounted(disk, mem)'
  BY <1>3 DEF DrivesOK, Placed, Mounted
<1> QED
  BY <1>4, IdleInv, PTL

LEMMA FitsProperties ==
    ASSUME NEW n \in Nat, Fits(n) # {}
    PROVE  Min(Fits(n)) \in Fits(n) /\ Min(Fits(n)) \in Units
<1>1. Fits(n) \in SUBSET Units /\ Units \in SUBSET Nat
  BY Sizes DEF Fits, Units
<1>2. Fits(n) \in SUBSET Nat
  BY <1>1
<1> QED
  BY <1>1, <1>2, MinProperties

(* A number of MiB of the drive, counted in units.                         *)
LEMMA MibProperties ==
    ASSUME NEW mib \in 1 .. DriveUnits \div Align
    PROVE  mib * Align \in 1 .. DriveUnits
<1> DEFINE q == DriveUnits \div Align
<1>1. q \in Int /\ DriveUnits = (Align * q) + (DriveUnits % Align) /\ DriveUnits % Align \in 0 .. Align - 1
  BY Sizes
<1>2. mib \in Int /\ 1 <= mib /\ mib <= q
  BY <1>1
<1> HIDE DEF q
<1>3. mib * Align <= Align * q
  BY <1>1, <1>2, Sizes
<1>4. Align <= mib * Align /\ mib * Align \in Int
  BY <1>2, Sizes
<1> QED
  BY <1>1, <1>3, <1>4, Sizes

LEMMA CreateStep == IInv /\ Create => IInv'
<1> SUFFICES ASSUME IInv, Create PROVE IInv'
  OBVIOUS
<1>1. Idle /\ Writes /\ FirstEmptySlot # {}
  BY DEF Create, Writes
<1>2. PICK mib \in 1 .. DriveUnits \div Align, outcome \in Outcome :
        /\ Fits(mib * Align) # {}
        /\ AfterMbr(outcome, SetTable(Min(FirstEmptySlot),
                       Partition("fat32", Min(Fits(mib * Align)), mib * Align, FALSE)))
  BY DEF Create
<1> DEFINE entry == Partition("fat32", Min(Fits(mib * Align)), mib * Align, FALSE)
<1>3. Min(FirstEmptySlot) \in Slots
  BY <1>1, Sizes, MinProperties DEF FirstEmptySlot
<1>4. mib * Align \in Nat
  BY MibProperties, Sizes
<1>5. entry \in Entry
  BY <1>2, <1>4, FitsProperties DEF Partition, Entry, Units
<1>6. Idle' /\ Calls'
  BY <1>1, WriteCounts, IdleFacts DEF Create, Idle, Calls
<1> QED
  BY <1>1, <1>2, <1>3, <1>5, <1>6, MbrStep DEF Idle, Formatting

LEMMA DeleteStep == IInv /\ Delete => IInv'
<1> SUFFICES ASSUME IInv, Delete PROVE IInv'
  OBVIOUS
<1>1. Idle /\ Writes
  BY DEF Delete, Writes
<1>2. PICK i \in Slots, outcome \in Outcome : AfterMbr(outcome, SetTable(i, Empty))
  BY DEF Delete
<1>3. Idle' /\ Calls'
  BY <1>1, WriteCounts, IdleFacts DEF Delete, Idle, Calls
<1> QED
  BY <1>1, <1>2, <1>3, Sizes, MbrStep DEF Idle, Formatting
-----------------------------------------------------------------------------
(* The writes of a shrink.                                                 *)
LEMMA ShrinkFacts ==
    ASSUME IInv, pc \in Shrinking
    PROVE  /\ DrivesOK(disk) /\ Placed(disk, mem) /\ Mounted(disk, mem) /\ mem \in Mem
           /\ mem.drive \in Drives /\ Here \in DriveState /\ mem.selected \in Slots
           /\ mem.selected # 0 /\ reg.slot = mem.selected /\ mem.fs.mounted
           /\ mem.window = Region(mem.parts[reg.slot])
           /\ Base \in Units /\ Base = mem.window.start
           /\ mem.window.count = mem.parts[reg.slot].count
           /\ mem.parts[reg.slot] \in Entry
           /\ InDrive(mem.parts[reg.slot]) /\ IsFat32(mem.parts[reg.slot])
           /\ Vol \in VolumeRecord /\ FilesFit(Vol)
           /\ mem.fs.total \in Size /\ Vol.primary \in 1 .. mem.fs.total
           /\ Vol.sound => Vol.primary = mem.fs.total
           /\ mem.fs.total <= mem.window.count
           /\ reg.new \in Size /\ reg.new \in 1 .. mem.parts[reg.slot].count - 1
<1>1. /\ DrivesOK(disk) /\ Placed(disk, mem) /\ Mounted(disk, mem) /\ mem \in Mem
      /\ Selected(mem) /\ reg.slot = mem.selected /\ mem.fs.mounted
      /\ reg.new \in Size /\ reg.new \in 1 .. mem.parts[reg.slot].count - 1
  BY DEF IInv, ShrinkOK, Placed, Shrinking, Formatting
<1>2. /\ mem.drive \in Drives /\ mem.selected \in Slots /\ mem.selected # 0
      /\ mem.parts[reg.slot] \in Entry /\ mem.fs.total \in Size
  BY <1>1 DEF Mem, Selected
<1>3. /\ mem.window = Region(mem.parts[reg.slot])
      /\ InDrive(mem.parts[reg.slot]) /\ IsFat32(mem.parts[reg.slot])
  BY <1>1 DEF Placed, Home
<1>4. /\ Base \in Units /\ Base = mem.window.start
      /\ mem.window.count = mem.parts[reg.slot].count
  BY <1>2, <1>3, InDriveRegion DEF Base
<1>5. Here \in DriveState
  BY <1>1, <1>2 DEF DrivesOK, Here
<1>6. Vol \in VolumeRecord /\ FilesFit(Vol)
  BY <1>1, <1>2, <1>4, <1>5 DEF DrivesOK, Here, Vol, DriveState
<1>7. Vol.primary \in 1 .. mem.fs.total /\ mem.fs.total <= mem.window.count
  BY <1>1, <1>4 DEF Mounted, Vol, Here
<1>8. Vol.sound => Vol.primary = mem.fs.total
  BY <1>1, <1>4 DEF Mounted, Vol, Here
<1> QED
  BY <1>1, <1>2, <1>3, <1>4, <1>5, <1>6, <1>7, <1>8

LEMMA ShrinkWrites ==
    ASSUME IInv, pc \in Shrinking, NEW v \in VolumeRecord, FilesFit(v),
           v.primary \in 1 .. mem.fs.total, v.sound => v.primary = mem.fs.total
    PROVE  /\ DrivesOK(SetVol(v)) /\ Placed(SetVol(v), mem) /\ Mounted(SetVol(v), mem)
           /\ SetVol(v)[mem.drive].vol[Base] = v /\ SetVol(v)[mem.drive].table = Here.table
           /\ SetVol(v)[mem.drive].signed = Here.signed
<1>1. /\ DrivesOK(SetVol(v)) /\ SameMbr(SetVol(v)) /\ SetVol(v)[mem.drive].vol[Base] = v
  BY ShrinkFacts, VolumeWrites
<1>2. Placed(SetVol(v), mem)
  BY <1>1, ShrinkFacts, PlacedAnyDisk
<1>3. Mounted(SetVol(v), mem)
  BY <1>1, ShrinkFacts DEF Mounted
<1>4. /\ SetVol(v)[mem.drive].table = Here.table
      /\ SetVol(v)[mem.drive].signed = Here.signed
  BY <1>1, ShrinkFacts DEF SameMbr, Here
<1> QED
  BY <1>1, <1>2, <1>3, <1>4

LEMMA ShrinkBeginStep == IInv /\ ShrinkBegin => IInv'
<1> SUFFICES ASSUME IInv, ShrinkBegin PROVE IInv'
  OBVIOUS
<1>1. /\ Idle /\ Writes /\ DrivesOK(disk) /\ Placed(disk, mem) /\ Mounted(disk, mem)
      /\ mem \in Mem /\ Calls
  BY IdleFacts DEF ShrinkBegin, Writes
<1>2. PICK i \in Slots, mib \in 1 .. DriveUnits \div Align :
        LET by == mib * Align
            new == mem.parts[i].count - by
        IN  /\ Shrinkable(i, by)
            /\ \/ AlreadyShrunk(new) /\ pc' = "table"
               \/ CanShrinkFat(mem.parts[i].start, new) /\ pc' = "backup"
            /\ reg' = [slot |-> i, new |-> new, by |-> by]
            /\ mem' = [mem EXCEPT !.window = Region(mem.parts[i])]
  BY DEF ShrinkBegin
<1> DEFINE by == mib * Align
           new == mem.parts[i].count - by
<1>3. by \in 1 .. DriveUnits
  BY MibProperties
<1> HIDE DEF by
<1>4. /\ Selected(mem) /\ i = mem.selected /\ by < mem.parts[i].count
      /\ Region(Here.table[i]) = Region(mem.parts[i])
      /\ IsFat32(Here.table[i]) /\ InDrive(mem.parts[i])
  BY <1>2 DEF Shrinkable, Editable, IsFat32, by
<1>5. mem.parts[i] \in Entry /\ mem.parts[i].count \in 1 .. DriveUnits
  BY <1>1, <1>4, InDriveRegion DEF Mem
<1>6. new \in 1 .. mem.parts[i].count - 1 /\ new \in Size /\ by \in Size
  BY <1>3, <1>4, <1>5, Sizes DEF Size
<1>7. reg' = [slot |-> i, new |-> new, by |-> by] /\ pc' \in {"table", "backup"}
  BY <1>2 DEF by
<1>8. mem' = mem /\ disk' = disk
  <2>1. mem.window = Region(mem.parts[i])
    BY <1>1, <1>4 DEF Placed, Home
  <2>2. mem' = [mem EXCEPT !.window = mem.window] /\ disk' = disk
    BY <1>2, <2>1 DEF ShrinkBegin
  <2> QED
    BY <1>1, <2>2 DEF Mem
<1> HIDE DEF new
<1>9. ShrinkOK'
  <2>1. /\ mem.fs.mounted
        /\ pc' = "table" => mem.fs.total = new
        /\ pc' = "backup" => CanShrinkFat(mem.parts[i].start, new)
    BY <1>2 DEF AlreadyShrunk, CanShrinkFat, new, by
  <2>2. /\ reg.slot' = i /\ reg.new' = new /\ Base' = mem.parts[i].start /\ Here' = Here
    BY <1>7, <1>8 DEF Base, Here
  <2>3. Vol' = Here.vol[mem.parts[i].start]
    BY <2>2 DEF Vol
  <2> QED
    BY <1>4, <1>6, <1>7, <1>8, <2>1, <2>2, <2>3 DEF ShrinkOK, CanShrinkFat, TailIsFree, Selected
<1>10. FormatOK' /\ pc' \in Shrinking
  BY <1>7 DEF FormatOK, Formatting, Shrinking
<1>11. /\ reg' \in [slot : {0} \cup Slots, new : Size, by : Size] /\ calls' \in 0 .. MaxCalls
  BY <1>1, <1>6, <1>7, WriteCounts
<1>12. DrivesOK(disk)' /\ Placed(disk, mem)' /\ Mounted(disk, mem)'
  BY <1>1, <1>8 DEF DrivesOK, Placed, Mounted
<1> QED
  BY <1>9, <1>10, <1>11, <1>12 DEF IInv
LEMMA IdleAfter ==
    ASSUME IInv, DrivesOK(disk'), Placed(disk', mem'), Mounted(disk', mem'), Return
    PROVE  IInv'
<1>1. Idle' /\ Calls'
  BY Sizes DEF Return, NoReg, Calls, Idle, IInv
<1>2. DrivesOK(disk)' /\ Placed(disk, mem)' /\ Mounted(disk, mem)'
  BY DEF DrivesOK, Placed, Mounted
<1> QED
  BY <1>1, <1>2, IdleInv, PTL

LEMMA ShrinkBackupStep ==
    ASSUME IInv, NEW outcome \in Outcome, ShrinkBackup(outcome) PROVE IInv'
<1> DEFINE v == [Vol EXCEPT !.backup = reg.new]
<1>1. pc = "backup" /\ pc \in Shrinking /\ mem' = mem
  BY DEF ShrinkBackup, Shrinking
<1>2. /\ v \in VolumeRecord /\ v.primary = Vol.primary /\ v.high = Vol.high /\ v.sound = Vol.sound
      /\ Shaken(v) \in VolumeRecord /\ Shaken(v).primary = Vol.primary /\ ~Shaken(v).sound
  BY <1>1, ShrinkFacts DEF VolumeRecord, Shaken
<1> HIDE DEF v
<1>3. FilesFit(v) /\ FilesFit(Shaken(v))
  BY <1>1, <1>2, ShrinkFacts DEF FilesFit
<1>4. CASE outcome = "ok"
  <2>1. disk' = SetVol(v) /\ pc' = "primary" /\ reg' = reg /\ calls' = calls
    BY <1>4 DEF ShrinkBackup, Step, v
  <2>2. /\ DrivesOK(disk') /\ Placed(disk', mem') /\ Mounted(disk', mem')
        /\ Here'.vol[Base] = v /\ Here'.table = Here.table /\ Base' = Base
    BY <1>1, <1>2, <1>3, <2>1, ShrinkFacts, ShrinkWrites DEF Here, Base
  <2>3. ShrinkOK'
    <3>1. Vol' = v
      BY <2>2 DEF Vol
    <3> QED
      BY <1>1, <1>2, <2>1, <2>2, <3>1, Sizes DEF IInv, ShrinkOK, Shrinking, Selected
  <2>4. DrivesOK(disk)' /\ Placed(disk, mem)' /\ Mounted(disk, mem)'
    BY <2>2 DEF DrivesOK, Placed, Mounted
  <2> QED
    BY <2>1, <2>3, <2>4 DEF IInv, FormatOK, Formatting, Shrinking
<1>5. CASE outcome = "failed"
  <2>1. disk' = disk /\ Return
    BY <1>5 DEF ShrinkBackup
  <2> QED
    BY <1>1, <2>1, ShrinkFacts, IdleAfter
<1>6. CASE outcome = "landed"
  <2>1. disk' = SetVol(Shaken(v)) /\ Return
    BY <1>6 DEF ShrinkBackup, v
  <2> QED
    BY <1>1, <1>2, <1>3, <2>1, ShrinkFacts, ShrinkWrites, IdleAfter
<1> QED
  BY <1>4, <1>5, <1>6 DEF Outcome

LEMMA ShrinkPrimaryStep ==
    ASSUME IInv, NEW outcome \in Outcome, ShrinkPrimary(outcome) PROVE IInv'
<1> DEFINE v == [Vol EXCEPT !.primary = reg.new]
<1>1. pc = "primary" /\ pc \in Shrinking
  BY DEF ShrinkPrimary, Shrinking
<1>2. Vol.high < reg.new /\ reg.new < mem.fs.total /\ reg.new \in Size /\ reg.new # 0
  BY <1>1, ShrinkFacts DEF IInv, ShrinkOK, Shrinking
<1>3. /\ v \in VolumeRecord /\ v.primary = reg.new /\ v.high = Vol.high /\ v.sound = Vol.sound
      /\ Shaken(v) \in VolumeRecord /\ Shaken(v).primary = reg.new /\ ~Shaken(v).sound
  BY <1>1, <1>2, ShrinkFacts DEF VolumeRecord, Shaken
<1> HIDE DEF v
<1>4. FilesFit(v) /\ FilesFit(Shaken(v))
  BY <1>2, <1>3 DEF FilesFit
<1>5. reg.new \in 1 .. mem.fs.total
  BY <1>1, <1>2, ShrinkFacts DEF Size
<1>6. CASE outcome = "ok"
  <2> DEFINE fs == [mem.fs EXCEPT !.total = reg.new]
  <2>1. /\ disk' = SetVol(v) /\ pc' = "table" /\ reg' = reg /\ calls' = calls
        /\ mem' = [mem EXCEPT !.fs.total = reg.new]
    BY <1>6 DEF ShrinkPrimary, Step, v
  <2>2. mem' = [mem EXCEPT !.fs = fs]
    BY <2>1
  <2>3. fs \in [mounted : BOOLEAN, total : Size] /\ fs.mounted /\ fs.total = reg.new
    BY <1>1, <1>2, ShrinkFacts DEF Mem
  <2> HIDE DEF fs
  <2>4. /\ mem' \in Mem /\ mem'.fs = fs /\ mem'.drive = mem.drive /\ mem'.parts = mem.parts
        /\ mem'.selected = mem.selected /\ mem'.superfloppy = mem.superfloppy
        /\ mem'.window = mem.window
    BY <1>1, <2>2, <2>3, ShrinkFacts, FsReplaced
  <2>5. /\ DrivesOK(SetVol(v)) /\ SameMbr(SetVol(v)) /\ SetVol(v)[mem.drive].vol[Base] = v
    BY <1>1, <1>3, <1>4, ShrinkFacts, VolumeWrites
  <2>6. Placed(disk', mem)
    BY <1>1, <2>1, <2>5, ShrinkFacts, PlacedAnyDisk
  <2>7. Placed(disk', mem')
    BY <2>4, <2>6 DEF Placed, Home, Selected, Superfloppy
  <2>8. Base' = Base /\ Here'.vol[Base] = v /\ Here'.table = Here.table
    BY <1>1, <2>1, <2>4, <2>5, ShrinkFacts DEF Base, Here, SameMbr
  <2>9. Mounted(disk', mem')
    <3>1. Ready(mem') /\ disk'[mem'.drive].vol[mem'.window.start] = v
      BY <1>1, <2>1, <2>4, <2>5, ShrinkFacts DEF Ready, Selected
    <3>2. reg.new <= mem.window.count
      BY <1>1, <1>5, ShrinkFacts DEF Size, Mem, Window
    <3> QED
      BY <1>2, <1>3, <2>3, <2>4, <3>1, <3>2, Sizes DEF Mounted, Size
  <2>10. ShrinkOK'
    BY <1>1, <2>1, <2>3, <2>4, <2>8 DEF IInv, ShrinkOK, Shrinking, Selected
  <2>11. DrivesOK(disk)' /\ Placed(disk, mem)' /\ Mounted(disk, mem)'
    BY <2>1, <2>5, <2>7, <2>9 DEF DrivesOK, Placed, Mounted
  <2> QED
    BY <2>1, <2>10, <2>11 DEF IInv, FormatOK, Formatting, Shrinking
<1>7. CASE outcome \in {"failed", "landed"}
  <2>1. /\ disk' \in {disk, SetVol(Shaken(v))} /\ mem' = mem
        /\ pc' = "rollback" /\ reg' = reg /\ calls' = calls
    BY <1>7 DEF ShrinkPrimary, Step, v
  <2>2. /\ DrivesOK(disk') /\ Placed(disk', mem') /\ Mounted(disk', mem')
        /\ Here'.table = Here.table
    BY <1>1, <1>3, <1>4, <1>5, <2>1, ShrinkFacts, ShrinkWrites DEF Here
  <2>3. ShrinkOK'
    BY <1>1, <2>1, <2>2 DEF IInv, ShrinkOK, Shrinking, Selected
  <2>4. DrivesOK(disk)' /\ Placed(disk, mem)' /\ Mounted(disk, mem)'
    BY <2>2 DEF DrivesOK, Placed, Mounted
  <2> QED
    BY <2>1, <2>3, <2>4 DEF IInv, FormatOK, Formatting, Shrinking
<1> QED
  BY <1>6, <1>7 DEF Outcome

LEMMA ShrinkRollbackStep ==
    ASSUME IInv, NEW outcome \in Outcome, ShrinkRollback(outcome) PROVE IInv'
<1> DEFINE v == IF Landed(outcome) THEN [Vol EXCEPT !.backup = mem.fs.total] ELSE Shaken(Vol)
<1>1. pc \in Shrinking /\ mem' = mem /\ disk' = SetVol(v) /\ Return
  BY DEF ShrinkRollback, Shrinking
<1>2. v \in VolumeRecord /\ v.primary = Vol.primary /\ v.high = Vol.high /\ (v.sound => Vol.sound)
  BY <1>1, ShrinkFacts DEF VolumeRecord, Shaken
<1> HIDE DEF v
<1>3. FilesFit(v)
  BY <1>1, <1>2, ShrinkFacts DEF FilesFit
<1> QED
  BY <1>1, <1>2, <1>3, ShrinkFacts, ShrinkWrites, IdleAfter

LEMMA ShrinkTableStep ==
    ASSUME IInv, NEW outcome \in Outcome, ShrinkTable(outcome) PROVE IInv'
<1> DEFINE entry == [Here.table[reg.slot] EXCEPT !.count = reg.new]
<1>1. /\ pc \in Shrinking /\ pc \notin Formatting /\ Return
      /\ AfterMbr(outcome, SetTable(reg.slot, entry))
  BY DEF ShrinkTable, Shrinking, Formatting
<1>2. reg.slot \in Slots /\ Here.table[reg.slot] \in Entry
  BY <1>1, ShrinkFacts DEF DriveState
<1>3. entry \in Entry
  BY <1>1, <1>2, ShrinkFacts, Sizes DEF Entry, Size
<1> HIDE DEF entry
<1>4. Idle' /\ Calls'
  BY <1>1, Sizes DEF Return, NoReg, Calls, Idle, IInv
<1> QED
  BY <1>1, <1>2, <1>3, <1>4, MbrStep
-----------------------------------------------------------------------------
(* The writes of a format, the files, and the power failure.               *)
LEMMA FormatFacts ==
    ASSUME IInv, pc \in Formatting
    PROVE  /\ DrivesOK(disk) /\ mem \in Mem /\ mem.drive \in Drives /\ Here \in DriveState
           /\ ~mem.fs.mounted /\ reg.slot \in Slots
           /\ Base \in Units /\ Vol \in VolumeRecord /\ FilesFit(Vol)
           /\ reg.new \in 1 .. DriveUnits /\ reg.new \in Size
<1>1. /\ DrivesOK(disk) /\ mem \in Mem /\ ~mem.fs.mounted /\ reg.slot \in Slots
      /\ InDrive(mem.parts[reg.slot]) /\ reg.new = mem.parts[reg.slot].count
      /\ reg.new \in Size
  BY DEF IInv, FormatOK
<1>2. mem.drive \in Drives /\ mem.parts[reg.slot] \in Entry /\ Here \in DriveState
  BY <1>1 DEF Mem, DrivesOK, Here
<1>3. Base \in Units /\ reg.new \in 1 .. DriveUnits
  BY <1>1, <1>2, InDriveRegion DEF Base
<1>4. Vol \in VolumeRecord /\ FilesFit(Vol)
  BY <1>1, <1>2, <1>3 DEF DrivesOK, Here, Vol, DriveState
<1> QED
  BY <1>1, <1>2, <1>3, <1>4

LEMMA FormatBeginStep == IInv /\ FormatBegin => IInv'
<1> SUFFICES ASSUME IInv, FormatBegin PROVE IInv'
  OBVIOUS
<1>1. /\ Writes /\ DrivesOK(disk) /\ Placed(disk, mem) /\ mem \in Mem /\ disk' = disk
      /\ pc' = "wipe"
  BY IdleFacts DEF FormatBegin, Writes
<1>2. PICK i \in Slots :
        /\ Formattable(i)
        /\ reg' = [slot |-> i, new |-> mem.parts[i].count, by |-> 0]
        /\ mem' = [Unmount(mem) EXCEPT !.window = Region(mem.parts[i])]
  BY DEF FormatBegin
<1>3. InDrive(mem.parts[i]) /\ mem.parts[i] \in Entry
  BY <1>1, <1>2 DEF Formattable, Mem
<1>4. Region(mem.parts[i]) \in Window /\ mem.parts[i].count \in Size
  BY <1>3, InDriveRegion DEF Size
<1>5. Unmount(mem) \in Mem /\ ~Unmount(mem).fs.mounted /\ Unmount(mem).parts = mem.parts
  BY <1>1, UnmountKeeps
<1>6. /\ mem' \in Mem /\ ~mem'.fs.mounted /\ mem'.parts = mem.parts
      /\ mem'.window = Region(mem.parts[i])
  BY <1>2, <1>4, <1>5 DEF Mem
<1>7. FormatOK'
  BY <1>2, <1>3, <1>6 DEF FormatOK
<1>8. Mounted(disk, mem)' /\ DrivesOK(disk)'
  BY <1>1, <1>6 DEF Mounted, DrivesOK
<1>9. reg' \in [slot : {0} \cup Slots, new : Size, by : Size] /\ calls' \in 0 .. MaxCalls
  BY <1>1, <1>2, <1>4, Sizes, WriteCounts
<1> QED
  BY <1>1, <1>7, <1>8, <1>9 DEF IInv, ShrinkOK, Shrinking, Formatting

LEMMA FormatStep ==
    ASSUME IInv, pc \in Formatting, NEW v \in VolumeRecord, FilesFit(v),
           disk' \in {disk, SetVol(v)},
           \/ pc' \in Formatting /\ mem' = mem /\ UNCHANGED <<reg, calls>>
           \/ FormatEnds
    PROVE  IInv'
<1>1. DrivesOK(disk')
  BY FormatFacts, VolumeWrites
<1>2. CASE pc' \in Formatting /\ mem' = mem /\ UNCHANGED <<reg, calls>>
  <2>1. DrivesOK(disk)' /\ Mounted(disk, mem)'
    BY <1>1, <1>2, FormatFacts DEF DrivesOK, Mounted
  <2>2. FormatOK' /\ ShrinkOK'
    BY <1>2 DEF IInv, FormatOK, ShrinkOK, Formatting, Shrinking
  <2> QED
    BY <1>2, <2>1, <2>2 DEF IInv
<1>3. CASE FormatEnds
  <2>1. PICK rd \in InitReads : mem' = Remount(disk', mem, rd)
    BY <1>3 DEF FormatEnds
  <2>2. Placed(disk', mem') /\ Mounted(disk', mem')
    BY <1>1, <2>1, FormatFacts, RemountKeeps
  <2> QED
    BY <1>1, <1>3, <2>2, IdleAfter DEF FormatEnds
<1> QED
  BY <1>2, <1>3

LEMMA FormatWipeStep ==
    ASSUME IInv, NEW outcome \in Outcome, FormatWipe(outcome) PROVE IInv'
<1> DEFINE v == Shaken([Vol EXCEPT !.high = 0])
<1>1. pc \in Formatting
  BY DEF FormatWipe, Formatting
<1>2. v \in VolumeRecord /\ FilesFit(v)
  BY <1>1, FormatFacts, Sizes DEF VolumeRecord, Shaken, FilesFit
<1>3. /\ disk' \in {disk, SetVol(v)}
      /\ \/ pc' \in Formatting /\ mem' = mem /\ UNCHANGED <<reg, calls>>
         \/ FormatEnds
  BY DEF FormatWipe, Step, Formatting
<1> QED
  BY <1>1, <1>2, <1>3, FormatStep

LEMMA FormatBackupStep ==
    ASSUME IInv, NEW outcome \in Outcome, FormatBackup(outcome) PROVE IInv'
<1> DEFINE v == [Vol EXCEPT !.backup = reg.new]
<1>1. pc \in Formatting
  BY DEF FormatBackup, Formatting
<1>2. v \in VolumeRecord /\ FilesFit(v)
  BY <1>1, FormatFacts DEF VolumeRecord, FilesFit
<1>3. /\ disk' \in {disk, SetVol(v)}
      /\ \/ pc' \in Formatting /\ mem' = mem /\ UNCHANGED <<reg, calls>>
         \/ FormatEnds
  BY DEF FormatBackup, Step, Formatting
<1> QED
  BY <1>1, <1>2, <1>3, FormatStep

LEMMA FormatPrimaryStep ==
    ASSUME IInv, NEW outcome \in Outcome, FormatPrimary(outcome) PROVE IInv'
<1> DEFINE v == Formatted(reg.new)
<1>1. pc \in Formatting
  BY DEF FormatPrimary, Formatting
<1>2. v \in VolumeRecord /\ FilesFit(v)
  BY <1>1, FormatFacts, Sizes DEF VolumeRecord, FilesFit, Formatted
<1>3. disk' \in {disk, SetVol(v)} /\ FormatEnds
  BY DEF FormatPrimary
<1> QED
  BY <1>1, <1>2, <1>3, FormatStep

LEMMA UseFilesStep == IInv /\ UseFiles => IInv'
<1> SUFFICES ASSUME IInv, UseFiles PROVE IInv'
  OBVIOUS
<1> DEFINE u == mem.window.start
<1>1. /\ Idle /\ mem.fs.mounted /\ DrivesOK(disk) /\ Placed(disk, mem) /\ Mounted(disk, mem)
      /\ mem \in Mem /\ Calls
  BY IdleFacts DEF UseFiles
<1>2. /\ mem.drive \in Drives /\ Here \in DriveState /\ u \in Units
      /\ Here.vol \in [Units -> VolumeRecord] /\ mem.fs.total \in Size
  BY <1>1, PlacedWindow DEF Mem, DrivesOK, Here, DriveState
<1>3. PICK h \in 0 .. mem.fs.total - 1 :
        disk' = [disk EXCEPT ![mem.drive].vol = [v \in Units |->
                   IF v = u THEN [Here.vol[u] EXCEPT !.high = h]
                   ELSE IF v - u \in Here.vol[u].high + 1 .. h THEN Blank
                   ELSE Here.vol[v]]]
  BY DEF UseFiles
<1> DEFINE own == [Here.vol[u] EXCEPT !.high = h]
           volumes == [v \in Units |-> IF v = u THEN own
                                       ELSE IF v - u \in Here.vol[u].high + 1 .. h THEN Blank
                                       ELSE Here.vol[v]]
           new == [Here EXCEPT !.vol = volumes]
<1>4. /\ own \in VolumeRecord /\ own.high = h /\ own.primary = Here.vol[u].primary
      /\ own.sound = Here.vol[u].sound
  BY <1>2, Sizes DEF VolumeRecord, Size
<1>5. FilesFit(own)
  <2>1. Here.vol[u].sound => Here.vol[u].primary = mem.fs.total
    BY <1>1 DEF Mounted, Here
  <2>2. h \in Nat /\ h < mem.fs.total
    BY <1>2, Sizes DEF Size
  <2> HIDE DEF own, u
  <2>3. own.sound => own.high < own.primary
    BY <1>4, <2>1, <2>2
  <2>4. own.high = h /\ own.primary \in Nat /\ own.high \in Nat
    BY <1>4, <2>2, Sizes DEF VolumeRecord, Size
  <2> QED
    BY <2>3, <2>4 DEF FilesFit
<1>6. Blank \in VolumeRecord /\ FilesFit(Blank)
  BY Sizes DEF Blank, VolumeRecord, FilesFit
<1> HIDE DEF own
<1>7. /\ volumes \in [Units -> VolumeRecord] /\ volumes[u] = own
      /\ \A v \in Units : FilesFit(volumes[v])
  <2>1. \A v \in Units : FilesFit(Here.vol[v])
    BY <1>1, <1>2 DEF DrivesOK, Here
  <2> QED
    BY <1>2, <1>4, <1>5, <1>6, <2>1
<1>8. disk' = [disk EXCEPT ![mem.drive] = new]
  BY <1>3 DEF own, Here
<1> HIDE DEF volumes
<1>9. /\ new \in DriveState /\ new.signed = Here.signed /\ new.table = Here.table
      /\ new.vol = volumes
  BY <1>2, <1>7 DEF DriveState
<1> HIDE DEF new
<1>10. /\ disk' \in [Drives -> DriveState] /\ disk'[mem.drive] = new
       /\ \A d \in Drives \ {mem.drive} : disk'[d] = disk[d]
  BY <1>1, <1>2, <1>8, <1>9 DEF DrivesOK
<1>11. DrivesOK(disk') /\ SameMbr(disk')
  <2>1. ASSUME NEW d \in Drives, NEW v \in Units PROVE FilesFit(disk'[d].vol[v])
    BY <1>1, <1>7, <1>9, <1>10 DEF DrivesOK
  <2> QED
    BY <1>9, <1>10, <2>1 DEF DrivesOK, SameMbr, Here
<1>12. mem' = mem /\ Idle' /\ Calls'
  BY <1>1 DEF UseFiles, Idle, Calls
<1>13. Placed(disk', mem')
  BY <1>1, <1>11, <1>12, PlacedAnyDisk
<1>14. Mounted(disk', mem')
  BY <1>1, <1>4, <1>7, <1>9, <1>10, <1>12 DEF Mounted, Here
<1>15. DrivesOK(disk)' /\ Placed(disk, mem)' /\ Mounted(disk, mem)'
  BY <1>11, <1>13, <1>14 DEF DrivesOK, Placed, Mounted
<1> QED
  BY <1>12, <1>15, IdleInv, PTL

LEMMA RebootStep == IInv /\ Reboot => IInv'
<1> SUFFICES ASSUME IInv, Reboot PROVE IInv'
  OBVIOUS
<1>1. DrivesOK(disk')
  <2>1. CASE pc \in {"primary", "rollback", "format_backup", "format_primary"}
    <3>1. disk' = SetVol(Shaken(Vol)) /\ pc \in Shrinking \cup Formatting
      BY <2>1 DEF Reboot, Shrinking, Formatting
    <3>2. DrivesOK(disk) /\ mem.drive \in Drives /\ Base \in Units /\ Vol \in VolumeRecord
      BY <3>1, ShrinkFacts, FormatFacts
    <3>3. Shaken(Vol) \in VolumeRecord /\ FilesFit(Shaken(Vol))
      BY <3>2 DEF Shaken, VolumeRecord, FilesFit
    <3> QED
      BY <3>1, <3>2, <3>3, VolumeWrites
  <2>2. CASE pc \notin {"primary", "rollback", "format_backup", "format_primary"}
    BY <2>2 DEF Reboot, IInv
  <2> QED
    BY <2>1, <2>2
<1>2. MemAtBoot \in Mem
  BY Sizes DEF MemAtBoot, Mem
<1>3. Placed(disk', mem') /\ Mounted(disk', mem')
  <2>1. PICK rd \in InitReads : mem' = Remount(disk', MemAtBoot, rd)
    BY DEF Reboot
  <2> QED
    BY <1>1, <1>2, <2>1, RemountKeeps
<1>4. Return
  BY DEF Reboot, Return
<1> QED
  BY <1>1, <1>3, <1>4, IdleAfter
-----------------------------------------------------------------------------
(* The invariant, from every set of drives and with any number of calls.   *)
THEOREM Invariant == Spec => []IInv
<1>1. ASSUME IInv, [Next]_vars PROVE IInv'
  <2>1. CASE UNCHANGED vars
    BY <1>1, <2>1 DEF vars, IInv, DrivesOK, Placed, Mounted, ShrinkOK, FormatOK, Home, Here,
       Vol, Base
  <2>2. CASE Next
    BY <1>1, <2>2, MountSlotStep, SwitchDriveStep, CreateStep, DeleteStep, ShrinkBeginStep,
       FormatBeginStep, ShrinkBackupStep, ShrinkPrimaryStep, ShrinkRollbackStep,
       ShrinkTableStep, FormatWipeStep, FormatBackupStep, FormatPrimaryStep, UseFilesStep,
       RebootStep DEF Next
  <2> QED
    BY <1>1, <2>1, <2>2
<1> QED
  BY <1>1, InitOK, PTL DEF Spec

(* Sizes, slots and windows have their types, and the window never reaches *)
(* behind the drive: TypeOK of the runs.                                   *)
THEOREM Types == Spec => []TypeOK
<1>1. ASSUME IInv PROVE TypeOK
  <2>1. mem \in Mem /\ \A d \in Drives : \A u \in Units : disk[d].vol[u] \in VolumeRecord
    BY <1>1 DEF IInv, FormatOK, Placed, DrivesOK, DriveState
  <2>2. mem.window.start \in Units /\ mem.window.start + mem.window.count <= DriveUnits
    <3>1. CASE pc \in Formatting
      <4>1. /\ mem.parts[reg.slot] \in Entry /\ InDrive(mem.parts[reg.slot])
            /\ mem.window = Region(mem.parts[reg.slot])
        BY <1>1, <2>1, <3>1 DEF IInv, FormatOK, Mem
      <4> QED
        BY <4>1, InDriveRegion
    <3>2. CASE pc \notin Formatting
      BY <1>1, <3>2, PlacedWindow DEF IInv
    <3> QED
      BY <3>1, <3>2
  <2> QED
    BY <1>1, <2>1, <2>2 DEF IInv, TypeOK, Mem, Shrinking, Formatting
<1> QED
  BY <1>1, Invariant, PTL

(* Between two calls the window is that of the mounted volume.             *)
THEOREM WindowIsRestored == Spec => []MountedInWindow
<1>1. ASSUME IInv PROVE MountedInWindow
  <2> SUFFICES ASSUME Idle, mem.fs.mounted
               PROVE  /\ Ready(mem) /\ mem.window = Home(mem)
                      /\ mem.fs.total <= mem.window.count
                      /\ LET v == Here.vol[mem.window.start]
                         IN  v.sound => mem.fs.total = v.primary
    BY DEF MountedInWindow
  <2>1. Placed(disk, mem) /\ Mounted(disk, mem)
    BY <1>1, IdleFacts
  <2> QED
    BY <2>1 DEF Placed, Mounted, Here
<1> QED
  BY <1>1, Invariant, PTL

(* No file of a volume that can be mounted lies behind its end.            *)
THEOREM FilesStayInside == Spec => []FilesInside
<1>1. ASSUME IInv PROVE FilesInside
  <2> SUFFICES ASSUME NEW d \in Drives, NEW i \in Slots,
                      LET p == disk[d].table[i]
                          v == disk[d].vol[p.start]
                      IN  IsFat32(p) /\ InDrive(p) /\ v.primary \in 1 .. p.count /\ v.sound
               PROVE  LET p == disk[d].table[i]
                          v == disk[d].vol[p.start]
                      IN  v.high < v.primary
    BY DEF FilesInside
  <2>1. /\ disk[d].table[i] \in Entry
        /\ \A u \in Units : FilesFit(disk[d].vol[u])
    BY <1>1 DEF IInv, DrivesOK, DriveState
  <2>2. disk[d].table[i].start \in Units
    BY <2>1, InDriveRegion
  <2>3. FilesFit(disk[d].vol[disk[d].table[i].start])
    BY <2>1, <2>2
  <2>4. disk[d].table[i].count \in Nat
    BY <2>1 DEF Entry
  <2> QED
    <3> DEFINE p == disk[d].table[i]
               v == disk[d].vol[p.start]
    <3>1. v.sound /\ v.primary \in 1 .. p.count /\ FilesFit(v) /\ p.count \in Nat
      BY <2>3, <2>4
    <3> HIDE DEF p, v
    <3>2. v.high < v.primary
      BY <3>1 DEF FilesFit
    <3> QED
      BY <3>2 DEF p, v
<1> QED
  BY <1>1, Invariant, PTL

-----------------------------------------------------------------------------
(* What a step does to the tables: nothing, or one entry of the selected   *)
(* drive becomes one that fits.                                            *)
FitsTable(table, i, e) ==
    /\ i \in Slots /\ e \in Entry
    /\ ValidTable(table) =>
          /\ IF e.type = "none" THEN e.start = 0 /\ e.count = 0 ELSE e.start # 0 /\ InDrive(e)
          /\ \A j \in Slots \ {i} :
                \/ e.count = 0 \/ table[j].count = 0
                \/ e.start >= table[j].start + table[j].count
                \/ table[j].start >= e.start + e.count

LEMMA ValidAfter ==
    ASSUME NEW table \in [Slots -> Entry], NEW after \in [Slots -> Entry], NEW i \in Slots,
           FitsTable(table, i, after[i]), \A j \in Slots \ {i} : after[j] = table[j],
           ValidTable(table)
    PROVE  ValidTable(after)
<1>1. ASSUME NEW j \in Slots
      PROVE  IF after[j].type = "none" THEN after[j].start = 0 /\ after[j].count = 0
             ELSE after[j].start # 0 /\ InDrive(after[j])
  <2>1. CASE j = i
    BY <2>1 DEF FitsTable
  <2>2. CASE j # i
    BY <2>2 DEF ValidTable
  <2> QED
    BY <2>1, <2>2
<1>2. ASSUME NEW j \in Slots, NEW k \in Slots, j < k, after[j].count # 0, after[k].count # 0
      PROVE  \/ after[j].start >= after[k].start + after[k].count
             \/ after[k].start >= after[j].start + after[j].count
  <2>1. j # k
    BY <1>2, Sizes
  <2>2. CASE j = i
    BY <1>2, <2>1, <2>2 DEF FitsTable
  <2>3. CASE k = i
    BY <1>2, <2>1, <2>3 DEF FitsTable
  <2>4. CASE j # i /\ k # i
    BY <1>2, <2>4 DEF ValidTable
  <2> QED
    BY <2>2, <2>3, <2>4
<1> QED
  BY <1>1, <1>2 DEF ValidTable

TablesMove ==
    \/ \A d \in Drives : disk'[d].table = disk[d].table
    \/ \E i \in Slots : \E e \in Entry :
          /\ FitsTable(Here.table, i, e)
          /\ disk' \in {disk, SetTable(i, e)}

LEMMA TablesMoveSoundly ==
    ASSUME IInv, mem.drive \in Drives, TablesMove, NEW d \in Drives, ValidTable(disk[d].table)
    PROVE  ValidTable(disk'[d].table)
<1>1. CASE \A c \in Drives : disk'[c].table = disk[c].table
  BY <1>1
<1>2. CASE \E i \in Slots : \E e \in Entry :
             FitsTable(Here.table, i, e) /\ disk' \in {disk, SetTable(i, e)}
  <2>1. PICK i \in Slots, e \in Entry :
          FitsTable(Here.table, i, e) /\ disk' \in {disk, SetTable(i, e)}
    BY <1>2
  <2>2. DrivesOK(disk)
    BY DEF IInv
  <2>3. CASE disk' = SetTable(i, e) /\ d = mem.drive
    <3>1. /\ DrivesOK(disk')
          /\ \A j \in Slots : disk'[d].table[j] = IF j = i THEN e ELSE disk[d].table[j]
      BY <2>2, <2>3, TableWrites
    <3>2. disk[d].table \in [Slots -> Entry] /\ disk'[d].table \in [Slots -> Entry]
      BY <2>2, <3>1 DEF DrivesOK, DriveState
    <3> QED
      BY <2>1, <2>3, <3>1, <3>2, ValidAfter DEF Here
  <2>4. CASE disk' = SetTable(i, e) /\ d # mem.drive
    <3>1. disk'[d] = disk[d]
      BY <2>2, <2>4 DEF SetTable, DrivesOK
    <3> QED
      BY <3>1
  <2> QED
    BY <2>1, <2>3, <2>4
<1> QED
  BY <1>1, <1>2 DEF TablesMove
LEMMA AfterMbrMoves ==
    ASSUME NEW i \in Slots, NEW e \in Entry, FitsTable(Here.table, i, e),
           NEW outcome, AfterMbr(outcome, SetTable(i, e))
    PROVE  TablesMove
BY DEF AfterMbr, TablesMove

LEMMA CreateMoves == IInv /\ Create => TablesMove
<1> SUFFICES ASSUME IInv, Create PROVE TablesMove
  OBVIOUS
<1>1. Idle /\ FirstEmptySlot # {}
  BY DEF Create, Writes
<1>2. PICK mib \in 1 .. DriveUnits \div Align, outcome \in Outcome :
        /\ Fits(mib * Align) # {}
        /\ AfterMbr(outcome, SetTable(Min(FirstEmptySlot),
                       Partition("fat32", Min(Fits(mib * Align)), mib * Align, FALSE)))
  BY DEF Create
<1> DEFINE n == mib * Align
           start == Min(Fits(n))
           e == Partition("fat32", start, n, FALSE)
           i == Min(FirstEmptySlot)
<1>3. i \in Slots
  BY <1>1, Sizes, MinProperties DEF FirstEmptySlot
<1>4. n \in 1 .. DriveUnits
  BY MibProperties
<1> HIDE DEF n, i
<1>5. start \in Fits(n) /\ start \in Units
  BY <1>2, <1>4, FitsProperties DEF n
<1> HIDE DEF start
<1>6. /\ e \in Entry /\ e.type = "fat32" /\ e.start = start /\ e.count = n
  BY <1>4, <1>5 DEF Partition, Entry, Units
<1> HIDE DEF e
<1>7. /\ start >= Align /\ start + n <= DriveUnits
      /\ \A j \in Slots : LET p == Here.table[j]
                          IN  p.count = 0 \/ start >= p.start + p.count \/ p.start >= start + n
  BY <1>5 DEF Fits
<1>8. e.start # 0 /\ InDrive(e)
  BY <1>4, <1>5, <1>6, <1>7, Sizes DEF InDrive, Units
<1>9. FitsTable(Here.table, i, e)
  BY <1>3, <1>6, <1>7, <1>8 DEF FitsTable
<1> QED
  BY <1>2, <1>3, <1>6, <1>9, AfterMbrMoves DEF e, i, n, start

LEMMA DeleteMoves == IInv /\ Delete => TablesMove
<1> SUFFICES ASSUME IInv, Delete PROVE TablesMove
  OBVIOUS
<1>1. PICK i \in Slots, outcome \in Outcome : AfterMbr(outcome, SetTable(i, Empty))
  BY DEF Delete
<1>2. FitsTable(Here.table, i, Empty)
  BY Sizes DEF FitsTable, Empty
<1> QED
  BY <1>1, <1>2, Sizes, AfterMbrMoves

LEMMA ShrinkTableMoves ==
    ASSUME IInv, NEW outcome \in Outcome, ShrinkTable(outcome) PROVE TablesMove
<1> DEFINE old == Here.table[reg.slot]
           e == [old EXCEPT !.count = reg.new]
<1>1. pc \in Shrinking /\ AfterMbr(outcome, SetTable(reg.slot, e))
  BY DEF ShrinkTable, Shrinking
<1>2. /\ reg.slot \in Slots /\ Here.table \in [Slots -> Entry]
      /\ reg.new \in 1 .. mem.parts[reg.slot].count - 1 /\ reg.new \in Size
      /\ mem.parts[reg.slot] \in Entry
  BY <1>1, ShrinkFacts DEF DriveState
<1>3. IsFat32(old) /\ Region(old) = Region(mem.parts[reg.slot])
  BY <1>1 DEF IInv, ShrinkOK
<1>4. reg.new < old.count /\ reg.new \in Nat /\ reg.new # 0 /\ old \in Entry
      /\ old.count \in Nat /\ old.start \in Nat
  BY <1>2, <1>3 DEF Region, Entry
<1>5. e \in Entry /\ e.type = old.type /\ e.start = old.start /\ e.count = reg.new
  BY <1>4 DEF Entry
<1> HIDE DEF e
<1>6. FitsTable(Here.table, reg.slot, e)
  <2> SUFFICES ASSUME ValidTable(Here.table)
               PROVE  /\ e.type # "none" /\ e.start # 0 /\ InDrive(e)
                      /\ \A j \in Slots \ {reg.slot} :
                           LET p == Here.table[j]
                           IN  \/ e.count = 0 \/ p.count = 0
                               \/ e.start >= p.start + p.count
                               \/ p.start >= e.start + e.count
    BY <1>2, <1>5 DEF FitsTable
  <2>1. old.type # "none" /\ old.start # 0 /\ InDrive(old)
    BY <1>2, <1>3 DEF ValidTable, IsFat32
  <2>2. InDrive(e)
    BY <1>4, <1>5, <2>1, Sizes DEF InDrive
  <2>3. ASSUME NEW j \in Slots \ {reg.slot}, Here.table[j].count # 0
        PROVE  \/ e.start >= Here.table[j].start + Here.table[j].count
               \/ Here.table[j].start >= e.start + e.count
    <3>1. Here.table[j] \in Entry /\ Here.table[j].start \in Nat /\ Here.table[j].count \in Nat
      BY <1>2 DEF Entry
    <3>2. j \in Nat /\ reg.slot \in Nat /\ j # reg.slot
      BY <1>2, Sizes
    <3>3. \/ old.start >= Here.table[j].start + Here.table[j].count
          \/ Here.table[j].start >= old.start + old.count
      <4>1. CASE j < reg.slot
        BY <1>2, <1>4, <2>3, <4>1 DEF ValidTable
      <4>2. CASE reg.slot < j
        BY <1>2, <1>4, <2>3, <4>2 DEF ValidTable
      <4> QED
        BY <3>2, <4>1, <4>2
    <3> QED
      BY <1>4, <1>5, <3>1, <3>3
  <2> QED
    BY <1>5, <2>1, <2>2, <2>3
<1> QED
  BY <1>1, <1>2, <1>5, <1>6, AfterMbrMoves DEF e

(* A write that is in no table leaves every table.                         *)
LEMMA SetVolMoves ==
    ASSUME IInv, NEW v, disk' \in {disk, SetVol(v)}
    PROVE  TablesMove
<1>1. disk \in [Drives -> DriveState]
  BY DEF IInv, DrivesOK
<1>2. ASSUME NEW d \in Drives PROVE disk'[d].table = disk[d].table
  <2>1. disk[d] \in DriveState /\ mem.drive \in Drives => disk[mem.drive] \in DriveState
    BY <1>1
  <2> QED
    BY <1>1, <2>1 DEF SetVol, DriveState
<1> QED
  BY <1>2 DEF TablesMove
LEMMA FormatMoves ==
    ASSUME IInv, NEW outcome \in Outcome,
           FormatWipe(outcome) \/ FormatBackup(outcome) \/ FormatPrimary(outcome)
    PROVE  TablesMove
<1>1. \/ disk' \in {disk, SetVol(Shaken([Vol EXCEPT !.high = 0]))}
      \/ disk' \in {disk, SetVol([Vol EXCEPT !.backup = reg.new])}
      \/ disk' \in {disk, SetVol(Formatted(reg.new))}
  BY DEF FormatWipe, FormatBackup, FormatPrimary
<1> QED
  BY <1>1, SetVolMoves

LEMMA ShrinkMoves ==
    ASSUME IInv, NEW outcome \in Outcome,
           ShrinkBackup(outcome) \/ ShrinkPrimary(outcome) \/ ShrinkRollback(outcome)
    PROVE  TablesMove
<1>1. \/ disk' \in {disk, SetVol([Vol EXCEPT !.backup = reg.new])}
      \/ disk' \in {disk, SetVol(Shaken([Vol EXCEPT !.backup = reg.new]))}
      \/ disk' \in {disk, SetVol([Vol EXCEPT !.primary = reg.new])}
      \/ disk' \in {disk, SetVol(Shaken([Vol EXCEPT !.primary = reg.new]))}
      \/ disk' \in {disk, SetVol([Vol EXCEPT !.backup = mem.fs.total])}
      \/ disk' \in {disk, SetVol(Shaken(Vol))}
  <2>1. CASE ShrinkBackup(outcome)
    BY <2>1 DEF ShrinkBackup
  <2>2. CASE ShrinkPrimary(outcome)
    BY <2>2 DEF ShrinkPrimary
  <2>3. CASE ShrinkRollback(outcome)
    <3>1. disk' = SetVol(IF Landed(outcome) THEN [Vol EXCEPT !.backup = mem.fs.total]
                         ELSE Shaken(Vol))
      BY <2>3 DEF ShrinkRollback
    <3>2. CASE Landed(outcome)
      BY <3>1, <3>2
    <3>3. CASE ~Landed(outcome)
      BY <3>1, <3>3
    <3> QED
      BY <3>2, <3>3
  <2> QED
    BY <2>1, <2>2, <2>3
<1> QED
  BY <1>1, SetVolMoves

LEMMA UseFilesMoves == IInv /\ UseFiles => TablesMove
<1> SUFFICES ASSUME IInv, UseFiles PROVE TablesMove
  OBVIOUS
<1>1. disk \in [Drives -> DriveState]
  BY DEF IInv, DrivesOK
<1>2. PICK volumes : disk' = [disk EXCEPT ![mem.drive].vol = volumes]
  BY DEF UseFiles
<1>3. ASSUME NEW d \in Drives PROVE disk'[d].table = disk[d].table
  BY <1>1, <1>2 DEF DriveState
<1> QED
  BY <1>3 DEF TablesMove

(* No step makes a sound table an unsound one, whatever the cache of the   *)
(* manager believed: validate_mbr_entries and the checks before the write. *)
THEOREM TablesStaySound == Spec => TableStaysSound
<1>1. ASSUME IInv, [Next]_vars
      PROVE  [\A d \in Drives : ValidTable(disk[d].table) => ValidTable(disk'[d].table)]_disk
  <2>1. CASE TablesMove
    <3>1. mem.drive \in Drives
      BY <1>1 DEF IInv, FormatOK, Placed, Mem
    <3> QED
      BY <1>1, <2>1, <3>1, TablesMoveSoundly
  <2>2. CASE disk' = disk
    BY <2>2
  <2>3. CASE Reboot
    <3>1. disk' \in {disk, SetVol(Shaken(Vol))}
      BY <2>3 DEF Reboot
    <3> QED
      BY <1>1, <2>1, <3>1, SetVolMoves
  <2>4. ASSUME NEW outcome \in Outcome,
               \/ ShrinkBackup(outcome) \/ ShrinkPrimary(outcome)
               \/ ShrinkRollback(outcome) \/ ShrinkTable(outcome)
               \/ FormatWipe(outcome) \/ FormatBackup(outcome) \/ FormatPrimary(outcome)
        PROVE  TablesMove
    BY <1>1, <2>4, ShrinkMoves, ShrinkTableMoves, FormatMoves
  <2>5. CASE MountSlot \/ SwitchDrive \/ ShrinkBegin \/ FormatBegin \/ UNCHANGED vars
    BY <2>2, <2>5 DEF MountSlot, SwitchDrive, ShrinkBegin, FormatBegin, vars
  <2>6. CASE Create \/ Delete \/ UseFiles
    BY <1>1, <2>1, <2>6, CreateMoves, DeleteMoves, UseFilesMoves
  <2> QED
    BY <1>1, <2>1, <2>3, <2>4, <2>5, <2>6 DEF Next
<1> QED
  BY <1>1, Invariant, PTL DEF Spec, TableStaysSound

-----------------------------------------------------------------------------
(* The entry that holds a volume while it is shrunk.                       *)
LEMMA HeldBySlot ==
    ASSUME IInv, pc \in Shrinking,
           disk'[mem.drive].table[reg.slot].type = "fat32",
           disk'[mem.drive].table[reg.slot].start = Base,
           disk'[mem.drive].vol[Base].primary \in 1 .. disk'[mem.drive].table[reg.slot].count,
           NEW d, NEW u, d = mem.drive, u = Base
    PROVE  EntryHolds(d, u)'
<1>1. reg.slot \in Slots
  BY ShrinkFacts
<1> QED
  BY <1>1 DEF EntryHolds, IsFat32

LEMMA HeldAfterVolume ==
    ASSUME IInv, pc \in Shrinking, NEW v \in VolumeRecord, FilesFit(v),
           v.primary \in 1 .. mem.fs.total, disk' \in {disk, SetVol(v)},
           NEW d, NEW u, d = mem.drive, u = Base
    PROVE  EntryHolds(d, u)'
<1>1. /\ Here.table[reg.slot].type = "fat32"
      /\ Region(Here.table[reg.slot]) = Region(mem.parts[reg.slot])
  BY DEF IInv, ShrinkOK, IsFat32
<1>2. Here.table[reg.slot].start = Base /\ mem.fs.total <= Here.table[reg.slot].count
      /\ Here.table[reg.slot].count \in Nat
  BY <1>1, ShrinkFacts DEF Region, Base, Entry
<1>3. /\ disk'[mem.drive].table = Here.table
      /\ disk'[mem.drive].vol[Base].primary \in 1 .. mem.fs.total
  BY ShrinkFacts, VolumeWrites DEF SameMbr, Here, Vol
<1>4. mem.fs.total \in Nat
  BY ShrinkFacts, Sizes DEF Size
<1> QED
  BY <1>1, <1>2, <1>3, <1>4, HeldBySlot

LEMMA HeldAfterTable ==
    ASSUME IInv, NEW outcome \in Outcome, ShrinkTable(outcome),
           NEW d, NEW u, d = mem.drive, u = Base
    PROVE  EntryHolds(d, u)'
<1> DEFINE e == [Here.table[reg.slot] EXCEPT !.count = reg.new]
<1>1. /\ pc = "table" /\ pc \in Shrinking /\ AfterMbr(outcome, SetTable(reg.slot, e))
  BY DEF ShrinkTable, Shrinking
<1>2. /\ Here.table[reg.slot].type = "fat32" /\ mem.fs.total = reg.new
      /\ Region(Here.table[reg.slot]) = Region(mem.parts[reg.slot])
  BY <1>1 DEF IInv, ShrinkOK, IsFat32
<1>3. /\ reg.slot \in Slots /\ Here.table[reg.slot] \in Entry /\ reg.new \in Size
      /\ Here.table[reg.slot].start = Base
  BY <1>1, <1>2, ShrinkFacts DEF DriveState, Region, Base
<1>4. e \in Entry /\ e.type = "fat32" /\ e.start = Base /\ e.count = reg.new
  BY <1>2, <1>3, Sizes DEF Entry, Size
<1> HIDE DEF e
<1>5. disk' \in {disk, SetTable(reg.slot, e)}
  BY <1>1 DEF AfterMbr
<1>6. CASE disk' = disk
  BY <1>1, <1>6, ShrinkFacts, HeldAfterVolume
<1>7. CASE disk' = SetTable(reg.slot, e)
  <2>1. /\ disk'[mem.drive].table[reg.slot] = e
        /\ disk'[mem.drive].vol = Here.vol
    BY <1>1, <1>3, <1>4, <1>7, ShrinkFacts, TableWrites DEF SameVolumes, Here
  <2>2. disk'[mem.drive].vol[Base].primary \in 1 .. reg.new
    BY <1>1, <1>2, <2>1, ShrinkFacts DEF Vol
  <2> QED
    BY <1>1, <1>4, <2>1, <2>2, HeldBySlot
<1> QED
  BY <1>5, <1>6, <1>7
LEMMA HeldAfterShrink ==
    ASSUME IInv, NEW outcome \in Outcome,
           ShrinkBackup(outcome) \/ ShrinkPrimary(outcome) \/ ShrinkRollback(outcome),
           NEW d, NEW u, d = mem.drive, u = Base
    PROVE  EntryHolds(d, u)'
<1>1. pc \in Shrinking /\ reg.new \in Size
  BY DEF ShrinkBackup, ShrinkPrimary, ShrinkRollback, Shrinking, IInv
<1>2. Vol \in VolumeRecord /\ FilesFit(Vol) /\ Vol.primary \in 1 .. mem.fs.total
      /\ mem.fs.total \in Size
  BY <1>1, ShrinkFacts
<1>3. CASE ShrinkBackup(outcome)
  <2> DEFINE v == [Vol EXCEPT !.backup = reg.new]
  <2>1. /\ v \in VolumeRecord /\ v.primary = Vol.primary /\ FilesFit(v)
        /\ Shaken(v) \in VolumeRecord /\ Shaken(v).primary = Vol.primary /\ FilesFit(Shaken(v))
    BY <1>1, <1>2 DEF VolumeRecord, Shaken, FilesFit
  <2>2. disk' \in {disk, SetVol(v)} \/ disk' \in {disk, SetVol(Shaken(v))}
    BY <1>3 DEF ShrinkBackup
  <2> HIDE DEF v
  <2> QED
    BY <1>1, <1>2, <2>1, <2>2, HeldAfterVolume
<1>4. CASE ShrinkPrimary(outcome)
  <2> DEFINE v == [Vol EXCEPT !.primary = reg.new]
  <2>1. Vol.high < reg.new /\ reg.new < mem.fs.total /\ reg.new # 0
    BY <1>1, <1>4, ShrinkFacts DEF IInv, ShrinkOK, Shrinking, ShrinkPrimary
  <2>2. /\ v \in VolumeRecord /\ v.primary = reg.new /\ FilesFit(v)
        /\ Shaken(v) \in VolumeRecord /\ Shaken(v).primary = reg.new /\ FilesFit(Shaken(v))
    BY <1>1, <1>2, <2>1 DEF VolumeRecord, Shaken, FilesFit
  <2>3. disk' \in {disk, SetVol(v)} \/ disk' \in {disk, SetVol(Shaken(v))}
    BY <1>4 DEF ShrinkPrimary
  <2>4. reg.new \in 1 .. mem.fs.total
    BY <1>1, <1>2, <2>1, Sizes DEF Size
  <2> HIDE DEF v
  <2> QED
    BY <1>1, <2>2, <2>3, <2>4, HeldAfterVolume
<1>5. CASE ShrinkRollback(outcome)
  <2> DEFINE v == IF Landed(outcome) THEN [Vol EXCEPT !.backup = mem.fs.total] ELSE Shaken(Vol)
  <2>1. v \in VolumeRecord /\ v.primary = Vol.primary /\ FilesFit(v)
    BY <1>2 DEF VolumeRecord, Shaken, FilesFit
  <2>2. disk' = SetVol(v)
    BY <1>5 DEF ShrinkRollback
  <2> HIDE DEF v
  <2> QED
    BY <1>1, <1>2, <2>1, <2>2, HeldAfterVolume
<1> QED
  BY <1>3, <1>4, <1>5

(* "the old MBR still safely contains the smaller filesystem": no write of *)
(* a shrink, whatever comes of it, and no power failure between them takes *)
(* away the entry that holds the volume.                                   *)
THEOREM VolumeStaysMountable == Spec => StaysMountable
<1>1. ASSUME IInv, [Next]_vars
      PROVE  [\A d \in Drives, u \in Units :
                 /\ pc \in {"backup", "primary", "rollback", "table"}
                 /\ d = mem.drive /\ u = Base /\ EntryHolds(d, u)
                 => EntryHolds(d, u)']_vars
  <2> SUFFICES ASSUME Next, NEW d \in Drives, NEW u \in Units, pc \in Shrinking,
                      d = mem.drive, u = Base
               PROVE  EntryHolds(d, u)'
    BY <1>1 DEF Shrinking
  <2>1. ~Idle /\ pc \notin Formatting
    BY DEF Idle, Shrinking, Formatting
  <2>2. CASE Reboot
    <3> DEFINE v == Shaken(Vol)
    <3>1. v \in VolumeRecord /\ v.primary = Vol.primary /\ FilesFit(v)
      BY <1>1, ShrinkFacts DEF VolumeRecord, Shaken, FilesFit
    <3>2. disk' \in {disk, SetVol(v)}
      BY <2>2 DEF Reboot
    <3> HIDE DEF v
    <3> QED
      BY <1>1, <3>1, <3>2, ShrinkFacts, HeldAfterVolume
  <2>3. ASSUME NEW outcome \in Outcome,
               \/ ShrinkBackup(outcome) \/ ShrinkPrimary(outcome)
               \/ ShrinkRollback(outcome) \/ ShrinkTable(outcome)
        PROVE  EntryHolds(d, u)'
    BY <1>1, <2>3, HeldAfterShrink, HeldAfterTable
  <2>4. ~Writes
    BY <2>1 DEF Writes
  <2>5. ~Create /\ ~Delete /\ ~ShrinkBegin /\ ~FormatBegin
    <3>1. ~Create
      BY <2>4 DEF Create
    <3>2. ~Delete
      BY <2>4 DEF Delete
    <3>3. ~ShrinkBegin
      BY <2>4 DEF ShrinkBegin
    <3>4. ~FormatBegin
      BY <2>4 DEF FormatBegin
    <3> QED
      BY <3>1, <3>2, <3>3, <3>4
  <2>6. ~MountSlot /\ ~SwitchDrive /\ ~UseFiles
    BY <2>1 DEF MountSlot, SwitchDrive, UseFiles
  <2>7. \A outcome \in Outcome :
           ~FormatWipe(outcome) /\ ~FormatBackup(outcome) /\ ~FormatPrimary(outcome)
    BY <2>1 DEF FormatWipe, FormatBackup, FormatPrimary, Formatting
  <2> QED
    BY <2>2, <2>3, <2>5, <2>6, <2>7 DEF Next
<1> QED
  BY <1>1, Invariant, PTL DEF Spec, StaysMountable
-----------------------------------------------------------------------------
(* Going back to the volume that was mounted, when the disk can be read.   *)
LEMMA FatMounts ==
    ASSUME NEW dk, DrivesOK(dk), NEW m, Placed(dk, m), Ready(m)
    PROVE  /\ FatMount(dk, m, TRUE).selected = m.selected
           /\ ValidBoot(dk[m.drive], m.window) => FatMount(dk, m, TRUE).fs.mounted
BY ZenonT(60), FatMountKeeps

LEMMA PmInitFinds ==
    ASSUME NEW dk, DrivesOK(dk), NEW m \in Mem,
           \/ ValidBoot(dk[m.drive], Whole)
           \/ /\ dk[m.drive].signed /\ ~Hybrid(dk[m.drive])
              /\ Selectable(dk[m.drive], {}) # {}
    PROVE  LET n == PmInit(dk, m, TRUE, {})
           IN  /\ Placed(dk, n) /\ Ready(n) /\ ValidBoot(dk[n.drive], n.window)
               /\ ValidBoot(dk[m.drive], Whole) => n.selected = 0
BY PmInitKeeps

LEMMA RemountMounts ==
    ASSUME NEW dk, DrivesOK(dk), NEW m \in Mem, NEW rd, rd.mbr = TRUE, rd.bad = {}, rd.mount = TRUE,
           \/ ValidBoot(dk[m.drive], Whole)
           \/ /\ dk[m.drive].signed /\ ~Hybrid(dk[m.drive])
              /\ Selectable(dk[m.drive], {}) # {}
    PROVE  /\ Remount(dk, m, rd).fs.mounted
           /\ ValidBoot(dk[m.drive], Whole) => Remount(dk, m, rd).selected = 0
<1> DEFINE found == PmInit(dk, Unmount(m), TRUE, {})
<1>1. Unmount(m) \in Mem /\ Unmount(m).drive = m.drive
  BY UnmountKeeps
<1>2. /\ Placed(dk, found) /\ Ready(found) /\ ValidBoot(dk[found.drive], found.window)
      /\ ValidBoot(dk[m.drive], Whole) => found.selected = 0
  BY <1>1, PmInitFinds
<1>3. Remount(dk, m, rd) = IF Ready(found) THEN FatMount(dk, found, TRUE) ELSE found
  BY Zenon DEF Remount
<1> HIDE DEF found
<1>4. Remount(dk, m, rd) = FatMount(dk, found, TRUE)
  BY <1>2, <1>3
<1> QED
  BY <1>2, <1>4, FatMounts

LEMMA MountedFacts ==
    ASSUME Placed(disk, mem), Mounted(disk, mem), mem.fs.mounted
    PROVE  /\ ValidBoot(Here, mem.window)
           /\ Selected(mem) => /\ mem.selected \in Slots /\ ~Superfloppy(mem)
                               /\ mem.window = Region(mem.parts[mem.selected])
                               /\ Eligible(mem, mem.selected)
           /\ ~Selected(mem) => Superfloppy(mem) /\ mem.window = Whole
<1>1. mem \in Mem /\ Ready(mem) /\ mem.window = Home(mem) /\ mem.window.start \in Units
  BY PlacedWindow DEF Placed, Mounted
<1>2. ValidBoot(Here, mem.window)
  <2>1. mem.fs.total \in Nat /\ mem.window.count \in Nat
    BY <1>1, Sizes DEF Mem, Window, Size
  <2> QED
    BY <2>1 DEF Mounted, ValidBoot, Here
<1>3. CASE Selected(mem)
  <2> DEFINE p == mem.parts[mem.selected]
             used == {i \in Slots : mem.parts[i] # Empty}
  <2>1. mem.selected \in Slots /\ IsFat32(p) /\ InDrive(p) /\ ~Superfloppy(mem)
    BY <1>1, <1>3 DEF Placed, Mem, Selected
  <2>2. mem.selected \in used
    BY <2>1 DEF IsFat32, Empty
  <2>3. {0} \cup used \in SUBSET Nat /\ \A i \in {0} \cup used : i <= MaxPartitions
    BY Sizes DEF Slots
  <2> HIDE DEF used
  <2>4. mem.selected <= Max({0} \cup used)
    <3>1. Max({0} \cup used) \in {0} \cup used /\ \A n \in {0} \cup used : Max({0} \cup used) >= n
      BY <2>3, Sizes, MaxProperties
    <3>2. \A n \in {0} \cup used : n \in Nat
      BY <2>3
    <3> QED
      BY <2>2, <3>1, <3>2
  <2>5. Eligible(mem, mem.selected)
    BY <2>1, <2>4 DEF Eligible, PartitionCount, used
  <2> QED
    BY <1>1, <1>2, <1>3, <2>1, <2>5 DEF Home
<1>4. CASE ~Selected(mem)
  BY <1>1, <1>2, <1>4 DEF Home, Ready
<1> QED
  BY <1>3, <1>4

LEMMA MountGoesBack ==
    ASSUME DrivesOK(disk), Placed(disk, mem), Mounted(disk, mem), mem.fs.mounted,
           NEW i \in Slots,
           NEW rd, rd.mbr = TRUE, rd.bad = {}, rd.select = TRUE,
           rd.mount = TRUE, rd.again = TRUE
    PROVE  LET after == MountResult(mem, i, rd)
           IN  after.fs.mounted /\ after.selected \in {i, mem.selected}
<1> DEFINE tried == Select(disk, Unmount(mem), i, TRUE)
           mounted == FatMount(disk, tried, TRUE)
           back == Select(disk, Unmount(tried), mem.selected, TRUE)
           can == CanSelect(disk, mem, i, TRUE)
           n == MountResult(mem, i, rd)
<1>1. n = IF can /\ mounted.fs.mounted THEN mounted
          ELSE IF Selected(mem) THEN FatMount(disk, back, TRUE)
          ELSE Remount(disk, tried, rd)
  BY Zenon DEF MountResult
<1>2. mem \in Mem
  BY DEF Placed
<1>3. /\ Placed(disk, Unmount(mem)) /\ Unmount(mem).parts = mem.parts
      /\ Unmount(mem).drive = mem.drive /\ Unmount(mem).superfloppy = mem.superfloppy
      /\ Unmount(mem).selected = mem.selected
  BY <1>2, UnmountKeeps
<1>4. can <=> CanSelect(disk, Unmount(mem), i, TRUE)
  BY <1>3 DEF CanSelect, Eligible, PartitionCount, Superfloppy
<1> HIDE DEF n, can
<1>5. /\ Placed(disk, tried) /\ tried.parts = mem.parts /\ tried.drive = mem.drive
      /\ tried.superfloppy = mem.superfloppy
      /\ can => tried.selected = i
  BY <1>3, <1>4, SelectKeeps
<1> HIDE DEF tried
<1>6. CASE can /\ mounted.fs.mounted
  <2>1. n = mounted /\ Ready(tried)
    BY <1>1, <1>5, <1>6, Sizes DEF Ready, Selected
  <2>2. n.selected = i /\ n.fs.mounted
    <3>1. FatMount(disk, tried, TRUE).selected = tried.selected
      BY <1>5, <2>1, FatMounts
    <3> QED
      BY <1>5, <1>6, <2>1, <3>1
  <2> QED
    BY <2>2 DEF n
<1>7. CASE ~(can /\ mounted.fs.mounted) /\ Selected(mem)
  <2>1. /\ mem.selected \in Slots /\ Eligible(mem, mem.selected)
        /\ ValidBoot(disk[mem.drive], Region(mem.parts[mem.selected]))
    BY <1>7, MountedFacts DEF Here
  <2>2. /\ Placed(disk, Unmount(tried)) /\ Unmount(tried).parts = mem.parts
        /\ Unmount(tried).drive = mem.drive /\ Unmount(tried).superfloppy = mem.superfloppy
    BY <1>5, UnmountKeeps DEF Placed
  <2>3. CanSelect(disk, Unmount(tried), mem.selected, TRUE)
    BY <2>1, <2>2 DEF CanSelect, Eligible, PartitionCount, Superfloppy
  <2>4. /\ Placed(disk, back) /\ back.selected = mem.selected /\ back.drive = mem.drive
        /\ back.window = Region(mem.parts[mem.selected])
    BY ZenonT(60), <2>1, <2>2, <2>3, SelectKeeps
  <2> HIDE DEF back
  <2>5. Ready(back) /\ ValidBoot(disk[back.drive], back.window)
    BY <1>7, <2>1, <2>4 DEF Ready, Selected
  <2>6. n = FatMount(disk, back, TRUE)
    BY <1>1, <1>7
  <2>7. n.fs.mounted /\ n.selected = mem.selected
    BY <2>4, <2>5, <2>6, FatMounts
  <2> QED
    BY <2>7 DEF n
<1>8. CASE ~(can /\ mounted.fs.mounted) /\ ~Selected(mem)
  <2>1. n = Remount(disk, tried, rd) /\ tried \in Mem
    BY <1>1, <1>5, <1>8 DEF Placed
  <2>2. ValidBoot(disk[tried.drive], Whole)
    BY <1>5, <1>8, MountedFacts DEF Here
  <2>3. n.fs.mounted /\ n.selected = 0
    BY <2>1, <2>2, RemountMounts
  <2> QED
    BY <1>8, <2>3 DEF n, Selected
<1> QED
  BY <1>6, <1>7, <1>8

LEMMA DriveGoesBack ==
    ASSUME DrivesOK(disk), Placed(disk, mem), Mounted(disk, mem), mem.fs.mounted,
           Superfloppy(mem) \/ (CacheIsCurrent /\ ~Hybrid(Here)), NEW d \in Drives
    PROVE  DriveResult(mem, d, NoFailures).fs.mounted
<1> DEFINE there == Remount(disk, OnDrive(mem, d), NoFailures)
           home == OnDrive(there, mem.drive)
           n == DriveResult(mem, d, NoFailures)
<1>1. mem \in Mem /\ mem.drive \in Drives
  BY DEF Placed, Mem
<1>2. \A m \in Mem, e \in Drives : OnDrive(m, e) \in Mem /\ OnDrive(m, e).drive = e
  BY Sizes DEF OnDrive, Mem
<1>3. there \in Mem
  BY <1>1, <1>2, RemountKeeps DEF Placed
<1> DEFINE again == [NoFailures EXCEPT !.mbr = NoFailures.again, !.mount = NoFailures.again]
<1>4. n = IF there.fs.mounted THEN there ELSE Remount(disk, home, again)
  BY DEF DriveResult
<1>5. again.mbr = TRUE /\ again.bad = {} /\ again.mount = TRUE
  BY DEF NoFailures
<1> HIDE DEF there, n, again
<1>6. home \in Mem /\ home.drive = mem.drive
  BY <1>1, <1>2, <1>3
<1>7. CASE Superfloppy(mem)
  <2>1. ValidBoot(disk[mem.drive], Whole)
    BY <1>7, MountedFacts DEF Here
  <2> QED
    BY <1>4, <1>5, <1>6, <2>1, RemountMounts DEF n
<1>8. CASE ~Superfloppy(mem)
  <2>1. /\ Selected(mem) /\ mem.selected \in Slots /\ Eligible(mem, mem.selected)
        /\ ValidBoot(Here, Region(mem.parts[mem.selected]))
    BY <1>8, MountedFacts
  <2>2. mem.parts = Here.table /\ ~Hybrid(Here)
    BY <1>8 DEF CacheIsCurrent
  <2>3. mem.selected \in Selectable(Here, {})
    BY <2>1, <2>2 DEF Selectable, Eligible
  <2>4. Here.signed
    BY <2>1 DEF Placed, Here, Eligible, IsFat32
  <2> QED
    BY <1>4, <1>5, <1>6, <2>2, <2>3, <2>4, RemountMounts DEF n, Here
<1> QED
  BY <1>7, <1>8

(* "previous volume restored": when the disk can be read, asking for       *)
(* another volume or another drive leaves that or the one before mounted.  *)
THEOREM GoesBack == Spec => []PreviousRestored
<1>1. ASSUME IInv PROVE PreviousRestored
  <2> SUFFICES ASSUME Idle, mem.fs.mounted
               PROVE  /\ \A i \in Slots :
                            LET after == MountResult(mem, i, NoFailures)
                            IN  after.fs.mounted /\ after.selected \in {i, mem.selected}
                      /\ Superfloppy(mem) \/ (CacheIsCurrent /\ ~Hybrid(Here)) =>
                            \A d \in Drives : DriveResult(mem, d, NoFailures).fs.mounted
    BY DEF PreviousRestored
  <2>1. DrivesOK(disk) /\ Placed(disk, mem) /\ Mounted(disk, mem)
    BY <1>1, IdleFacts
  <2> QED
    BY <2>1, MountGoesBack, DriveGoesBack DEF NoFailures
<1> QED
  BY <1>1, Invariant, PTL
=============================================================================
