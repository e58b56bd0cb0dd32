------------------------------ MODULE MCVolume ------------------------------
(***************************************************************************)
(* Drives for the runs of Volume: a drive of 8 units (4 MiB) with MBR      *)
(* partitions made by other systems, beside a second drive.                *)
(***************************************************************************)
EXTENDS Volume

Table(entries) == [i \in Slots |-> IF i \in DOMAIN entries THEN entries[i] ELSE Empty]

Drive(signed, table, formatted) ==
    [signed |-> signed, table |-> table,
     vol |-> [u \in Units |-> IF u \in DOMAIN formatted THEN Formatted(formatted[u])
                              ELSE Blank]]

Nothing == [u \in {} |-> 0]

(* Two FAT32 volumes, the first not aligned and the second active.         *)
TwoVolumes ==
    Drive(TRUE, Table(<<Partition("fat32", 1, 2, FALSE), Partition("fat32", 4, 2, TRUE)>>),
          [u \in {1, 4} |-> 2])

(* One volume smaller than its partition, and a slot of another system.    *)
OneVolume ==
    Drive(TRUE, Table(<<Partition("fat32", 2, 5, FALSE), Partition("other", 7, 1, FALSE)>>),
          [u \in {2} |-> 4])

WholeDrive == Drive(FALSE, Table(<<>>), [u \in {0} |-> DriveUnits])

BlankDrive == Drive(FALSE, Table(<<>>), Nothing)

(* A hybrid disk: nothing is mounted at boot; the last entry is too long.  *)
HybridDrive ==
    Drive(TRUE, Table(<<Partition("gpt", 1, 1, FALSE), Partition("fat32", 2, 2, FALSE),
                        Partition("fat32", 6, 3, FALSE)>>),
          [u \in {2, 6} |-> IF u = 2 THEN 2 ELSE 3])

TestDisks ==
    LET Pair(first, second) == [d \in Drives |-> IF d = 0 THEN first ELSE second]
    IN  {Pair(TwoVolumes, BlankDrive), Pair(OneVolume, WholeDrive), Pair(HybridDrive, WholeDrive)}

=============================================================================
