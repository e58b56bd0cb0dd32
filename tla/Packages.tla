------------------------------ MODULE Packages ------------------------------
(***************************************************************************)
(* The package manager: the catalogue in memory, the installed programs    *)
(* and the two lists of records on the mounted drive, and the screen that  *)
(* works on them.  One thread runs it; what interleaves with its steps is  *)
(* the repository, which may change between two requests, the storage,     *)
(* which may fail, and the power, which may go.                            *)
(***************************************************************************)
EXTENDS Integers, SequencesExt

CONSTANTS
    Keys,       \* packages, each an identifier with a version
    Builds,     \* artifacts, each standing for its SHA-256
    Apps,       \* those that are application images
    Large,      \* those of more than PACKAGE_CAPACITY bytes
    Chunks,     \* requests that one artifact takes
    Slots,      \* the names P0000001.APP and so on, 1 .. n
    MaxPackages,
    Catalogs    \* what the repository lists at one time or another

Absent == "absent"

(* An artifact is no sign that there is none, a manifest names at least one *)
(* chunk, and the rows of a catalogue are numbered.                        *)
ASSUME PackagesAssumption ==
    /\ Apps \subseteq Builds /\ Absent \notin Builds
    /\ Slots \subseteq Nat /\ Chunks \in Nat \ {0}
    /\ \A c \in Catalogs :
          DOMAIN c = 1 .. Len(c) /\ \A i \in DOMAIN c : c[i].build \in Builds

VARIABLE pm

(* What the last call came to: it succeeded, it was a removal that ended in *)
(* a storage error and kept the package, or it failed in any other way.     *)
Results == {"ok", "kept", "refused"}

Refused == "refused"

Torn == "torn"   \* a file that is empty, cut short or of two builds

(* A file of records is "ended" when a line end stands behind its last row,  *)
(* as save_installed_records leaves it, "open" when none does, or "damaged". *)
(* One that is missing or empty is given its header when it is read, and is  *)
(* the same as one without rows.                                             *)
Saved(rows) == [rows |-> rows, shape |-> "ended"]

Damaged == [rows |-> <<>>, shape |-> "damaged"]

Idle == [step |-> "idle", slot |-> 0, rows |-> <<>>]

Closed == [open |-> FALSE, selected |-> 1, confirm |-> FALSE, details |-> FALSE]

ManagerInit ==
    pm = [entries |-> <<>>, db |-> Saved(<<>>), fav |-> Saved(<<>>),
          files |-> [s \in Slots |-> Absent],
          ui |-> Closed, job |-> Idle, last |-> "ok", health |-> "sound"]

-----------------------------------------------------------------------------
(* The records.                                                            *)

(* A row's text is copied up to the NUL behind the file: in all rows but   *)
(* an open last one the line end and what follows is taken for a part of   *)
(* the path, which path_is_installed_file then refuses.                    *)
RowReads(file, i) == i = Len(file.rows) /\ file.shape = "open"

InstalledParses(file) ==
    /\ file.shape # "damaged" /\ Len(file.rows) <= MaxPackages
    /\ \A i \in DOMAIN file.rows : RowReads(file, i)

(* The version of a favourite is read in the same way but not checked, and *)
(* equals no version unless the row is an open last one.                   *)
Favorites(file) == [i \in DOMAIN file.rows |->
                       [key |-> file.rows[i], exact |-> RowReads(file, i)]]

(* parse_local_records                                                     *)
Parses(s) ==
    /\ InstalledParses(s.db)
    /\ s.fav.shape # "damaged" /\ Len(s.fav.rows) <= MaxPackages

(* save_favorite_records writes a version that was read with its line end, *)
(* and with that an empty row.                                             *)
FavoriteFile(list) ==
    IF \A i \in DOMAIN list : list[i].exact
    THEN Saved([i \in DOMAIN list |-> list[i].key]) ELSE Damaged

First(S) == CHOOSE i \in S : \A j \in S : i <= j

RecordsOf(rows, key) == {i \in DOMAIN rows : rows[i].key = key}

Annotate(entries, rows, list) ==
    [i \in DOMAIN entries |->
        [entries[i] EXCEPT
            !.installed = RecordsOf(rows, entries[i].key) # {},
            !.favorite = \E j \in DOMAIN list : list[j].exact /\ list[j].key = entries[i].key]]

(* What a write of a file may come to: done; refused with the old contents *)
(* in place or lost; or done, and then reported as failed.                 *)
Outcomes == {"done", "refused", "lost", "landed"}

Written(old, new, outcome) ==
    IF outcome \in {"done", "landed"} THEN new
    ELSE IF outcome = "lost" THEN Damaged ELSE old

(* Whether a call on the storage failed so far, and whether one did that   *)
(* had taken effect.                                                       *)
Noted(s, outcome) ==
    [s EXCEPT !.health = IF outcome = "landed" \/ @ = "doubtful" THEN "doubtful"
                         ELSE IF outcome = "done" THEN @ ELSE "failed"]

WriteDb(s, rows, outcome) == Noted([s EXCEPT !.db = Written(@, Saved(rows), outcome)], outcome)

Return(s, result) == [s EXCEPT !.job = Idle, !.last = result]

(* A call that succeeds ends with annotate_entries.                        *)
Success(s, rows, list) == Return([s EXCEPT !.entries = Annotate(@, rows, list)], "ok")

-----------------------------------------------------------------------------
(* The calls, each as the states it may leave when begun in s.             *)

Fresh(row) == [key |-> row.key, build |-> row.build, installed |-> FALSE, favorite |-> FALSE]

(* The rows before the first that is refused: one that is not well formed, *)
(* repeats a package or is one too many.                                   *)
GoodRows(catalog) ==
    LET Good(i) == /\ i <= MaxPackages /\ catalog[i].key \in Keys
                   /\ \A j \in 1 .. i - 1 : catalog[j].key # catalog[i].key
    IN  {i \in DOMAIN catalog : \A j \in 1 .. i : Good(j)}

(* package_manager_refresh: the entries are replaced row by row as soon as *)
(* the catalogue is there, and keep no mark when something fails after it. *)
Refresh(s, catalog, read) ==
    LET good == GoodRows(catalog)
        new == [s EXCEPT !.entries = [i \in good |-> Fresh(catalog[i])]]
    IN  IF good # DOMAIN catalog THEN Return(new, "refused")
        ELSE IF read # "done" \/ ~Parses(s) THEN Return(Noted(new, read), "refused")
        ELSE Success(new, s.db.rows, Favorites(s.fav))

Refreshed(s) ==
    {Return(s, "refused")}
    \cup {Refresh(s, c, read) : c \in Catalogs, read \in {"done", "refused"}}

(* The manifest is that of the entry or is refused; then chunk by chunk    *)
(* what the repository has by then, and the checks on the whole.           *)
\* Mutant: the digest is that of the last chunk.
DigestOfLast(got, build) == got[Chunks] = build

DigestMatches(got, build) == \A i \in 1 .. Chunks : got[i] = build

Contents(got) == IF \A i \in 1 .. Chunks : got[i] = got[1] THEN got[1] ELSE Torn

Downloads(entry) ==
    IF entry.installed \/ entry.build \in Large THEN {Refused}
    ELSE {Refused} \cup
         {IF DigestMatches(got, entry.build) /\ entry.build \in Apps THEN Contents(got)
          ELSE Refused : got \in [1 .. Chunks -> Builds]}

(* allocate_install_path and the write of the file, which stays behind as  *)
(* it is when the write fails.                                             *)
FreeSlots(s) == {f \in Slots : s.files[f] = Absent}

FileWritten(s, entry, contents) ==
    LET slot == First(FreeSlots(s))
        row == [key |-> entry.key, slot |-> slot, build |-> entry.build]
    IN  {IF outcome = "done"
         THEN [s EXCEPT !.files[slot] = contents,
                        !.job = [step |-> "record", slot |-> slot, rows |-> Append(s.db.rows, row)]]
         ELSE Return([Noted(s, outcome) EXCEPT
                        !.files[slot] = CASE outcome = "landed" -> contents
                                          [] outcome = "lost" -> Torn
                                          [] OTHER -> @], "refused")
         : outcome \in Outcomes}

(* package_manager_install up to there                                     *)
Installing(s, i) ==
    IF i \notin DOMAIN s.entries THEN {Return(s, "refused")}
    ELSE UNION {IF d = Refused THEN {Return(s, "refused")}
                ELSE IF ~Parses(s) \/ Len(s.db.rows) >= MaxPackages \/ FreeSlots(s) = {}
                THEN {Return(s, "refused")}
                ELSE FileWritten(s, s.entries[i], d) : d \in Downloads(s.entries[i])}

(* package_manager_remove: the record first, then the file, and the record *)
(* again when the file cannot be removed.                                  *)
Removing(s, i) ==
    IF i \notin DOMAIN s.entries THEN {Return(s, "refused")}
    ELSE IF ~Parses(s) THEN {Return(s, "kept")}
    ELSE LET found == RecordsOf(s.db.rows, s.entries[i].key)
             n == First(found)
         IN  IF found = {} THEN {Return(s, "refused")}
             ELSE {LET w == WriteDb(s, RemoveAt(s.db.rows, n), outcome)
                   IN  IF outcome = "done"
                       THEN [w EXCEPT !.job = [step |-> "delete", slot |-> s.db.rows[n].slot,
                                               rows |-> s.db.rows]]
                       ELSE Return(w, "kept") : outcome \in Outcomes}

(* package_manager_toggle_favorite                                         *)
Toggling(s, i) ==
    IF i \notin DOMAIN s.entries \/ ~Parses(s) THEN {Return(s, "refused")}
    ELSE LET row == [key |-> s.entries[i].key, exact |-> TRUE]
             list == Favorites(s.fav)
             same == {j \in DOMAIN list : list[j] = row}
             new == IF same = {} THEN Append(list, row) ELSE RemoveAt(list, First(same))
         IN  IF Len(new) > MaxPackages THEN {Return(s, "refused")}
             ELSE {LET w == Noted([s EXCEPT !.fav = Written(@, FavoriteFile(new), outcome)],
                                  outcome)
                   IN  IF outcome = "done" THEN Success(w, s.db.rows, new)
                       ELSE Return(w, "refused") : outcome \in Outcomes}

-----------------------------------------------------------------------------
(* The second half of an installation and of a removal.                    *)

SaveRecord ==
    /\ pm.job.step = "record"
    /\ \E outcome \in Outcomes :
         LET w == WriteDb(pm, pm.job.rows, outcome)
         IN  pm' = IF outcome = "done"
                   THEN Success(w, pm.job.rows, Favorites(pm.fav))
                   ELSE [w EXCEPT !.job.step = "undo"]

(* The removal of what could not be recorded; its own failure is ignored.  *)
Undo ==
    /\ pm.job.step = "undo"
    /\ \E outcome \in {"done", "refused"} :
         pm' = Return([pm EXCEPT !.files[pm.job.slot] =
                                     IF outcome = "done" THEN Absent ELSE @],
                      "refused")

DeleteFile ==
    /\ pm.job.step = "delete"
    /\ \E outcome \in {"done", "refused", "landed"} :
         LET w == Noted([pm EXCEPT !.files[pm.job.slot] =
                                       IF outcome = "refused" THEN @ ELSE Absent], outcome)
         IN  pm' = IF outcome = "done"
                   THEN Success(w, pm.db.rows, Favorites(pm.fav))
                   ELSE [w EXCEPT !.job.step = "restore"]

Restore ==
    /\ pm.job.step = "restore"
    /\ \E outcome \in Outcomes :
         pm' = Return(WriteDb(pm, pm.job.rows, outcome), "kept")

-----------------------------------------------------------------------------
(* The screen, one key at a time, and "pkg list" of the shell.             *)

Waiting == pm.job.step = "idle" /\ pm.ui.open

Selecting == Waiting /\ ~pm.ui.details

AtShell == pm.job.step = "idle" /\ ~pm.ui.open

Selected == pm.ui.selected

Some == pm.entries # <<>>

Open ==
    /\ AtShell
    /\ pm' \in Refreshed([pm EXCEPT !.ui = [Closed EXCEPT !.open = TRUE]])

List == AtShell /\ pm' \in Refreshed(pm)

Quit == Selecting /\ pm' = [pm EXCEPT !.ui = Closed]

(* Up and Down take the question back, Home and End do not.                *)
Move ==
    /\ Selecting
    /\ \/ Selected > 1 /\ pm' = [pm EXCEPT !.ui.selected = @ - 1, !.ui.confirm = FALSE]
       \/ /\ Selected < Len(pm.entries)
          /\ pm' = [pm EXCEPT !.ui.selected = @ + 1, !.ui.confirm = FALSE]
       \/ pm' = [pm EXCEPT !.ui.selected = 1]
       \/ Some /\ pm' = [pm EXCEPT !.ui.selected = Len(pm.entries)]

KeyRefresh ==
    /\ Selecting
    /\ \E s \in Refreshed([pm EXCEPT !.ui.confirm = FALSE]) :
         pm' = [s EXCEPT !.ui.selected =
                   IF s.last = "ok" /\ @ > Len(s.entries) THEN 1 ELSE @]

ShowDetails ==
    /\ Selecting /\ Some
    /\ \/ Selected \notin DOMAIN pm.entries /\ pm' = Return(pm, "refused")
       \/ /\ Selected \in DOMAIN pm.entries
          /\ \/ pm' = Return([pm EXCEPT !.ui.details = TRUE], "ok")
             \/ pm' = Return(pm, "refused")

HideDetails == Waiting /\ pm.ui.details /\ pm' = [pm EXCEPT !.ui.details = FALSE]

(* In the list I and F take the question back, in the details they do not. *)
Forgetful == [pm EXCEPT !.ui.confirm = @ /\ pm.ui.details]

KeyInstall ==
    /\ Waiting /\ (pm.ui.details \/ Some)
    /\ pm' \in Installing(Forgetful, Selected)

KeyFavorite ==
    /\ Waiting /\ (pm.ui.details \/ Some)
    /\ pm' \in Toggling(Forgetful, Selected)

SelectedInstalled == Selected \in DOMAIN pm.entries /\ pm.entries[Selected].installed

AskRemove ==
    /\ Waiting /\ (pm.ui.details \/ Some) /\ ~(SelectedInstalled /\ pm.ui.confirm)
    /\ pm' = [pm EXCEPT !.ui.confirm = SelectedInstalled]

KeyRemove ==
    /\ Waiting /\ SelectedInstalled /\ pm.ui.confirm
    /\ pm' \in Removing([pm EXCEPT !.ui.confirm = FALSE], Selected)

-----------------------------------------------------------------------------
(* The user opens a file of records in the editor, presses Backspace at    *)
(* the end, where the cursor is, and saves.                                *)
EditRecords ==
    /\ AtShell
    /\ \/ pm.db.rows # <<>> /\ pm' = [pm EXCEPT !.db.shape = "open"]
       \/ pm.fav.rows # <<>> /\ pm' = [pm EXCEPT !.fav.shape = "open"]

PowerLoss ==
    pm' = Noted([pm EXCEPT !.entries = <<>>, !.ui = Closed, !.job = Idle, !.last = "ok"],
                "refused")

(* Bound: nothing is said of what follows a write that took effect and was  *)
(* reported as failed, and it is not followed.                             *)
Followed == pm.health # "doubtful"

ManagerNext ==
    /\ Followed
    /\ \/ SaveRecord \/ Undo \/ DeleteFile \/ Restore
       \/ Open \/ List \/ Quit \/ Move \/ KeyRefresh \/ ShowDetails \/ HideDetails
       \/ KeyInstall \/ KeyFavorite \/ AskRemove \/ KeyRemove
       \/ EditRecords \/ PowerLoss

ManagerSpec == ManagerInit /\ [][ManagerNext]_pm

-----------------------------------------------------------------------------
ManagerTypes ==
    /\ \A i \in DOMAIN pm.entries : pm.entries[i].key \in Keys /\ pm.entries[i].build \in Builds
    /\ Len(pm.db.rows) <= MaxPackages + 1 /\ Len(pm.fav.rows) <= MaxPackages
    /\ \A s \in Slots : pm.files[s] \in Builds \cup {Absent, Torn}
    /\ pm.ui.selected \in 1 .. MaxPackages /\ pm.last \in Results
    /\ pm.job.step \in {"idle", "record", "undo", "delete", "restore"}
    /\ pm.health \in {"sound", "failed", "doubtful"}

(* Whatever the repository serves and wherever the power goes, a recorded  *)
(* package has its file, with the contents the catalogue promised and for  *)
(* itself alone; and as long as nothing failed a file that no call is at   *)
(* work on has its record.  Excepted are failures reported of writes that  *)
(* took effect.                                                            *)
RecordsBacked ==
    pm.health # "doubtful" =>
        /\ \A i \in DOMAIN pm.db.rows :
              LET row == pm.db.rows[i]
              IN  /\ pm.files[row.slot] = row.build /\ row.build \in Apps
                  /\ \A j \in DOMAIN pm.db.rows : pm.db.rows[j].slot = row.slot => j = i
        /\ pm.health = "sound" /\ pm.job.step = "idle" =>
              \A s \in Slots : pm.files[s] # Absent =>
                  \E i \in DOMAIN pm.db.rows : pm.db.rows[i].slot = s

(* The package manager "can uninstall packages it installed": while no call *)
(* on the storage failed, a removal ends in no storage error.               *)
UninstallWorks == pm.health = "sound" => pm.last # "kept"
=============================================================================
