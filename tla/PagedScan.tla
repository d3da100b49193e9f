----------------------------- MODULE PagedScan ------------------------------
(***************************************************************************)
(* The reload of one shared folder, too big for one page of discovery:     *)
(* the walk of a page (sharing/indexer.rs), the cycle that collects what   *)
(* the pages saw (sharing/paged_cycle.rs) and the reload that runs a page, *)
(* removes rows and saves the cursor (commands/sharing.rs), beside files   *)
(* that come and go, downloads completing into the folder and rescans of   *)
(* single paths.                                                           *)
(*                                                                         *)
(* Files and subfolders are numbers in the order of their keys.  A folder's *)
(* key ends in a separator, so what it holds follows it directly, up to    *)
(* Last[d]; 0 is the shared folder itself, and no cursor.  A file's        *)
(* version is its size and time: 0 on disk if it is not there, 0 in the    *)
(* index if it has no row.                                                 *)
(***************************************************************************)
EXTENDS Naturals, FiniteSetsExt

CONSTANTS
    Files, Folders, Last,
    MAX_DISCOVERED_FILES,   \* files on a page
    MAX_PENDING_FRONTIER,   \* entries the walk holds
    MaxChanges,             \* bound on changes to files and on rescans
    MaxFaults               \* bound on cancels, failures and restarts

VARIABLES
    disk,       \* disk[f]: the version of f on disk
    index,      \* index[f]: the version of f's row in the LocalIndex
    cursor,     \* shared_folder_scan_cursors
    cycle,      \* the folder's Cycle, or NoCycle
    pass,       \* the reload: where it is and what it found
    made,       \* versions so far
    faults,     \* cancels, failures and restarts so far
    since,      \* history: versions of f since the pass began
    since_first, \* history: versions of f since the cycle's first page began
    late        \* history: rows written since the doomed ones were read

vars == <<disk, index, cursor, cycle, pass, made, faults, since, since_first,
          late>>
diskVars == <<disk, made>>
history == <<since, since_first, late>>

Versions == 0 .. MaxChanges + 1
NoCycle == [at |-> 0, next |-> 0, indexed_at_start |-> {}, seen |-> {}]
NoFiles == [f \in {} |-> 0]

(* The folder an entry is in. *)
Parent(e) == Max({0} \cup {d \in Folders : d < e /\ e <= Last[d]})

-----------------------------------------------------------------------------
(* Mutant: what the frontier lets go is forgotten. *)
InsertForgetful(w, new) ==
    LET all == w.pending \cup new
    IN  [w EXCEPT !.pending = {e \in all : Cardinality({x \in all : x < e})
                                               < MAX_PENDING_FRONTIER}]

(* insert_bounded: the frontier keeps the smallest keys, and the floor is  *)
(* the smallest one it let go.                                             *)
insert_bounded(w, new) ==
    LET all == w.pending \cup new
        kept == {e \in all : Cardinality({x \in all : x < e}) < MAX_PENDING_FRONTIER}
        gone == ((all \ kept) \cup {w.floor}) \ {0}
    IN  [w EXCEPT !.pending = kept, !.floor = IF gone = {} THEN 0 ELSE Min(gone)]

subtree_sorts_before_cursor(d) == cursor > Last[d]

(* enqueue_children: what folder d holds now, but for what is not past the *)
(* cursor.                                                                 *)
enqueue_children(w, d) ==
    LET held == {e \in Files \cup Folders :
                    Parent(e) = d /\ (e \in Files => disk[e] # 0)}
        skipped == {e \in held : IF e \in Folders THEN subtree_sorts_before_cursor(e)
                                 ELSE e <= cursor}
    IN  [insert_bounded(w, held \ skipped) EXCEPT !.before = @ \/ skipped # {}]

NoWalk == [pending |-> {}, floor |-> 0, last |-> 0, before |-> FALSE]

NoPage == [next |-> 0, trimmed |-> FALSE, partial |-> FALSE, unreadable |-> {}]
Unreachable == [NoPage EXCEPT !.trimmed = TRUE, !.partial = TRUE]

(* saw_nothing: such a page does not say where the next one starts. *)
saw_nothing(page) == page.trimmed /\ page.next = 0

-----------------------------------------------------------------------------
(* The cycle with a page folded in, and the rows to remove if the page     *)
(* finished it.                                                            *)
Folded(next, trimmed, found) ==
    LET continues == cursor = cycle.next
        repeats == cycle.at # 0 /\ cursor = cycle.at
        onward == IF continues THEN next ELSE cycle.next
        seen == cycle.seen \cup found
        dropped == [cycle |-> NoCycle, doomed |-> {}]
    IN  IF cursor = 0
        THEN IF next = 0 \/ trimmed THEN dropped
             ELSE [cycle |-> [at |-> 0, next |-> next, seen |-> found,
                              indexed_at_start |-> {f \in Files : index[f] # 0}],
                   doomed |-> {}]
        ELSE IF cycle = NoCycle \/ trimmed \/ ~(continues \/ repeats) THEN dropped
        ELSE IF onward = 0
        THEN [cycle |-> NoCycle, doomed |-> cycle.indexed_at_start \ seen]
        ELSE [cycle |-> [cycle EXCEPT !.at = cursor, !.next = onward, !.seen = seen],
              doomed |-> {}]

(* Mutant: a page that could not see the folder counts. *)
FoldUnseen(page, found) == Folded(page.next, FALSE, found)

note_page(page, found) == Folded(page.next, page.trimmed, found)

-----------------------------------------------------------------------------
Idle == [pc |-> "idle", page |-> NoPage, scope |-> {}, found |-> NoFiles,
         doomed |-> {}, checked |-> NoFiles, walk |-> NoWalk]

Init ==
    /\ disk = [f \in Files |-> 1] /\ index = disk /\ made = 1
    /\ cursor = 0 /\ cycle = NoCycle /\ pass = Idle /\ faults = 0
    /\ since = [f \in Files |-> {1}] /\ since_first = since /\ late = {}

Fault == faults < MaxFaults /\ faults' = faults + 1

Now == [f \in Files |-> {disk[f]}]

(* reload_shared_files_page, once it holds scan_coordination: the walk of  *)
(* a page begins, at the cursor.                                           *)
Begin ==
    /\ pass.pc = "idle"
    /\ pass' = [Idle EXCEPT !.pc = "walk", !.walk = enqueue_children(NoWalk, 0)]
    /\ since' = Now
    /\ since_first' = IF cursor = 0 \/ cycle = NoCycle THEN Now ELSE since_first
    /\ UNCHANGED <<diskVars, index, cursor, cycle, faults, late>>

(* The walk stops at the first entry it let go, or as the page is full. *)
AtGap == pass.walk.floor # 0 /\ \A e \in pass.walk.pending : e >= pass.walk.floor
Full == pass.walk.pending # {} /\ Cardinality(DOMAIN pass.found) >= MAX_DISCOVERED_FILES

(* discover_directory_page_in takes the smallest entry: a folder is listed *)
(* if it can be, and a file is found if it is still there.                 *)
VisitEntry(readable) ==
    LET e == Min(pass.walk.pending)
        w == [pass.walk EXCEPT !.pending = @ \ {e}, !.last = e]
    IN  /\ pass.pc = "walk"
        /\ pass.walk.pending # {} /\ ~AtGap /\ ~Full
        /\ IF readable THEN UNCHANGED faults ELSE e \in Folders /\ Fault
        /\ pass' =
              IF e \in Files
              THEN [pass EXCEPT !.walk = w, !.found =
                        IF disk[e] = 0 THEN @
                        ELSE [f \in DOMAIN @ \cup {e} |-> IF f = e THEN disk[e] ELSE @[f]]]
              ELSE IF readable THEN [pass EXCEPT !.walk = enqueue_children(w, e)]
              ELSE [pass EXCEPT !.walk = w, !.page.unreadable = @ \cup {e}]
        /\ UNCHANGED <<diskVars, index, cursor, cycle, history>>

(* The page ends; the next one starts after the last file, or after the    *)
(* last entry taken where this one stopped at the gap.                     *)
EndPage ==
    LET w == pass.walk IN
    /\ pass.pc = "walk"
    /\ w.pending = {} \/ AtGap \/ Full
    /\ pass' = [pass EXCEPT
           !.pc = "rows",
           !.walk = NoWalk,
           !.page.next = IF AtGap THEN w.last ELSE IF Full THEN Max(DOMAIN pass.found) ELSE 0,
           !.page.trimmed = AtGap /\ w.last = 0,
           !.page.partial = AtGap \/ Full \/ (cursor # 0 /\ w.before)]
    /\ UNCHANGED <<diskVars, index, cursor, cycle, faults, history>>

(* The folder is gone, cannot be listed, or is not approved. *)
WalkUnreachable ==
    /\ pass.pc = "idle"
    /\ Fault
    /\ pass' = [Idle EXCEPT !.pc = "rows", !.page = Unreachable]
    /\ UNCHANGED <<diskVars, index, cursor, cycle, history>>

(* A rescan of one path looks at it (discover_scoped_path). *)
Rescan(f) ==
    /\ pass.pc = "idle"
    /\ made <= MaxChanges /\ made' = made + 1
    /\ pass' = [Idle EXCEPT !.pc = "rows", !.scope = {f},
                            !.found = [g \in {f} \cap {g \in Files : disk[g] # 0} |-> disk[g]]]
    /\ since' = Now
    /\ UNCHANGED <<disk, index, cursor, cycle, faults, since_first, late>>

Scoped == pass.scope # {}

(* rows_under_unreadable: they count as found. *)
KeepUnreadable ==
    /\ pass.pc = "rows"
    /\ LET kept == {f \in Files \ DOMAIN pass.found :
                       index[f] # 0 /\ \E d \in pass.page.unreadable : d < f /\ f <= Last[d]}
       IN  pass' = [pass EXCEPT !.pc = "note",
                        !.found = [f \in DOMAIN pass.found \cup kept |->
                                       IF f \in kept THEN index[f] ELSE pass.found[f]]]
    /\ UNCHANGED <<diskVars, index, cursor, cycle, faults, history>>

(* A rescan's finds count as seen (note_found); a page is folded in. *)
NotePage ==
    /\ pass.pc = "note"
    /\ IF Scoped
       THEN /\ cycle' = IF cycle = NoCycle THEN cycle
                        ELSE [cycle EXCEPT !.seen = @ \cup DOMAIN pass.found]
            /\ pass' = [pass EXCEPT !.pc = "apply"]
       ELSE LET noted == note_page(pass.page, DOMAIN pass.found) IN
            /\ cycle' = noted.cycle
            /\ pass' = [pass EXCEPT !.pc = IF noted.doomed = {} THEN "apply" ELSE "doomed",
                                    !.doomed = noted.doomed]
    /\ UNCHANGED <<diskVars, index, cursor, faults, history>>

(* spare_rows_back_on_disk reads the doomed rows, ... *)
ReadDoomed ==
    /\ pass.pc = "doomed"
    /\ pass' = [pass EXCEPT !.pc = "recheck",
                    !.checked = [f \in {f \in pass.doomed : index[f] # 0} |-> index[f]]]
    /\ late' = {}
    /\ UNCHANGED <<diskVars, index, cursor, cycle, faults, since, since_first>>

(* ... and looks for their files, as many as MAX_RECHECKED and             *)
(* RECHECK_BUDGET leave time for.                                          *)
still_on_disk(looked) ==
    /\ pass.pc = "recheck"
    /\ looked \subseteq DOMAIN pass.checked
    /\ pass' = [pass EXCEPT !.pc = "apply",
                    !.doomed = @ \ {f \in looked : disk[f] = pass.checked[f]}]
    /\ UNCHANGED <<diskVars, index, cursor, cycle, faults, history>>

(* The index with what was found, and without the rows a complete listing  *)
(* did not have (reconcile_files_for_folders).                             *)
Reconciled ==
    LET listed == IF Scoped THEN pass.scope
                  ELSE IF pass.page.partial THEN {} ELSE Files
    IN  [f \in Files |-> IF f \in DOMAIN pass.found THEN pass.found[f]
                         ELSE IF f \in listed THEN 0 ELSE index[f]]

(* Under the index's lock: reconciled, and the doomed rows that are still  *)
(* as they were checked removed.                                           *)
Apply ==
    /\ pass.pc = "apply"
    /\ index' = [f \in Files |->
                     IF f \in pass.doomed \cap DOMAIN pass.checked
                        /\ Reconciled[f] = pass.checked[f]
                     THEN 0 ELSE Reconciled[f]]
    /\ pass' = [pass EXCEPT !.pc = "hash"]
    /\ UNCHANGED <<diskVars, cursor, cycle, faults, history>>

(* Every file of the page was hashed: its cursor is saved. *)
SaveCursor ==
    /\ pass.pc = "hash"
    /\ cursor' = IF Scoped \/ saw_nothing(pass.page) THEN cursor ELSE pass.page.next
    /\ pass' = Idle
    /\ UNCHANGED <<diskVars, index, cycle, faults, history>>

(* Cancelled after the walk or while hashing, a hash skipped, or the       *)
(* cursor not saved.                                                       *)
Cancel ==
    /\ pass.pc \in {"rows", "hash"}
    /\ Fault
    /\ pass' = Idle
    /\ UNCHANGED <<diskVars, index, cursor, cycle, history>>

(* The cycles are this session's; rows and cursor are there at next launch. *)
Restart ==
    /\ Fault
    /\ pass' = Idle /\ cycle' = NoCycle
    /\ UNCHANGED <<diskVars, index, cursor, history>>

-----------------------------------------------------------------------------
Change(f, v) ==
    /\ made <= MaxChanges /\ made' = made + 1
    /\ disk' = [disk EXCEPT ![f] = v]
    /\ since' = [since EXCEPT ![f] = @ \cup {v}]
    /\ since_first' = [since_first EXCEPT ![f] = @ \cup {v}]
    /\ UNCHANGED <<cursor, cycle, pass, faults>>

(* f is written, deleted, or put back as its row has it. *)
Touch(f, v) ==
    /\ v # disk[f] /\ v \in {0, index[f], made + 1}
    /\ Change(f, v)
    /\ UNCHANGED <<index, late>>

(* A download completes into the folder, and is indexed. *)
Complete(f) ==
    /\ disk[f] = 0
    /\ Change(f, made + 1)
    /\ index' = [index EXCEPT ![f] = made + 1]
    /\ late' = late \cup {f}

(* A reload running on, as no fault gets in its way. *)
Reload ==
    \/ Begin \/ VisitEntry(TRUE) \/ EndPage \/ KeepUnreadable \/ NotePage
    \/ ReadDoomed \/ \E looked \in SUBSET Files : still_on_disk(looked)
    \/ Apply \/ SaveCursor

Next ==
    \/ Reload \/ VisitEntry(FALSE) \/ WalkUnreachable \/ Cancel \/ Restart
    \/ \E f \in Files : Rescan(f) \/ Complete(f) \/ \E v \in Versions : Touch(f, v)

Spec == Init /\ [][Next]_vars

(* The folder keeps being reloaded: a page that stopped short chains the   *)
(* next one, and a reload follows a launch, a request and a mount.         *)
FairSpec == Spec /\ WF_vars(Reload)

-----------------------------------------------------------------------------
(* A row is removed only if its file was missing at some moment since the  *)
(* cycle's first page (or the rescan) began, and a finished cycle does not *)
(* remove a row written since its doomed rows were read.                   *)
OnlyMissingRowsGo ==
    [][ \A f \in Files : index[f] # 0 /\ index'[f] = 0 =>
            /\ 0 \in (IF Scoped THEN since ELSE since_first)[f]
            /\ ~Scoped /\ pass.page.partial => f \notin late ]_vars

(* Once files stop changing, the index comes to agree with the disk: no    *)
(* row of a deleted file is left and no file is missed, whatever pages     *)
(* were cut short, repeated or lost.                                       *)
RowsMatchDisk == <>[](index = disk)
=============================================================================
