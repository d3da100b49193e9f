------------------------------ MODULE PartMet -------------------------------
(***************************************************************************)
(* Who may write a download's `.part.met`, and in which order              *)
(* (network/ed2k/part_tracker.rs: save_snapshot_async, save, delete_met,   *)
(* suppress_met_saves; network/downloads.rs: save_part_tracker_snapshot;   *)
(* network/command.rs: CancelDownload, PauseDownload).                     *)
(*                                                                         *)
(* Source workers take snapshots of the tracker under its lock and write   *)
(* them on blocking threads, which cannot be aborted: behind a mutex per   *)
(* path, and only while no later snapshot was taken.  Stopping a download  *)
(* writes a copy of the tracker past both.  Cancelling one raises a        *)
(* tombstone, waits for the mutex and deletes the file.                    *)
(*                                                                         *)
(* Data: the state of the tracker is a version; versions are taken from    *)
(* one clock, so that a later state has the larger one.                    *)
(***************************************************************************)
EXTENDS Naturals

CONSTANTS
    Savers,       \* blocking threads that save
    MaxVersion,   \* bound on tracker states
    MaxSnapshots, \* bound on snapshots of one tracker
    MaxTrackers,  \* bound on sessions of the download in one process
    MaxStopSaves, \* bound on saves made by Pause and Stop
    NoGuard       \* "no mutex"

ASSUME MetAssumption ==
    /\ MaxVersion \in Nat \ {0} /\ MaxTrackers \in Nat \ {0}
    /\ MaxSnapshots \in Nat /\ MaxStopSaves \in Nat
    /\ NoGuard \notin Nat

VARIABLES
    clock,            \* versions so far
    version,          \* version of the running tracker
    tracker,          \* the running tracker
    stopped,          \* the download is paused or stopped
    save_generation,  \* save_generation[t] of tracker t
    task,             \* task[k]: the save thread k is busy with
    guards,           \* SAVE_PATH_GUARDS entry of the path: a mutex
    minted,           \* mutexes created so far
    suppressed,       \* the path is in SUPPRESSED_MET_SAVES
    cancel,           \* where deleting the download is
    met,              \* the save in `.part.met`; NoMet when there is none
    due,              \* history: the version of the last save asked for
    stops             \* saves by Pause and Stop so far

session == <<clock, version, tracker, stopped, stops>>
vars == <<clock, version, tracker, stopped, save_generation, task, guards,
          minted, suppressed, cancel, met, due, stops>>

Trackers == 1 .. MaxTrackers
NoTask == [at |-> "none", of |-> 1, version |-> 0, generation |-> 0,
           guard |-> NoGuard]
NoMet == [of |-> 0, generation |-> 0, version |-> 0]

(* What delete_met and cleanup_partial_files are waiting to do. *)
Cancelling == {"none", "marked", "remove", "clean", "settle", "delete", "gone"}

At == {"none", "queued", "waiting", "locked", "fresh", "again", "writing"}
Mutexes == 1 .. minted

TypeOK ==
    /\ clock \in 1 .. MaxVersion /\ version \in 1 .. clock
    /\ tracker \in Trackers /\ stopped \in BOOLEAN
    /\ save_generation \in [Trackers -> Nat]
    /\ task \in [Savers -> [at : At, of : Trackers, version : 0 .. clock,
                           generation : Nat, guard : Mutexes \cup {NoGuard}]]
    /\ guards \in Mutexes \cup {NoGuard} /\ minted \in Nat
    /\ suppressed \in BOOLEAN
    /\ cancel \in [at : Cancelling, guard : Mutexes \cup {NoGuard}]
    /\ cancel.at \in {"remove", "settle"} => cancel.guard \in Mutexes
    /\ met \in [of : 0 .. MaxTrackers, generation : Nat, version : 0 .. clock]
    /\ due \in 0 .. clock
    /\ stops \in 0 .. MaxStopSaves

Init ==
    /\ clock = 1 /\ version = 1 /\ tracker = 1
    /\ stopped = FALSE
    /\ save_generation = [t \in Trackers |-> 0]
    /\ task = [k \in Savers |-> NoTask]
    /\ guards = NoGuard /\ minted = 0
    /\ suppressed = FALSE
    /\ cancel = [at |-> "none", guard |-> NoGuard]
    /\ met = NoMet /\ due = 0
    /\ stops = 0

-----------------------------------------------------------------------------
(* The mutex of the path. *)

(* save_path_guard: the path's mutex, created when the map has none. *)
save_path_guard == IF guards = NoGuard THEN minted + 1 ELSE guards

GuardTaken ==
    /\ guards' = save_path_guard
    /\ minted' = IF guards = NoGuard THEN minted + 1 ELSE minted

Locked(m) ==
    \E k \in Savers : /\ task[k].at \in {"locked", "fresh", "again", "writing"}
                      /\ task[k].guard = m

(* A thread's next statement, and its return. *)
Goto(k, to) == task' = [task EXCEPT ![k].at = to]
Return(k) == task' = [task EXCEPT ![k] = NoTask]

-----------------------------------------------------------------------------
(* The tracker: it changes, is stopped, and is loaded again. *)

(* Detached source tasks see a stop late, so a stopped tracker may change. *)
Change ==
    /\ clock < MaxVersion
    /\ clock' = clock + 1
    /\ version' = clock + 1
    /\ UNCHANGED <<tracker, stopped, stops, save_generation, task, guards,
                   minted, suppressed, cancel, met, due>>

(* Under the tracker's lock; the write is then spawned. *)
build_save_snapshot(k) ==
    /\ task[k] = NoTask
    /\ save_generation[tracker] < MaxSnapshots
    /\ save_generation' = [save_generation EXCEPT ![tracker] = @ + 1]
    /\ task' = [task EXCEPT ![k] =
           [at |-> "queued", of |-> tracker, version |-> version,
            generation |-> save_generation[tracker] + 1, guard |-> NoGuard]]
    /\ due' = version
    /\ UNCHANGED <<session, guards, minted, suppressed, cancel, met>>

(* PauseDownload, and CancelDownload without deletion. *)
Stop ==
    /\ ~stopped /\ cancel.at = "none"
    /\ stopped' = TRUE
    /\ UNCHANGED <<clock, version, tracker, stops, save_generation, task,
                   guards, minted, suppressed, cancel, met, due>>

(* save_part_tracker_snapshot: a copy of the tracker, saved by save(),     *)
(* which looks at the tombstone only.  When the lock is not to be had in   *)
(* time there is no such step.  Generation 0 is no snapshot's.             *)
save_part_tracker_snapshot(k) ==
    /\ stopped /\ task[k] = NoTask /\ stops < MaxStopSaves
    /\ stops' = stops + 1
    /\ task' = [task EXCEPT ![k] =
           [at |-> "queued", of |-> tracker, version |-> version,
            generation |-> 0, guard |-> NoGuard]]
    /\ due' = version
    /\ UNCHANGED <<clock, version, tracker, stopped, save_generation, guards,
                   minted, suppressed, cancel, met>>

(* StartDownload: a new tracker, loaded from the sidecar.  Saves of the    *)
(* previous one may still be under way.                                    *)
Resume ==
    /\ stopped /\ cancel.at = "none"
    /\ tracker < MaxTrackers /\ clock < MaxVersion
    /\ stopped' = FALSE
    /\ tracker' = tracker + 1
    /\ clock' = clock + 1 /\ version' = clock + 1
    /\ UNCHANGED <<stops, save_generation, task, guards, minted, suppressed,
                   cancel, met, due>>

-----------------------------------------------------------------------------
(* A save, one statement at a time. *)

(* save_snapshot_async, on its blocking thread. *)
TakeGuard(k) ==
    /\ task[k].at = "queued" /\ task[k].generation # 0
    /\ GuardTaken
    /\ task' = [task EXCEPT ![k].at = "waiting", ![k].guard = save_path_guard]
    /\ UNCHANGED <<session, save_generation, suppressed, cancel, met, due>>

(* Mutant: the mutex is shared, as a read lock would be. *)
LockShared(k) ==
    /\ task[k].at = "waiting"
    /\ Goto(k, "locked")
    /\ UNCHANGED <<session, save_generation, guards, minted, suppressed,
                   cancel, met, due>>

Lock(k) ==
    /\ task[k].at = "waiting" /\ ~Locked(task[k].guard)
    /\ Goto(k, "locked")
    /\ UNCHANGED <<session, save_generation, guards, minted, suppressed,
                   cancel, met, due>>

(* is_met_save_suppressed, asked by save() and save_snapshot_async, and    *)
(* again by save_emule_format and write_to_disk.                           *)
CheckSuppressed(k) ==
    /\ \/ task[k].at = "locked" /\ ~suppressed /\ Goto(k, "fresh")
       \/ task[k].at = "again" /\ ~suppressed /\ Goto(k, "writing")
       \/ /\ task[k].at = "queued" /\ task[k].generation = 0
          /\ ~suppressed /\ Goto(k, "again")
       \/ /\ \/ task[k].at \in {"locked", "again"}
             \/ task[k].at = "queued" /\ task[k].generation = 0
          /\ suppressed /\ Return(k)
    /\ UNCHANGED <<session, save_generation, guards, minted, suppressed,
                   cancel, met, due>>

(* Mutant: an older snapshot is written all the same. *)
SkipsGeneration(k) ==
    /\ task[k].at = "fresh"
    /\ Goto(k, "again")
    /\ UNCHANGED <<session, save_generation, guards, minted, suppressed,
                   cancel, met, due>>

CheckGeneration(k) ==
    /\ task[k].at = "fresh"
    /\ IF save_generation[task[k].of] = task[k].generation
         THEN Goto(k, "again")
         ELSE Return(k)
    /\ UNCHANGED <<session, save_generation, guards, minted, suppressed,
                   cancel, met, due>>

(* atomic_write replaces the file, or fails and leaves it. *)
Write(k) ==
    /\ task[k].at = "writing"
    /\ \/ /\ met' = [of |-> task[k].of, generation |-> task[k].generation,
                     version |-> task[k].version]
          /\ UNCHANGED due
       \/ /\ UNCHANGED met
          /\ due' = IF task[k].generation = save_generation[task[k].of]
                      THEN met.version ELSE due
    /\ Return(k)
    /\ UNCHANGED <<session, save_generation, guards, minted, suppressed, cancel>>

-----------------------------------------------------------------------------
(* Deleting a download. *)

(* CancelDownload, on the network task: the tombstone only. *)
mark_met_saves_suppressed ==
    /\ cancel.at = "none"
    /\ suppressed' = TRUE
    /\ cancel' = [at |-> "marked", guard |-> NoGuard]
    /\ UNCHANGED <<session, save_generation, task, guards, minted, met, due>>

(* delete_met, on cancel (after the worker was given time to end) and on   *)
(* completion: up to the lock of the mutex.                                *)
delete_met ==
    /\ cancel.at \in {"none", "marked"}
    /\ save_generation' = [save_generation EXCEPT ![tracker] = @ + 1]
    /\ suppressed' = TRUE
    /\ GuardTaken
    /\ cancel' = [at |-> "remove", guard |-> save_path_guard]
    /\ UNCHANGED <<session, task, met, due>>

(* The tracker's lock was not to be had: the cleanup runs without it. *)
DeleteSkipped ==
    /\ cancel.at = "marked"
    /\ cancel' = [at |-> "clean", guard |-> NoGuard]
    /\ UNCHANGED <<session, save_generation, task, guards, minted, suppressed,
                   met, due>>

Remove ==
    /\ cancel.at = "remove" /\ ~Locked(cancel.guard)
    /\ met' = NoMet
    /\ guards' = NoGuard  \* evict_save_path_guard
    /\ cancel' = [at |-> "clean", guard |-> NoGuard]
    /\ UNCHANGED <<session, save_generation, task, minted, suppressed, due>>

(* Mutant: the mutex is not waited for. *)
SuppressOnly ==
    /\ cancel.at = "clean"
    /\ suppressed' = TRUE
    /\ cancel' = [at |-> "delete", guard |-> NoGuard]
    /\ UNCHANGED <<session, save_generation, task, guards, minted, met, due>>

(* cleanup_partial_files: suppress_met_saves, then the file.  Retries and  *)
(* deferred removals of an unreachable folder only delay CleanUp.          *)
suppress_met_saves ==
    /\ cancel.at = "clean"
    /\ suppressed' = TRUE
    /\ GuardTaken
    /\ cancel' = [at |-> "settle", guard |-> save_path_guard]
    /\ UNCHANGED <<session, save_generation, task, met, due>>

Settle ==
    /\ cancel.at = "settle" /\ ~Locked(cancel.guard)
    /\ guards' = NoGuard
    /\ cancel' = [at |-> "delete", guard |-> NoGuard]
    /\ UNCHANGED <<session, save_generation, task, minted, suppressed, met, due>>

CleanUp ==
    /\ cancel.at = "delete"
    /\ met' = NoMet
    /\ cancel' = [at |-> "gone", guard |-> NoGuard]
    /\ UNCHANGED <<session, save_generation, task, guards, minted, suppressed,
                   due>>

-----------------------------------------------------------------------------
Save(k) ==
    \/ TakeGuard(k) \/ Lock(k) \/ CheckSuppressed(k) \/ CheckGeneration(k)
    \/ Write(k)

Next ==
    \/ Change \/ Stop \/ Resume
    \/ \E k \in Savers : build_save_snapshot(k) \/ save_part_tracker_snapshot(k)
    \/ \E k \in Savers : Save(k)
    \/ mark_met_saves_suppressed \/ delete_met \/ DeleteSkipped \/ Remove
    \/ suppress_met_saves \/ Settle \/ CleanUp

Spec == Init /\ [][Next]_vars

-----------------------------------------------------------------------------
(* PROPERTIES *)

(* Two snapshots of one tracker reach the sidecar in the order they were   *)
(* taken, whatever the blocking threads' order: the mutex and the          *)
(* generation of save_snapshot_async, with saves of Pause in between.      *)
SnapshotOrder ==
    [][/\ met' # met /\ met'.of = met.of
       /\ met.generation # 0 /\ met'.generation # 0
       => met'.generation > met.generation]_vars

(* The generation check never loses the last word: with no save under way, *)
(* no deletion, no failed write, no save of Pause and no second session,   *)
(* the sidecar is the last snapshot.                                       *)
LatestSnapshotLands ==
    /\ ~suppressed /\ stops = 0 /\ tracker = 1
    /\ \A k \in Savers : task[k] = NoTask
    => met.version = due

(* After cleanup_partial_files no `.part.met` comes back: a blocking       *)
(* thread past its checks was waited for, a later one sees the tombstone.  *)
DeletedStaysDeleted == cancel.at = "gone" => met = NoMet

(* The same of snapshot writers alone, whatever Pause still has to write:  *)
(* none is past its checks once the mutex was waited for.                  *)
NoSnapshotAfterCleanup ==
    cancel.at \in {"delete", "gone"} =>
        \A k \in Savers : task[k].at = "writing" => task[k].generation = 0
=============================================================================
