--------------------------- MODULE PartMetProofs ----------------------------
(***************************************************************************)
(* Snapshots of a tracker reach `.part.met` in the order they were taken,  *)
(* the last of them lands, and none is written after the cleanup of a      *)
(* deleted download, for every number of threads, trackers, snapshots and  *)
(* saves by Pause.                                                         *)
(***************************************************************************)
EXTENDS PartMet, TLAPS

(* Steps are first-order, for Zenon, unless they name SMT. *)
USE Zenon

Holding == {"locked", "fresh", "again", "writing"}

(* A snapshot is written behind the mutex the map has, until the tombstone *)
(* is up and nobody writes behind it; a mutex has one holder.              *)
GuardInv ==
    /\ \A k \in Savers :
           /\ task[k].generation = 0 => task[k].guard = NoGuard
           /\ task[k].at \in {"none", "queued"} => task[k].guard = NoGuard
           /\ task[k].generation # 0 /\ task[k].at \notin {"none", "queued"}
                 => task[k].guard # NoGuard
           /\ task[k].at = "none" => task[k].generation = 0
           /\ task[k].at \in {"waiting", "locked", "fresh"}
                 => task[k].generation # 0
           /\ ~suppressed /\ task[k].guard # NoGuard => task[k].guard = guards
           /\ task[k].at = "writing" /\ task[k].generation # 0
                 => task[k].guard = guards
    /\ \A j, k \in Savers :
           /\ task[j].at \in Holding /\ task[k].at \in Holding
           /\ task[j].guard # NoGuard /\ task[j].guard = task[k].guard
           => j = k
    /\ cancel.at # "none" => suppressed
    /\ cancel.at \in {"remove", "settle"} => cancel.guard = guards
    /\ NoSnapshotAfterCleanup

(* Generations are unique, and a snapshot that passed its check is newer   *)
(* than the one on disk.                                                   *)
OrderInv ==
    /\ met.of # 0 => met.generation <= save_generation[met.of]
    /\ \A k \in Savers :
           /\ task[k].generation <= save_generation[task[k].of]
           /\ task[k].generation # 0 /\ met.of = task[k].of
                 => met.generation # task[k].generation
           /\ /\ task[k].generation # 0
              /\ task[k].at = "writing" \/ (task[k].at = "again" /\ ~suppressed)
              /\ met.of = task[k].of
              => met.generation < task[k].generation
    /\ \A j, k \in Savers :
           /\ task[j].generation # 0 /\ task[j].of = task[k].of
           /\ task[j].generation = task[k].generation
           => j = k

MetInv == TypeOK /\ GuardInv /\ OrderInv

LEMMA MetInit == Init => MetInv
<1> USE MetAssumption DEF MetAssumption, Init, NoTask, NoMet
<1>1. ASSUME Init PROVE TypeOK
    <2>1. /\ clock \in 1 .. MaxVersion /\ version \in 1 .. clock
          /\ tracker \in Trackers /\ save_generation \in [Trackers -> Nat]
          /\ due \in 0 .. clock /\ stops \in 0 .. MaxStopSaves
        BY <1>1, SMT DEF Trackers
    <2>2. NoTask \in [at : At, of : Trackers, version : 0 .. clock,
                      generation : Nat, guard : Mutexes \cup {NoGuard}]
        BY <1>1, SMT DEF At, Trackers
    <2>3. task \in [Savers -> [at : At, of : Trackers, version : 0 .. clock,
                      generation : Nat, guard : Mutexes \cup {NoGuard}]]
        BY <1>1, <2>2
    <2>4. met \in [of : 0 .. MaxTrackers, generation : Nat, version : 0 .. clock]
        BY <1>1, SMT
    <2>5. /\ cancel \in [at : Cancelling, guard : Mutexes \cup {NoGuard}]
          /\ cancel.at \notin {"remove", "settle"}
          /\ stopped \in BOOLEAN /\ suppressed \in BOOLEAN
          /\ minted \in Nat /\ guards \in Mutexes \cup {NoGuard}
        BY <1>1 DEF Cancelling
    <2> QED BY <2>1, <2>3, <2>4, <2>5 DEF TypeOK
<1>2. Init => GuardInv
    BY SMT DEF GuardInv, NoSnapshotAfterCleanup, Holding
<1>3. Init => OrderInv
    BY SMT DEF OrderInv, Trackers
<1> QED BY <1>1, <1>2, <1>3 DEF MetInv

(* The tracker's steps: a new snapshot has a generation of its own. *)
LEMMA SessionStep ==
    MetInv /\ (\/ Change \/ Stop \/ Resume
               \/ \E k \in Savers : build_save_snapshot(k)
               \/ \E k \in Savers : save_part_tracker_snapshot(k)) => MetInv'
<1> USE MetAssumption DEF MetAssumption, MetInv
<1>1. ASSUME MetInv, Change \/ Stop \/ Resume PROVE MetInv'
    <2>1. TypeOK'
        <3>1. clock' \in 1 .. MaxVersion /\ clock <= clock'
            BY <1>1, SMT DEF Change, Stop, Resume, TypeOK
        <3>2. /\ version' = clock' \/ UNCHANGED <<clock, version>>
              /\ \/ tracker' = tracker
                 \/ tracker < MaxTrackers /\ tracker' = tracker + 1
            BY <1>1 DEF Change, Stop, Resume
        <3>5. version' \in 1 .. clock' /\ tracker' \in Trackers
            <4>1. version \in 1 .. clock /\ tracker \in Trackers
                BY <1>1 DEF TypeOK
            <4> QED BY <3>1, <3>2, <4>1, SMT DEF Trackers
        <3>4. stopped' \in BOOLEAN
            BY <1>1 DEF Change, Stop, Resume, TypeOK
        <3>3. 0 .. clock \subseteq 0 .. clock'
            BY <3>1, <1>1, SMT DEF TypeOK
        <3> QED BY <1>1, <3>1, <3>3, <3>4, <3>5, SMT
                DEF Change, Stop, Resume, TypeOK, Mutexes
    <2>2. GuardInv' /\ OrderInv'
        BY <1>1, SMT DEF Change, Stop, Resume, GuardInv, OrderInv,
                    NoSnapshotAfterCleanup
    <2> QED BY <2>1, <2>2
<1>2. ASSUME MetInv, NEW k \in Savers, build_save_snapshot(k) PROVE MetInv'
    <2>1. PICK n : n = [at |-> "queued", of |-> tracker, version |-> version,
                        generation |-> save_generation[tracker] + 1,
                        guard |-> NoGuard]
        OBVIOUS
    <2>2. /\ task' = [task EXCEPT ![k] = n]
          /\ task[k] = NoTask
          /\ save_generation' = [save_generation EXCEPT ![tracker] = @ + 1]
          /\ UNCHANGED <<session, guards, minted, suppressed, cancel, met>>
        BY <1>2, <2>1 DEF build_save_snapshot
    <2>3. TypeOK'
        <3>0. /\ clock \in 1 .. MaxVersion /\ version \in 1 .. clock
              /\ tracker \in Trackers /\ save_generation \in [Trackers -> Nat]
            BY <1>2 DEF TypeOK
        <3>1. n \in [at : At, of : Trackers, version : 0 .. clock,
                     generation : Nat, guard : Mutexes \cup {NoGuard}]
            BY <2>1, <3>0, SMT DEF At
        <3>2. save_generation' \in [Trackers -> Nat]
            BY <2>2, <3>0, SMT
        <3>4. due' \in 0 .. clock
            BY <1>2, <3>0, SMT DEF build_save_snapshot, TypeOK
        <3> QED BY <1>2, <2>2, <3>1, <3>2, <3>4 DEF TypeOK, Mutexes, session
    <2>4. GuardInv'
        BY <1>2, <2>1, <2>2, SMT
           DEF GuardInv, TypeOK, NoSnapshotAfterCleanup, Holding
    <2>5. /\ \A t \in Trackers :
                 save_generation'[t] = IF t = tracker
                    THEN save_generation[t] + 1 ELSE save_generation[t]
          /\ \A j \in Savers : task'[j] = IF j = k THEN n ELSE task[j]
          /\ tracker \in Trackers
          /\ \A j \in Savers : task[j].of \in Trackers /\ task[j].generation \in Nat
          /\ met.of \in 0 .. MaxTrackers /\ met.generation \in Nat
          /\ \A t \in Trackers : save_generation[t] \in Nat
        BY <1>2, <2>2 DEF TypeOK
    <2>6. n.at = "queued" /\ n.of = tracker
          /\ n.generation = save_generation[tracker] + 1
        BY <2>1
    <2>7. OrderInv'
        BY <1>2, <2>2, <2>5, <2>6, SMT DEF OrderInv, Trackers
    <2> QED BY <2>3, <2>4, <2>7
<1>3. ASSUME MetInv, NEW k \in Savers, save_part_tracker_snapshot(k)
      PROVE MetInv'
    <2>1. PICK n : n = [at |-> "queued", of |-> tracker, version |-> version,
                        generation |-> 0, guard |-> NoGuard]
        OBVIOUS
    <2>2. /\ task' = [task EXCEPT ![k] = n]
          /\ UNCHANGED <<save_generation, guards, minted, suppressed, cancel,
                         met>>
        BY <1>3, <2>1 DEF save_part_tracker_snapshot
    <2>3. TypeOK'
        <3>0. clock \in 1 .. MaxVersion /\ version \in 1 .. clock /\ tracker \in Trackers
            BY <1>3 DEF TypeOK
        <3>1. n \in [at : At, of : Trackers, version : 0 .. clock,
                     generation : Nat, guard : Mutexes \cup {NoGuard}]
            BY <2>1, <3>0, SMT DEF At
        <3>2. UNCHANGED <<clock, version, tracker, stopped>>
            BY <1>3 DEF save_part_tracker_snapshot
        <3>3. due' \in 0 .. clock /\ stops' \in 0 .. MaxStopSaves
            BY <1>3, <3>0, SMT DEF save_part_tracker_snapshot, TypeOK
        <3> QED BY <1>3, <2>2, <3>1, <3>2, <3>3 DEF TypeOK, Mutexes
    <2>4. GuardInv'
        BY <1>3, <2>1, <2>2, SMT
           DEF GuardInv, TypeOK, NoSnapshotAfterCleanup, Holding
    <2>5. /\ \A j \in Savers : task'[j] = IF j = k THEN n ELSE task[j]
          /\ tracker \in Trackers /\ save_generation[tracker] \in Nat
          /\ n.generation = 0 /\ n.of = tracker
        BY <1>3, <2>1, <2>2 DEF TypeOK
    <2>6. OrderInv'
        BY <1>3, <2>2, <2>5, SMT DEF OrderInv
    <2> QED BY <2>3, <2>4, <2>6
<1> QED BY <1>1, <1>2, <1>3

(* A mutex taken is in the map, and replaces none. *)
LEMMA GuardGrows ==
    TypeOK /\ GuardTaken =>
        /\ minted' \in Nat /\ minted <= minted'
        /\ guards' \in 1 .. minted' /\ guards' # NoGuard
        /\ guards # NoGuard => guards' = guards
<1> USE MetAssumption DEF MetAssumption
<1> SUFFICES ASSUME TypeOK, GuardTaken
             PROVE /\ minted' \in Nat /\ minted <= minted'
                   /\ guards' \in 1 .. minted' /\ guards' # NoGuard
                   /\ guards # NoGuard => guards' = guards
    OBVIOUS
<1>1. minted \in Nat /\ guards \in 1 .. minted \cup {NoGuard}
    BY DEF TypeOK, Mutexes
<1>2. CASE guards = NoGuard
    BY <1>1, <1>2, SMT DEF GuardTaken, save_path_guard
<1>3. CASE guards # NoGuard
    BY <1>1, <1>3, SMT DEF GuardTaken, save_path_guard
<1> QED BY <1>2, <1>3

(* A saving thread's steps. *)
LEMMA SaveStep ==
    ASSUME NEW k \in Savers PROVE MetInv /\ Save(k) => MetInv'
<1> USE MetAssumption DEF MetAssumption, MetInv
<1> SUFFICES ASSUME MetInv, Save(k) PROVE MetInv'
    OBVIOUS
<1>t. /\ \A j \in Savers : task[j].of \in Trackers /\ task[j].generation \in Nat
      /\ met.of \in 0 .. MaxTrackers /\ met.generation \in Nat
      /\ \A t \in Trackers : save_generation[t] \in Nat
      /\ 0 \notin Trackers
    <2>1. 0 \notin Trackers
        BY SMT DEF Trackers
    <2> QED BY <2>1 DEF TypeOK
<1>g. cancel.at \in {"remove", "settle"} => guards # NoGuard
    BY SMT DEF TypeOK, GuardInv, Mutexes
<1>1. CASE TakeGuard(k)
    <2>1. PICK n : n = [task[k] EXCEPT !.at = "waiting", !.guard = save_path_guard]
        OBVIOUS
    <2>2. /\ task' = [task EXCEPT ![k] = n]
          /\ task[k].at = "queued" /\ task[k].generation # 0
          /\ guards' = save_path_guard
          /\ UNCHANGED <<session, save_generation, suppressed, cancel, met, due>>
        BY <1>1, <2>1 DEF TakeGuard, GuardTaken
    <2>7. /\ minted' \in Nat /\ minted <= minted'
          /\ guards' \in 1 .. minted' /\ guards' # NoGuard
          /\ guards # NoGuard => guards' = guards
        BY <1>1, GuardGrows DEF TakeGuard
    <2>3. /\ n.at = "waiting" /\ n.guard = guards' /\ n.of = task[k].of
          /\ n.generation = task[k].generation /\ n.version = task[k].version
          /\ \A j \in Savers : task'[j] = IF j = k THEN n ELSE task[j]
        BY <2>1, <2>2, SMT DEF TypeOK
    <2>4. TypeOK'
        <3>1. Mutexes \subseteq Mutexes' /\ guards' \in Mutexes'
            BY <2>7, SMT DEF Mutexes, TypeOK
        <3>2. n \in [at : At, of : Trackers, version : 0 .. clock,
                     generation : Nat, guard : Mutexes' \cup {NoGuard}]
            <4>1. task[k] \in [at : At, of : Trackers, version : 0 .. clock,
                               generation : Nat, guard : Mutexes \cup {NoGuard}]
                BY DEF TypeOK
            <4>2. n = [task[k] EXCEPT !.at = "waiting", !.guard = guards']
                BY <2>1, <2>2
            <4> QED BY <3>1, <4>1, <4>2 DEF At
        <3> QED BY <2>2, <2>7, <3>1, <3>2 DEF TypeOK, session
    <2>5. GuardInv'
        BY <1>g, <2>2, <2>3, <2>7, SMT DEF GuardInv, NoSnapshotAfterCleanup, Holding
    <2>6. OrderInv'
        BY <2>2, <2>3, SMT DEF OrderInv
    <2> QED BY <2>4, <2>5, <2>6
<1>2. ASSUME NEW to \in At, Goto(k, to), task[k] # NoTask,
             UNCHANGED <<session, save_generation, guards, minted, suppressed,
                         cancel, met, due>>
      PROVE /\ TypeOK'
            /\ \A j \in Savers : task'[j].at = IF j = k THEN to ELSE task[j].at
            /\ \A j \in Savers : /\ task'[j].of = task[j].of
                                 /\ task'[j].generation = task[j].generation
                                 /\ task'[j].guard = task[j].guard
    BY <1>2, SMT DEF Goto, TypeOK, session, Mutexes
<1>3. ASSUME Return(k), UNCHANGED <<session, save_generation, guards, minted,
                                    suppressed, cancel>>
      PROVE /\ \A j \in Savers : task'[j] = IF j = k THEN NoTask ELSE task[j]
            /\ GuardInv'
            /\ met' \in [of : 0 .. MaxTrackers, generation : Nat,
                         version : 0 .. clock] /\ due' \in 0 .. clock => TypeOK'
    <2>1. NoTask \in [at : At, of : Trackers, version : 0 .. clock,
                      generation : Nat, guard : Mutexes \cup {NoGuard}]
        BY SMT DEF NoTask, At, Trackers, TypeOK
    <2>2. \A j \in Savers : task'[j] = IF j = k THEN NoTask ELSE task[j]
        BY <1>3 DEF Return, TypeOK
    <2>3. GuardInv'
        BY <1>3, <2>2, SMT DEF GuardInv, NoSnapshotAfterCleanup, NoTask, Holding
    <2> QED BY <1>3, <2>1, <2>2, <2>3 DEF Return, TypeOK, Mutexes, session
<1>4. ASSUME Return(k), UNCHANGED <<session, save_generation, guards, minted,
                                    suppressed, cancel, met, due>>
      PROVE MetInv'
    <2>1. OrderInv'
        BY <1>3, <1>4, <1>t, SMT DEF OrderInv, NoTask, Trackers
    <2> QED BY <1>3, <1>4, <2>1 DEF TypeOK, session
<1>5. CASE Lock(k)
    BY <1>2, <1>5, SMT DEF Lock, Locked, GuardInv, OrderInv, Holding, At, NoTask,
                      NoSnapshotAfterCleanup
<1>6. CASE CheckSuppressed(k)
    <2>1. CASE task[k].at = "locked" /\ ~suppressed /\ Goto(k, "fresh")
        BY <1>2, <1>6, <2>1, SMT DEF CheckSuppressed, GuardInv, OrderInv, Holding, At,
                                NoTask, NoSnapshotAfterCleanup
    <2>2. CASE task[k].at = "again" /\ ~suppressed /\ Goto(k, "writing")
        BY <1>2, <1>6, <2>2, SMT DEF CheckSuppressed, GuardInv, OrderInv, Holding, At,
                                NoTask, NoSnapshotAfterCleanup
    <2>3. CASE /\ task[k].at = "queued" /\ task[k].generation = 0
               /\ ~suppressed /\ Goto(k, "again")
        BY <1>2, <1>6, <2>3, SMT DEF CheckSuppressed, GuardInv, OrderInv, Holding, At,
                                NoTask, NoSnapshotAfterCleanup
    <2>4. CASE Return(k)
        BY <1>4, <1>6, <2>4 DEF CheckSuppressed
    <2> QED BY <1>6, <2>1, <2>2, <2>3, <2>4 DEF CheckSuppressed
<1>7. CASE CheckGeneration(k)
    <2>1. CASE save_generation[task[k].of] = task[k].generation
        <3>1. /\ GuardInv' /\ TypeOK'
            BY <1>2, <1>7, <2>1, SMT
               DEF CheckGeneration, GuardInv, Holding, At, NoTask,
                   NoSnapshotAfterCleanup
        <3>2. met.of = task[k].of => met.generation < task[k].generation
            BY <1>t, <1>7, <2>1, SMT DEF OrderInv, GuardInv, CheckGeneration
        <3>3. OrderInv'
            BY <1>2, <1>7, <2>1, <3>2, SMT DEF CheckGeneration, OrderInv, At, NoTask
        <3> QED BY <3>1, <3>3
    <2>2. CASE save_generation[task[k].of] # task[k].generation
        BY <1>4, <1>7, <2>2 DEF CheckGeneration
    <2> QED BY <2>1, <2>2
<1>8. CASE Write(k)
    <2>1. CASE UNCHANGED met
        <3>1. due' \in 0 .. clock
            BY <1>8, <2>1 DEF Write, TypeOK
        <3>2. OrderInv'
            BY <1>3, <1>8, <1>t, <2>1, SMT DEF Write, OrderInv, NoTask, Trackers
        <3> QED BY <1>3, <1>8, <2>1, <3>1, <3>2 DEF Write, TypeOK
    <2>2. CASE /\ met' = [of |-> task[k].of, generation |-> task[k].generation,
                          version |-> task[k].version]
               /\ UNCHANGED due
        <3>1. /\ met'.of = task[k].of /\ met'.generation = task[k].generation
              /\ met' \in [of : 0 .. MaxTrackers, generation : Nat,
                           version : 0 .. clock]
            BY <2>2, SMT DEF TypeOK, Trackers
        <3>2. \A j \in Savers : task'[j] = IF j = k THEN NoTask ELSE task[j]
            BY <1>3, <1>8 DEF Write
        <3>3. NoTask.generation = 0 /\ NoTask.of \in Trackers
              /\ NoTask.at = "none"
            BY SMT DEF NoTask, Trackers
        <3>4. ASSUME NEW j \in Savers \ {k}, task[j].generation # 0,
                     task[k].generation # 0
              PROVE ~(\/ task[j].at = "writing"
                      \/ task[j].at = "again" /\ ~suppressed)
            BY <1>8, <3>4 DEF Write, GuardInv, Holding
        <3>5. OrderInv'
            BY <1>8, <1>t, <3>1, <3>2, <3>3, <3>4, SMT DEF Write, OrderInv
        <3> QED BY <1>3, <1>8, <2>2, <3>1, <3>5 DEF Write, TypeOK
    <2> QED BY <1>8, <2>1, <2>2 DEF Write
<1> QED BY <1>1, <1>5, <1>6, <1>7, <1>8 DEF Save

(* The steps of deleting a download: waiting for the map's mutex leaves no *)
(* snapshot past its checks.                                               *)
LEMMA CancelStep ==
    MetInv /\ (\/ mark_met_saves_suppressed \/ delete_met \/ DeleteSkipped
               \/ Remove \/ suppress_met_saves \/ Settle \/ CleanUp) => MetInv'
<1> USE MetAssumption DEF MetAssumption, MetInv
<1>1. ASSUME MetInv, mark_met_saves_suppressed \/ DeleteSkipped PROVE MetInv'
    <2>1. TypeOK'
        <3>1. /\ cancel' \in [at : Cancelling, guard : Mutexes \cup {NoGuard}]
              /\ cancel'.at \notin {"remove", "settle"}
            BY <1>1, SMT DEF mark_met_saves_suppressed, DeleteSkipped, Cancelling
        <3>2. suppressed' \in BOOLEAN
            BY <1>1 DEF mark_met_saves_suppressed, DeleteSkipped, TypeOK
        <3> QED BY <1>1, <3>1, <3>2 DEF mark_met_saves_suppressed, DeleteSkipped,
                                  TypeOK, Mutexes, session
    <2>2. GuardInv' /\ OrderInv'
        BY <1>1, SMT DEF mark_met_saves_suppressed, DeleteSkipped, GuardInv, OrderInv,
                    NoSnapshotAfterCleanup
    <2> QED BY <2>1, <2>2
<1>2. ASSUME MetInv, delete_met \/ suppress_met_saves PROVE MetInv'
    <2>1. /\ minted' \in Nat /\ minted <= minted'
          /\ guards' \in 1 .. minted' /\ guards' # NoGuard
          /\ guards # NoGuard => guards' = guards
          /\ guards' = save_path_guard
        BY <1>2, GuardGrows DEF delete_met, suppress_met_saves, GuardTaken
    <2>2. /\ suppressed' = TRUE /\ UNCHANGED <<session, task, met, due>>
          /\ cancel'.at \in {"remove", "settle"} /\ cancel'.guard = guards'
          /\ cancel' = [at |-> cancel'.at, guard |-> cancel'.guard]
        BY <1>2, <2>1, SMT DEF delete_met, suppress_met_saves
    <2>3. /\ save_generation' \in [Trackers -> Nat]
          /\ \A t \in Trackers : save_generation[t] <= save_generation'[t]
        BY <1>2, SMT DEF delete_met, suppress_met_saves, TypeOK
    <2>4. TypeOK'
        <3>1. Mutexes \subseteq Mutexes' /\ guards' \in Mutexes'
            BY <1>2, <2>1, SMT DEF Mutexes, TypeOK
        <3> QED BY <1>2, <2>1, <2>2, <2>3, <3>1 DEF TypeOK, session, Cancelling
    <2>5. GuardInv'
        BY <1>2, <2>1, <2>2 DEF GuardInv, NoSnapshotAfterCleanup
    <2>6. OrderInv'
        <3>1. /\ \A k \in Savers : task[k].of \in Trackers
                                    /\ task[k].generation \in Nat
              /\ met.of \in 0 .. MaxTrackers /\ met.generation \in Nat
              /\ \A t \in Trackers : save_generation[t] \in Nat
                                    /\ save_generation'[t] \in Nat
            BY <1>2, <2>3 DEF TypeOK
        <3>2. OrderInv /\ UNCHANGED <<task, met>>
            BY <1>2, <2>2 DEF delete_met, suppress_met_saves
        <3>3. suppressed'
            BY <1>2, <2>2 DEF delete_met, suppress_met_saves
        <3>4. met.of # 0 => met.generation <= save_generation'[met.of]
            <4>1. met.of # 0 => met.of \in Trackers
                BY <3>1, SMT DEF Trackers
            <4> QED BY <2>3, <3>1, <3>2, <4>1, SMT DEF OrderInv
        <3>5. \A k \in Savers : task[k].generation <= save_generation'[task[k].of]
            BY <2>3, <3>1, <3>2, SMT DEF OrderInv
        <3> QED BY <3>2, <3>3, <3>4, <3>5 DEF OrderInv
    <2> QED BY <2>4, <2>5, <2>6
<1>3. ASSUME MetInv, Remove \/ Settle PROVE MetInv'
    <2>1. \A k \in Savers : task[k].at = "writing" => task[k].generation = 0
        BY <1>3 DEF Remove, Settle, Locked, GuardInv
    <2>2. /\ guards' = NoGuard /\ UNCHANGED <<task, suppressed, save_generation>>
          /\ met' = NoMet \/ UNCHANGED met
          /\ cancel'.at \in {"clean", "delete"} /\ suppressed
        BY <1>3, SMT DEF Remove, Settle, GuardInv
    <2>3. TypeOK'
        <3>1. met' \in [of : 0 .. MaxTrackers, generation : Nat,
                        version : 0 .. clock]
            BY <1>3, <2>2, SMT DEF NoMet, TypeOK
        <3>2. /\ cancel' \in [at : Cancelling, guard : Mutexes \cup {NoGuard}]
              /\ cancel'.at \notin {"remove", "settle"}
            BY <1>3, SMT DEF Remove, Settle, Cancelling
        <3> QED BY <1>3, <2>2, <3>1, <3>2
                DEF Remove, Settle, TypeOK, Mutexes, session
    <2>4. GuardInv'
        BY <1>3, <2>1, <2>2 DEF GuardInv, NoSnapshotAfterCleanup
    <2>5. OrderInv'
        BY <1>3, <2>2, SMT DEF OrderInv, NoMet, TypeOK, Trackers
    <2> QED BY <2>3, <2>4, <2>5
<1>4. ASSUME MetInv, CleanUp PROVE MetInv'
    <2>1. TypeOK'
        BY <1>4, SMT DEF CleanUp, TypeOK, Mutexes, Cancelling, session, NoMet
    <2>2. GuardInv'
        BY <1>4 DEF CleanUp, GuardInv, NoSnapshotAfterCleanup
    <2>3. OrderInv'
        BY <1>4, SMT DEF CleanUp, OrderInv, NoMet, TypeOK, Trackers
    <2> QED BY <2>1, <2>2, <2>3
<1> QED BY <1>1, <1>2, <1>3, <1>4

LEMMA MetInvariant == Spec => []MetInv
<1>1. MetInv /\ [Next]_vars => MetInv'
    <2>1. MetInv /\ Next => MetInv'
        BY SessionStep, SaveStep, CancelStep DEF Next
    <2>2. MetInv /\ UNCHANGED vars => MetInv'
        BY SMT DEF vars, MetInv, TypeOK, GuardInv, OrderInv, NoSnapshotAfterCleanup,
               Mutexes
    <2> QED BY <2>1, <2>2
<1> QED BY MetInit, <1>1, PTL DEF Spec

(* No snapshot thread is past its checks once suppress_met_saves has       *)
(* waited for the path's mutex, although the map forgets that mutex.       *)
THEOREM CleanupIsFinal == Spec => []NoSnapshotAfterCleanup
BY MetInvariant, PTL DEF MetInv, GuardInv

(* save_snapshot_async writes the snapshots of a tracker in the order of   *)
(* their generations, whatever order its blocking threads run in.          *)
THEOREM SnapshotsInOrder == Spec => SnapshotOrder
<1>1. MetInv /\ [Next]_vars =>
          [/\ met' # met /\ met'.of = met.of
           /\ met.generation # 0 /\ met'.generation # 0
           => met'.generation > met.generation]_vars
    <2> SUFFICES ASSUME MetInv, Next, met' # met, met'.of = met.of,
                        met'.generation # 0
                 PROVE met'.generation > met.generation
        BY DEF vars
    <2>1. ~Remove /\ ~CleanUp
        BY SMT DEF Remove, CleanUp, NoMet
    <2>2. PICK k \in Savers : Write(k)
        BY <2>1 DEF Next, Change, Stop, Resume, build_save_snapshot,
            save_part_tracker_snapshot, Save, TakeGuard, Lock, CheckSuppressed,
            CheckGeneration, mark_met_saves_suppressed, delete_met, DeleteSkipped,
            suppress_met_saves, Settle
    <2> QED BY <2>2, SMT DEF Write, MetInv, OrderInv, TypeOK
<1> QED BY MetInvariant, <1>1, PTL DEF Spec, SnapshotOrder

-----------------------------------------------------------------------------
(* The last snapshot. *)

(* What LatestSnapshotLands is about: no deletion, no save of Pause, no    *)
(* second session.                                                         *)
First == ~suppressed /\ stops = 0 /\ tracker = 1

(* Thread k has the last snapshot taken. *)
Last(k) == task[k].generation # 0 /\ task[k].generation = save_generation[1]

(* The sidecar is what was last asked for, or a thread still has it; and   *)
(* whoever is about to write an older snapshot does so before that thread  *)
(* has the mutex.                                                          *)
Landing ==
    /\ \A k \in Savers : task[k].of = 1
    /\ \A k \in Savers : task[k].generation = 0 => task[k] = NoTask
    /\ \A k \in Savers : Last(k) => task[k].version = due
    /\ met.version = due \/ \E k \in Savers : Last(k)
    /\ \A k \in Savers :
          task[k].at \in {"again", "writing"} /\ ~Last(k) =>
              \E j \in Savers : Last(j) /\ task[j].at \in {"queued", "waiting"}

LandInv == First => Landing

(* A step of thread k that leaves its snapshot, the sidecar and what was   *)
(* asked for: it may only pass its check with the last snapshot, and only  *)
(* without another thread past its own may the last one leave the wait.    *)
LEMMA LandGoto ==
    ASSUME TypeOK, Landing, NEW k \in Savers, NEW to \in At, Goto(k, to),
           task[k].generation # 0,
           UNCHANGED <<save_generation, met, due>>,
           task[k].at \in {"again", "writing"} \/ Last(k)
              \/ to \notin {"again", "writing"},
           \/ task[k].at \notin {"queued", "waiting"}
           \/ to \in {"queued", "waiting"}
           \/ \A j \in Savers : task[j].at \notin {"again", "writing"}
    PROVE  Landing'
<1>1. /\ \A j \in Savers : task'[j].at = IF j = k THEN to ELSE task[j].at
      /\ \A j \in Savers : /\ task'[j].of = task[j].of
                           /\ task'[j].generation = task[j].generation
                           /\ task'[j].version = task[j].version
      /\ \A j \in Savers : j # k => task'[j] = task[j]
  BY DEF Goto, TypeOK
<1>2. \A j \in Savers : Last(j)' <=> Last(j)
  BY <1>1 DEF Last
<1>3. /\ \A j \in Savers : task'[j].of = 1
      /\ \A j \in Savers : task'[j].generation = 0 => task'[j] = NoTask
      /\ \A j \in Savers : Last(j)' => task'[j].version = due'
      /\ met'.version = due' \/ \E j \in Savers : Last(j)'
  BY <1>1, <1>2, SMT DEF Landing
<1>4. ASSUME NEW j \in Savers, task'[j].at \in {"again", "writing"}, ~Last(j)'
      PROVE  \E i \in Savers : Last(i)' /\ task'[i].at \in {"queued", "waiting"}
  <2>1. task[j].at \in {"again", "writing"} /\ ~Last(j)
    BY <1>1, <1>2, <1>4
  <2>2. PICK i \in Savers : Last(i) /\ task[i].at \in {"queued", "waiting"}
    BY <2>1 DEF Landing
  <2>3. task'[i].at \in {"queued", "waiting"}
    BY <1>1, <2>1, <2>2
  <2> QED
    BY <1>2, <2>2, <2>3
<1> QED
  BY <1>3, <1>4 DEF Landing

(* Thread k is done: its snapshot was not the last, or what was asked for  *)
(* is in the sidecar.                                                      *)
LEMMA LandReturn ==
    ASSUME MetInv, Landing, NEW k \in Savers, Return(k),
           UNCHANGED save_generation,
           \/ ~Last(k) /\ UNCHANGED due /\ (task[k].at = "writing" \/ UNCHANGED met)
           \/ /\ Last(k) /\ task[k].at = "writing"
              /\ met'.version = due'
    PROVE  Landing'
<1>1. \A j \in Savers : task'[j] = IF j = k THEN NoTask ELSE task[j]
  BY DEF Return, TypeOK, MetInv
<1>2. /\ NoTask.generation = 0 /\ NoTask.of = 1 /\ NoTask.at = "none"
  BY DEF NoTask
<1>3. \A j \in Savers : Last(j)' <=> Last(j) /\ j # k
  BY <1>1, <1>2 DEF Last
<1>4. /\ \A j \in Savers : task'[j].of = 1
      /\ \A j \in Savers : task'[j].generation = 0 => task'[j] = NoTask
  BY <1>1, <1>2 DEF Landing
<1>5. \A j \in Savers : Last(k) /\ Last(j) => j = k
  BY SMT DEF Last, MetInv, OrderInv, Landing
<1>6. \A j \in Savers : Last(j)' => task'[j].version = due'
  BY <1>1, <1>3, <1>5 DEF Landing
<1>7. CASE ~Last(k) /\ UNCHANGED due /\ (task[k].at = "writing" \/ UNCHANGED met)
  <2>1. met'.version = due' \/ \E j \in Savers : Last(j)
    BY <1>7 DEF Landing
  <2>2. ASSUME NEW j \in Savers, task'[j].at \in {"again", "writing"}, ~Last(j)'
        PROVE  \E i \in Savers : Last(i)' /\ task'[i].at \in {"queued", "waiting"}
    <3>1. j # k /\ task[j].at \in {"again", "writing"} /\ ~Last(j)
      BY <1>1, <1>2, <1>3, <2>2
    <3>2. PICK i \in Savers : Last(i) /\ task[i].at \in {"queued", "waiting"}
      BY <3>1 DEF Landing
    <3> QED
      BY <1>1, <1>3, <1>7, <3>2
  <2> QED
    BY <1>3, <1>4, <1>6, <1>7, <2>1, <2>2 DEF Landing
<1>8. CASE Last(k) /\ task[k].at = "writing" /\ met'.version = due'
  <2>1. \A j \in Savers : Last(j) => task[j].at \notin {"queued", "waiting"}
    BY <1>5, <1>8
  <2>2. \A j \in Savers : task[j].at \in {"again", "writing"} => Last(j)
    BY <2>1 DEF Landing
  <2>3. \A j \in Savers : task'[j].at \notin {"again", "writing"}
    BY <1>1, <1>2, <1>5, <1>8, <2>2
  <2> QED
    BY <1>4, <1>6, <1>8, <2>3 DEF Landing
<1> QED
  BY <1>7, <1>8

(* Every step keeps it: the session has no deletion, no stop and no second *)
(* tracker behind it.                                                      *)
LEMMA LandStep == MetInv /\ LandInv /\ [Next]_vars => LandInv'
<1> SUFFICES ASSUME MetInv, LandInv, [Next]_vars, First' PROVE Landing'
  BY DEF LandInv
<1> USE DEF MetInv
<1>0. ~suppressed' /\ stops' = 0 /\ tracker' = 1
  BY DEF First
<1>1. CASE Change \/ Stop \/ UNCHANGED vars
  <2>1. UNCHANGED <<task, save_generation, met, due, suppressed, stops, tracker>>
    BY <1>1 DEF Change, Stop, vars
  <2> QED
    BY <1>0, <2>1 DEF First, LandInv, Landing, Last
<1>2. CASE Resume
  BY <1>0, <1>2, SMT DEF Resume, TypeOK, Trackers
<1>3. ASSUME NEW k \in Savers, build_save_snapshot(k) PROVE Landing'
  <2> DEFINE n == [at |-> "queued", of |-> tracker, version |-> version,
                   generation |-> save_generation[tracker] + 1, guard |-> NoGuard]
  <2>1. Landing /\ tracker = 1
    BY <1>0, <1>3 DEF build_save_snapshot, session, First, LandInv
  <2>2. /\ \A j \in Savers : task'[j] = IF j = k THEN n ELSE task[j]
        /\ save_generation'[1] = save_generation[1] + 1
        /\ save_generation[1] \in Nat /\ due' = version
    BY <1>3, <2>1 DEF build_save_snapshot, TypeOK
  <2>3. /\ n.at = "queued" /\ n.of = 1 /\ n.version = due'
        /\ n.generation = save_generation[1] + 1
    BY <2>1, <2>2
  <2> HIDE DEF n
  <2>4. \A j \in Savers : task[j].generation <= save_generation[1]
                            /\ task[j].generation \in Nat
    BY <2>1 DEF Landing, OrderInv, TypeOK
  <2>5. Last(k)' /\ task'[k].at = "queued"
    BY <2>2, <2>3, SMT DEF Last
  <2>6. \A j \in Savers : Last(j)' => j = k
    BY <2>2, <2>4, SMT DEF Last
  <2> QED
    BY <2>1, <2>2, <2>3, <2>5, <2>6, SMT DEF Landing
<1>4. ASSUME NEW k \in Savers, save_part_tracker_snapshot(k) PROVE FALSE
  BY <1>0, <1>4, SMT DEF save_part_tracker_snapshot, TypeOK
<1>5. ASSUME NEW k \in Savers, Save(k) PROVE Landing'
  <2>1. UNCHANGED <<save_generation, suppressed>> /\ Landing
    BY <1>0, <1>5
       DEF Save, TakeGuard, Lock, CheckSuppressed, CheckGeneration, Write,
           session, First, LandInv
  <2>2. ~suppressed
    BY <1>0, <2>1
  <2>3. task[k].at # "none" => task[k].generation # 0
    BY <2>1, SMT DEF Landing, NoTask
  <2>4. CASE TakeGuard(k)
    <3>1. /\ \A j \in Savers : j # k => task'[j] = task[j]
          /\ task'[k].at = "waiting" /\ task[k].at = "queued"
          /\ \A j \in Savers : /\ task'[j].of = task[j].of
                               /\ task'[j].generation = task[j].generation
                               /\ task'[j].version = task[j].version
          /\ task[k].generation # 0
          /\ UNCHANGED <<met, due>>
      BY <2>4, SMT DEF TakeGuard, TypeOK
    <3>2. \A j \in Savers : Last(j)' <=> Last(j)
      BY <2>1, <3>1 DEF Last
    <3>3. /\ \A j \in Savers : task'[j].of = 1
          /\ \A j \in Savers : task'[j].generation = 0 => task'[j] = NoTask
          /\ \A j \in Savers : Last(j)' => task'[j].version = due'
          /\ met'.version = due' \/ \E j \in Savers : Last(j)'
      BY <2>1, <3>1, <3>2, SMT DEF Landing
    <3>4. ASSUME NEW j \in Savers, task'[j].at \in {"again", "writing"}, ~Last(j)'
          PROVE  \E i \in Savers : Last(i)' /\ task'[i].at \in {"queued", "waiting"}
      <4>1. task[j].at \in {"again", "writing"} /\ ~Last(j)
        BY <3>1, <3>2, <3>4
      <4>2. PICK i \in Savers : Last(i) /\ task[i].at \in {"queued", "waiting"}
        BY <2>1, <4>1 DEF Landing
      <4> QED
        BY <3>1, <3>2, <4>2
    <3> QED
      BY <3>3, <3>4 DEF Landing
  <2>5. CASE Lock(k)
    <3>1. /\ task[k].at = "waiting" /\ ~Locked(task[k].guard) /\ Goto(k, "locked")
          /\ UNCHANGED <<met, due>>
      BY <2>5 DEF Lock
    <3>2. \A j \in Savers : task[j].at \notin {"again", "writing"}
      <4>1. ASSUME NEW j \in Savers, task[j].at \in {"again", "writing"} PROVE FALSE
        <5>1. task[j].generation # 0 /\ task[k].generation # 0
          BY <2>1, <2>3, <3>1, <4>1, SMT DEF Landing, NoTask
        <5>2. task[j].guard = guards /\ task[k].guard = guards
          BY <2>2, <3>1, <4>1, <5>1 DEF GuardInv
        <5> QED
          BY <3>1, <4>1, <5>2 DEF Locked
      <4> QED
        BY <4>1
    <3> QED
      BY <2>1, <2>3, <3>1, <3>2, LandGoto DEF At
  <2>6. CASE CheckSuppressed(k)
    <3>1. /\ UNCHANGED <<met, due>> /\ task[k].at # "queued"
          /\ \/ task[k].at = "locked" /\ Goto(k, "fresh")
             \/ task[k].at = "again" /\ Goto(k, "writing")
      BY <2>2, <2>3, <2>6 DEF CheckSuppressed
    <3> QED
      BY <2>1, <2>3, <3>1, LandGoto DEF At
  <2>7. CASE CheckGeneration(k)
    <3>1. /\ UNCHANGED <<met, due>> /\ task[k].at = "fresh"
          /\ \/ Last(k) /\ Goto(k, "again")
             \/ ~Last(k) /\ Return(k)
      BY <2>1, <2>3, <2>7 DEF CheckGeneration, Last, Landing
    <3> QED
      BY <2>1, <2>3, <3>1, LandGoto, LandReturn DEF At
  <2>8. CASE Write(k)
    <3>1. CASE Last(k)
      <4>1. task[k].of = 1 /\ task[k].version = due /\ task[k].at = "writing"
        BY <2>1, <2>8, <3>1 DEF Landing, Write
      <4>2. met'.version = due'
        BY <2>8, <3>1, <4>1, SMT DEF Write, Last
      <4> QED
        BY <2>1, <2>8, <3>1, <4>1, <4>2, LandReturn DEF Write
    <3>2. CASE ~Last(k)
      <4>1. task[k].of = 1 /\ task[k].generation # 0 /\ task[k].at = "writing"
        BY <2>1, <2>3, <2>8 DEF Landing, Write
      <4>2. UNCHANGED due
        BY <2>8, <3>2, <4>1 DEF Write, Last
      <4> QED
        BY <2>1, <2>8, <3>2, <4>1, <4>2, LandReturn DEF Write
    <3> QED
      BY <3>1, <3>2
  <2> QED
    BY <1>5, <2>4, <2>5, <2>6, <2>7, <2>8 DEF Save
<1>6. ASSUME mark_met_saves_suppressed \/ delete_met \/ suppress_met_saves
      PROVE  FALSE
  BY <1>0, <1>6 DEF mark_met_saves_suppressed, delete_met, suppress_met_saves
<1>7. ASSUME DeleteSkipped \/ Remove \/ Settle \/ CleanUp PROVE FALSE
  BY <1>0, <1>7 DEF DeleteSkipped, Remove, Settle, CleanUp, GuardInv
<1> QED
  BY <1>1, <1>2, <1>3, <1>4, <1>5, <1>6, <1>7 DEF Next

(* The generation check of save_snapshot_async never loses the last word:  *)
(* whatever number of blocking threads writes in whatever order, once none *)
(* is busy the sidecar is the last snapshot asked for.                     *)
THEOREM LastSnapshotLands == Spec => []LatestSnapshotLands
<1>1. Init => LandInv
  BY SMT DEF Init, LandInv, Landing, Last, NoTask, NoMet
<1>2. LandInv => LatestSnapshotLands
  BY SMT DEF LandInv, First, Landing, Last, LatestSnapshotLands, NoTask
<1> QED
  BY <1>1, <1>2, LandStep, MetInvariant, PTL DEF Spec

=============================================================================
