-------------------------- MODULE TransferManager ---------------------------
(***************************************************************************)
(* The download slots and the queue of TransferManager                     *)
(* (sharing/manager.rs): which rows run, which wait, and who is promoted   *)
(* when a slot comes free.  Every action is one critical section under the *)
(* manager's write lock; the Verifying event (network/transfer_events.rs)  *)
(* alone looks at the row in one and sets it in the next.                  *)
(*                                                                         *)
(* Rows are downloads of the user.  Uploads and the feeds' internal        *)
(* fetches take no slot and are left out.  Searching and Queued are one    *)
(* status here, "waiting".                                                 *)
(***************************************************************************)
EXTENDS Integers, FiniteSets, SequencesExt

CONSTANTS
    Ids,            \* downloads
    Priorities,     \* priority ordinals
    MaxConcurrent,  \* values the user may give max_concurrent
    MaxEvents       \* bound on Verifying events, and on checks, at one time

VARIABLES
    active,         \* ids in the active map
    queue,          \* ids in the queue, front first
    status,         \* status[id], "none" for an id without a row
    priority,       \* priority[id]
    max_concurrent, \* the cap on rows that hold a slot
    verifying,      \* ids whose Verifying event was looked at, not yet set
    checking,       \* restore_verifications: rows being checked after launch
    rejoining,      \* restore_rejoins: those that need a slot to go on
    unpromoted      \* history: a copy check gave its slot back, nobody took it

vars == <<active, queue, status, priority, max_concurrent, verifying,
          checking, rejoining, unpromoted>>
settingVars == <<priority, max_concurrent>>
eventVars == <<verifying, checking, rejoining>>

Held == {"paused", "stopped", "insufficient"}
Running == {"waiting", "active", "verifying"}
Finished == {"finished"}    \* completed or failed: nothing here tells them apart
Statuses == {"none"} \cup Running \cup Held \cup Finished

TypeOK ==
    /\ active \subseteq Ids
    /\ queue \in Seq(Ids)
    /\ status \in [Ids -> Statuses]
    /\ priority \in [Ids -> Priorities]
    /\ max_concurrent \in MaxConcurrent
    /\ verifying \subseteq Ids
    /\ checking \subseteq Ids
    /\ rejoining \subseteq checking
    /\ unpromoted \in BOOLEAN

Init ==
    /\ active = {}
    /\ queue = <<>>
    /\ status = [id \in Ids |-> "none"]
    /\ priority \in [Ids -> Priorities]
    /\ max_concurrent \in MaxConcurrent
    /\ verifying = {}
    /\ checking = {}
    /\ rejoining = {}
    /\ unpromoted = FALSE

-----------------------------------------------------------------------------
occupies_download_slot(id, st) == st[id] \notin Held

active_download_count(act, st) ==
    Cardinality({id \in act : occupies_download_slot(id, st)})

can_auto_run(id, st) == st[id] \notin Held \cup Finished

Queued(id) == id \in Range(queue)

is_pending(id) == id \in active \/ Queued(id)

Without(id) == SelectSeq(queue, LAMBDA x : x # id)

With(id, s) == [status EXCEPT ![id] = s]

SlotsFull == active_download_count(active, status) >= max_concurrent

(* Position i of the queue is promoted before position j. *)
Before(q, i, j) ==
    \/ priority[q[i]] > priority[q[j]]
    \/ priority[q[i]] = priority[q[j]] /\ i < j

(* promote_next: fill the free slots from the rows of q that may run, the  *)
(* highest priority and, within one, the front of the queue first.         *)
promote_next(act, q, st, max) ==
    LET runnable == {i \in DOMAIN q : can_auto_run(q[i], st)}
        free == max - active_download_count(act, st)
        lifted == {q[i] : i \in {j \in runnable :
                       Cardinality({k \in runnable : Before(q, k, j)}) < free}} IN
    /\ active' = act \cup lifted
    /\ queue' = SelectSeq(q, LAMBDA id : id \notin lifted)
    /\ status' = [id \in Ids |-> IF id \in lifted THEN "waiting" ELSE st[id]]
    /\ unpromoted' = FALSE

(* The rows are moved and nobody is promoted. *)
Place(act, q, st) ==
    /\ active' = act
    /\ queue' = q
    /\ status' = st
    /\ UNCHANGED unpromoted

-----------------------------------------------------------------------------
(* enqueue: a new row, or one added again from the finished list; also     *)
(* what revive_failed does with a failed row.                              *)
enqueue(id, paused) ==
    /\ ~is_pending(id)
    /\ LET st == With(id, IF paused THEN "paused" ELSE "waiting") IN
       IF paused \/ SlotsFull
       THEN Place(active, Append(queue, id), st)
       ELSE Place(active \cup {id}, queue, st)
    /\ UNCHANGED <<settingVars, eventVars>>

(* Mutant: the freed slot stays empty until the next command. *)
FinishWithoutPromotion(id, s) ==
    /\ is_pending(id)
    /\ Place(active \ {id}, Without(id), With(id, s))
    /\ checking' = checking \ {id}
    /\ rejoining' = rejoining \ {id}
    /\ UNCHANGED <<settingVars, verifying>>

(* complete and fail, with finish_restore_verification before them. *)
Finish(id, s) ==
    /\ is_pending(id)
    /\ promote_next(active \ {id}, Without(id), With(id, s), max_concurrent)
    /\ checking' = checking \ {id}
    /\ rejoining' = rejoining \ {id}
    /\ UNCHANGED <<settingVars, verifying>>

(* cancel, and remove, which promotes only if the row was active. *)
Drop(id, promote) ==
    /\ status[id] # "none"
    /\ IF promote
       THEN promote_next(active \ {id}, Without(id), With(id, "none"),
                         max_concurrent)
       ELSE Place(active \ {id}, Without(id), With(id, "none"))
    /\ checking' = checking \ {id}
    /\ rejoining' = rejoining \ {id}
    /\ verifying' = verifying \ {id}
    /\ UNCHANGED settingVars

cancel(id) == Drop(id, TRUE)

remove(id) == Drop(id, id \in active)

(* start_pending_download_worker, the Progress and the SourcesUpdate event *)
Progress(id) ==
    /\ id \in active
    /\ status[id] = "waiting"
    /\ Place(active, queue, With(id, "active"))
    /\ UNCHANGED <<settingVars, eventVars>>

(* The requeue of a failed worker: the row keeps its slot. *)
Requeue(id) ==
    /\ id \in active \ checking
    /\ status[id] \notin Held
    /\ Place(active, queue, With(id, "waiting"))
    /\ UNCHANGED <<settingVars, eventVars>>

(* A Verifying event: looked at under the read lock ... *)
VerifyingCheck(id) ==
    /\ id \in active \ checking
    /\ status[id] \notin Held
    /\ Cardinality(verifying) < MaxEvents
    /\ verifying' = verifying \cup {id}
    /\ UNCHANGED <<active, queue, status, settingVars, checking, rejoining,
                   unpromoted>>

(* ... and set under the write lock, whatever the row is by then. *)
VerifyingSet(id) ==
    /\ id \in verifying
    /\ Place(active, queue,
             IF is_pending(id) THEN With(id, "verifying") ELSE status)
    /\ verifying' = verifying \ {id}
    /\ UNCHANGED <<settingVars, checking, rejoining>>

(* mark_download_insufficient: the row stays where it is. *)
mark_download_insufficient(id) ==
    /\ is_pending(id)
    /\ promote_next(active, queue, With(id, "insufficient"), max_concurrent)
    /\ UNCHANGED <<settingVars, eventVars>>

(* pause_and_promote_many; pause_and_promote for a set of one. *)
pause_and_promote_many(ids) ==
    LET st == [id \in Ids |-> IF id \in ids /\ is_pending(id)
                              THEN "paused" ELSE status[id]] IN
    /\ IF \E id \in ids \cap active : occupies_download_slot(id, status)
       THEN promote_next(active, queue, st, max_concurrent)
       ELSE Place(active, queue, st)
    /\ UNCHANGED <<settingVars, eventVars>>

(* stop: a row of the active map then waits at the head of the queue. *)
stop(id) ==
    /\ is_pending(id)
    /\ IF id \in active
       THEN promote_next(active \ {id}, <<id>> \o queue, With(id, "stopped"),
                         max_concurrent)
       ELSE Place(active, queue, With(id, "stopped"))
    /\ UNCHANGED <<settingVars, eventVars>>

-----------------------------------------------------------------------------
(* A row of the active map that holds no slot now. *)
requires_slot_to_resume(id) ==
    id \in active /\ status[id] \in {"paused", "insufficient"}

(* Mutant: a row of the active map is resumed in place, slot or no slot. *)
ResumeInPlace(id) ==
    /\ is_pending(id) /\ id \notin checking
    /\ LET st == IF Queued(id) \/ requires_slot_to_resume(id)
                 THEN With(id, "waiting") ELSE status IN
       IF Queued(id) /\ ~SlotsFull THEN Place(active \cup {id}, Without(id), st)
       ELSE Place(active, queue, st)
    /\ UNCHANGED <<settingVars, eventVars>>

(* resume: with every slot taken a row of the active map is parked at the  *)
(* head of the queue, and a queued one stays where it is.                  *)
resume(id) ==
    /\ is_pending(id) /\ id \notin checking
    /\ LET st == IF Queued(id) \/ requires_slot_to_resume(id)
                 THEN With(id, "waiting") ELSE status IN
       IF requires_slot_to_resume(id) /\ SlotsFull
       THEN Place(active \ {id}, <<id>> \o queue, st)
       ELSE IF Queued(id) /\ ~SlotsFull
       THEN Place(active \cup {id}, Without(id), st)
       ELSE Place(active, queue, st)
    /\ UNCHANGED <<settingVars, eventVars>>

(* resume_many, ids in request order: while slots last, rows resume in     *)
(* place or leave the queue; the rows of the active map that find none are *)
(* parked at the head of the queue, in request order.                      *)
resume_many(ids) ==
    LET free == max_concurrent - active_download_count(active, status)
        wanting == SelectSeq(ids, LAMBDA id :
                       /\ id \notin checking
                       /\ Queued(id) \/ requires_slot_to_resume(id))
        served == {wanting[i] : i \in {j \in DOMAIN wanting : j <= free}}
        parked == SelectSeq(wanting,
                            LAMBDA id : id \in active /\ id \notin served) IN
    /\ Place((active \ Range(parked)) \cup served,
             parked \o SelectSeq(queue, LAMBDA id : id \notin served),
             [id \in Ids |-> IF id \in Range(wanting)
                             THEN "waiting" ELSE status[id]])
    /\ UNCHANGED <<settingVars, eventVars>>

set_priority(id, p) ==
    /\ is_pending(id)
    /\ priority' = [priority EXCEPT ![id] = p]
    /\ UNCHANGED <<active, queue, status, max_concurrent, eventVars, unpromoted>>

move_queued(ids, to_front) ==
    LET moved == SelectSeq(queue, LAMBDA id : id \in ids)
        rest == SelectSeq(queue, LAMBDA id : id \notin ids) IN
    /\ Place(active, IF to_front THEN moved \o rest ELSE rest \o moved, status)
    /\ UNCHANGED <<settingVars, eventVars>>

set_max_concurrent(max) ==
    /\ max_concurrent' = max
    /\ promote_next(active, queue, status, max)
    /\ UNCHANGED <<priority, eventVars>>

-----------------------------------------------------------------------------
(* admit_for_restore_check: at launch a row that may have finished is      *)
(* checked in the active map, whatever the cap.                            *)
admit_for_restore_check(id, rejoin) ==
    /\ status[id] = "none"
    /\ Cardinality(checking) < MaxEvents
    /\ Place(active \cup {id}, queue, With(id, "verifying"))
    /\ checking' = checking \cup {id}
    /\ rejoining' = IF rejoin THEN rejoining \cup {id} ELSE rejoining
    /\ UNCHANGED <<settingVars, verifying>>

(* The check found another file.  Unless the user touched the row, it goes *)
(* on, with a slot (rejoin_after_restore_check, then the requeue), or back *)
(* to the held status it had (restore_status_after_copy_check), which does *)
(* not promote anybody into the slot the check counted for.                *)
CheckFailed(id, held) ==
    /\ id \in checking
    /\ checking' = checking \ {id}
    /\ rejoining' = rejoining \ {id}
    /\ IF status[id] # "verifying" \/ id \notin active
       THEN Place(active, queue, status)
       ELSE IF id \in rejoining
       THEN IF active_download_count(active, status) > max_concurrent
            THEN Place(active \ {id}, <<id>> \o queue, With(id, "waiting"))
            ELSE Place(active, queue, With(id, "waiting"))
       ELSE /\ status' = With(id, held)
            /\ active' = IF held = "insufficient" THEN active ELSE active \ {id}
            /\ queue' = IF held = "insufficient" THEN queue ELSE Append(queue, id)
            /\ unpromoted' = TRUE
    /\ UNCHANGED <<settingVars, verifying>>

(* The requests resume_many may get: two rows or more, each named once. *)
Orders ==
    LET rows == active \cup Range(queue) IN
    {ids \in UNION {[1..n -> rows] : n \in 2..Cardinality(rows)} :
         IsInjective(ids)}

Next ==
    \/ \E id \in Ids :
           \/ \E paused \in BOOLEAN : enqueue(id, paused)
           \/ \E s \in Finished : Finish(id, s)
           \/ cancel(id) \/ remove(id) \/ Progress(id) \/ Requeue(id)
           \/ VerifyingCheck(id) \/ VerifyingSet(id)
           \/ mark_download_insufficient(id) \/ stop(id) \/ resume(id)
           \/ \E p \in Priorities : set_priority(id, p)
           \/ \E rejoin \in BOOLEAN : admit_for_restore_check(id, rejoin)
           \/ \E held \in Held : CheckFailed(id, held)
    \/ \E ids \in SUBSET (active \cup Range(queue)) \ {{}} : pause_and_promote_many(ids)
    \/ \E ids \in SUBSET Range(queue) \ {{}}, to_front \in BOOLEAN :
           move_queued(ids, to_front)
    \/ \E ids \in Orders : resume_many(ids)
    \/ \E max \in MaxConcurrent : set_max_concurrent(max)

Spec == Init /\ [][Next]_vars

-----------------------------------------------------------------------------
Occupying == {id \in active : occupies_download_slot(id, status)}

(* No step takes the rows that download past the cap: a cap the user       *)
(* lowered is waited for, and a row checked after launch, which runs       *)
(* whatever the cap, goes on downloading only with a slot.  Only a         *)
(* Verifying event that was looked at before a Pause gets past it.         *)
CapKept ==
    [][ Cardinality((Occupying \ checking)') > max_concurrent' =>
        (Occupying \ checking)' \subseteq (Occupying \ checking) \cup verifying ]_vars

(* A free slot is never left idle: no row that may run waits in the queue  *)
(* while a slot is free, except one that a late Verifying event took out   *)
(* of Stopped there, and the slot a copy check gave back, which waits for  *)
(* the next promotion.                                                     *)
NoIdleSlot ==
    Cardinality(Occupying) < max_concurrent /\ ~unpromoted =>
        \A id \in Range(queue) : status[id] \in Held \cup {"verifying"}

=============================================================================
