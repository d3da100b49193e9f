--------------------------- MODULE TransferStatus ---------------------------
(***************************************************************************)
(* The status of one download: the live one in the TransferManager, the    *)
(* one in the database that the next launch restores, and the handlers     *)
(* that change the first under the manager's lock and the second after     *)
(* they released it.                                                       *)
(*                                                                         *)
(* IPC handlers (commands/transfers.rs) run beside the network task        *)
(* (network/command.rs, event_loop/download_event.rs, transfer_events.rs), *)
(* which handles one command or event at a time.  Every status write takes *)
(* a number from TransferStatusWriteClock (network/downloads.rs) and then  *)
(* runs on the blocking pool, in any order.  Searching and Queued are one  *)
(* status here, "waiting": nothing tells them apart but the source count.  *)
(***************************************************************************)
EXTENDS Naturals, Sequences, FiniteSets

CONSTANTS
    Handlers,   \* IPC calls for this row in flight at a time
    MaxSeq      \* bound: status writes between two launches

VARIABLES
    live,       \* status of the row in the TransferManager
    db,         \* status in the transfers table
    seq,        \* TransferStatusWriteClock.seq: numbers handed out
    last,       \* TransferStatusWriteClock.last of this row, 0 for none
    writes,     \* status writes handed to the blocking pool
    task,       \* where each IPC handler and the network task are
    starts,     \* StartDownload commands in the channel: their controls
    worker,     \* a worker is running, or its events are still queued
    overlap,    \* history: two handlers overlapped since the last clean write
    lost        \* history: SQLite refused the newest write

vars == <<live, db, seq, last, writes, task, starts, worker, overlap, lost>>

Net == "net"
Tasks == Handlers \cup {Net}
Held == {"paused", "stopped", "insufficient"}
Pending == {"waiting", "active", "verifying"} \cup Held
Statuses == Pending \cup {"completed", "failed"}
Settled == Held \cup {"completed", "failed"}

(* The steps that lie between two critical sections of a handler: a status *)
(* was looked at and is about to be replaced (verify, fail, full,          *)
(* searching), or was set and its write has no number yet (read, persist). *)
Between == {"verify", "fail", "full", "searching", "read", "persist"}

Idle == [pc |-> "idle", st |-> "waiting", start |-> FALSE, seq |-> 0]
TaskType == [pc : Between \cup {"idle", "await"}, st : Statuses,
             start : BOOLEAN, seq : 0..MaxSeq]
Writes == [seq : 1..MaxSeq, st : Statuses]

TypeOK ==
    /\ live \in Statuses
    /\ db \in Statuses
    /\ seq \in 0..MaxSeq
    /\ last \in 0..seq
    /\ writes \in SUBSET Writes
    /\ task \in [Tasks -> TaskType]
    /\ starts \in Seq({"live", "cancelled"})
    /\ worker \in BOOLEAN
    /\ overlap \in BOOLEAN
    /\ lost \in BOOLEAN

(* What the database holds for a live status: Active is never written. *)
Stored(s) == IF s = "active" THEN "waiting" ELSE s

(* A download just added, and saved, whose StartDownload is on its way. *)
Init ==
    /\ live = "waiting"
    /\ db = "waiting"
    /\ seq = 0
    /\ last = 0
    /\ writes = {}
    /\ task = [t \in Tasks |-> Idle]
    /\ starts = <<"live">>
    /\ worker = FALSE
    /\ overlap = FALSE
    /\ lost = FALSE

-----------------------------------------------------------------------------
MidHandler(t) == task[t].pc \in Between

Goto(t, pc, st) == task' = [task EXCEPT ![t].pc = pc, ![t].st = st]

(* One critical section of t under the manager's write lock. *)
SetLive(t, s) ==
    /\ live' = s
    /\ overlap' = (overlap \/ (s # live /\ \E u \in Tasks \ {t} : MidHandler(u)))

(* Cancelling the registered control reaches the starts still queued. *)
Cancelled(cmds) == [i \in DOMAIN cmds |-> "cancelled"]

(* A handler starts only if the clock's bound leaves it a number. *)
MayBegin(t) ==
    /\ task[t].pc = "idle"
    /\ seq + Cardinality({u \in Tasks : task[u].pc # "idle"}) < MaxSeq

(* The status write of t gets its number, after the manager's lock was     *)
(* released; a handler waits for its write, the network task does not.     *)
Persist(t) ==
    /\ task[t].pc = "persist"
    /\ seq' = seq + 1
    /\ writes' = writes \cup {[seq |-> seq + 1, st |-> Stored(task[t].st)]}
    /\ task' = [task EXCEPT ![t] =
                    IF t = Net THEN Idle
                    ELSE [@ EXCEPT !.pc = "await", !.seq = seq + 1]]
    /\ overlap' = (overlap /\ ~(/\ task[t].st = live
                                /\ \A u \in Tasks \ {t} : ~MidHandler(u)))
    /\ UNCHANGED <<live, db, last, starts, worker, lost>>

(* Mutant: a write is dropped only if its number was applied before. *)
StaleEqual(applied, n) == n = applied

transfer_status_write_is_stale(applied, n) == n <= applied

(* A write runs, holding the clock: its number is recorded even when       *)
(* SQLite refuses the row.                                                 *)
ApplyWrite(w, ok) ==
    /\ writes' = writes \ {w}
    /\ IF transfer_status_write_is_stale(last, w.seq)
       THEN UNCHANGED <<last, db, lost>>
       ELSE /\ last' = w.seq
            /\ db' = IF ok THEN w.st ELSE db
            /\ lost' = ~ok
    /\ UNCHANGED <<live, seq, task, starts, worker, overlap>>

-----------------------------------------------------------------------------
(* pause_transfer: a finished row keeps its status, which is saved again. *)
Pause(h) ==
    LET s == IF live \in Pending THEN "paused" ELSE live IN
    /\ MayBegin(h)
    /\ SetLive(h, s)
    /\ Goto(h, "persist", s)
    /\ starts' = Cancelled(starts)
    /\ UNCHANGED <<db, seq, last, writes, worker, lost>>

(* stop_transfer: only a row that is still pending is stopped and saved. *)
Stop(h) ==
    /\ MayBegin(h)
    /\ live \in Pending
    /\ SetLive(h, "stopped")
    /\ Goto(h, "persist", "stopped")
    /\ starts' = Cancelled(starts)
    /\ UNCHANGED <<db, seq, last, writes, worker, lost>>

(* resume_transfer: with a slot free the row will be started once its      *)
(* status is saved, otherwise it waits in the queue.                       *)
Resume(h, slot) ==
    /\ MayBegin(h)
    /\ live \notin Held => ~slot
    /\ SetLive(h, IF live \in Held THEN "waiting" ELSE live)
    /\ task' = [task EXCEPT ![h].pc = "read", ![h].start = slot]
    /\ UNCHANGED <<db, seq, last, writes, starts, worker, lost>>

(* ... and reads the status to save under a lock of its own. *)
ReadBack(h) ==
    /\ task[h].pc = "read"
    /\ Goto(h, "persist", live)
    /\ UNCHANGED <<live, db, seq, last, writes, starts, worker, overlap, lost>>

(* revive_failed_download: a failed row goes back to waiting. *)
Revive(h, slot) ==
    /\ MayBegin(h)
    /\ live = "failed"
    /\ SetLive(h, "waiting")
    /\ task' = [task EXCEPT ![h].pc = "persist", ![h].st = "waiting",
                            ![h].start = slot]
    /\ UNCHANGED <<db, seq, last, writes, starts, worker, lost>>

(* The write has run; start_promoted_downloads looks at the row again.     *)
(* The command takes a fresh control, which cancels the one before it.     *)
Return(h) ==
    /\ task[h].pc = "await"
    /\ \A w \in writes : w.seq # task[h].seq
    /\ starts' = IF task[h].start /\ live \in {"waiting", "active"}
                 THEN Append(Cancelled(starts), "live") ELSE starts
    /\ task' = [task EXCEPT ![h] = Idle]
    /\ UNCHANGED <<live, db, seq, last, writes, worker, overlap, lost>>

-----------------------------------------------------------------------------
NetIdle == MayBegin(Net)
Control == Head(starts)

(* StartDownload with sources: a worker, on a control that may be          *)
(* cancelled, in which case it ends at once and reports nothing.           *)
StartWorker ==
    /\ NetIdle /\ starts # <<>>
    /\ starts' = Tail(starts)
    /\ worker' = (worker \/ Control = "live")
    /\ UNCHANGED <<live, db, seq, last, writes, task, overlap, lost>>

(* StartDownload whose sources were all refused: the control is looked at  *)
(* before the lock is taken.                                               *)
StartRefused ==
    /\ NetIdle /\ starts # <<>>
    /\ starts' = Tail(starts)
    /\ task' = [task EXCEPT ![Net].pc =
                    IF Control = "live" THEN "searching" ELSE "idle"]
    /\ UNCHANGED <<live, db, seq, last, writes, worker, overlap, lost>>

SetSearching ==
    /\ task[Net].pc = "searching"
    /\ live' = IF live \in Pending THEN "waiting" ELSE live
    /\ overlap' = (overlap \/ Stored(live') # Stored(live))
    /\ task' = [task EXCEPT ![Net] = Idle]
    /\ UNCHANGED <<db, seq, last, writes, starts, worker, lost>>

(* StartDownload without a source address: "searching" is saved whatever   *)
(* became of the row or of the control meanwhile.                          *)
StartNoSource ==
    /\ NetIdle /\ starts # <<>>
    /\ starts' = Tail(starts)
    /\ seq' = seq + 1
    /\ writes' = writes \cup {[seq |-> seq + 1, st |-> "waiting"]}
    /\ overlap' = (overlap \/ Stored(live) # "waiting")
    /\ UNCHANGED <<live, db, last, task, worker, lost>>

(* start_pending_download_worker, the Progress and the SourcesUpdate       *)
(* event: looked at and set under one lock, and not saved.                 *)
SetActive ==
    /\ NetIdle
    /\ live = "waiting"
    /\ live' = "active"
    /\ worker' = TRUE
    /\ UNCHANGED <<db, seq, last, writes, task, starts, overlap, lost>>

(* A Verifying event, a Failed event that will not be retried, one that    *)
(* says the disk is full: the row is looked at under the read lock ...     *)
Check(kind) ==
    /\ NetIdle /\ worker
    /\ kind = "verify" => live \notin Settled
    /\ kind = "fail" => live \notin Settled \ {"failed"}
    /\ kind = "full" => live \in Pending \ {"paused"}
    /\ worker' = (kind = "verify")
    /\ task' = [task EXCEPT ![Net].pc = kind]
    /\ UNCHANGED <<live, db, seq, last, writes, starts, overlap, lost>>

(* ... and set under the write lock, as far as it is still pending. *)
SetChecked(kind, s) ==
    /\ task[Net].pc = kind
    /\ SetLive(Net, IF live \in Pending THEN s ELSE live)
    /\ Goto(Net, "persist", s)
    /\ starts' = IF kind = "full" THEN Cancelled(starts) ELSE starts
    /\ UNCHANGED <<db, seq, last, writes, worker, lost>>

(* A Failed event that is retried: looked at and set under one lock. *)
Requeue ==
    /\ NetIdle /\ worker
    /\ live \notin Settled
    /\ SetLive(Net, "waiting")
    /\ Goto(Net, "persist", "waiting")
    /\ worker' = FALSE
    /\ UNCHANGED <<db, seq, last, writes, starts, lost>>

(* A Completed event: complete() takes the row from wherever it waits. *)
Complete ==
    /\ NetIdle /\ worker
    /\ live \in Pending
    /\ SetLive(Net, "completed")
    /\ Goto(Net, "persist", "completed")
    /\ starts' = Cancelled(starts)
    /\ worker' = FALSE
    /\ UNCHANGED <<db, seq, last, writes, lost>>

(* The process ends, and the next launch restores the row: only a waiting  *)
(* one is started.                                                         *)
Restart ==
    /\ live' = db
    /\ seq' = 0
    /\ last' = 0
    /\ writes' = {}
    /\ task' = [t \in Tasks |-> Idle]
    /\ starts' = IF db = "waiting" THEN <<"live">> ELSE <<>>
    /\ worker' = (db = "verifying")
    /\ overlap' = FALSE
    /\ lost' = FALSE
    /\ UNCHANGED db

Next ==
    \/ \E h \in Handlers :
           \/ Pause(h) \/ Stop(h) \/ ReadBack(h) \/ Return(h)
           \/ \E slot \in BOOLEAN : Resume(h, slot) \/ Revive(h, slot)
    \/ \E t \in Tasks : Persist(t)
    \/ \E w \in writes, ok \in BOOLEAN : ApplyWrite(w, ok)
    \/ StartWorker \/ StartRefused \/ SetSearching \/ StartNoSource
    \/ SetActive \/ Requeue \/ Complete
    \/ \E kind \in {"verify", "fail", "full"} : Check(kind)
    \/ SetChecked("verify", "verifying")
    \/ SetChecked("fail", "failed")
    \/ SetChecked("full", "insufficient")
    \/ Restart

Spec == Init /\ [][Next]_vars

-----------------------------------------------------------------------------
Quiet == writes = {} /\ \A t \in Tasks : task[t].pc = "idle"

(* However the blocking pool reorders the writes, once they have run the   *)
(* database holds the live status, unless two handlers overlapped between  *)
(* setting a status and numbering its write, or SQLite refused the write   *)
(* (TransferStatusWriteClock).                                             *)
OrderedStatusIsPersisted ==
    Quiet /\ ~overlap /\ ~lost => db = Stored(live)
=============================================================================
