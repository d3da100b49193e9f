--------------------------- MODULE PartFileWriter ---------------------------
(***************************************************************************)
(* The per-file write coordinator of an ed2k download                      *)
(* (network/ed2k/write_coordinator.rs).                                    *)
(*                                                                         *)
(* One `.part` path, and the generations of the download that open it one  *)
(* after the other: each generation passes the path's gate, opens the      *)
(* file and hands it to a worker thread of its own, which executes the     *)
(* operations its callers put in a bounded queue.  A caller gives an       *)
(* operation up when its budget runs out, and the volume may never answer. *)
(*                                                                         *)
(* Data: an operation is its kind, its caller and the place it took in the *)
(* order in which queues accepted operations; `disk` is the place of the   *)
(* last write that reached the kernel.                                     *)
(***************************************************************************)
EXTENDS Naturals, Sequences

CONSTANTS
    Gens,                   \* generations of the download of this path
    Callers,                \* source workers of one generation
    WRITER_QUEUE_CAPACITY,  \* slots of a writer's queue
    MaxOps,                 \* bound on accepted operations
    NoGate                  \* "no semaphore": not a generation

ASSUME WriterAssumption ==
    /\ WRITER_QUEUE_CAPACITY \in Nat \ {0}
    /\ MaxOps \in Nat
    /\ NoGate \notin Gens

VARIABLES
    gates,     \* semaphore PART_WRITER_GATES has for the path; a semaphore
               \* is named after the generation that created it
    strong,    \* strong[g]: semaphore that g keeps alive, by waiting on it
               \* or through its permit
    permit,    \* permit[g]: g owns a permit of strong[g]
    phase,     \* where g's open() is, and whether its Inner was dropped
    thread,    \* where g's writer thread is
    current,   \* operation g's thread is executing
    queue,     \* g's channel
    discard,   \* g's transfer is being discarded
    wedged,    \* g's writer blew a budget
    watcher,   \* g's discard watcher is running
    call,      \* call[g][c]: what caller c of g is waiting for
    accepted,  \* operations accepted so far, by all queues
    disk,      \* place of the last write that reached the kernel
    durable,   \* places up to this one are on stable storage
    badVolume, \* the volume fails requests
    acked,     \* history: acked[g] is the last write g's callers were told
               \* succeeded
    refused    \* history: writes whose callers were told they failed, before
               \* the thread had started on them

gateVars == <<gates, strong, permit>>
diskVars == <<disk, durable, badVolume, acked>>
vars == <<gates, strong, permit, phase, thread, current, queue,
          discard, wedged, watcher, call, accepted, disk, durable,
          badVolume, acked, refused>>

Places == 0 .. MaxOps
Requests == {"Write", "HashPartMd4", "SyncData"}
NoOp == [kind |-> "none"]
Close == [kind |-> "Close"]
Abandon == [kind |-> "Abandon"]
Idle == [at |-> "idle"]

WriteOp ==
    [kind : Requests, from : Callers, place : Places] \cup {Close, Abandon}
Call ==
    {Idle} \cup [at : {"sending"}, kind : Requests]
           \cup [at : {"waiting"}, place : Places]

Phase == {"new", "gated", "opening", "open", "dropped", "failed"}
Thread == {"none", "start", "recv", "exec", "flush", "unwinding",
           "released", "exited"}

(* The thread owns the open file until `drop(file)`. *)
HoldsFile(g) == thread[g] \in {"start", "recv", "exec", "flush"}

(* The receiver is a capture of the thread's closure: it is dropped after  *)
(* the permit, when the closure is.                                        *)
RxOpen(g) == thread[g] \notin {"none", "exited"}

TypeOK ==
    /\ gates \in Gens \cup {NoGate}
    /\ strong \in [Gens -> Gens \cup {NoGate}]
    /\ permit \in [Gens -> BOOLEAN]
    /\ phase \in [Gens -> Phase]
    /\ thread \in [Gens -> Thread]
    /\ current \in [Gens -> WriteOp \cup {NoOp}]
    /\ queue \in [Gens -> Seq(WriteOp)]
    /\ \A g \in Gens : Len(queue[g]) <= WRITER_QUEUE_CAPACITY
    /\ discard \in [Gens -> BOOLEAN]
    /\ wedged \in [Gens -> BOOLEAN]
    /\ watcher \in [Gens -> BOOLEAN]
    /\ call \in [Gens -> [Callers -> Call]]
    /\ accepted \in Places
    /\ disk \in Places
    /\ durable \in Places
    /\ badVolume \in BOOLEAN
    /\ acked \in [Gens -> Places]
    /\ refused \subseteq Places

Init ==
    /\ gates = NoGate
    /\ strong = [g \in Gens |-> NoGate]
    /\ permit = [g \in Gens |-> FALSE]
    /\ phase = [g \in Gens |-> "new"]
    /\ thread = [g \in Gens |-> "none"]
    /\ current = [g \in Gens |-> NoOp]
    /\ queue = [g \in Gens |-> <<>>]
    /\ discard = [g \in Gens |-> FALSE]
    /\ wedged = [g \in Gens |-> FALSE]
    /\ watcher = [g \in Gens |-> FALSE]
    /\ call = [g \in Gens |-> [c \in Callers |-> Idle]]
    /\ accepted = 0
    /\ disk = 0
    /\ durable = 0
    /\ badVolume = FALSE
    /\ acked = [g \in Gens |-> 0]
    /\ refused = {}

-----------------------------------------------------------------------------
(* open(): the gate, the permit, the file, the thread and the watcher.     *)

(* Mutant: the map's entry is never upgraded. *)
WriterGateAlwaysFresh(g) ==
    /\ phase[g] = "new"
    /\ phase' = [phase EXCEPT ![g] = "gated"]
    /\ gates' = g
    /\ strong' = [strong EXCEPT ![g] = g]
    /\ UNCHANGED <<permit, thread, current, queue, discard, wedged,
                   watcher, call, accepted, diskVars, refused>>

(* writer_gate: the registered semaphore if a waiter or a permit still     *)
(* keeps it alive, a fresh one otherwise.                                  *)
WriterGate(g) ==
    /\ phase[g] = "new"
    /\ phase' = [phase EXCEPT ![g] = "gated"]
    /\ LET live == gates # NoGate /\ \E h \in Gens : strong[h] = gates
           gate == IF live THEN gates ELSE g
       IN  /\ gates' = gate
           /\ strong' = [strong EXCEPT ![g] = gate]
    /\ UNCHANGED <<permit, thread, current, queue, discard, wedged,
                   watcher, call, accepted, diskVars, refused>>

AcquireOwned(g) ==
    /\ phase[g] = "gated"
    /\ \A h \in Gens : strong[h] = strong[g] => ~permit[h]
    /\ permit' = [permit EXCEPT ![g] = TRUE]
    /\ phase' = [phase EXCEPT ![g] = "opening"]
    /\ UNCHANGED <<gates, strong, thread, current, queue, discard,
                   wedged, watcher, call, accepted, diskVars, refused>>

(* WRITER_HANDOFF_TIMEOUT on the gate, a file that does not open, a thread *)
(* that does not start, or the abort of the task that runs open().         *)
OpenFails(g) ==
    /\ phase[g] \in {"gated", "opening"}
    /\ phase' = [phase EXCEPT ![g] = "failed"]
    /\ strong' = [strong EXCEPT ![g] = NoGate]
    /\ permit' = [permit EXCEPT ![g] = FALSE]
    /\ UNCHANGED <<gates, thread, current, queue, discard, wedged,
                   watcher, call, accepted, diskVars, refused>>

(* Mutant: the permit stays in open() instead of moving to the thread. *)
OpenPermitNotMoved(g) ==
    /\ phase[g] = "opening"
    /\ phase' = [phase EXCEPT ![g] = "open"]
    /\ thread' = [thread EXCEPT ![g] = "start"]
    /\ watcher' = [watcher EXCEPT ![g] = TRUE]
    /\ permit' = [permit EXCEPT ![g] = FALSE]
    /\ strong' = [strong EXCEPT ![g] = NoGate]
    /\ UNCHANGED <<gates, current, queue, discard, wedged, call, accepted,
                   diskVars, refused>>

Open(g) ==
    /\ phase[g] = "opening"
    /\ phase' = [phase EXCEPT ![g] = "open"]
    /\ thread' = [thread EXCEPT ![g] = "start"]
    /\ watcher' = [watcher EXCEPT ![g] = TRUE]
    /\ UNCHANGED <<gateVars, current, queue, discard, wedged, call,
                   accepted, diskVars, refused>>

(* The transfer is cancelled and its `.part` is about to be deleted. *)
Discard(g) ==
    /\ ~discard[g]
    /\ phase[g] \notin {"new", "failed"}
    /\ thread[g] # "exited"
    /\ discard' = [discard EXCEPT ![g] = TRUE]
    /\ UNCHANGED <<gateVars, phase, thread, current, queue, wedged,
                   watcher, call, accepted, diskVars, refused>>

(* try_send: silently lost when the queue is full or its receiver gone. *)
TrySend(q, g, op) ==
    IF RxOpen(g) /\ Len(q) < WRITER_QUEUE_CAPACITY THEN Append(q, op) ELSE q

(* The watcher's next poll: it leaves when the writer is gone, and wakes   *)
(* the thread once when the discard flag is set.                           *)
WatcherPoll(g) ==
    /\ watcher[g]
    /\ discard[g] \/ phase[g] = "dropped" \/ ~RxOpen(g)
    /\ watcher' = [watcher EXCEPT ![g] = FALSE]
    /\ queue' = IF discard[g] /\ phase[g] = "open"
                  THEN [queue EXCEPT ![g] = TrySend(@, g, Abandon)]
                  ELSE queue
    /\ UNCHANGED <<gateVars, phase, thread, current, discard, wedged,
                   call, accepted, diskVars, refused>>

-----------------------------------------------------------------------------
(* submit(): a caller's side of one operation.                             *)

Return(g, c) == call' = [call EXCEPT ![g][c] = Idle]

(* A wedged writer fails the operation at once: nothing changes then. *)
Submit(g, c, kind) ==
    /\ phase[g] = "open"
    /\ call[g][c] = Idle
    /\ ~wedged[g]
    /\ accepted < MaxOps
    /\ call' = [call EXCEPT ![g][c] = [at |-> "sending", kind |-> kind]]
    /\ UNCHANGED <<gateVars, phase, thread, current, queue, discard,
                   wedged, watcher, accepted, diskVars, refused>>

SendAccepted(g, c) ==
    /\ call[g][c].at = "sending"
    /\ RxOpen(g)
    /\ Len(queue[g]) < WRITER_QUEUE_CAPACITY
    /\ accepted < MaxOps
    /\ accepted' = accepted + 1
    /\ queue' = [queue EXCEPT ![g] = Append(@,
           [kind |-> call[g][c].kind, from |-> c, place |-> accepted + 1])]
    /\ call' = [call EXCEPT ![g][c] = [at |-> "waiting", place |-> accepted + 1]]
    /\ UNCHANGED <<gateVars, phase, thread, current, discard, wedged,
                   watcher, diskVars, refused>>

(* The operation's place, when it is still somewhere in the channel. *)
Queued(g, n) == \E i \in 1 .. Len(queue[g]) :
                   /\ queue[g][i].kind \in Requests
                   /\ queue[g][i].place = n
Executing(g, n) == /\ current[g].kind \in Requests
                   /\ current[g].place = n

(* What the caller learns of an operation that fails under it. *)
Refused(g, c) ==
    IF call[g][c].at = "waiting" /\ ~Executing(g, call[g][c].place)
    THEN refused \cup {call[g][c].place} ELSE refused

(* BrokenPipe: the receiver is gone, or the ack was dropped with the       *)
(* operation.                                                              *)
BrokenPipe(g, c) ==
    /\ \/ call[g][c].at = "sending" /\ ~RxOpen(g)
       \/ /\ call[g][c].at = "waiting"
          /\ ~Queued(g, call[g][c].place)
          /\ ~Executing(g, call[g][c].place)
    /\ Return(g, c)
    /\ refused' = Refused(g, c)
    /\ UNCHANGED <<gateVars, phase, thread, current, queue, discard,
                   wedged, watcher, accepted, diskVars>>

(* Mutant: only the wait for the ack has a deadline. *)
SubmitTimeoutAckOnly(g, c) ==
    /\ call[g][c].at = "waiting"
    /\ Return(g, c)
    /\ refused' = Refused(g, c)
    /\ wedged' = [wedged EXCEPT ![g] = TRUE]
    /\ queue' = IF wedged[g] THEN queue
                 ELSE [queue EXCEPT ![g] = TrySend(@, g, Abandon)]
    /\ UNCHANGED <<gateVars, phase, thread, current, discard, watcher,
                   accepted, diskVars>>

(* The budget runs out, in either half: poison(). *)
SubmitTimeout(g, c) ==
    /\ call[g][c] # Idle
    /\ Return(g, c)
    /\ refused' = Refused(g, c)
    /\ wedged' = [wedged EXCEPT ![g] = TRUE]
    /\ queue' = IF wedged[g] THEN queue
                 ELSE [queue EXCEPT ![g] = TrySend(@, g, Abandon)]
    /\ UNCHANGED <<gateVars, phase, thread, current, discard, watcher,
                   accepted, diskVars>>

(* The caller's task is aborted.  An operation the queue has accepted      *)
(* stays there; nobody will read its ack.                                  *)
CallerAborted(g, c) ==
    /\ call[g][c] # Idle
    /\ Return(g, c)
    /\ UNCHANGED <<gateVars, phase, thread, current, queue, discard,
                   wedged, watcher, accepted, diskVars, refused>>

(* Drop for Inner, with the last clone of the writer. *)
DropInner(g) ==
    /\ phase[g] = "open"
    /\ \A c \in Callers : call[g][c] = Idle
    /\ phase' = [phase EXCEPT ![g] = "dropped"]
    /\ queue' = [queue EXCEPT ![g] =
           TrySend(@, g, IF discard[g] \/ wedged[g] THEN Abandon ELSE Close)]
    /\ UNCHANGED <<gateVars, thread, current, discard, wedged, watcher,
                   call, accepted, diskVars, refused>>

-----------------------------------------------------------------------------
(* writer_loop(): the thread.                                              *)

ThreadUnchanged == <<gateVars, phase, discard, wedged, watcher, accepted, refused>>

(* Leave the loop: without a trailing fsync when abandoning. *)
Leave(g, abandoning) ==
    /\ thread' = [thread EXCEPT ![g] = IF abandoning THEN "unwinding" ELSE "flush"]
    /\ current' = [current EXCEPT ![g] = NoOp]

Enter(g) ==
    /\ thread[g] = "start"
    /\ IF discard[g]
       THEN Leave(g, TRUE)
       ELSE /\ thread' = [thread EXCEPT ![g] = "recv"]
            /\ UNCHANGED current
    /\ UNCHANGED <<queue, call, diskVars, ThreadUnchanged>>

(* Mutants: the thread re-reads only one of its flags between operations. *)
RecvWedgedNotReread(g) ==
    /\ thread[g] = "recv"
    /\ queue[g] # <<>>
    /\ queue' = [queue EXCEPT ![g] = Tail(@)]
    /\ LET op == Head(queue[g])
       IN  CASE discard[g] \/ op = Abandon -> Leave(g, TRUE)
             [] op = Close /\ ~discard[g] -> Leave(g, FALSE)
             [] OTHER -> /\ thread' = [thread EXCEPT ![g] = "exec"]
                         /\ current' = [current EXCEPT ![g] = op]
    /\ UNCHANGED <<call, diskVars, ThreadUnchanged>>

RecvDiscardNotReread(g) ==
    /\ thread[g] = "recv"
    /\ queue[g] # <<>>
    /\ queue' = [queue EXCEPT ![g] = Tail(@)]
    /\ LET op == Head(queue[g])
       IN  CASE wedged[g] \/ op = Abandon -> Leave(g, TRUE)
             [] op = Close /\ ~wedged[g] -> Leave(g, FALSE)
             [] OTHER -> /\ thread' = [thread EXCEPT ![g] = "exec"]
                         /\ current' = [current EXCEPT ![g] = op]
    /\ UNCHANGED <<call, diskVars, ThreadUnchanged>>

(* blocking_recv and the re-read of the two flags. *)
Recv(g) ==
    /\ thread[g] = "recv"
    /\ queue[g] # <<>>
    /\ queue' = [queue EXCEPT ![g] = Tail(@)]
    /\ LET op == Head(queue[g])
       IN  CASE wedged[g] \/ discard[g] \/ op = Abandon -> Leave(g, TRUE)
             [] op = Close /\ ~(wedged[g] \/ discard[g]) -> Leave(g, FALSE)
             [] OTHER -> /\ thread' = [thread EXCEPT ![g] = "exec"]
                         /\ current' = [current EXCEPT ![g] = op]
    /\ UNCHANGED <<call, diskVars, ThreadUnchanged>>

(* Mutant: a closed channel is taken for an abandoned writer. *)
RecvNoneAbandons(g) ==
    /\ thread[g] = "recv"
    /\ queue[g] = <<>>
    /\ phase[g] = "dropped"
    /\ Leave(g, TRUE)
    /\ UNCHANGED <<queue, call, diskVars, ThreadUnchanged>>

(* Every sender is gone and the queue is drained. *)
RecvNone(g) ==
    /\ thread[g] = "recv"
    /\ queue[g] = <<>>
    /\ phase[g] = "dropped"
    /\ Leave(g, FALSE)
    /\ UNCHANGED <<queue, call, diskVars, ThreadUnchanged>>

Awaited(g) == call[g][current[g].from] = [at |-> "waiting", place |-> current[g].place]

(* ack.send: lost when the caller has gone. *)
Ack(g) ==
    call' = IF Awaited(g) THEN [call EXCEPT ![g][current[g].from] = Idle] ELSE call

NextOp(g) ==
    /\ thread' = [thread EXCEPT ![g] = "recv"]
    /\ current' = [current EXCEPT ![g] = NoOp]

(* A failed write may have put some of its bytes on disk. *)
ExecWrite(g) ==
    /\ thread[g] = "exec"
    /\ current[g].kind = "Write"
    /\ \/ /\ disk' = current[g].place
          /\ acked' = IF Awaited(g) THEN [acked EXCEPT ![g] = current[g].place]
                                    ELSE acked
       \/ /\ badVolume
          /\ disk' \in {disk, current[g].place}
          /\ UNCHANGED acked
    /\ Ack(g)
    /\ NextOp(g)
    /\ UNCHANGED <<queue, durable, badVolume, ThreadUnchanged>>

ExecHashPartMd4(g) ==
    /\ thread[g] = "exec"
    /\ current[g].kind = "HashPartMd4"
    /\ Ack(g)
    /\ NextOp(g)
    /\ UNCHANGED <<queue, diskVars, ThreadUnchanged>>

FileSync == durable' = disk \/ (badVolume /\ UNCHANGED durable)

(* The discard flag is read once more before an explicit fsync. *)
ExecSyncData(g) ==
    /\ thread[g] = "exec"
    /\ current[g].kind = "SyncData"
    /\ Ack(g)
    /\ IF discard[g]
       THEN Leave(g, TRUE) /\ UNCHANGED durable
       ELSE FileSync /\ NextOp(g)
    /\ UNCHANGED <<queue, disk, badVolume, acked, ThreadUnchanged>>

(* The trailing fsync; its result is ignored. *)
Flush(g) ==
    /\ thread[g] = "flush"
    /\ FileSync
    /\ thread' = [thread EXCEPT ![g] = "unwinding"]
    /\ UNCHANGED <<current, queue, call, disk, badVolume, acked,
                   ThreadUnchanged>>

(* The file is closed; the permit goes next, then the receiver with what   *)
(* is left in the channel.                                                 *)
ReleasePermit(g) ==
    /\ thread[g] = "unwinding"
    /\ thread' = [thread EXCEPT ![g] = "released"]
    /\ permit' = [permit EXCEPT ![g] = FALSE]
    /\ strong' = [strong EXCEPT ![g] = NoGate]
    /\ UNCHANGED <<gates, phase, current, queue, discard, wedged,
                   watcher, call, accepted, diskVars, refused>>

DropReceiver(g) ==
    /\ thread[g] = "released"
    /\ thread' = [thread EXCEPT ![g] = "exited"]
    /\ queue' = [queue EXCEPT ![g] = <<>>]
    /\ UNCHANGED <<current, call, diskVars, ThreadUnchanged>>

(* The volume starts to fail requests. *)
VolumeFails ==
    /\ ~badVolume
    /\ badVolume' = TRUE
    /\ UNCHANGED <<gateVars, phase, thread, current, queue, discard,
                   wedged, watcher, call, accepted, disk, durable, acked, refused>>

-----------------------------------------------------------------------------
DiskStep(g) == ExecWrite(g) \/ ExecHashPartMd4(g) \/ ExecSyncData(g) \/ Flush(g)
ThreadStep(g) == Enter(g) \/ Recv(g) \/ RecvNone(g) \/ ReleasePermit(g)
                 \/ DropReceiver(g)
CallerStep(g, c) ==
    \/ \E kind \in Requests : Submit(g, c, kind)
    \/ SendAccepted(g, c) \/ BrokenPipe(g, c)
    \/ SubmitTimeout(g, c) \/ CallerAborted(g, c)

Next ==
    \/ \E g \in Gens :
          \/ WriterGate(g) \/ AcquireOwned(g) \/ OpenFails(g) \/ Open(g)
          \/ Discard(g) \/ WatcherPoll(g) \/ DropInner(g)
          \/ DiskStep(g) \/ ThreadStep(g)
          \/ \E c \in Callers : CallerStep(g, c)
    \/ VolumeFails

Spec == Init /\ [][Next]_vars

(* Threads run and timers fire; the volume need not answer. *)
Fairness ==
    \A g \in Gens :
        /\ WF_vars(ThreadStep(g))
        /\ WF_vars(WatcherPoll(g))
        /\ \A c \in Callers :
              WF_vars(BrokenPipe(g, c)) /\ WF_vars(SubmitTimeout(g, c))

FairSpec == Spec /\ Fairness

(* Every request to the volume is answered, with an error or without. *)
VolumeAnswers == \A g \in Gens : WF_vars(DiskStep(g))

-----------------------------------------------------------------------------
(* PART_WRITER_GATES: however generations overlap, time out and fail, no   *)
(* two writer threads ever have the `.part` open at the same time.         *)
OneWriterPerPath ==
    \A g, h \in Gens : HoldsFile(g) /\ HoldsFile(h) => g = h

(* Writes reach the disk in the order in which queues accepted them, over  *)
(* all generations: a block an old generation still had queued never lands *)
(* on top of one a newer generation wrote.                                 *)
NoStaleOverwrite == [][disk' >= disk]_disk

(* A write that its caller was told has failed, before the thread started  *)
(* on it, is never executed: its bytes went back to the gap list, and a    *)
(* retry may have written the same range since.                            *)
RefusedWritesStayOut == disk \notin refused

(* Pause and Stop drop the writer without discarding: once its file is     *)
(* closed, all it acknowledged is on stable storage, because the queue was *)
(* drained and the trailing fsync ran even when `Close` was lost.          *)
PauseKeepsAckedWrites ==
    \A g \in Gens :
        /\ thread[g] \in {"unwinding", "released", "exited"}
        /\ ~discard[g] /\ ~wedged[g] /\ ~badVolume
        => acked[g] <= durable

(* submit() is bounded in both halves: a caller comes back even when the   *)
(* volume never answers.                                                   *)
CallersReturn ==
    \A g \in Gens, c \in Callers : (call[g][c] # Idle) ~> (call[g][c] = Idle)

(* A discarded, wedged or dropped writer closes its file as soon as the    *)
(* volume answers what is in progress, although both senders of `Abandon`  *)
(* and the sender of `Close` give up on a full queue, and although the     *)
(* thread may be parked on an empty one.                                   *)
FileReleased ==
    VolumeAnswers =>
        \A g \in Gens :
            (HoldsFile(g) /\ (discard[g] \/ wedged[g] \/ phase[g] = "dropped"))
                ~> ~HoldsFile(g)
=============================================================================
