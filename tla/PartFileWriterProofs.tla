------------------------ MODULE PartFileWriterProofs ------------------------
(* Proofs about PartFileWriter, for any generations, callers and bounds. *)
EXTENDS PartFileWriter, TLAPS

(* Steps are first-order, for Zenon, unless they name SMT. *)
USE Zenon

(* What the gate keeps: everyone who waits or writes does so on the one    *)
(* registered semaphore, its permit has at most one owner, and whoever has *)
(* the file open owns it.                                                  *)
GateInv ==
    /\ \A g \in Gens : strong[g] # NoGate => strong[g] = gates
    /\ \A g \in Gens : permit[g] => strong[g] # NoGate
    /\ \A g, h \in Gens : permit[g] /\ permit[h] => g = h
    /\ \A g \in Gens :
          thread[g] \in {"start", "recv", "exec", "flush", "unwinding"} => permit[g]
    /\ \A g \in Gens : phase[g] = "opening" => permit[g]
    /\ \A g \in Gens : phase[g] = "gated" => strong[g] # NoGate
    /\ \A g \in Gens :
          phase[g] \in {"new", "gated", "opening", "failed"} => thread[g] = "none"

(* The initial state has the declared types. *)
LEMMA TypeInit == Init => TypeOK
<1> SUFFICES ASSUME Init PROVE TypeOK
  OBVIOUS
<1>1. 0 \in Places
  BY WriterAssumption, SMT DEF WriterAssumption, Places
<1>2. \A g \in Gens : Len(queue[g]) <= WRITER_QUEUE_CAPACITY
  <2> SUFFICES ASSUME NEW g \in Gens PROVE Len(queue[g]) <= WRITER_QUEUE_CAPACITY
    OBVIOUS
  <2>1. queue[g] = <<>>
    BY DEF Init
  <2>2. Len(queue[g]) = 0
    BY <2>1, SMT
  <2> QED
    BY <2>2, WriterAssumption, SMT DEF WriterAssumption
<1>3. queue \in [Gens -> Seq(WriteOp)]
  BY SMT DEF Init
<1> QED
  BY <1>1, <1>2, <1>3 DEF Init, TypeOK, Call, Phase, Thread, Idle, NoOp

(* try_send appends at most one operation, and only below the capacity. *)
LEMMA TrySendType ==
    ASSUME NEW g \in Gens, NEW q \in Seq(WriteOp), NEW op \in WriteOp,
           Len(q) <= WRITER_QUEUE_CAPACITY
    PROVE  /\ TrySend(q, g, op) \in Seq(WriteOp)
           /\ Len(TrySend(q, g, op)) <= WRITER_QUEUE_CAPACITY
BY WriterAssumption, SMT DEF WriterAssumption, TrySend

(* Only requests have a caller and a place. *)
LEMMA RequestFields ==
    ASSUME NEW op \in WriteOp \cup {NoOp}, op.kind \in Requests
    PROVE  op.from \in Callers /\ op.place \in Places
<1>1. op \notin {Close, Abandon, NoOp}
  BY SMT DEF Requests, Close, Abandon, NoOp
<1> QED
  BY <1>1 DEF WriteOp

(* A caller that sends has a request, one that waits has a place. *)
LEMMA CallFields ==
    ASSUME NEW x \in Call
    PROVE  /\ x.at = "sending" => x.kind \in Requests
           /\ x.at = "waiting" => x.place \in Places
BY SMT DEF Call, Idle

(* Every step of the download side, the callers and the threads keeps the  *)
(* declared types.                                                         *)
LEMMA TypeNext == TypeOK /\ [Next]_vars => TypeOK'
<1> SUFFICES ASSUME TypeOK, [Next]_vars PROVE TypeOK'
  OBVIOUS
<1> USE WriterAssumption DEF WriterAssumption, Phase, Thread, gateVars, diskVars
<1>0. Idle \in Call /\ Close \in WriteOp /\ Abandon \in WriteOp
  BY DEF Call, WriteOp
<1>1. ASSUME NEW g \in Gens, WriterGate(g) PROVE TypeOK'
  BY <1>1 DEF TypeOK, WriterGate
<1>2. ASSUME NEW g \in Gens, AcquireOwned(g) PROVE TypeOK'
  BY <1>2 DEF TypeOK, AcquireOwned
<1>3. ASSUME NEW g \in Gens, OpenFails(g) PROVE TypeOK'
  BY <1>3 DEF TypeOK, OpenFails
<1>4. ASSUME NEW g \in Gens, Open(g) PROVE TypeOK'
  BY <1>4 DEF TypeOK, Open
<1>5. ASSUME NEW g \in Gens, Discard(g) PROVE TypeOK'
  BY <1>5 DEF TypeOK, Discard
<1>6. ASSUME NEW g \in Gens, WatcherPoll(g) PROVE TypeOK'
  BY <1>6, <1>0, TrySendType DEF TypeOK, WatcherPoll
<1>7. ASSUME NEW g \in Gens, DropInner(g) PROVE TypeOK'
  BY <1>7, <1>0, TrySendType DEF TypeOK, DropInner
<1>8. ASSUME NEW g \in Gens, ThreadStep(g) PROVE TypeOK'
  <2>1. CASE Enter(g)
    BY <1>8, <2>1 DEF TypeOK, Enter, Leave, ThreadUnchanged
  <2>2. CASE Recv(g)
    <3>1. /\ Head(queue[g]) \in WriteOp
          /\ Tail(queue[g]) \in Seq(WriteOp)
          /\ Len(Tail(queue[g])) <= WRITER_QUEUE_CAPACITY
      BY <2>2, SMT DEF Recv, TypeOK
    <3>2. \/ Leave(g, TRUE) \/ Leave(g, FALSE)
          \/ /\ thread' = [thread EXCEPT ![g] = "exec"]
             /\ current' = [current EXCEPT ![g] = Head(queue[g])]
      BY <2>2 DEF Recv
    <3>3. thread' \in [Gens -> Thread] /\ current' \in [Gens -> WriteOp \cup {NoOp}]
      BY <3>1, <3>2, ZenonT(30) DEF TypeOK, Leave
    <3>4. /\ queue' \in [Gens -> Seq(WriteOp)]
          /\ \A h \in Gens : Len(queue'[h]) <= WRITER_QUEUE_CAPACITY
      BY <2>2, <3>1 DEF TypeOK, Recv
    <3> QED
      BY <2>2, <3>3, <3>4 DEF TypeOK, Recv, ThreadUnchanged
  <2>3. CASE RecvNone(g)
    BY <2>3 DEF TypeOK, RecvNone, Leave, ThreadUnchanged
  <2>4. CASE ReleasePermit(g)
    BY <2>4 DEF TypeOK, ReleasePermit
  <2>5. CASE DropReceiver(g)
    BY <2>5, SMT DEF TypeOK, DropReceiver, ThreadUnchanged
  <2> QED
    BY <1>8, <2>1, <2>2, <2>3, <2>4, <2>5 DEF ThreadStep
<1>9. ASSUME NEW g \in Gens, DiskStep(g) PROVE TypeOK'
  <2>1. CASE ExecWrite(g)
    <3>1. /\ current[g].place \in Places
          /\ current[g].from \in Callers
      BY <2>1, RequestFields DEF TypeOK, ExecWrite, Requests
    <3>2. call' \in [Gens -> [Callers -> Call]]
      BY <1>0, <2>1, <3>1 DEF TypeOK, ExecWrite, Ack
    <3>3. disk' \in Places /\ acked' \in [Gens -> Places]
      BY <2>1, <3>1 DEF TypeOK, ExecWrite
    <3> QED
      BY <2>1, <3>2, <3>3 DEF TypeOK, ExecWrite, NextOp, ThreadUnchanged
  <2>2. CASE ExecHashPartMd4(g)
    BY <1>0, <2>2
       DEF TypeOK, ExecHashPartMd4, Ack, NextOp, WriteOp, Close, Abandon, NoOp,
           ThreadUnchanged
  <2>3. CASE ExecSyncData(g)
    BY <1>0, <2>3
       DEF TypeOK, ExecSyncData, FileSync, Leave, Ack, NextOp, WriteOp, Close,
           Abandon, NoOp, ThreadUnchanged
  <2>4. CASE Flush(g)
    BY <2>4 DEF TypeOK, Flush, FileSync, ThreadUnchanged
  <2> QED
    BY <1>9, <2>1, <2>2, <2>3, <2>4 DEF DiskStep
<1>10. ASSUME NEW g \in Gens, NEW c \in Callers, CallerStep(g, c) PROVE TypeOK'
  <2>1. ASSUME NEW kind \in Requests, Submit(g, c, kind) PROVE TypeOK'
    BY <2>1 DEF TypeOK, Submit, Call
  <2>2. CASE SendAccepted(g, c)
    <3> DEFINE op == [kind |-> call[g][c].kind, from |-> c, place |-> accepted + 1]
    <3>1. accepted + 1 \in Places
      BY <2>2, SMT DEF TypeOK, SendAccepted, Places
    <3>2. op \in WriteOp
      BY <2>2, <3>1, CallFields, SMT DEF TypeOK, SendAccepted, WriteOp
    <3>3. /\ queue' \in [Gens -> Seq(WriteOp)]
          /\ \A h \in Gens : Len(queue'[h]) <= WRITER_QUEUE_CAPACITY
      BY <2>2, <3>2, SMT DEF TypeOK, SendAccepted
    <3>4. [at |-> "waiting", place |-> accepted + 1] \in Call
      BY <3>1 DEF Call
    <3>5. call' \in [Gens -> [Callers -> Call]]
      BY <2>2, <3>4 DEF TypeOK, SendAccepted
    <3> QED
      BY <2>2, <3>1, <3>3, <3>5 DEF TypeOK, SendAccepted
  <2>3. CASE BrokenPipe(g, c)
    BY <1>0, <2>3, CallFields, SMT DEF TypeOK, BrokenPipe, Return, Refused
  <2>4. CASE SubmitTimeout(g, c)
    <3>1. /\ queue' \in [Gens -> Seq(WriteOp)]
          /\ \A h \in Gens : Len(queue'[h]) <= WRITER_QUEUE_CAPACITY
      BY <1>0, <2>4, TrySendType DEF TypeOK, SubmitTimeout
    <3>2. refused' \subseteq Places
      BY <2>4, CallFields, SMT DEF TypeOK, SubmitTimeout, Refused
    <3> QED
      BY <1>0, <2>4, <3>1, <3>2 DEF TypeOK, SubmitTimeout, Return
  <2>5. CASE CallerAborted(g, c)
    BY <1>0, <2>5 DEF TypeOK, CallerAborted, Return
  <2> QED
    BY <1>10, <2>1, <2>2, <2>3, <2>4, <2>5 DEF CallerStep
<1>11. CASE VolumeFails
  BY <1>11 DEF TypeOK, VolumeFails
<1>12. CASE UNCHANGED vars
  BY <1>12 DEF TypeOK, vars
<1> QED
  BY <1>1, <1>2, <1>3, <1>4, <1>5, <1>6, <1>7, <1>8, <1>9, <1>10, <1>11, <1>12 DEF Next

-----------------------------------------------------------------------------
(* The gate. *)

(* Every step keeps the gate's invariant: a permit is granted only when    *)
(* nobody owns one, and moves with the file until the file is closed.      *)
LEMMA GateNext == TypeOK /\ GateInv /\ [Next]_vars => GateInv'
<1> SUFFICES ASSUME TypeOK, GateInv, [Next]_vars PROVE GateInv'
  OBVIOUS
<1> USE WriterAssumption DEF WriterAssumption, GateInv, gateVars
<1>1. ASSUME NEW g \in Gens, WriterGate(g) PROVE GateInv'
  BY <1>1, SMT DEF TypeOK, WriterGate
<1>2. ASSUME NEW g \in Gens, AcquireOwned(g) PROVE GateInv'
  BY <1>2, SMT DEF TypeOK, AcquireOwned
<1>3. ASSUME NEW g \in Gens, OpenFails(g) PROVE GateInv'
  BY <1>3, SMT DEF TypeOK, OpenFails
<1>4. ASSUME NEW g \in Gens, Open(g) PROVE GateInv'
  BY <1>4 DEF TypeOK, Open
<1>5. ASSUME NEW g \in Gens, Discard(g) \/ WatcherPoll(g) PROVE GateInv'
  BY <1>5 DEF Discard, WatcherPoll
<1>6. ASSUME NEW g \in Gens, DropInner(g) PROVE GateInv'
  BY <1>6 DEF TypeOK, DropInner
<1>7. ASSUME NEW g \in Gens, ThreadStep(g) PROVE GateInv'
  <2>1. CASE Enter(g)
    BY <2>1, SMT DEF TypeOK, Enter, Leave, ThreadUnchanged
  <2>2. CASE Recv(g)
    BY <2>2, SMT DEF TypeOK, Recv, Leave, ThreadUnchanged
  <2>3. CASE RecvNone(g)
    BY <2>3 DEF TypeOK, RecvNone, Leave, ThreadUnchanged
  <2>4. CASE ReleasePermit(g)
    BY <2>4 DEF TypeOK, ReleasePermit
  <2>5. CASE DropReceiver(g)
    BY <2>5 DEF TypeOK, DropReceiver, ThreadUnchanged
  <2> QED
    BY <1>7, <2>1, <2>2, <2>3, <2>4, <2>5 DEF ThreadStep
<1>8. ASSUME NEW g \in Gens, DiskStep(g) PROVE GateInv'
  <2>1. CASE ExecWrite(g)
    BY <2>1 DEF TypeOK, ExecWrite, NextOp, ThreadUnchanged
  <2>2. CASE ExecHashPartMd4(g)
    BY <2>2 DEF TypeOK, ExecHashPartMd4, NextOp, ThreadUnchanged
  <2>3. CASE ExecSyncData(g)
    BY <2>3, SMT DEF TypeOK, ExecSyncData, Leave, NextOp, ThreadUnchanged
  <2>4. CASE Flush(g)
    BY <2>4 DEF TypeOK, Flush, ThreadUnchanged
  <2> QED
    BY <1>8, <2>1, <2>2, <2>3, <2>4 DEF DiskStep
<1>9. ASSUME NEW g \in Gens, NEW c \in Callers, CallerStep(g, c) PROVE GateInv'
  BY <1>9 DEF CallerStep, Submit, SendAccepted, BrokenPipe, SubmitTimeout, CallerAborted
<1>10. CASE VolumeFails
  BY <1>10 DEF VolumeFails
<1>11. CASE UNCHANGED vars
  BY <1>11 DEF vars
<1> QED
  BY <1>1, <1>2, <1>3, <1>4, <1>5, <1>6, <1>7, <1>8, <1>9, <1>10, <1>11 DEF Next

(* The types and the gate's invariant hold throughout. *)
THEOREM GateInvariant == Spec => [](TypeOK /\ GateInv)
<1>1. Init => GateInv
  BY SMT DEF Init, GateInv
<1> QED
  BY <1>1, TypeInit, TypeNext, GateNext, PTL DEF Spec

(* The declared types hold in every reachable state, whatever the bounds. *)
THEOREM TypeCorrect == Spec => []TypeOK
BY GateInvariant, PTL

(* PART_WRITER_GATES: for any number of generations, opening, timing out   *)
(* and failing in any order, at most one writer thread has the file open.  *)
THEOREM WriterExclusion == Spec => []OneWriterPerPath
<1>1. GateInv => OneWriterPerPath
  BY DEF GateInv, OneWriterPerPath, HoldsFile
<1> QED
  BY <1>1, GateInvariant, PTL

-----------------------------------------------------------------------------
(* The order in which writes reach the disk. *)

IsRequest(op) == op.kind \in Requests

(* All places in a queue lie between two bounds, in increasing order. *)
Ascending(q) ==
    \A i, j \in 1 .. Len(q) :
        i < j /\ IsRequest(q[i]) /\ IsRequest(q[j]) => q[i].place < q[j].place
AllAbove(q, n) == \A i \in 1 .. Len(q) : IsRequest(q[i]) => n < q[i].place
AllUpTo(q, n) == \A i \in 1 .. Len(q) : IsRequest(q[i]) => q[i].place <= n

(* What a thread may still execute comes after what is on disk: its queue  *)
(* is in acceptance order, and its current operation precedes the queue.   *)
OrderInv ==
    /\ disk <= accepted
    /\ \A g \in Gens : phase[g] \in {"new", "gated", "opening", "failed"} =>
                        queue[g] = <<>>
    /\ \A g \in Gens : Ascending(queue[g]) /\ AllUpTo(queue[g], accepted)
    /\ \A g \in Gens : thread[g] \in {"start", "recv", "exec"} =>
                        AllAbove(queue[g], disk)
    /\ \A g \in Gens : thread[g] = "exec" =>
          /\ IsRequest(current[g])
          /\ disk < current[g].place
          /\ current[g].place <= accepted
          /\ AllAbove(queue[g], current[g].place)

(* Appending an operation later than all others keeps a queue's order. *)
LEMMA AppendOrder ==
    ASSUME NEW q \in Seq(WriteOp), NEW op \in WriteOp, NEW n \in Nat, NEW m \in Nat,
           NEW a \in Nat,
           Ascending(q), AllUpTo(q, n), n <= m,
           IsRequest(op) => n < op.place /\ op.place <= m
    PROVE  /\ Ascending(Append(q, op))
           /\ AllUpTo(Append(q, op), m)
           /\ AllAbove(q, a) /\ a <= n => AllAbove(Append(q, op), a)
<1> DEFINE r == Append(q, op)
<1>1. /\ Len(r) = Len(q) + 1 /\ Len(q) \in Nat
      /\ \A i \in 1 .. Len(q) : r[i] = q[i] /\ q[i] \in WriteOp
      /\ r[Len(q) + 1] = op
  BY SMT
<1>2. \A i \in 1 .. Len(r) : i \in 1 .. Len(q) \/ (i = Len(q) + 1)
  BY <1>1, SMT
<1>3. \A i \in 1 .. Len(q) : IsRequest(q[i]) => q[i].place \in Nat
  BY <1>1, RequestFields, SMT DEF IsRequest, Places
<1>4. IsRequest(op) => op.place \in Nat
  BY RequestFields, SMT DEF IsRequest, Places
<1> HIDE DEF r
<1>5. Ascending(r)
  <2> SUFFICES ASSUME NEW i \in 1 .. Len(r), NEW k \in 1 .. Len(r), i < k,
                      IsRequest(r[i]), IsRequest(r[k])
               PROVE  r[i].place < r[k].place
    BY DEF Ascending
  <2>1. i \in 1 .. Len(q)
    BY <1>1, <1>2, SMT
  <2>2. CASE k \in 1 .. Len(q)
    BY <1>1, <2>1, <2>2 DEF Ascending
  <2>3. CASE k = Len(q) + 1
    BY <1>1, <1>3, <1>4, <2>1, <2>3, SMT DEF AllUpTo
  <2> QED
    BY <1>2, <2>2, <2>3
<1>6. AllUpTo(r, m)
  BY <1>1, <1>2, <1>3, <1>4, SMT DEF AllUpTo
<1>7. AllAbove(q, a) /\ a <= n => AllAbove(r, a)
  BY <1>1, <1>2, <1>3, <1>4, SMT DEF AllAbove
<1> QED
  BY <1>5, <1>6, <1>7 DEF r

(* The operations behind the head of a queue come after it. *)
LEMMA TailOrder ==
    ASSUME NEW q \in Seq(WriteOp), q # <<>>, NEW n, NEW a, Ascending(q),
           AllUpTo(q, n)
    PROVE  /\ Ascending(Tail(q)) /\ AllUpTo(Tail(q), n)
           /\ AllAbove(q, a) => AllAbove(Tail(q), a)
           /\ IsRequest(Head(q)) => AllAbove(Tail(q), Head(q).place)
           /\ IsRequest(Head(q)) /\ AllAbove(q, a) => a < Head(q).place
           /\ IsRequest(Head(q)) => Head(q).place <= n
<1>1. /\ Len(Tail(q)) = Len(q) - 1 /\ Len(q) \in Nat /\ Len(q) >= 1
      /\ \A i \in 1 .. Len(Tail(q)) : Tail(q)[i] = q[i + 1]
      /\ Head(q) = q[1]
  BY SMT
<1>2. \A i \in 1 .. Len(Tail(q)) : i + 1 \in 1 .. Len(q) /\ 1 < i + 1 /\ 1 \in 1 .. Len(q)
  BY <1>1, SMT
<1>3. \A i, k \in 1 .. Len(Tail(q)) : i < k => i + 1 < k + 1
  BY <1>1, SMT
<1> QED
  BY <1>1, <1>2, <1>3, SMT DEF Ascending, AllUpTo, AllAbove

(* Close and Abandon take no place. *)
LEMMA TrySendOrder ==
    ASSUME NEW g \in Gens, NEW q \in Seq(WriteOp), NEW op \in {Close, Abandon},
           NEW n \in Nat, NEW a \in Nat, a <= n, Ascending(q), AllUpTo(q, n)
    PROVE  /\ Ascending(TrySend(q, g, op)) /\ AllUpTo(TrySend(q, g, op), n)
           /\ AllAbove(q, a) => AllAbove(TrySend(q, g, op), a)
<1>1. op \in WriteOp /\ ~IsRequest(op)
  BY SMT DEF WriteOp, IsRequest, Close, Abandon, Requests
<1> QED
  BY <1>1, AppendOrder, SMT DEF TrySend

(* A step of the caller's or the download's side that only puts Close or   *)
(* Abandon in g's queue keeps the order.                                   *)
LEMMA TrySendStep ==
    ASSUME TypeOK, OrderInv, NEW g \in Gens, NEW op \in {Close, Abandon},
           queue' = [queue EXCEPT ![g] = TrySend(@, g, op)],
           UNCHANGED <<thread, current, accepted, disk>>,
           phase[g] \in {"open", "dropped"}, phase'[g] \in {"open", "dropped"},
           \A h \in Gens \ {g} : phase'[h] = phase[h]
    PROVE  OrderInv'
<1>1. /\ accepted \in Nat /\ disk \in Nat
      /\ queue[g] \in Seq(WriteOp)
      /\ thread[g] = "exec" => current[g].place \in Nat
  BY RequestFields, SMT DEF TypeOK, OrderInv, Places, IsRequest
<1>2. /\ Ascending(queue'[g]) /\ AllUpTo(queue'[g], accepted)
      /\ AllAbove(queue[g], disk) => AllAbove(queue'[g], disk)
  BY <1>1, TrySendOrder DEF TypeOK, OrderInv
<1>3. thread[g] = "exec" => AllAbove(queue'[g], current[g].place)
  BY <1>1, TrySendOrder DEF TypeOK, OrderInv
<1>4. \A h \in Gens \ {g} : queue'[h] = queue[h]
  BY DEF TypeOK
<1> QED
  BY <1>2, <1>3, <1>4 DEF OrderInv

(* Every step keeps what may still be executed after what is on disk. *)
LEMMA OrderNext == TypeOK /\ GateInv /\ OrderInv /\ [Next]_vars => OrderInv'
<1> SUFFICES ASSUME TypeOK, GateInv, OrderInv, [Next]_vars PROVE OrderInv'
  OBVIOUS
<1> USE DEF gateVars, diskVars
<1>0. accepted \in Nat /\ disk \in Nat
  BY SMT DEF TypeOK, Places
<1>1. ASSUME NEW g \in Gens, WriterGate(g) \/ AcquireOwned(g) \/ OpenFails(g) PROVE OrderInv'
  BY <1>1, SMT DEF TypeOK, OrderInv, WriterGate, AcquireOwned, OpenFails
<1>2. ASSUME NEW g \in Gens, Open(g) PROVE OrderInv'
  <2>1. queue[g] = <<>>
    BY <1>2 DEF Open, OrderInv
  <2>2. Len(queue[g]) = 0
    BY <2>1, SMT
  <2>3. AllAbove(queue[g], disk)
    BY <2>2, SMT DEF AllAbove
  <2> QED
    BY <1>2, <2>3 DEF TypeOK, OrderInv, Open
<1>3. ASSUME NEW g \in Gens, Discard(g) PROVE OrderInv'
  BY <1>3 DEF OrderInv, Discard
<1>4. ASSUME NEW g \in Gens, WatcherPoll(g) PROVE OrderInv'
  <2>1. CASE queue' = queue
    BY <1>4, <2>1 DEF OrderInv, WatcherPoll
  <2>2. CASE queue' # queue
    BY <1>4, <2>2, TrySendStep DEF WatcherPoll
  <2> QED
    BY <2>1, <2>2
<1>5. ASSUME NEW g \in Gens, DropInner(g) PROVE OrderInv'
  BY <1>5, TrySendStep DEF TypeOK, DropInner
<1>6. ASSUME NEW g \in Gens, ThreadStep(g) PROVE OrderInv'
  <2>1. CASE Enter(g)
    BY <2>1 DEF TypeOK, OrderInv, Enter, Leave, ThreadUnchanged
  <2>2. CASE Recv(g)
    <3>1. /\ queue[g] \in Seq(WriteOp) /\ queue[g] # <<>>
          /\ queue'[g] = Tail(queue[g])
          /\ \A h \in Gens \ {g} : queue'[h] = queue[h]
      BY <2>2 DEF TypeOK, Recv
    <3>2. /\ Ascending(queue'[g]) /\ AllUpTo(queue'[g], accepted)
          /\ AllAbove(queue'[g], disk)
          /\ IsRequest(Head(queue[g])) =>
                /\ AllAbove(queue'[g], Head(queue[g]).place)
                /\ disk < Head(queue[g]).place /\ Head(queue[g]).place <= accepted
      BY <2>2, <3>1, TailOrder, SMT DEF OrderInv, Recv
    <3>3. Head(queue[g]) \in WriteOp
      BY <3>1, SMT
    <3>4. thread'[g] = "exec" => current'[g] = Head(queue[g]) /\ IsRequest(Head(queue[g]))
      BY <2>2, <3>3 DEF TypeOK, Recv, Leave, IsRequest, WriteOp
    <3>5. \A h \in Gens \ {g} : thread'[h] = thread[h] /\ current'[h] = current[h]
      BY <2>2 DEF TypeOK, Recv, Leave
    <3>6. phase[g] \notin {"new", "gated", "opening", "failed"}
      BY <2>2 DEF GateInv, Recv
    <3> QED
      BY <2>2, <3>1, <3>2, <3>4, <3>5, <3>6 DEF OrderInv, Recv, ThreadUnchanged
  <2>3. CASE RecvNone(g)
    BY <2>3 DEF TypeOK, OrderInv, RecvNone, Leave, ThreadUnchanged
  <2>4. CASE ReleasePermit(g)
    BY <2>4 DEF TypeOK, OrderInv, ReleasePermit
  <2>5. CASE DropReceiver(g)
    <3>1. queue'[g] = <<>> /\ Len(queue'[g]) = 0
      BY <2>5 DEF TypeOK, DropReceiver
    <3>2. Ascending(queue'[g]) /\ AllUpTo(queue'[g], accepted)
      BY <3>1, SMT DEF Ascending, AllUpTo
    <3> QED
      BY <2>5, <3>1, <3>2 DEF TypeOK, OrderInv, DropReceiver, ThreadUnchanged
  <2> QED
    BY <1>6, <2>1, <2>2, <2>3, <2>4, <2>5 DEF ThreadStep
<1>7. ASSUME NEW g \in Gens, DiskStep(g) PROVE OrderInv'
  <2>0. \A h \in Gens \ {g} : thread[h] \notin {"start", "recv", "exec"}
    BY <1>7 DEF GateInv, DiskStep, ExecWrite, ExecHashPartMd4, ExecSyncData, Flush
  <2>1. CASE ExecWrite(g)
    <3>1. /\ disk' \in {disk, current[g].place}
          /\ AllAbove(queue[g], disk) /\ AllAbove(queue[g], current[g].place)
          /\ current[g].place <= accepted
      BY <2>1 DEF OrderInv, ExecWrite
    <3>2. AllAbove(queue[g], disk') /\ disk' <= accepted
      BY <3>1 DEF OrderInv
    <3> QED
      BY <2>0, <2>1, <3>2 DEF TypeOK, OrderInv, ExecWrite, NextOp, ThreadUnchanged
  <2>2. CASE ExecHashPartMd4(g)
    BY <2>2 DEF TypeOK, OrderInv, ExecHashPartMd4, NextOp, ThreadUnchanged
  <2>3. CASE ExecSyncData(g)
    BY <2>3, ZenonT(30) DEF TypeOK, OrderInv, ExecSyncData, Leave, NextOp, ThreadUnchanged
  <2>4. CASE Flush(g)
    BY <2>4 DEF TypeOK, OrderInv, Flush, ThreadUnchanged
  <2> QED
    BY <1>7, <2>1, <2>2, <2>3, <2>4 DEF DiskStep
<1>8. ASSUME NEW g \in Gens, NEW c \in Callers, SendAccepted(g, c) PROVE OrderInv'
  <2> DEFINE op == [kind |-> call[g][c].kind, from |-> c, place |-> accepted + 1]
  <2>1. op \in WriteOp
    BY <1>0, <1>8, CallFields, WriterAssumption, SMT
       DEF TypeOK, SendAccepted, WriteOp, Places, WriterAssumption
  <2>2. op.place = accepted + 1
    OBVIOUS
  <2> HIDE DEF op
  <2>3. /\ queue[g] \in Seq(WriteOp) /\ queue'[g] = Append(queue[g], op)
        /\ \A h \in Gens \ {g} : queue'[h] = queue[h]
        /\ accepted' = accepted + 1
        /\ UNCHANGED <<phase, thread, current, disk>>
        /\ RxOpen(g)
    BY <1>8 DEF TypeOK, SendAccepted, op
  <2>4. \A a \in Nat : a <= accepted =>
          /\ Ascending(queue'[g]) /\ AllUpTo(queue'[g], accepted')
          /\ AllAbove(queue[g], a) => AllAbove(queue'[g], a)
    <3>1. Ascending(queue[g]) /\ AllUpTo(queue[g], accepted)
      BY DEF OrderInv
    <3> QED
      BY <1>0, <2>1, <2>2, <2>3, <3>1, AppendOrder, SMT
  <2>5. thread[g] = "exec" => current[g].place \in Nat
    BY RequestFields, SMT DEF TypeOK, OrderInv, Places, IsRequest
  <2>6. \A h \in Gens : AllUpTo(queue[h], accepted) => AllUpTo(queue[h], accepted + 1)
    <3>1. \A h \in Gens : queue[h] \in Seq(WriteOp)
      BY DEF TypeOK
    <3>2. \A h \in Gens : \A i \in 1 .. Len(queue[h]) :
             IsRequest(queue[h][i]) => queue[h][i].place \in Nat
      BY <3>1, RequestFields, SMT DEF IsRequest, Places
    <3> SUFFICES ASSUME NEW h \in Gens, AllUpTo(queue[h], accepted),
                        NEW i \in 1 .. Len(queue[h]), IsRequest(queue[h][i])
                 PROVE  queue[h][i].place <= accepted + 1
      BY DEF AllUpTo
    <3>3. queue[h][i].place \in Nat /\ queue[h][i].place <= accepted
      BY <3>2 DEF AllUpTo
    <3> QED
      BY <1>0, <3>3, SMT
  <2>7. phase[g] \notin {"new", "gated", "opening", "failed"}
    BY <2>3 DEF GateInv, RxOpen
  <2>8. \A h \in Gens : thread[h] = "exec" => current[h].place <= accepted + 1
    <3> SUFFICES ASSUME NEW h \in Gens, thread[h] = "exec"
                 PROVE  current[h].place <= accepted + 1
      OBVIOUS
    <3>1. current[h].place \in Nat
      BY RequestFields, SMT DEF TypeOK, OrderInv, Places, IsRequest
    <3> QED
      BY <1>0, <3>1, SMT DEF OrderInv
  <2>9. disk <= accepted'
    BY <1>0, <2>3, SMT DEF OrderInv
  <2> QED
    BY <1>0, <2>3, <2>4, <2>5, <2>6, <2>7, <2>8, <2>9 DEF OrderInv
<1>9. ASSUME NEW g \in Gens, NEW c \in Callers, SubmitTimeout(g, c) PROVE OrderInv'
  <2>1. CASE queue' = queue
    BY <1>9, <2>1 DEF OrderInv, SubmitTimeout
  <2>2. CASE queue' # queue
    <3>1. RxOpen(g)
      BY <1>9, <2>2 DEF TypeOK, SubmitTimeout, TrySend
    <3>2. phase[g] \in {"open", "dropped"}
      BY <3>1 DEF TypeOK, Phase, GateInv, RxOpen
    <3> QED
      BY <1>9, <2>2, <3>2, TrySendStep DEF SubmitTimeout
  <2> QED
    BY <2>1, <2>2
<1>10. ASSUME NEW g \in Gens, NEW c \in Callers, CallerStep(g, c) PROVE OrderInv'
  <2>1. ASSUME NEW kind \in Requests, Submit(g, c, kind) PROVE OrderInv'
    BY <2>1 DEF OrderInv, Submit
  <2>2. CASE BrokenPipe(g, c) \/ CallerAborted(g, c)
    BY <2>2 DEF OrderInv, BrokenPipe, CallerAborted
  <2> QED
    BY <1>8, <1>9, <1>10, <2>1, <2>2 DEF CallerStep
<1>11. CASE VolumeFails
  BY <1>11 DEF OrderInv, VolumeFails
<1>12. CASE UNCHANGED vars
  BY <1>12 DEF OrderInv, vars
<1> QED
  BY <1>1, <1>2, <1>3, <1>4, <1>5, <1>6, <1>7, <1>10, <1>11, <1>12 DEF Next

(* All queues are empty at first. *)
LEMMA OrderInit == Init => OrderInv
<1> SUFFICES ASSUME Init PROVE OrderInv
  OBVIOUS
<1>1. \A g \in Gens : queue[g] = <<>>
  BY DEF Init
<1>3. ASSUME NEW g \in Gens PROVE Ascending(queue[g]) /\ AllUpTo(queue[g], accepted)
  <2>1. queue[g] = <<>>
    BY <1>1
  <2>2. Len(queue[g]) = 0
    BY <2>1, SMT
  <2> QED
    BY <2>2, SMT DEF Ascending, AllUpTo
<1> QED
  BY <1>1, <1>3, SMT DEF Init, OrderInv

(* For any number of generations and callers, and whatever they give up,   *)
(* writes reach the disk in the order in which queues accepted them.       *)
THEOREM WriteOrder == Spec => NoStaleOverwrite
<1>2. TypeOK /\ OrderInv /\ [Next]_vars => [disk' >= disk]_disk
  <2> SUFFICES ASSUME TypeOK, OrderInv, [Next]_vars, disk' # disk PROVE disk' >= disk
    OBVIOUS
  <2> USE DEF diskVars
  <2>a. ASSUME NEW g \in Gens, DiskStep(g) PROVE ExecWrite(g)
    BY <2>a DEF DiskStep, ExecHashPartMd4, ExecSyncData, Flush
  <2>b. ASSUME NEW g \in Gens, ThreadStep(g) PROVE FALSE
    BY <2>b DEF ThreadStep, Enter, Recv, RecvNone, ReleasePermit, DropReceiver
  <2>c. ASSUME NEW g \in Gens, NEW c \in Callers, CallerStep(g, c) PROVE FALSE
    BY <2>c DEF CallerStep, Submit, SendAccepted, BrokenPipe, SubmitTimeout, CallerAborted
  <2>d. ASSUME NEW g \in Gens,
               \/ WriterGate(g) \/ AcquireOwned(g) \/ OpenFails(g) \/ Open(g)
               \/ Discard(g) \/ WatcherPoll(g) \/ DropInner(g)
        PROVE  FALSE
    BY <2>d DEF WriterGate, AcquireOwned, OpenFails, Open, Discard, WatcherPoll, DropInner
  <2>1. PICK g \in Gens : ExecWrite(g)
    BY <2>a, <2>b, <2>c, <2>d DEF Next, vars, VolumeFails
  <2>2. disk' = current[g].place /\ thread[g] = "exec"
    BY <2>1 DEF ExecWrite
  <2>3. disk \in Nat /\ current[g].place \in Nat
    BY <2>2, RequestFields, SMT DEF TypeOK, OrderInv, Places, IsRequest
  <2> QED
    BY <2>2, <2>3, SMT DEF OrderInv
<1> QED
  BY <1>2, GateInvariant, OrderInit, OrderNext, PTL DEF Spec, NoStaleOverwrite

-----------------------------------------------------------------------------
(* Pause and Stop. *)

(* A thread leaves without a trailing fsync only when it was told to, and  *)
(* an Abandon is in a queue only when one of the flags is set.             *)
PauseInv ==
    /\ durable <= disk
    /\ \A g \in Gens : acked[g] <= disk
    /\ \A g \in Gens : \A i \in 1 .. Len(queue[g]) :
          queue[g][i] = Abandon => wedged[g] \/ discard[g]
    /\ PauseKeepsAckedWrites

(* Sending Abandon is justified by a flag, sending Close by nothing. *)
LEMMA TrySendAbandon ==
    ASSUME NEW g \in Gens, NEW q \in Seq(WriteOp), NEW op \in WriteOp, NEW flag,
           \A i \in 1 .. Len(q) : q[i] = Abandon => flag,
           op = Abandon => flag
    PROVE  \A i \in 1 .. Len(TrySend(q, g, op)) : TrySend(q, g, op)[i] = Abandon => flag
<1> DEFINE r == Append(q, op)
<1>1. /\ Len(r) = Len(q) + 1 /\ Len(q) \in Nat
      /\ \A i \in 1 .. Len(q) : r[i] = q[i]
      /\ r[Len(q) + 1] = op
  BY SMT
<1>2. \A i \in 1 .. Len(r) : i \in 1 .. Len(q) \/ (i = Len(q) + 1)
  BY <1>1, SMT
<1> HIDE DEF r
<1>3. \A i \in 1 .. Len(r) : r[i] = Abandon => flag
  BY <1>1, <1>2
<1> QED
  BY <1>3 DEF TrySend, r

(* A step that leaves the disk and the threads alone, takes no flag back   *)
(* and puts an Abandon in g's queue only with a flag, keeps the invariant. *)
LEMMA PauseFlags ==
    ASSUME PauseInv, NEW g \in Gens,
           UNCHANGED <<thread, badVolume, acked, durable, disk>>,
           \A h \in Gens : /\ wedged[h] => wedged'[h]
                           /\ discard[h] => discard'[h],
           \A h \in Gens \ {g} : queue'[h] = queue[h],
           \A i \in 1 .. Len(queue'[g]) :
               queue'[g][i] = Abandon => wedged'[g] \/ discard'[g]
    PROVE  PauseInv'
<1>1. \A h \in Gens : \A i \in 1 .. Len(queue'[h]) :
          queue'[h][i] = Abandon => wedged'[h] \/ discard'[h]
  <2> SUFFICES ASSUME NEW h \in Gens \ {g}, NEW i \in 1 .. Len(queue'[h]),
                      queue'[h][i] = Abandon
               PROVE  wedged'[h] \/ discard'[h]
    OBVIOUS
  <2>1. i \in 1 .. Len(queue[h]) /\ queue[h][i] = Abandon
    OBVIOUS
  <2>2. wedged[h] \/ discard[h]
    BY <2>1 DEF PauseInv
  <2> QED
    BY <2>2
<1>2. PauseKeepsAckedWrites'
  <2>1. PauseKeepsAckedWrites
    BY DEF PauseInv
  <2> QED
    BY <2>1 DEF PauseKeepsAckedWrites
<1>3. durable' <= disk' /\ \A h \in Gens : acked'[h] <= disk'
  BY DEF PauseInv
<1> QED
  BY <1>1, <1>2, <1>3 DEF PauseInv

(* Every step keeps the invariant of Pause and Stop. *)
LEMMA PauseNext == TypeOK /\ OrderInv /\ PauseInv /\ [Next]_vars => PauseInv'
<1> SUFFICES ASSUME TypeOK, OrderInv, PauseInv, [Next]_vars PROVE PauseInv'
  OBVIOUS
<1> USE DEF gateVars, diskVars, PauseKeepsAckedWrites
<1>0. /\ disk \in Nat /\ durable \in Nat /\ \A g \in Gens : acked[g] \in Nat
      /\ Abandon \in WriteOp /\ Close \in WriteOp /\ Close # Abandon
  BY SMT DEF TypeOK, Places, WriteOp, Close, Abandon
<1>1. ASSUME NEW g \in Gens,
             WriterGate(g) \/ AcquireOwned(g) \/ OpenFails(g) \/ Open(g) \/ Discard(g)
      PROVE  PauseInv'
  <2>1. CASE Discard(g)
    BY <2>1 DEF TypeOK, PauseInv, Discard
  <2>2. CASE Open(g)
    BY <2>2 DEF TypeOK, PauseInv, Open
  <2>3. CASE WriterGate(g) \/ AcquireOwned(g) \/ OpenFails(g)
    BY <2>3, SMT DEF PauseInv, WriterGate, AcquireOwned, OpenFails
  <2> QED
    BY <1>1, <2>1, <2>2, <2>3
<1>2. ASSUME NEW g \in Gens, WatcherPoll(g) PROVE PauseInv'
  <2>1. \A i \in 1 .. Len(queue'[g]) : queue'[g][i] = Abandon => wedged[g] \/ discard[g]
    BY <1>0, <1>2, TrySendAbandon DEF TypeOK, PauseInv, WatcherPoll
  <2>2. \A h \in Gens \ {g} : queue'[h] = queue[h]
    BY <1>2 DEF TypeOK, WatcherPoll
  <2>3. UNCHANGED <<thread, badVolume, acked, durable, disk, wedged, discard>>
    BY <1>2 DEF WatcherPoll
  <2> QED
    BY <2>1, <2>2, <2>3, PauseFlags
<1>3. ASSUME NEW g \in Gens, DropInner(g) PROVE PauseInv'
  <2>1. \A i \in 1 .. Len(queue'[g]) : queue'[g][i] = Abandon => wedged[g] \/ discard[g]
    BY <1>0, <1>3, TrySendAbandon, ZenonT(30) DEF TypeOK, PauseInv, DropInner
  <2>2. \A h \in Gens \ {g} : queue'[h] = queue[h]
    BY <1>3 DEF TypeOK, DropInner
  <2>3. UNCHANGED <<thread, badVolume, acked, durable, disk, wedged, discard>>
    BY <1>3 DEF DropInner
  <2> QED
    BY <2>1, <2>2, <2>3, PauseFlags
<1>4. ASSUME NEW g \in Gens, ThreadStep(g) PROVE PauseInv'
  <2>1. CASE Enter(g)
    BY <2>1, SMT DEF TypeOK, PauseInv, Enter, Leave, ThreadUnchanged
  <2>2. CASE Recv(g)
    <3>1. /\ queue[g] \in Seq(WriteOp) /\ queue[g] # <<>>
          /\ queue'[g] = Tail(queue[g])
          /\ \A h \in Gens \ {g} : queue'[h] = queue[h]
      BY <2>2 DEF TypeOK, Recv
    <3>2. /\ Len(queue'[g]) = Len(queue[g]) - 1 /\ Len(queue[g]) \in Nat /\ Len(queue[g]) >= 1
          /\ \A i \in 1 .. Len(queue'[g]) : queue'[g][i] = queue[g][i + 1]
          /\ Head(queue[g]) = queue[g][1]
      BY <3>1, SMT
    <3>3. \A i \in 1 .. Len(queue'[g]) : queue'[g][i] = Abandon => wedged[g] \/ discard[g]
      BY <3>2, SMT DEF PauseInv
    <3>4. Head(queue[g]) = Abandon => wedged[g] \/ discard[g]
      BY <3>2, SMT DEF PauseInv
    <3>5. thread'[g] = "unwinding" => wedged[g] \/ discard[g]
      BY <2>2, <3>4 DEF TypeOK, Recv, Leave
    <3>6. /\ thread'[g] \in {"unwinding", "flush", "exec"}
          /\ \A h \in Gens \ {g} : thread'[h] = thread[h]
      BY <2>2 DEF TypeOK, Recv, Leave
    <3> QED
      BY <2>2, <3>1, <3>3, <3>5, <3>6, SMT DEF PauseInv, Recv, ThreadUnchanged
  <2>3. CASE RecvNone(g)
    BY <2>3 DEF TypeOK, PauseInv, RecvNone, Leave, ThreadUnchanged
  <2>4. CASE ReleasePermit(g)
    BY <2>4 DEF TypeOK, PauseInv, ReleasePermit
  <2>5. CASE DropReceiver(g)
    <3>1. queue'[g] = <<>>
      BY <2>5 DEF TypeOK, DropReceiver
    <3>2. Len(queue'[g]) = 0
      BY <3>1, SMT
    <3> QED
      BY <2>5, <3>2, SMT DEF TypeOK, PauseInv, DropReceiver, ThreadUnchanged
  <2> QED
    BY <1>4, <2>1, <2>2, <2>3, <2>4, <2>5 DEF ThreadStep
<1>5. ASSUME NEW g \in Gens, DiskStep(g) PROVE PauseInv'
  <2>1. CASE ExecWrite(g)
    <3>1. current[g].place \in Nat /\ disk < current[g].place
      BY <2>1, RequestFields, SMT DEF TypeOK, OrderInv, ExecWrite, Places, IsRequest
    <3>a. /\ disk' \in {disk, current[g].place} /\ durable' = durable
          /\ \/ acked' = acked
             \/ /\ disk' = current[g].place
                /\ acked' = [acked EXCEPT ![g] = current[g].place]
      BY <2>1 DEF ExecWrite
    <3>b. durable <= disk /\ \A h \in Gens : acked[h] <= disk
      BY DEF PauseInv
    <3>2. disk' \in Nat /\ disk <= disk'
      BY <1>0, <3>1, <3>a, SMT
    <3>3. \A h \in Gens : acked'[h] <= disk'
      <4> SUFFICES ASSUME NEW h \in Gens PROVE acked'[h] <= disk'
        OBVIOUS
      <4>1. acked'[h] = acked[h] \/ acked'[h] = disk'
        BY <3>a DEF TypeOK
      <4>2. acked[h] <= disk /\ acked[h] \in Nat
        BY <1>0, <3>b
      <4> QED
        BY <1>0, <3>2, <4>1, <4>2, SMT
    <3>4. durable' <= disk'
      BY <1>0, <3>2, <3>a, <3>b, SMT
    <3>5. \A h \in Gens : thread'[h] \in {"unwinding", "released", "exited"} =>
             thread[h] = thread'[h] /\ acked'[h] = acked[h]
      BY <2>1 DEF TypeOK, ExecWrite, NextOp
    <3> QED
      BY <2>1, <3>3, <3>4, <3>5 DEF PauseInv, ExecWrite, ThreadUnchanged
  <2>2. CASE ExecHashPartMd4(g)
    BY <2>2 DEF TypeOK, PauseInv, ExecHashPartMd4, NextOp, ThreadUnchanged
  <2>3. CASE ExecSyncData(g)
    <3>1. durable' \in {disk, durable}
      BY <2>3 DEF ExecSyncData, FileSync
    <3> QED
      BY <1>0, <2>3, <3>1, SMT DEF TypeOK, PauseInv, ExecSyncData, Leave, NextOp, ThreadUnchanged
  <2>4. CASE Flush(g)
    <3>1. durable' = disk \/ (badVolume /\ durable' = durable)
      BY <2>4 DEF Flush, FileSync
    <3> QED
      BY <1>0, <2>4, <3>1, SMT DEF TypeOK, PauseInv, Flush, ThreadUnchanged
  <2> QED
    BY <1>5, <2>1, <2>2, <2>3, <2>4 DEF DiskStep
<1>6. ASSUME NEW g \in Gens, NEW c \in Callers, CallerStep(g, c) PROVE PauseInv'
  <2>1. ASSUME NEW kind \in Requests, Submit(g, c, kind) PROVE PauseInv'
    BY <2>1 DEF PauseInv, Submit
  <2>2. CASE BrokenPipe(g, c) \/ CallerAborted(g, c)
    BY <2>2, SMT DEF PauseInv, BrokenPipe, CallerAborted
  <2>3. CASE SendAccepted(g, c)
    <3> DEFINE op == [kind |-> call[g][c].kind, from |-> c, place |-> accepted + 1]
    <3>1. op.kind \in Requests
      BY <2>3, CallFields DEF TypeOK, SendAccepted
    <3>2. op # Abandon
      BY <3>1 DEF Abandon, Requests
    <3> HIDE DEF op
    <3>3. queue[g] \in Seq(WriteOp) /\ queue'[g] = Append(queue[g], op)
      BY <2>3 DEF TypeOK, SendAccepted, op
    <3>4. /\ Len(queue'[g]) = Len(queue[g]) + 1 /\ Len(queue[g]) \in Nat
          /\ \A i \in 1 .. Len(queue[g]) : queue'[g][i] = queue[g][i]
          /\ queue'[g][Len(queue[g]) + 1] = op
      BY <3>3, SMT
    <3>5. \A i \in 1 .. Len(queue'[g]) : i \in 1 .. Len(queue[g]) \/ i = Len(queue[g]) + 1
      BY <3>4, SMT
    <3>6. \A i \in 1 .. Len(queue'[g]) : queue'[g][i] = Abandon => wedged[g] \/ discard[g]
      BY <3>2, <3>4, <3>5 DEF PauseInv
    <3>7. \A h \in Gens \ {g} : queue'[h] = queue[h]
      BY <2>3 DEF TypeOK, SendAccepted
    <3>8. UNCHANGED <<thread, badVolume, acked, durable, disk, wedged, discard>>
      BY <2>3 DEF SendAccepted
    <3> QED
      BY <3>6, <3>7, <3>8, PauseFlags
  <2>4. CASE SubmitTimeout(g, c)
    <3>1. wedged'[g] /\ \A h \in Gens \ {g} : wedged'[h] = wedged[h] /\ queue'[h] = queue[h]
      BY <2>4 DEF TypeOK, SubmitTimeout
    <3>2. UNCHANGED <<thread, badVolume, acked, durable, disk, discard>>
      BY <2>4 DEF SubmitTimeout
    <3>3. \A h \in Gens : (wedged[h] => wedged'[h]) /\ (discard[h] => discard'[h])
      BY <3>1, <3>2
    <3> QED
      BY <3>1, <3>2, <3>3, PauseFlags
  <2> QED
    BY <1>6, <2>1, <2>2, <2>3, <2>4 DEF CallerStep
<1>7. CASE VolumeFails
  BY <1>7 DEF PauseInv, VolumeFails
<1>8. CASE UNCHANGED vars
  BY <1>8 DEF PauseInv, vars
<1> QED
  BY <1>1, <1>2, <1>3, <1>4, <1>5, <1>6, <1>7, <1>8 DEF Next

(* A writer that was neither discarded nor wedged leaves all it            *)
(* acknowledged on stable storage when it closes its file, for any         *)
(* capacity and whether or not Close found room in the queue.              *)
THEOREM PauseIsDurable == Spec => []PauseKeepsAckedWrites
<1>1. Init => PauseInv
  <2> SUFFICES ASSUME Init PROVE PauseInv
    OBVIOUS
  <2>1. ASSUME NEW g \in Gens, NEW i \in 1 .. Len(queue[g]) PROVE FALSE
    <3>1. queue[g] = <<>>
      BY DEF Init
    <3>2. Len(queue[g]) = 0
      BY <3>1, SMT
    <3> QED
      BY <2>1, <3>2, SMT
  <2> QED
    BY <2>1, SMT DEF Init, PauseInv, PauseKeepsAckedWrites
<1>2. PauseInv => PauseKeepsAckedWrites
  BY DEF PauseInv
<1> QED
  BY <1>1, <1>2, GateInvariant, OrderInit, OrderNext, PauseNext, PTL DEF Spec
-----------------------------------------------------------------------------
(* Writes that were refused. *)

(* The requests waiting in a queue. *)
Requested(q) == {q[i] : i \in {j \in 1 .. Len(q) : IsRequest(q[j])}}

(* What a caller waits for has not reached the disk, and is in no queue    *)
(* and no execution but its own.                                           *)
Unanswered(g, c) ==
    /\ call[g][c].place <= accepted
    /\ call[g][c].place # disk
    /\ \A h \in Gens :
          thread[h] = "exec" /\ current[h].place = call[g][c].place =>
              h = g /\ current[h].from = c
    /\ \A h \in Gens : \A op \in Requested(queue[h]) :
          op.place = call[g][c].place => h = g /\ op.from = c

(* A refused write is not what the disk has, is never in execution, and    *)
(* waits, if at all, in the queue of a writer that is wedged and will      *)
(* execute nothing more.                                                   *)
RefusedInv ==
    /\ RefusedWritesStayOut
    /\ \A n \in refused : n <= accepted
    /\ \A g \in Gens : thread[g] # "exec" => current[g] = NoOp
    /\ \A g \in Gens : thread[g] = "exec" => current[g].place \notin refused
    /\ \A g \in Gens : \A op \in Requested(queue[g]) :
          op.place \in refused => wedged[g]
    /\ \A g \in Gens, c \in Callers :
          call[g][c].at = "waiting" => Unanswered(g, c)

(* What waits after one more operation, after one less, and after a send   *)
(* that is no request.                                                     *)
LEMMA RequestedAppend ==
    ASSUME NEW q \in Seq(WriteOp), NEW op \in WriteOp
    PROVE  /\ Requested(Append(q, op)) \subseteq Requested(q) \cup {op}
           /\ ~IsRequest(op) => Requested(Append(q, op)) \subseteq Requested(q)
<1> DEFINE r == Append(q, op)
<1>1. /\ Len(r) = Len(q) + 1 /\ Len(q) \in Nat
      /\ \A i \in 1 .. Len(q) : r[i] = q[i]
      /\ r[Len(q) + 1] = op
  BY SMT
<1>2. \A i \in 1 .. Len(r) : i \in 1 .. Len(q) \/ i = Len(q) + 1
  BY <1>1, SMT
<1> HIDE DEF r
<1>3. ASSUME NEW x \in Requested(r)
      PROVE  x \in Requested(q) \/ (x = op /\ IsRequest(op))
  <2>1. PICK i \in 1 .. Len(r) : IsRequest(r[i]) /\ x = r[i]
    BY DEF Requested
  <2>2. CASE i \in 1 .. Len(q)
    BY <1>1, <2>1, <2>2 DEF Requested
  <2>3. CASE i = Len(q) + 1
    BY <1>1, <2>1, <2>3
  <2> QED
    BY <1>2, <2>2, <2>3
<1> QED
  BY <1>3 DEF r

LEMMA RequestedTail ==
    ASSUME NEW q \in Seq(WriteOp), q # <<>>
    PROVE  /\ Requested(Tail(q)) \subseteq Requested(q)
           /\ IsRequest(Head(q)) => Head(q) \in Requested(q)
<1>1. /\ Len(Tail(q)) = Len(q) - 1 /\ Len(q) \in Nat /\ Len(q) >= 1
      /\ \A i \in 1 .. Len(Tail(q)) : Tail(q)[i] = q[i + 1]
      /\ Head(q) = q[1]
  BY SMT
<1>2. 1 \in 1 .. Len(q) /\ \A i \in 1 .. Len(Tail(q)) : i + 1 \in 1 .. Len(q)
  BY <1>1, SMT
<1>3. ASSUME NEW x \in Requested(Tail(q)) PROVE x \in Requested(q)
  <2>1. PICK i \in 1 .. Len(Tail(q)) : IsRequest(Tail(q)[i]) /\ x = Tail(q)[i]
    BY DEF Requested
  <2> QED
    BY <1>1, <1>2, <2>1 DEF Requested
<1>4. IsRequest(Head(q)) => Head(q) \in Requested(q)
  BY <1>1, <1>2 DEF Requested
<1> QED
  BY <1>3, <1>4

LEMMA RequestedTrySend ==
    ASSUME NEW g \in Gens, NEW q \in Seq(WriteOp), NEW op \in {Close, Abandon}
    PROVE  Requested(TrySend(q, g, op)) \subseteq Requested(q)
<1>1. op \in WriteOp /\ ~IsRequest(op)
  BY SMT DEF WriteOp, IsRequest, Close, Abandon, Requests
<1> QED
  BY <1>1, RequestedAppend DEF TrySend

(* A request waiting in a queue has a caller and a place, and makes Queued *)
(* true.                                                                   *)
LEMMA RequestedFields ==
    ASSUME TypeOK, NEW g \in Gens, NEW op \in Requested(queue[g])
    PROVE  /\ op.place \in Places /\ op.from \in Callers
           /\ Queued(g, op.place)
<1>1. PICK i \in 1 .. Len(queue[g]) : IsRequest(queue[g][i]) /\ op = queue[g][i]
  BY DEF Requested
<1>2. op \in WriteOp
  BY <1>1, SMT DEF TypeOK
<1> QED
  BY <1>1, <1>2, RequestFields DEF Queued, IsRequest

(* A step that sends nothing new, refuses nothing, leaves the disk and     *)
(* lets no thread start on an operation keeps the invariant.               *)
LEMMA RefusedFrame ==
    ASSUME RefusedInv, UNCHANGED <<disk, refused, accepted>>,
           \A h \in Gens : wedged[h] => wedged'[h],
           \A h \in Gens : Requested(queue'[h]) \subseteq Requested(queue[h]),
           \A h \in Gens : thread'[h] # "exec" => current'[h] = NoOp,
           \A h \in Gens : thread'[h] = "exec" =>
               thread[h] = "exec" /\ current'[h] = current[h],
           \A h \in Gens, c \in Callers :
               call'[h][c].at = "waiting" => call'[h][c] = call[h][c]
    PROVE  RefusedInv'
<1>1. RefusedWritesStayOut' /\ \A n \in refused' : n <= accepted'
  BY DEF RefusedInv, RefusedWritesStayOut
<1>2. /\ \A g \in Gens : thread'[g] # "exec" => current'[g] = NoOp
      /\ \A g \in Gens : thread'[g] = "exec" => current'[g].place \notin refused'
      /\ \A g \in Gens : \A op \in Requested(queue'[g]) :
            op.place \in refused' => wedged'[g]
  BY DEF RefusedInv
<1>3. ASSUME NEW g \in Gens, NEW c \in Callers, call'[g][c].at = "waiting"
      PROVE  Unanswered(g, c)'
  <2>1. call'[g][c] = call[g][c]
    BY <1>3
  <2>2. call[g][c].at = "waiting"
    BY <1>3, <2>1
  <2>3. Unanswered(g, c)
    BY <2>2 DEF RefusedInv
  <2> QED
    BY <2>1, <2>3, ZenonT(30) DEF Unanswered
<1> QED
  BY <1>1, <1>2, <1>3 DEF RefusedInv

(* An operation fails under its caller: it is refused unless the thread is *)
(* executing it, and then it is in no queue, or in that of a wedged writer. *)
LEMMA RefuseStep ==
    ASSUME TypeOK, OrderInv, RefusedInv, NEW g \in Gens, NEW c \in Callers,
           Return(g, c), refused' = Refused(g, c),
           UNCHANGED <<disk, accepted, thread, current>>,
           \A h \in Gens : wedged[h] => wedged'[h],
           \A h \in Gens : Requested(queue'[h]) \subseteq Requested(queue[h]),
           \/ wedged'[g]
           \/ call[g][c].at = "sending"
           \/ call[g][c].at = "waiting" /\ ~Queued(g, call[g][c].place)
    PROVE  RefusedInv'
<1>1. /\ \A h \in Gens, d \in Callers : call'[h][d].at = "waiting" =>
             call'[h][d] = call[h][d] /\ (h = g => d # c)
      /\ \A h \in Gens : thread'[h] = "exec" =>
             thread[h] = "exec" /\ current'[h] = current[h]
      /\ \A h \in Gens : thread'[h] # "exec" => current'[h] = NoOp
  BY DEF TypeOK, Return, Idle, RefusedInv
<1>2. CASE refused' = refused
  BY <1>1, <1>2, RefusedFrame
<1>3. CASE refused' # refused
  <2> DEFINE n == call[g][c].place
  <2>1. /\ call[g][c].at = "waiting" /\ ~Executing(g, n)
        /\ refused' = refused \cup {n}
    BY <1>3 DEF Refused
  <2>2. /\ n <= accepted /\ n # disk
        /\ \A h \in Gens :
              /\ thread[h] = "exec" /\ current[h].place = n => h = g
              /\ \A op \in Requested(queue[h]) : op.place = n => h = g
    <3>1. Unanswered(g, c)
      BY <2>1 DEF RefusedInv
    <3> QED
      BY <3>1 DEF Unanswered
  <2>3. \A h \in Gens : thread[h] = "exec" => current[h].place # n
    BY <2>1, <2>2 DEF Executing, OrderInv, IsRequest
  <2>4. \A h \in Gens : \A op \in Requested(queue[h]) : op.place = n => wedged'[h]
    BY <2>1, <2>2, RequestedFields
  <2> HIDE DEF n
  <2>5. RefusedWritesStayOut' /\ \A m \in refused' : m <= accepted'
    BY <2>1, <2>2 DEF RefusedInv, RefusedWritesStayOut
  <2>6. /\ \A h \in Gens : thread'[h] = "exec" => current'[h].place \notin refused'
        /\ \A h \in Gens : \A op \in Requested(queue'[h]) :
              op.place \in refused' => wedged'[h]
    BY <2>1, <2>3, <2>4 DEF RefusedInv
  <2>7. ASSUME NEW h \in Gens, NEW d \in Callers, call'[h][d].at = "waiting"
        PROVE  Unanswered(h, d)'
    <3>1. call'[h][d] = call[h][d]
      BY <1>1, <2>7
    <3>2. Unanswered(h, d)
      BY <2>7, <3>1 DEF RefusedInv
    <3> QED
      BY <3>1, <3>2 DEF Unanswered
  <2> QED
    BY <1>1, <2>5, <2>6, <2>7 DEF RefusedInv
<1> QED
  BY <1>2, <1>3

(* An accepted operation takes a place no one has been told anything of. *)
LEMMA AcceptStep ==
    ASSUME TypeOK, OrderInv, RefusedInv, NEW g \in Gens, NEW c \in Callers,
           SendAccepted(g, c)
    PROVE  RefusedInv'
<1> DEFINE n == accepted + 1
           op == [kind |-> call[g][c].kind, from |-> c, place |-> n]
<1>0. /\ accepted \in Nat /\ disk \in Nat /\ refused \subseteq Nat
      /\ \A h \in Gens : thread[h] = "exec" => current[h].place \in Nat
  BY RequestFields, SMT DEF TypeOK, OrderInv, Places, IsRequest
<1>1. op \in WriteOp /\ op.place = n /\ op.from = c
  BY <1>0, CallFields, WriterAssumption, SMT
     DEF TypeOK, SendAccepted, WriteOp, Places, WriterAssumption
<1> HIDE DEF op
<1>2. /\ \A h \in Gens : queue'[h] = IF h = g THEN Append(queue[g], op) ELSE queue[h]
      /\ \A h \in Gens, d \in Callers :
            call'[h][d] = IF h = g /\ d = c THEN [at |-> "waiting", place |-> n]
                          ELSE call[h][d]
      /\ accepted' = n
      /\ UNCHANGED <<thread, current, wedged, disk, refused>>
  BY DEF TypeOK, SendAccepted, diskVars, op
<1>3. \A h \in Gens : Requested(queue'[h]) \subseteq
                         Requested(queue[h]) \cup (IF h = g THEN {op} ELSE {})
  <2>1. Requested(Append(queue[g], op)) \subseteq Requested(queue[g]) \cup {op}
    BY <1>1, RequestedAppend DEF TypeOK
  <2> QED
    BY <1>2, <2>1
<1>4. \A h \in Gens : \A x \in Requested(queue[h]) : x.place \in Nat /\ x.place <= accepted
  <2> SUFFICES ASSUME NEW h \in Gens, NEW x \in Requested(queue[h])
               PROVE  x.place \in Nat /\ x.place <= accepted
    OBVIOUS
  <2>1. x.place \in Places
    BY RequestedFields
  <2>2. PICK i \in 1 .. Len(queue[h]) : IsRequest(queue[h][i]) /\ x = queue[h][i]
    BY DEF Requested
  <2>3. AllUpTo(queue[h], accepted)
    BY DEF OrderInv
  <2>4. x.place <= accepted
    BY <2>2, <2>3 DEF AllUpTo
  <2> QED
    BY <2>1, <2>4, WriterAssumption, SMT DEF Places, WriterAssumption
<1>5. /\ n \notin refused /\ n # disk
      /\ \A m \in refused : m <= n
      /\ \A h \in Gens : thread[h] = "exec" => current[h].place # n
      /\ \A h \in Gens : \A x \in Requested(queue[h]) : x.place # n
  <2>1. n \notin refused /\ \A m \in refused : m <= n
    BY <1>0, SMT DEF RefusedInv
  <2>2. n # disk
    BY <1>0, SMT DEF OrderInv
  <2>3. \A h \in Gens : thread[h] = "exec" => current[h].place # n
    BY <1>0, SMT DEF OrderInv
  <2>4. \A h \in Gens : \A x \in Requested(queue[h]) : x.place # n
    BY <1>0, <1>4, SMT
  <2> QED
    BY <2>1, <2>2, <2>3, <2>4
<1>6. \A h \in Gens, d \in Callers : call[h][d].at = "waiting" =>
         call[h][d].place <= n /\ call[h][d].place # n
  <2> SUFFICES ASSUME NEW h \in Gens, NEW d \in Callers, call[h][d].at = "waiting"
               PROVE  call[h][d].place <= n /\ call[h][d].place # n
    OBVIOUS
  <2>1. Unanswered(h, d)
    BY DEF RefusedInv
  <2>2. call[h][d].place \in Nat /\ call[h][d].place <= accepted
    BY <2>1, CallFields, SMT DEF TypeOK, Unanswered, Places
  <2> QED
    BY <1>0, <2>2, SMT
<1> HIDE DEF n
<1>7. RefusedWritesStayOut' /\ \A m \in refused' : m <= accepted'
  BY <1>2, <1>5 DEF RefusedInv, RefusedWritesStayOut
<1>8. /\ \A h \in Gens : thread'[h] # "exec" => current'[h] = NoOp
      /\ \A h \in Gens : thread'[h] = "exec" => current'[h].place \notin refused'
      /\ \A h \in Gens : \A x \in Requested(queue'[h]) :
            x.place \in refused' => wedged'[h]
  BY <1>1, <1>2, <1>3, <1>5 DEF RefusedInv
<1>9. ASSUME NEW h \in Gens, NEW d \in Callers, call'[h][d].at = "waiting"
      PROVE  Unanswered(h, d)'
  <2>1. CASE h = g /\ d = c
    <3>0. call'[h][d] = [at |-> "waiting", place |-> n]
      BY <1>2, <2>1
    <3>1. call'[h][d].place = n
      BY <3>0, SMT
    <3>2. n <= n
      BY <1>0, SMT DEF n
    <3> QED
      BY <1>1, <1>2, <1>3, <1>5, <2>1, <3>1, <3>2, SMT DEF Unanswered
  <2>2. CASE ~(h = g /\ d = c)
    <3>1. call'[h][d] = call[h][d] /\ call[h][d].at = "waiting"
      BY <1>2, <1>9, <2>2
    <3>2. call[h][d].place <= n /\ call[h][d].place # n
      BY <1>6, <3>1
    <3>3. Unanswered(h, d)
      BY <3>1 DEF RefusedInv
    <3>4. /\ call'[h][d].place <= accepted'
          /\ call'[h][d].place # disk'
          /\ \A k \in Gens :
                thread'[k] = "exec" /\ current'[k].place = call'[h][d].place =>
                    k = h /\ current'[k].from = d
      BY <1>2, <3>1, <3>2, <3>3 DEF Unanswered
    <3>5. ASSUME NEW k \in Gens, NEW x \in Requested(queue'[k]),
                 x.place = call'[h][d].place
          PROVE  k = h /\ x.from = d
      <4>1. x \in Requested(queue[k])
        BY <1>1, <1>3, <3>1, <3>2, <3>5
      <4> QED
        BY <3>1, <3>3, <3>5, <4>1 DEF Unanswered
    <3> QED
      BY <3>4, <3>5 DEF Unanswered
  <2> QED
    BY <2>1, <2>2
<1> QED
  BY <1>7, <1>8, <1>9 DEF RefusedInv

(* A thread starts only on an operation no one was refused. *)
LEMMA StartOpStep ==
    ASSUME TypeOK, OrderInv, RefusedInv, NEW g \in Gens, Recv(g)
    PROVE  RefusedInv'
<1> DEFINE op == Head(queue[g])
<1>1. queue[g] \in Seq(WriteOp) /\ queue[g] # <<>> /\ op \in WriteOp
  BY SMT DEF TypeOK, Recv
<1>2. /\ \A h \in Gens : Requested(queue'[h]) \subseteq Requested(queue[h])
      /\ IsRequest(op) => op \in Requested(queue[g])
  <2>1. \A h \in Gens : queue'[h] = IF h = g THEN Tail(queue[g]) ELSE queue[h]
    BY DEF TypeOK, Recv
  <2> QED
    BY <1>1, <2>1, RequestedTail
<1>3. /\ \A h \in Gens \ {g} : thread'[h] = thread[h] /\ current'[h] = current[h]
      /\ \/ thread'[g] # "exec" /\ current'[g] = NoOp
         \/ /\ thread'[g] = "exec" /\ current'[g] = op
            /\ IsRequest(op) /\ ~wedged[g]
      /\ UNCHANGED <<call, accepted, disk, refused, wedged>>
  BY <1>1, SMT DEF TypeOK, Recv, Leave, IsRequest, WriteOp, ThreadUnchanged, diskVars
<1> HIDE DEF op
<1>4. CASE thread'[g] # "exec"
  BY <1>2, <1>3, <1>4, RefusedFrame DEF RefusedInv
<1>5. CASE thread'[g] = "exec"
  <2>1. op \in Requested(queue[g]) /\ op.place \notin refused /\ current'[g] = op
    BY <1>2, <1>3, <1>5 DEF RefusedInv
  <2>2. RefusedWritesStayOut' /\ \A n \in refused' : n <= accepted'
    BY <1>3 DEF RefusedInv, RefusedWritesStayOut
  <2>3. /\ \A h \in Gens : thread'[h] # "exec" => current'[h] = NoOp
        /\ \A h \in Gens : thread'[h] = "exec" => current'[h].place \notin refused'
        /\ \A h \in Gens : \A x \in Requested(queue'[h]) :
              x.place \in refused' => wedged'[h]
    BY <1>2, <1>3, <1>5, <2>1 DEF RefusedInv
  <2>4. ASSUME NEW h \in Gens, NEW c \in Callers, call'[h][c].at = "waiting"
        PROVE  Unanswered(h, c)'
    <3>1. call'[h][c] = call[h][c] /\ Unanswered(h, c)
      BY <1>3, <2>4 DEF RefusedInv
    <3> QED
      BY <1>2, <1>3, <2>1, <3>1, SMT DEF Unanswered
  <2> QED
    BY <2>2, <2>3, <2>4 DEF RefusedInv
<1> QED
  BY <1>4, <1>5

(* A call that waits is its state and the place it waits for. *)
LEMMA WaitingCall ==
    ASSUME NEW x \in Call, x.at = "waiting"
    PROVE  x = [at |-> "waiting", place |-> x.place]
<1>1. x \in [at : {"waiting"}, place : Places]
  BY SMT DEF Call, Idle
<1> QED
  BY <1>1

(* A write that reaches the disk answers the caller who waits for it. *)
LEMMA WriteStep ==
    ASSUME TypeOK, OrderInv, RefusedInv, NEW g \in Gens, ExecWrite(g)
    PROVE  RefusedInv'
<1>1. /\ thread[g] = "exec" /\ IsRequest(current[g])
      /\ current[g].from \in Callers
  BY RequestFields DEF ExecWrite, OrderInv, IsRequest, TypeOK
<1>2. /\ disk' \in {disk, current[g].place}
      /\ UNCHANGED <<queue, wedged, accepted, refused>>
      /\ \A h \in Gens \ {g} : thread'[h] = thread[h] /\ current'[h] = current[h]
      /\ thread'[g] # "exec" /\ current'[g] = NoOp
  BY DEF TypeOK, ExecWrite, NextOp, ThreadUnchanged
<1>3. ASSUME NEW h \in Gens, NEW c \in Callers, call'[h][c].at = "waiting"
      PROVE  call'[h][c] = call[h][c] /\ call[h][c].place # current[g].place
  <2>1. call'[h][c] = call[h][c] /\ (h = g /\ c = current[g].from => ~Awaited(g))
    BY <1>1, <1>3 DEF TypeOK, ExecWrite, Ack, Idle
  <2>2. call[h][c].at = "waiting" /\ call[h][c] \in Call
    BY <1>3, <2>1 DEF TypeOK
  <2>3. call[h][c] = [at |-> "waiting", place |-> call[h][c].place]
    BY <2>2, WaitingCall
  <2>4. call[h][c].place = current[g].place => g = h /\ current[g].from = c
    <3>1. Unanswered(h, c)
      BY <2>2 DEF RefusedInv
    <3> QED
      BY <1>1, <3>1 DEF Unanswered
  <2> QED
    BY <2>1, <2>3, <2>4 DEF Awaited
<1>4. RefusedWritesStayOut' /\ \A n \in refused' : n <= accepted'
  BY <1>1, <1>2 DEF RefusedInv, RefusedWritesStayOut
<1>5. /\ \A h \in Gens : thread'[h] # "exec" => current'[h] = NoOp
      /\ \A h \in Gens : thread'[h] = "exec" => current'[h].place \notin refused'
      /\ \A h \in Gens : \A x \in Requested(queue'[h]) :
            x.place \in refused' => wedged'[h]
  BY <1>2 DEF RefusedInv
<1>6. ASSUME NEW h \in Gens, NEW c \in Callers, call'[h][c].at = "waiting"
      PROVE  Unanswered(h, c)'
  <2>1. call'[h][c] = call[h][c] /\ call[h][c].place # current[g].place
    BY <1>3, <1>6
  <2>2. Unanswered(h, c)
    BY <1>6, <2>1 DEF RefusedInv
  <2> QED
    BY <1>2, <2>1, <2>2, SMT DEF Unanswered
<1> QED
  BY <1>4, <1>5, <1>6 DEF RefusedInv

(* Every step keeps refused writes away from the disk. *)
LEMMA RefusedNext == TypeOK /\ GateInv /\ OrderInv /\ RefusedInv /\ [Next]_vars => RefusedInv'
<1> SUFFICES ASSUME TypeOK, GateInv, OrderInv, RefusedInv, [Next]_vars PROVE RefusedInv'
  OBVIOUS
<1> USE DEF gateVars, diskVars
<1>0. ASSUME UNCHANGED <<thread, current>>
      PROVE  /\ \A h \in Gens : thread'[h] # "exec" => current'[h] = NoOp
             /\ \A h \in Gens : thread'[h] = "exec" =>
                    thread[h] = "exec" /\ current'[h] = current[h]
  BY <1>0 DEF RefusedInv
<1>1. ASSUME NEW g \in Gens, NEW op \in {Close, Abandon},
             queue' = queue \/ queue' = [queue EXCEPT ![g] = TrySend(@, g, op)]
      PROVE  \A h \in Gens : Requested(queue'[h]) \subseteq Requested(queue[h])
  <2>1. Requested(TrySend(queue[g], g, op)) \subseteq Requested(queue[g])
    BY RequestedTrySend DEF TypeOK
  <2>2. \A h \in Gens : queue'[h] \in {queue[h]} \/ (h = g /\ queue'[h] = TrySend(queue[g], g, op))
    BY <1>1 DEF TypeOK
  <2> QED
    BY <2>1, <2>2
<1>2. ASSUME NEW g \in Gens, WriterGate(g) \/ AcquireOwned(g) \/ OpenFails(g) \/ Discard(g)
      PROVE  RefusedInv'
  BY <1>0, <1>2, RefusedFrame
     DEF WriterGate, AcquireOwned, OpenFails, Discard
<1>3. ASSUME NEW g \in Gens, Open(g) PROVE RefusedInv'
  <2>1. /\ UNCHANGED <<current, queue, wedged, call, accepted, disk, refused>>
        /\ \A h \in Gens \ {g} : thread'[h] = thread[h]
        /\ thread'[g] = "start"
    BY <1>3 DEF TypeOK, Open
  <2>2. thread[g] # "exec"
    BY <1>3 DEF Open, GateInv
  <2> QED
    BY <2>1, <2>2, RefusedFrame DEF RefusedInv
<1>4. ASSUME NEW g \in Gens, WatcherPoll(g) \/ DropInner(g) PROVE RefusedInv'
  <2>1. \A h \in Gens : Requested(queue'[h]) \subseteq Requested(queue[h])
    BY <1>1, <1>4 DEF WatcherPoll, DropInner
  <2> QED
    BY <1>0, <1>4, <2>1, RefusedFrame DEF WatcherPoll, DropInner
<1>5. ASSUME NEW g \in Gens, ThreadStep(g) PROVE RefusedInv'
  <2>1. CASE Enter(g) \/ RecvNone(g) \/ ReleasePermit(g)
    <3>1. /\ UNCHANGED <<queue, wedged, call, accepted, disk, refused>>
          /\ \A h \in Gens \ {g} : thread'[h] = thread[h] /\ current'[h] = current[h]
          /\ thread'[g] # "exec" /\ thread[g] # "exec"
          /\ current'[g] \in {current[g], NoOp}
      BY <2>1, SMT DEF TypeOK, Enter, RecvNone, ReleasePermit, Leave, ThreadUnchanged
    <3> QED
      BY <3>1, RefusedFrame DEF RefusedInv
  <2>2. CASE Recv(g)
    BY <2>2, StartOpStep
  <2>3. CASE DropReceiver(g)
    <3>1. /\ UNCHANGED <<current, wedged, call, accepted, disk, refused>>
          /\ \A h \in Gens \ {g} : thread'[h] = thread[h] /\ queue'[h] = queue[h]
          /\ thread'[g] # "exec" /\ thread[g] # "exec"
          /\ queue'[g] = <<>>
      BY <2>3 DEF TypeOK, DropReceiver, ThreadUnchanged
    <3>2. Requested(queue'[g]) = {}
      <4>1. Len(queue'[g]) = 0
        BY <3>1, SMT
      <4> QED
        BY <4>1, SMT DEF Requested
    <3> QED
      BY <3>1, <3>2, RefusedFrame DEF RefusedInv
  <2> QED
    BY <1>5, <2>1, <2>2, <2>3 DEF ThreadStep
<1>6. ASSUME NEW g \in Gens, DiskStep(g) PROVE RefusedInv'
  <2>1. CASE ExecWrite(g)
    BY <2>1, WriteStep
  <2>2. CASE ExecHashPartMd4(g) \/ ExecSyncData(g)
    <3>1. /\ UNCHANGED <<queue, wedged, accepted, disk, refused>>
          /\ \A h \in Gens \ {g} : thread'[h] = thread[h] /\ current'[h] = current[h]
          /\ thread'[g] # "exec" /\ current'[g] = NoOp /\ Ack(g)
          /\ thread[g] = "exec"
      BY <2>2, SMT DEF TypeOK, ExecHashPartMd4, ExecSyncData, Leave, NextOp, ThreadUnchanged
    <3>2. current[g].from \in Callers
      BY <3>1, RequestFields DEF OrderInv, IsRequest, TypeOK
    <3>3. \A h \in Gens, c \in Callers :
             call'[h][c].at = "waiting" => call'[h][c] = call[h][c]
      BY <3>1, <3>2 DEF TypeOK, Ack, Idle
    <3> QED
      BY <3>1, <3>3, RefusedFrame DEF RefusedInv
  <2>3. CASE Flush(g)
    <3>1. /\ UNCHANGED <<current, queue, wedged, call, accepted, disk, refused>>
          /\ \A h \in Gens \ {g} : thread'[h] = thread[h]
          /\ thread'[g] # "exec" /\ thread[g] # "exec"
      BY <2>3 DEF TypeOK, Flush, ThreadUnchanged
    <3> QED
      BY <3>1, RefusedFrame DEF RefusedInv
  <2> QED
    BY <1>6, <2>1, <2>2, <2>3 DEF DiskStep
<1>7. ASSUME NEW g \in Gens, NEW c \in Callers, CallerStep(g, c) PROVE RefusedInv'
  <2>1. CASE SendAccepted(g, c)
    BY <2>1, AcceptStep
  <2>2. CASE BrokenPipe(g, c)
    BY <2>2, RefuseStep DEF BrokenPipe
  <2>3. CASE SubmitTimeout(g, c)
    <3>1. \A h \in Gens : Requested(queue'[h]) \subseteq Requested(queue[h])
      BY <1>1, <2>3 DEF SubmitTimeout
    <3>2. wedged'[g] /\ \A h \in Gens : wedged[h] => wedged'[h]
      BY <2>3 DEF TypeOK, SubmitTimeout
    <3> QED
      BY <2>3, <3>1, <3>2, RefuseStep DEF SubmitTimeout
  <2>4. CASE CallerAborted(g, c) \/ \E kind \in Requests : Submit(g, c, kind)
    <3>1. PICK r \in {Idle} \cup [at : {"sending"}, kind : Requests] :
             call' = [call EXCEPT ![g][c] = r]
      BY <2>4 DEF CallerAborted, Submit, Return
    <3>2. \A h \in Gens, d \in Callers :
             call'[h][d].at = "waiting" => call'[h][d] = call[h][d]
      <4>1. r.at # "waiting"
        BY SMT DEF Idle
      <4>2. \A h \in Gens, d \in Callers :
               call'[h][d] = IF h = g /\ d = c THEN r ELSE call[h][d]
        BY <3>1 DEF TypeOK
      <4> QED
        BY <4>1, <4>2
    <3> QED
      BY <1>0, <2>4, <3>2, RefusedFrame DEF CallerAborted, Submit
  <2> QED
    BY <1>7, <2>1, <2>2, <2>3, <2>4 DEF CallerStep
<1>8. CASE VolumeFails \/ UNCHANGED vars
  BY <1>0, <1>8, RefusedFrame DEF VolumeFails, vars
<1> QED
  BY <1>2, <1>3, <1>4, <1>5, <1>6, <1>7, <1>8 DEF Next

(* For any number of generations and callers and any capacity: a write     *)
(* whose caller was told it failed before the thread had started on it     *)
(* never reaches the disk, because poison() and the discard flag are read  *)
(* before every operation and an acknowledgement is dropped only with its  *)
(* operation.                                                              *)
THEOREM RefusedStayOut == Spec => []RefusedWritesStayOut
<1>1. Init => RefusedInv
  <2> SUFFICES ASSUME Init PROVE RefusedInv
    OBVIOUS
  <2>1. \A g \in Gens : Requested(queue[g]) = {}
    <3> SUFFICES ASSUME NEW g \in Gens PROVE Requested(queue[g]) = {}
      OBVIOUS
    <3>1. queue[g] = <<>>
      BY DEF Init
    <3>2. Len(queue[g]) = 0
      BY <3>1, SMT
    <3> QED
      BY <3>2, SMT DEF Requested
  <2> QED
    BY <2>1 DEF Init, RefusedInv, RefusedWritesStayOut, Unanswered, Idle
<1>2. RefusedInv => RefusedWritesStayOut
  BY DEF RefusedInv
<1> QED
  BY <1>1, <1>2, GateInvariant, OrderInit, OrderNext, RefusedNext, PTL DEF Spec

=============================================================================
