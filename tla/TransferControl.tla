-------------------------- MODULE TransferControl ---------------------------
(***************************************************************************)
(* One download's workers and the controls that reach them: the user's     *)
(* commands (commands/transfers.rs) set the row and its control under the  *)
(* manager's lock and then send a command; the network task (network/      *)
(* command.rs, downloads.rs, event_loop/) takes the commands in order,     *)
(* starts workers and hears how they end.                                  *)
(*                                                                         *)
(* A control is a number, its generation.  A worker is its control: it and *)
(* the per-source tasks it spawned run until they see the control          *)
(* cancelled; aborting the handle ends the worker and not those tasks.     *)
(* Searching and Queued are one status, "waiting"; whether the row has a   *)
(* slot is where it is, in the active map or in the queue.                 *)
(***************************************************************************)
EXTENDS Integers, FiniteSets, Sequences

CONSTANTS
    Handlers,   \* IPC handlers that may run at once
    MaxGen,     \* bound on the controls made
    MaxCmds,    \* bound on commands waiting in the channel
    MaxEvents   \* bound on reports of workers waiting to be heard

ASSUME BoundAssumption == MaxGen \in Nat

VARIABLES
    row,        \* the row's status
    place,      \* "active", "queue" or "finished"
    registered, \* the control registered for the row, 0 if none
    cancelled,  \* controls that are cancelled
    made,       \* controls made so far
    ipc,        \* ipc[h]: where handler h is, and the command it will send
    cmds,       \* commands on their way to the network task
    net,        \* where the network task is, and the control it works on
    pending,    \* the control of the row's PendingDownload, 0 if none
    handle,     \* the worker in download_handles, 0 if none
    worker,     \* the worker that is still running there, 0 if none
    running,    \* controls some task still runs on
    events,     \* download events on their way to the network task
    overtaken   \* history: whether something came too late for the row

vars == <<row, place, registered, cancelled, made, ipc, cmds, net, pending,
          handle, worker, running, events, overtaken>>
rowVars == <<row, place>>
controlVars == <<registered, cancelled, made>>
workerVars == <<handle, worker, running, events>>
taskVars == <<pending, workerVars>>

Gens == 1..MaxGen
Held == {"paused", "stopped"}
Startable == place = "active" /\ row \in {"waiting", "active"}
Listed == place \in {"active", "queue"}

Cmd(kind, g) == [kind |-> kind, gen |-> g]
At(pc, g) == [pc |-> pc, gen |-> g]
Idle == At("idle", 0)

Live(g) == g # 0 /\ g \notin cancelled

Commands == {"start", "discover", "pause", "stop"}
EventKinds == {"error", "cancel", "progress", "completed"}

TypeOK ==
    /\ row \in {"waiting", "active", "paused", "stopped", "failed", "completed",
               "gone"}
    /\ place \in {"active", "queue", "finished"}
    /\ place = "finished" <=> row \in {"failed", "completed", "gone"}
    /\ {registered, pending, handle} \subseteq 0..made
    /\ worker \in {0, handle}
    /\ made \in 0..MaxGen
    /\ cancelled \cup running \subseteq 1..made
    /\ overtaken \in {"no", "late", "undone"}

(* A row just added, in a slot or in the queue, or restored at launch. *)
Init ==
    /\ registered = 1 /\ made = 1 /\ cancelled = {}
    /\ ipc = [h \in Handlers |-> Idle]
    /\ net = Idle
    /\ handle = 0 /\ worker = 0 /\ running = {} /\ events = <<>>
    /\ overtaken = "no"
    /\ \/ /\ row = "waiting" /\ place = "active"
          /\ cmds = <<Cmd("start", 1)>> /\ pending = 0
       \/ /\ row = "waiting" /\ place = "queue"
          /\ cmds = <<Cmd("discover", 1)>> /\ pending = 0
       \/ /\ row \in {"waiting", "paused", "stopped"} /\ place = "queue"
          /\ cmds = <<>> /\ pending = IF row = "waiting" THEN 1 ELSE 0

-----------------------------------------------------------------------------
(* Mutant: the control that is replaced stays live. *)
InstallOver(g) ==
    /\ IF g \in cancelled /\ Live(registered) /\ registered # g
       THEN UNCHANGED registered
       ELSE registered' = g
    /\ UNCHANGED cancelled

(* install_control: a cancelled control does not displace a live one, and  *)
(* the control that is replaced is cancelled.                              *)
install_control(g) ==
    IF g \in cancelled /\ Live(registered) /\ registered # g
    THEN UNCHANGED <<registered, cancelled>>
    ELSE /\ registered' = g
         /\ cancelled' = IF Listed THEN cancelled \cup ({registered} \ {0, g})
                         ELSE cancelled

(* A new control, registered in place of the old one, which is cancelled. *)
MakeControl ==
    /\ made < MaxGen
    /\ made' = made + 1
    /\ install_control(made + 1)

CancelRegistered == cancelled' = cancelled \cup ({registered} \ {0})

(* TransferControl::resume, on the registered control. *)
Uncancel == cancelled' = cancelled \ {registered}

(* Something came too late for the row and was applied, or was lost. *)
Note(what, happened) ==
    overtaken' = IF happened /\ overtaken # "undone" THEN what ELSE overtaken

Become(h, pc, g) == ipc' = [ipc EXCEPT ![h] = At(pc, g)]

IdleHandler(h) == ipc[h] = Idle

pause_transfer(h) ==
    /\ IdleHandler(h) /\ Listed
    /\ CancelRegistered
    /\ row' = "paused"
    /\ Become(h, "pause", 0)
    /\ UNCHANGED <<place, registered, made, cmds, net, taskVars, overtaken>>

(* stop takes the control out of the registry as well. *)
stop_transfer(h) ==
    /\ IdleHandler(h) /\ Listed
    /\ CancelRegistered
    /\ registered' = 0
    /\ row' = "stopped" /\ place' = "queue"
    /\ Become(h, "stop", 0)
    /\ UNCHANGED <<made, cmds, net, taskVars, overtaken>>

(* cancel_transfers_batch: the row and its control go; the command is lost *)
(* if the channel is full.                                                 *)
cancel_transfer(h) ==
    /\ IdleHandler(h) /\ Listed
    /\ CancelRegistered
    /\ registered' = 0
    /\ row' = "gone" /\ place' = "finished"
    /\ Become(h, "cancel", 0)
    /\ UNCHANGED <<made, cmds, net, taskVars, overtaken>>

SendCancel(h) ==
    /\ ipc[h].pc = "cancel"
    /\ cmds' = IF Len(cmds) < MaxCmds THEN Append(cmds, Cmd("stop", 0)) ELSE cmds
    /\ Note("undone", ~(Len(cmds) < MaxCmds))
    /\ Become(h, "idle", 0)
    /\ UNCHANGED <<rowVars, controlVars, net, taskVars>>

(* resume_transfer.  A row without a control gets one; a row the resume    *)
(* leaves in the queue is only searched for, any other gets a worker.      *)
resume_transfer(h, slot) ==
    /\ IdleHandler(h) /\ Listed
    /\ IF registered = 0
       THEN made < MaxGen /\ made' = made + 1 /\ registered' = made + 1
            /\ UNCHANGED cancelled
       ELSE Uncancel /\ UNCHANGED <<made, registered>>
    /\ IF place = "active" /\ row # "paused"
       THEN UNCHANGED <<rowVars, ipc>>
       ELSE /\ row' = "waiting"
            /\ place' = IF slot THEN "active" ELSE "queue"
            /\ IF slot THEN Become(h, "promoted", 0)
               ELSE IF place = "active" \/ row = "stopped"
               THEN Become(h, "rediscover", 0)
               ELSE UNCHANGED ipc
    /\ UNCHANGED <<cmds, net, taskVars, overtaken>>

(* Another row's handler gave up a slot, and this row got it. *)
Promoted(h) ==
    /\ IdleHandler(h)
    /\ place = "queue" /\ row \notin Held
    /\ place' = "active" /\ row' = "waiting"
    /\ Become(h, "promoted", 0)
    /\ UNCHANGED <<controlVars, cmds, net, taskVars, overtaken>>

(* start_promoted_downloads looks at the row again, under the lock. *)
start_promoted_downloads(h) ==
    /\ ipc[h].pc = "promoted"
    /\ IF Startable
       THEN MakeControl /\ Become(h, "start", made + 1)
       ELSE Become(h, "idle", 0) /\ UNCHANGED controlVars
    /\ UNCHANGED <<rowVars, cmds, net, taskVars, overtaken>>

start_queued_discovery(h) ==
    /\ ipc[h].pc = "rediscover"
    /\ IF place = "queue" /\ row = "waiting"
       THEN IF registered = 0
            THEN MakeControl /\ Become(h, "discover", made + 1)
            ELSE Become(h, "discover", registered) /\ UNCHANGED controlVars
       ELSE Become(h, "idle", 0) /\ UNCHANGED controlVars
    /\ UNCHANGED <<rowVars, cmds, net, taskVars, overtaken>>

Send(h) ==
    /\ ipc[h].pc \in Commands
    /\ Len(cmds) < MaxCmds
    /\ cmds' = Append(cmds, Cmd(ipc[h].pc, ipc[h].gen))
    /\ Become(h, "idle", 0)
    /\ UNCHANGED <<rowVars, controlVars, net, taskVars, overtaken>>

-----------------------------------------------------------------------------
Take(kind) ==
    /\ net = Idle /\ cmds # <<>>
    /\ Head(cmds).kind = kind
    /\ cmds' = Tail(cmds)

GoTo(pc, g) == net' = At(pc, g)

Abort == handle' = 0 /\ worker' = 0

(* Mutant: the worker is aborted, its control is not cancelled. *)
PauseAbortsOnly ==
    /\ Take("pause")
    /\ Abort
    /\ GoTo("repair", 0)
    /\ UNCHANGED <<rowVars, controlVars, ipc, pending, running, events, overtaken>>

(* PauseDownload: cancel what is registered by now, end the worker, ... *)
PauseDownload ==
    /\ Take("pause")
    /\ CancelRegistered
    /\ Abort
    /\ GoTo("repair", 0)
    /\ Note("late", row # "paused")
    /\ UNCHANGED <<rowVars, registered, made, ipc, pending, running, events>>

(* ... and see that the row does not read Active. *)
RepairActive ==
    /\ net.pc = "repair"
    /\ row' = IF row = "active" THEN "paused" ELSE row
    /\ GoTo("idle", 0)
    /\ Note("undone", row = "active" /\ Live(registered))
    /\ UNCHANGED <<place, controlVars, ipc, cmds, taskVars>>

(* CancelDownload, as Stop sends it. *)
CancelDownload ==
    /\ Take("stop")
    /\ pending' = 0
    /\ CancelRegistered
    /\ Abort
    /\ Note("late", row \notin {"stopped", "gone"})
    /\ UNCHANGED <<rowVars, registered, made, ipc, net, running, events>>

(* StartDownload for a queued row only asks for sources. *)
StartDiscovery ==
    /\ Take("discover")
    /\ pending' = Head(cmds).gen
    /\ Note("late", pending' \in cancelled)
    /\ UNCHANGED <<rowVars, controlVars, ipc, net, workerVars>>

(* StartDownload with control g: sent, or run by the network task itself. *)
StartDownload(g) ==
    \/ Take("start") /\ g = Head(cmds).gen
    \/ net = At("start", g) /\ UNCHANGED cmds

(* No source is known. *)
StartSearch(g) ==
    /\ StartDownload(g)
    /\ pending' = g
    /\ GoTo("idle", 0)
    /\ Note("late", g \in cancelled)
    /\ UNCHANGED <<rowVars, controlVars, ipc, workerVars>>

(* Every source is refused. *)
StartRefused(g) ==
    /\ StartDownload(g)
    /\ IF g \in cancelled
       THEN pending' = g /\ GoTo("idle", 0)
       ELSE pending' = 0 /\ GoTo("searching", g)
    /\ Note("late", g \in cancelled)
    /\ UNCHANGED <<rowVars, controlVars, ipc, workerVars>>

SetSearching ==
    /\ net.pc = "searching"
    /\ row' = IF Listed THEN "waiting" ELSE row
    /\ install_control(net.gen)
    /\ pending' = net.gen
    /\ GoTo("idle", 0)
    /\ Note("late", net.gen \in cancelled)
    /\ UNCHANGED <<place, made, ipc, cmds, workerVars>>

(* There are sources; a worker that is there is ended first. *)
StartWorker(g) ==
    /\ StartDownload(g)
    /\ pending' = 0
    /\ cancelled' = IF handle = 0 THEN cancelled
                    ELSE cancelled \cup ({registered} \ {0, g})
    /\ Abort
    /\ GoTo(IF g \in cancelled THEN "spawn" ELSE "register", g)
    /\ Note("late", g \in cancelled)
    /\ UNCHANGED <<rowVars, registered, made, ipc, running, events>>

RegisterWorker ==
    /\ net.pc = "register"
    /\ registered' = IF registered = 0 /\ row = "gone" THEN 0 ELSE net.gen
    /\ cancelled' = cancelled \cup ({registered} \ {0, net.gen})
    /\ GoTo("spawn", net.gen)
    /\ UNCHANGED <<rowVars, made, ipc, cmds, taskVars, overtaken>>

Spawn ==
    /\ net.pc = "spawn"
    /\ handle' = net.gen /\ worker' = net.gen
    /\ running' = running \cup {net.gen}
    /\ GoTo("idle", 0)
    /\ UNCHANGED <<rowVars, controlVars, ipc, cmds, pending, events, overtaken>>

-----------------------------------------------------------------------------
(* start_pending_download_worker: looked at, taken out of pending, ... *)
StartPending ==
    /\ net = Idle
    /\ Live(pending) /\ Startable
    /\ pending' = 0
    /\ GoTo("recheck", pending)
    /\ UNCHANGED <<rowVars, controlVars, ipc, cmds, workerVars, overtaken>>

(* ... and looked at again under the lock that sets the row Active. *)
StartRechecked ==
    /\ net.pc = "recheck"
    /\ IF Live(net.gen) /\ Startable
       THEN row' = "active" /\ GoTo("spawn", net.gen) /\ UNCHANGED pending
       ELSE pending' = net.gen /\ GoTo("idle", 0) /\ UNCHANGED row
    /\ UNCHANGED <<place, controlVars, ipc, cmds, workerVars, overtaken>>

(* source_retry_tick starts a pending row from the sources it kept: looked *)
(* at once, at the top of the tick, ...                                    *)
RetryPending ==
    /\ net = Idle
    /\ Live(pending) /\ Startable
    /\ pending' = 0
    /\ GoTo("retry", pending)
    /\ UNCHANGED <<rowVars, controlVars, ipc, cmds, workerVars, overtaken>>

(* ... and then set Active. *)
RetryStart ==
    /\ net.pc = "retry"
    /\ row' = IF Listed THEN "active" ELSE row
    /\ GoTo("spawn", net.gen)
    /\ Note("late", ~Live(net.gen) \/ ~Startable)
    /\ UNCHANGED <<place, controlVars, ipc, cmds, taskVars>>

(* source_retry_tick drops a pending entry whose control is cancelled; the *)
(* row fails unless it is held or has a live control.                      *)
RetryDrop ==
    /\ net = Idle
    /\ pending \in cancelled
    /\ pending' = 0
    /\ GoTo(IF Live(registered) \/ row \in Held THEN "idle" ELSE "fail", 0)
    /\ UNCHANGED <<rowVars, controlVars, ipc, cmds, workerVars, overtaken>>

RetryFail ==
    /\ net.pc = "fail"
    /\ IF Listed
       THEN /\ row' = "failed" /\ place' = "finished"
            /\ CancelRegistered /\ registered' = 0
       ELSE UNCHANGED <<rowVars, registered, cancelled>>
    /\ GoTo("idle", 0)
    /\ UNCHANGED <<made, ipc, cmds, taskVars, overtaken>>

(* A row the network task promoted, as another one finished: ... *)
NetPromoted ==
    /\ net = Idle
    /\ place = "queue" /\ row \notin Held
    /\ place' = "active" /\ row' = "waiting"
    /\ GoTo("reregister", 0)
    /\ UNCHANGED <<controlVars, ipc, cmds, taskVars, overtaken>>

(* ... reregister_transfer_control, and StartDownload at once. *)
reregister_transfer_control ==
    /\ net.pc = "reregister"
    /\ MakeControl
    /\ GoTo("start", made + 1)
    /\ Note("late", ~Startable)
    /\ UNCHANGED <<rowVars, ipc, cmds, taskVars>>

-----------------------------------------------------------------------------
Event(kind, g) == [kind |-> kind, gen |-> g]

(* A worker moves bytes, ends by an error, or has the file complete. *)
Report(kind) ==
    /\ worker # 0 /\ Live(worker)
    /\ Len(events) < MaxEvents
    /\ events' = Append(events, Event(kind, worker))
    /\ IF kind = "progress" THEN UNCHANGED <<worker, running>>
       ELSE /\ worker' = 0
            /\ running' \in {running, running \ {worker}}
    /\ UNCHANGED <<rowVars, controlVars, ipc, cmds, net, pending, handle, overtaken>>

(* Tasks that see their control cancelled end; a worker says so. *)
Unwind(g) ==
    /\ g \in running \cap cancelled
    /\ running' = running \ {g}
    /\ IF worker = g
       THEN /\ Len(events) < MaxEvents
            /\ worker' = 0 /\ events' = Append(events, Event("cancel", g))
       ELSE UNCHANGED <<worker, events>>
    /\ UNCHANGED <<rowVars, controlVars, ipc, cmds, net, pending, handle, overtaken>>

TakeEvent(kind) ==
    /\ net = Idle /\ events # <<>>
    /\ Head(events).kind = kind
    /\ events' = Tail(events)

SourcesUpdate ==
    /\ TakeEvent("progress")
    /\ row' = IF place = "active" /\ row = "waiting" THEN "active" ELSE row
    /\ UNCHANGED <<place, controlVars, ipc, cmds, net, pending, handle, worker,
                   running, overtaken>>

Completed ==
    /\ TakeEvent("completed")
    /\ Abort
    /\ IF Listed
       THEN /\ row' = "completed" /\ place' = "finished"
            /\ CancelRegistered /\ registered' = 0
       ELSE UNCHANGED <<rowVars, registered, cancelled>>
    /\ UNCHANGED <<made, ipc, cmds, net, pending, running, overtaken>>

(* A Failed from a worker that was replaced is dropped. *)
superseded(e) ==
    \/ registered \notin {0, e.gen}
    \/ e.kind = "cancel" /\ Live(registered)

(* Failed: the handle goes, and the download is queued again unless the    *)
(* user cancelled it ...                                                   *)
Failed ==
    /\ \/ TakeEvent("error") \/ TakeEvent("cancel")
    /\ LET e == Head(events) IN
       IF superseded(e) THEN UNCHANGED <<handle, worker, net>>
       ELSE /\ Abort
            /\ GoTo(IF \/ e.kind = "cancel"
                       \/ registered \in cancelled
                       \/ row \in Held \/ ~Listed
                    THEN "idle" ELSE "requeue", 0)
    /\ UNCHANGED <<rowVars, controlVars, ipc, cmds, pending, running, overtaken>>

(* Mutant: the download gets a new control and no pending entry. *)
RequeueForgets ==
    /\ net.pc = "requeue"
    /\ IF row \in Held \cup {"completed", "failed"}
       THEN UNCHANGED <<row, controlVars>>
       ELSE /\ row' = IF place = "active" THEN "waiting" ELSE row
            /\ MakeControl
    /\ GoTo("idle", 0)
    /\ UNCHANGED <<place, ipc, cmds, pending, workerVars, overtaken>>

(* ... or settled the row before the lock was taken. *)
Requeue ==
    /\ net.pc = "requeue"
    /\ IF row \in Held \cup {"completed", "failed"}
       THEN UNCHANGED <<row, controlVars, pending>>
       ELSE /\ row' = IF place = "active" THEN "waiting" ELSE row
            /\ MakeControl
            /\ pending' = made + 1
    /\ GoTo("idle", 0)
    /\ UNCHANGED <<place, ipc, cmds, workerVars, overtaken>>

-----------------------------------------------------------------------------
Next ==
    \/ \E h \in Handlers :
           \/ pause_transfer(h) \/ stop_transfer(h)
           \/ cancel_transfer(h) \/ SendCancel(h)
           \/ \E slot \in BOOLEAN : resume_transfer(h, slot)
           \/ Promoted(h) \/ start_promoted_downloads(h)
           \/ start_queued_discovery(h) \/ Send(h)
    \/ PauseDownload \/ RepairActive \/ CancelDownload \/ StartDiscovery
    \/ \E g \in Gens : StartSearch(g) \/ StartRefused(g) \/ StartWorker(g)
    \/ SetSearching \/ RegisterWorker \/ Spawn
    \/ StartPending \/ StartRechecked \/ RetryPending \/ RetryStart
    \/ RetryDrop \/ RetryFail \/ NetPromoted \/ reregister_transfer_control
    \/ \E kind \in EventKinds \ {"cancel"} : Report(kind)
    \/ \E g \in Gens : Unwind(g)
    \/ SourcesUpdate \/ Completed \/ Failed \/ Requeue

Spec == Init /\ [][Next]_vars

-----------------------------------------------------------------------------
(* Every task still transferring can be reached: what runs on a control    *)
(* that is not cancelled runs on the registered one, which is where Pause, *)
(* Stop and Cancel look for it.                                            *)
OnlyRegisteredRuns == running \ cancelled \subseteq {registered}

(* A start overtaken by a Pause or a Stop must not undo it: a held row     *)
(* runs again only as the user resumes it.                                 *)
HeldStaysHeld ==
    [][ (row \in Held /\ row' \in {"waiting", "active"}) =>
        \E h \in Handlers, slot \in BOOLEAN : resume_transfer(h, slot) ]_vars

(* Nothing is on its way that could still act on the row. *)
AtRest ==
    /\ \A h \in Handlers : IdleHandler(h)
    /\ net = Idle /\ cmds = <<>> /\ events = <<>>
    /\ running \cap cancelled = {} /\ pending \notin cancelled

(* Pause, Stop and Cancel last: whatever was starting as the user held the *)
(* row, once the commands sent since are handled nothing transfers for it. *)
(* Not if Cancel's command was lost, or a Resume came just as              *)
(* PauseDownload set an Active row Paused.                                 *)
HeldRowIsQuiet ==
    row \in Held \cup {"gone"} /\ AtRest /\ overtaken # "undone" =>
        running = {} /\ worker = 0

Served == Live(pending) \/ (worker # 0 /\ Live(worker))

(* A row in a slot is being worked on: once all is at rest it has a worker *)
(* or a pending entry that will get one, unless a command or a check the   *)
(* row had moved on from was applied to it.                                *)
WaitingRowIsServed == AtRest /\ Startable /\ overtaken = "no" => Served
=============================================================================
