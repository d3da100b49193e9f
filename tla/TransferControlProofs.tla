----------------------- MODULE TransferControlProofs ------------------------
(***************************************************************************)
(* For every number of handlers, controls, commands and events in flight:  *)
(*   - every task that still transfers runs on the registered control, or  *)
(*     on a cancelled one;                                                 *)
(*   - Pause, Stop and Cancel last: a held or removed row ends with        *)
(*     nothing running on it;                                              *)
(*   - a row in a slot always has somebody to see to it.                   *)
(***************************************************************************)
EXTENDS TransferControl, TLAPS

(* Steps are first-order, for Zenon, unless they name SMT. *)
USE Zenon

NetPCs == {"idle", "repair", "start", "searching", "register", "spawn",
           "recheck", "retry", "fail", "reregister", "requeue"}
IpcPCs == Commands \cup {"idle", "cancel", "promoted", "rediscover"}

(* Where the network task has a control in hand. *)
Working == {"start", "searching", "register", "spawn", "recheck", "retry"}

Numbers ==
    /\ made \in Nat
    /\ registered \in 0..made
    /\ pending \in 0..made
    /\ cancelled \subseteq 1..made
    /\ running \subseteq 1..made

NetTyped ==
    /\ net \in [pc : NetPCs, gen : Nat]
    /\ net.gen \in 0..made
    /\ net.pc \in Working => net.gen # 0

Channels ==
    /\ ipc \in [Handlers -> [pc : IpcPCs, gen : Nat]]
    /\ \A h \in Handlers : ipc[h].gen \in 0..made
    /\ cmds \in Seq([kind : Commands, gen : Nat])
    /\ \A i \in 1..Len(cmds) : cmds[i].gen \in 0..made

(* A control that is not registered was cancelled as it was replaced. *)
Replaced == \A g \in 1..made : g \in cancelled \/ g = registered

(* install_control leaves the replaced control alone once the row is gone: *)
(* so at most one control is made for such a row, and not over a live one. *)
NoSecond ==
    ~Listed /\ Live(registered) => net.pc \notin {"reregister", "requeue"}

ControlInv == Numbers /\ NetTyped /\ Channels /\ Replaced /\ NoSecond

LEMMA ControlInit == Init => ControlInv
<1> SUFFICES ASSUME Init PROVE ControlInv
    OBVIOUS
<1>1. Numbers /\ Replaced
    BY SMT DEF Init, Numbers, Replaced
<1>2. NetTyped /\ NoSecond
    BY SMT DEF Init, NetTyped, NoSecond, Idle, At, NetPCs, Working
<1>3. ipc \in [Handlers -> [pc : IpcPCs, gen : Nat]]
      /\ \A h \in Handlers : ipc[h].gen \in 0..made
    BY SMT DEF Init, Idle, At, IpcPCs
<1>4. /\ cmds \in Seq([kind : Commands, gen : Nat])
      /\ \A i \in 1..Len(cmds) : cmds[i].gen \in 0..made
    <2>1. CASE cmds = <<>>
        BY <2>1, SMT
    <2>2. CASE \E k \in {"start", "discover"} : cmds = <<Cmd(k, 1)>>
        <3>1. PICK k \in {"start", "discover"} : cmds = <<Cmd(k, 1)>>
            BY <2>2
        <3>2. Cmd(k, 1) \in [kind : Commands, gen : Nat] /\ Cmd(k, 1).gen = 1
            BY DEF Cmd, Commands
        <3>3. made = 1
            BY DEF Init
        <3> QED BY <3>1, <3>2, <3>3, SMT
    <2> QED BY <2>1, <2>2 DEF Init
<1> QED BY <1>1, <1>2, <1>3, <1>4 DEF ControlInv, Channels

(* Controls are only made, and the channels only carry those made. *)
LEMMA ChannelsKept ==
    ASSUME Channels, Numbers, UNCHANGED <<ipc, cmds>>, made' \in Nat, made' >= made
    PROVE  Channels'
<1>1. 0..made \subseteq 0..made'
    BY SMT DEF Numbers
<1> QED BY <1>1 DEF Channels

LEMMA BecomeKeeps ==
    ASSUME Channels, Numbers, NEW h \in Handlers, NEW pc \in IpcPCs, NEW g \in Nat,
           Become(h, pc, g), UNCHANGED cmds, made' \in Nat, made' >= made, g <= made'
    PROVE  Channels'
<1>1. ipc' \in [Handlers -> [pc : IpcPCs, gen : Nat]]
    BY DEF Channels, Become, At
<1>2. \A k \in Handlers : ipc'[k].gen \in 0..made'
    BY SMT DEF Channels, Become, At, Numbers
<1>3. 0..made \subseteq 0..made'
    BY SMT DEF Numbers
<1>4. /\ cmds' \in Seq([kind : Commands, gen : Nat])
      /\ \A i \in 1..Len(cmds') : cmds'[i].gen \in 0..made'
    BY <1>3 DEF Channels
<1> QED BY <1>1, <1>2, <1>4 DEF Channels

LEMMA AppendKeeps ==
    ASSUME Channels, Numbers, NEW h \in Handlers, NEW c \in [kind : Commands, gen : Nat],
           c.gen <= made, cmds' = Append(cmds, c) \/ cmds' = cmds,
           Become(h, "idle", 0), UNCHANGED made
    PROVE  Channels'
<1>1. ipc' \in [Handlers -> [pc : IpcPCs, gen : Nat]]
    BY DEF Channels, Become, At, IpcPCs
<1>2. \A k \in Handlers : ipc'[k].gen \in 0..made'
    BY SMT DEF Channels, Become, At, Numbers
<1>3. /\ cmds \in Seq([kind : Commands, gen : Nat])
      /\ \A i \in 1..Len(cmds) : cmds[i].gen \in 0..made
    BY DEF Channels
<1>4. CASE cmds' = Append(cmds, c)
    <2>1. cmds' \in Seq([kind : Commands, gen : Nat])
        BY <1>3, <1>4, SMT
    <2>2. \A i \in 1..Len(cmds') : cmds'[i].gen \in 0..made'
        BY <1>3, <1>4, SMT DEF Numbers
    <2> QED BY <1>1, <1>2, <2>1, <2>2 DEF Channels
<1>5. CASE cmds' = cmds
    BY <1>1, <1>2, <1>3, <1>5 DEF Channels
<1> QED BY <1>4, <1>5

LEMMA TakeFacts ==
    ASSUME Channels, Numbers, NEW kind, Take(kind), UNCHANGED <<ipc, made>>
    PROVE  /\ Channels'
           /\ net = Idle
           /\ Head(cmds).gen \in 0..made
<1>1. /\ cmds \in Seq([kind : Commands, gen : Nat]) /\ cmds # <<>>
      /\ cmds' = Tail(cmds)
    BY DEF Take, Channels
<1>2. Head(cmds).gen \in 0..made
    BY <1>1, SMT DEF Channels, Numbers
<1>3. cmds' \in Seq([kind : Commands, gen : Nat])
    BY <1>1, SMT
<1>4. \A i \in 1..Len(cmds') : cmds'[i].gen \in 0..made'
    BY <1>1, SMT DEF Channels, Numbers
<1> QED BY <1>2, <1>3, <1>4 DEF Take, Channels

LEMMA StartFacts ==
    ASSUME Channels, Numbers, NetTyped, NEW g \in Gens, StartDownload(g),
           UNCHANGED <<ipc, made>>
    PROVE  Channels' /\ g \in 1..made
<1>0. g \in Nat /\ g # 0
    BY BoundAssumption, SMT DEF Gens
<1>1. CASE Take("start") /\ g = Head(cmds).gen
    <2>1. Channels' /\ Head(cmds).gen \in 0..made
        BY <1>1, TakeFacts
    <2> QED BY <1>0, <1>1, <2>1, SMT DEF Numbers
<1>2. CASE net = At("start", g) /\ UNCHANGED cmds
    <2>1. Channels'
        BY <1>2, ChannelsKept, SMT DEF Numbers
    <2>2. net.gen = g /\ net.gen \in 0..made
        BY <1>2 DEF At, NetTyped
    <2> QED BY <1>0, <2>1, <2>2, SMT DEF Numbers
<1> QED BY <1>1, <1>2 DEF StartDownload

-----------------------------------------------------------------------------
(* What the steps do to the controls. *)
LEMMA ControlsKept ==
    ASSUME Numbers, Replaced, UNCHANGED controlVars,
           pending' \in 0..made, running' \subseteq 1..made
    PROVE  Numbers' /\ Replaced'
BY DEF Numbers, Replaced, controlVars

(* Cancelling the registered control, which may leave the registry. *)
LEMMA CancelKeeps ==
    ASSUME Numbers, Replaced, CancelRegistered, UNCHANGED <<made, running>>,
           registered' \in {registered, 0}, pending' \in {pending, 0}
    PROVE  /\ Numbers' /\ Replaced'
           /\ ~Live(registered)'
<1>1. Numbers'
    BY SMT DEF Numbers, CancelRegistered
<1>2. Replaced'
    BY DEF Numbers, Replaced, CancelRegistered
<1>3. ~Live(registered)'
    BY DEF Live, CancelRegistered
<1> QED BY <1>1, <1>2, <1>3

(* A control made before is registered: it is live only if it is already.  *)
LEMMA InstallKeeps ==
    ASSUME Numbers, Replaced, NEW g \in 1..made, install_control(g),
           UNCHANGED <<made, running>>, pending' \in 0..made
    PROVE  Numbers' /\ Replaced'
<1>1. CASE UNCHANGED <<registered, cancelled>>
    BY <1>1, ControlsKept DEF controlVars, Numbers
<1>2. CASE /\ registered' = g
           /\ cancelled' = cancelled \cup ({registered} \ {0, g})
    BY <1>2, SMT DEF Numbers, Replaced
<1>3. CASE /\ registered' = g /\ cancelled' = cancelled
           /\ ~(g \in cancelled /\ Live(registered) /\ registered # g)
    BY <1>3, SMT DEF Numbers, Replaced, Live
<1> QED BY <1>1, <1>2, <1>3 DEF install_control

LEMMA MakeKeeps ==
    ASSUME Numbers, Replaced, MakeControl, Listed \/ ~Live(registered),
           UNCHANGED running, pending' \in 0..made'
    PROVE  Numbers' /\ Replaced' /\ made' = made + 1
<1>1. made \in Nat /\ made' = made + 1 /\ made + 1 \notin cancelled
    BY SMT DEF MakeControl, Numbers
<1>2. /\ registered' = made + 1
      /\ cancelled' = IF Listed THEN cancelled \cup ({registered} \ {0, made + 1})
                      ELSE cancelled
    BY <1>1 DEF MakeControl, install_control
<1>3. cancelled' \subseteq 1..made'
    BY <1>1, <1>2, SMT DEF Numbers
<1>4. Numbers'
    BY <1>1, <1>2, <1>3, SMT DEF Numbers
<1>5. \A k \in 1..made : k \in cancelled'
    BY <1>1, <1>2, SMT DEF Numbers, Replaced, Live
<1>6. Replaced'
    BY <1>1, <1>2, <1>5, SMT DEF Replaced, Numbers
<1> QED BY <1>1, <1>4, <1>6

-----------------------------------------------------------------------------
LEMMA NetKept ==
    ASSUME Numbers, NetTyped, UNCHANGED net, made' \in Nat, made' >= made
    PROVE  NetTyped'
<1>1. 0..made \subseteq 0..made'
    BY SMT DEF Numbers
<1> QED BY <1>1 DEF NetTyped

LEMMA NetMoves ==
    ASSUME Numbers, NEW pc \in NetPCs, NEW g \in 0..made', made' \in Nat,
           GoTo(pc, g), pc \in Working => g # 0
    PROVE  NetTyped'
BY SMT DEF NetTyped, GoTo, At

(* A step of a handler. *)
LEMMA HandlerStep ==
    ASSUME ControlInv, NEW h \in Handlers,
           \/ pause_transfer(h) \/ stop_transfer(h)
           \/ cancel_transfer(h) \/ SendCancel(h)
           \/ \E slot \in BOOLEAN : resume_transfer(h, slot)
           \/ Promoted(h) \/ start_promoted_downloads(h)
           \/ start_queued_discovery(h) \/ Send(h)
    PROVE  ControlInv'
<1> USE DEF taskVars, workerVars, rowVars
<1>0. Numbers /\ NetTyped /\ Channels /\ Replaced /\ NoSecond
    BY DEF ControlInv
<1>a. made \in Nat /\ pending \in 0..made /\ running \subseteq 1..made
      /\ registered \in 0..made
    BY <1>0 DEF Numbers
<1>b. {"idle", "pause", "stop", "start", "discover", "cancel", "promoted",
       "rediscover"} \subseteq IpcPCs
    BY DEF IpcPCs, Commands
<1>1. CASE pause_transfer(h)
    <2>1. /\ CancelRegistered /\ Become(h, "pause", 0)
          /\ UNCHANGED <<place, registered, made, cmds, net, pending, running>>
        BY <1>1 DEF pause_transfer
    <2>a. registered' \in {registered, 0} /\ pending' \in {pending, 0}
        BY <2>1
    <2>2. Numbers' /\ Replaced' /\ ~Live(registered)'
        BY <1>0, <2>1, <2>a, CancelKeeps
    <2>3. Channels'
        BY <1>0, <1>a, <1>b, <2>1, BecomeKeeps, SMT
    <2>4. NetTyped'
        BY <1>0, <1>a, <2>1, NetKept, SMT
    <2> QED BY <2>2, <2>3, <2>4 DEF ControlInv, NoSecond
<1>2. CASE stop_transfer(h) \/ cancel_transfer(h)
    <2>1. /\ CancelRegistered
          /\ Become(h, "stop", 0) \/ Become(h, "cancel", 0)
          /\ registered' = 0 /\ UNCHANGED <<made, cmds, net, pending, running>>
        BY <1>2 DEF stop_transfer, cancel_transfer
    <2>a. registered' \in {registered, 0} /\ pending' \in {pending, 0}
        BY <2>1
    <2>2. Numbers' /\ Replaced' /\ ~Live(registered)'
        BY <1>0, <2>1, <2>a, CancelKeeps
    <2>3. Channels'
        BY <1>0, <1>a, <1>b, <2>1, BecomeKeeps, SMT
    <2>4. NetTyped'
        BY <1>0, <1>a, <2>1, NetKept, SMT
    <2> QED BY <2>2, <2>3, <2>4 DEF ControlInv, NoSecond
<1>3. CASE SendCancel(h) \/ Send(h)
    <2>1. /\ Become(h, "idle", 0)
          /\ UNCHANGED <<place, controlVars, net, pending, running>>
        BY <1>3 DEF Send, SendCancel
    <2>2. PICK c \in [kind : Commands, gen : Nat] :
              c.gen <= made /\ (cmds' = Append(cmds, c) \/ cmds' = cmds)
        <3>1. CASE SendCancel(h)
            <4>1. Cmd("stop", 0) \in [kind : Commands, gen : Nat] /\ Cmd("stop", 0).gen <= made
                BY <1>a, SMT DEF Cmd, Commands
            <4>2. cmds' = Append(cmds, Cmd("stop", 0)) \/ cmds' = cmds
                BY <3>1 DEF SendCancel
            <4> QED BY <4>1, <4>2
        <3>2. CASE Send(h)
            <4>1. ipc[h].pc \in Commands /\ cmds' = Append(cmds, Cmd(ipc[h].pc, ipc[h].gen))
                BY <3>2 DEF Send
            <4>2. ipc[h].gen \in 0..made
                BY <1>0 DEF Channels
            <4>3. /\ Cmd(ipc[h].pc, ipc[h].gen) \in [kind : Commands, gen : Nat]
                  /\ Cmd(ipc[h].pc, ipc[h].gen).gen <= made
                BY <1>a, <4>1, <4>2, SMT DEF Cmd
            <4> QED BY <4>1, <4>3
        <3> QED BY <1>3, <3>1, <3>2
    <2>3. Channels'
        BY <1>0, <2>1, <2>2, AppendKeeps DEF controlVars
    <2>4. Numbers' /\ Replaced'
        BY <1>0, <1>a, <2>1, ControlsKept
    <2>5. NetTyped'
        BY <1>0, <1>a, <2>1, NetKept, SMT DEF controlVars
    <2>6. NoSecond'
        BY <1>0, <2>1 DEF NoSecond, Listed, Live, controlVars
    <2> QED BY <2>3, <2>4, <2>5, <2>6 DEF ControlInv
<1>4. ASSUME NEW slot \in BOOLEAN, resume_transfer(h, slot)
      PROVE  ControlInv'
    <2>1. /\ Listed
          /\ UNCHANGED <<cmds, net, pending, running>>
          /\ UNCHANGED ipc \/ Become(h, "promoted", 0) \/ Become(h, "rediscover", 0)
        BY <1>4 DEF resume_transfer
    <2>2. Listed'
        <3>1. place' = place \/ place' = "active" \/ place' = "queue"
            BY <1>4 DEF resume_transfer
        <3> QED BY <2>1, <3>1 DEF Listed
    <2>3. Numbers' /\ Replaced' /\ made' \in Nat /\ made' >= made
        <3>1. CASE /\ registered = 0 /\ made' = made + 1 /\ registered' = made + 1
                   /\ UNCHANGED cancelled
            <4>1. Numbers'
                BY <1>0, <2>1, <3>1, SMT DEF Numbers
            <4>2. Replaced'
                BY <1>0, <3>1, SMT DEF Numbers, Replaced
            <4> QED BY <1>a, <3>1, <4>1, <4>2, SMT
        <3>2. CASE Uncancel /\ UNCHANGED <<made, registered>>
            <4>1. Numbers'
                BY <1>0, <2>1, <3>2 DEF Numbers, Uncancel
            <4>2. Replaced'
                BY <1>0, <3>2 DEF Replaced, Uncancel
            <4> QED BY <1>a, <3>2, <4>1, <4>2, SMT
        <3> QED BY <1>4, <3>1, <3>2 DEF resume_transfer
    <2>4. Channels'
        <3>1. CASE UNCHANGED ipc
            BY <1>0, <2>1, <2>3, <3>1, ChannelsKept
        <3>2. CASE Become(h, "promoted", 0) \/ Become(h, "rediscover", 0)
            BY <1>0, <1>b, <2>1, <2>3, <3>2, BecomeKeeps, SMT
        <3> QED BY <2>1, <3>1, <3>2
    <2>5. NetTyped'
        BY <1>0, <2>1, <2>3, NetKept
    <2> QED BY <2>2, <2>3, <2>4, <2>5 DEF ControlInv, NoSecond
<1>5. CASE Promoted(h)
    <2>1. /\ Become(h, "promoted", 0) /\ place' = "active"
          /\ UNCHANGED <<controlVars, cmds, net, pending, running>>
        BY <1>5 DEF Promoted
    <2>2. Numbers' /\ Replaced'
        BY <1>0, <1>a, <2>1, ControlsKept
    <2>3. Channels'
        BY <1>0, <1>a, <1>b, <2>1, BecomeKeeps, SMT DEF controlVars
    <2>4. NetTyped'
        BY <1>0, <1>a, <2>1, NetKept, SMT DEF controlVars
    <2>5. NoSecond'
        BY <2>1 DEF NoSecond, Listed
    <2> QED BY <2>2, <2>3, <2>4, <2>5 DEF ControlInv
<1>6. CASE start_promoted_downloads(h) \/ start_queued_discovery(h)
    <2>1. UNCHANGED <<place, cmds, net, pending, running>>
        BY <1>6 DEF start_promoted_downloads, start_queued_discovery
    <2>2. CASE /\ Listed /\ MakeControl
               /\ Become(h, "start", made + 1) \/ Become(h, "discover", made + 1)
        <3>0. made' = made + 1
            BY <2>2 DEF MakeControl
        <3>1. made + 1 \in Nat /\ made' \in Nat /\ made' >= made /\ made + 1 <= made'
              /\ pending' \in 0..made'
            BY <1>a, <2>1, <3>0, SMT
        <3>2. Numbers' /\ Replaced'
            BY <1>0, <2>1, <2>2, <3>1, MakeKeeps
        <3>3. Channels'
            BY <1>0, <1>b, <2>1, <2>2, <3>1, BecomeKeeps
        <3>4. NetTyped'
            BY <1>0, <2>1, <3>1, NetKept
        <3>5. NoSecond'
            BY <2>1, <2>2 DEF NoSecond, Listed
        <3> QED BY <3>2, <3>3, <3>4, <3>5 DEF ControlInv
    <2>3. CASE /\ UNCHANGED controlVars
               /\ Become(h, "idle", 0) \/ Become(h, "discover", registered)
        <3>1. Numbers' /\ Replaced'
            BY <1>0, <1>a, <2>1, <2>3, ControlsKept
        <3>2. Channels'
            BY <1>0, <1>a, <1>b, <2>1, <2>3, BecomeKeeps, SMT DEF controlVars
        <3>3. NetTyped'
            BY <1>0, <1>a, <2>1, <2>3, NetKept, SMT DEF controlVars
        <3>4. NoSecond'
            BY <1>0, <2>1, <2>3 DEF NoSecond, Listed, Live, controlVars
        <3> QED BY <3>1, <3>2, <3>3, <3>4 DEF ControlInv
    <2> QED BY <1>6, <2>2, <2>3
            DEF start_promoted_downloads, start_queued_discovery, Startable, Listed
<1> QED BY <1>1, <1>2, <1>3, <1>4, <1>5, <1>6

-----------------------------------------------------------------------------
(* Nothing is promoted or queued again in a state where net is elsewhere. *)
LEMMA ElsewhereIsSafe ==
    ASSUME NEW pc \in NetPCs \ {"reregister", "requeue"}, NEW g, GoTo(pc, g)
    PROVE  NoSecond'
BY DEF NoSecond, GoTo, At

LEMMA IdleIsSafe ==
    ASSUME net = Idle, UNCHANGED net
    PROVE  NoSecond'
BY DEF NoSecond, Idle, At

(* A command taken by the network task. *)
LEMMA CommandStep ==
    ASSUME ControlInv,
           \/ PauseDownload \/ RepairActive \/ CancelDownload \/ StartDiscovery
           \/ \E g \in Gens : StartSearch(g) \/ StartRefused(g) \/ StartWorker(g)
    PROVE  ControlInv'
<1> USE DEF taskVars, workerVars, rowVars
<1>0. Numbers /\ NetTyped /\ Channels /\ Replaced /\ NoSecond
    BY DEF ControlInv
<1>a. made \in Nat /\ pending \in 0..made /\ running \subseteq 1..made
      /\ 0 \in 0..made
    BY <1>0, SMT DEF Numbers
<1>b. {"idle", "repair", "searching", "spawn", "register"}
          \subseteq NetPCs \ {"reregister", "requeue"}
    BY DEF NetPCs
<1>c. {"idle", "repair"} \cap Working = {}
    BY DEF Working
<1>1. CASE PauseDownload
    <2>1. /\ Take("pause") /\ CancelRegistered /\ GoTo("repair", 0)
          /\ UNCHANGED <<registered, made, ipc, pending, running>>
        BY <1>1 DEF PauseDownload
    <2>2. registered' \in {registered, 0} /\ pending' \in {pending, 0}
        BY <2>1
    <2>3. Numbers' /\ Replaced'
        BY <1>0, <2>1, <2>2, CancelKeeps
    <2>4. Channels'
        BY <1>0, <2>1, TakeFacts
    <2>5. NetTyped' /\ NoSecond'
        BY <1>0, <1>a, <1>b, <1>c, <2>1, NetMoves, ElsewhereIsSafe
    <2> QED BY <2>3, <2>4, <2>5 DEF ControlInv
<1>2. CASE RepairActive
    <2>1. GoTo("idle", 0) /\ UNCHANGED <<controlVars, ipc, cmds, pending, running>>
        BY <1>2 DEF RepairActive
    <2>2. Numbers' /\ Replaced'
        BY <1>0, <1>a, <2>1, ControlsKept
    <2>3. Channels'
        BY <1>0, <1>a, <2>1, ChannelsKept, SMT DEF controlVars
    <2>4. NetTyped' /\ NoSecond'
        BY <1>0, <1>a, <1>b, <1>c, <2>1, NetMoves, ElsewhereIsSafe DEF controlVars
    <2> QED BY <2>2, <2>3, <2>4 DEF ControlInv
<1>3. CASE CancelDownload
    <2>1. /\ Take("stop") /\ CancelRegistered /\ pending' = 0
          /\ UNCHANGED <<registered, made, ipc, net, running>>
        BY <1>3 DEF CancelDownload
    <2>2. registered' \in {registered, 0} /\ pending' \in {pending, 0}
        BY <2>1
    <2>3. Numbers' /\ Replaced'
        BY <1>0, <2>1, <2>2, CancelKeeps
    <2>4. Channels' /\ net = Idle
        BY <1>0, <2>1, TakeFacts
    <2>5. NetTyped' /\ NoSecond'
        BY <1>0, <1>a, <2>1, <2>4, NetKept, IdleIsSafe, SMT
    <2> QED BY <2>3, <2>4, <2>5 DEF ControlInv
<1>4. CASE StartDiscovery
    <2>1. /\ Take("discover") /\ pending' = Head(cmds).gen
          /\ UNCHANGED <<controlVars, ipc, net, running>>
        BY <1>4 DEF StartDiscovery
    <2>2. Channels' /\ net = Idle /\ pending' \in 0..made
        BY <1>0, <2>1, TakeFacts DEF controlVars
    <2>3. Numbers' /\ Replaced'
        BY <1>0, <1>a, <2>1, <2>2, ControlsKept
    <2>4. NetTyped' /\ NoSecond'
        BY <1>0, <1>a, <2>1, <2>2, NetKept, IdleIsSafe, SMT DEF controlVars
    <2> QED BY <2>2, <2>3, <2>4 DEF ControlInv
<1>5. ASSUME NEW g \in Gens, StartSearch(g) \/ StartRefused(g)
      PROVE  ControlInv'
    <2>1. /\ StartDownload(g)
          /\ UNCHANGED <<controlVars, ipc, running>>
          /\ \/ pending' = g /\ GoTo("idle", 0)
             \/ pending' = 0 /\ GoTo("searching", g)
        BY <1>5 DEF StartSearch, StartRefused
    <2>2. Channels' /\ g \in 1..made
        BY <1>0, <2>1, StartFacts DEF controlVars
    <2>3. pending' \in 0..made /\ g \in 0..made /\ g # 0
        BY <1>a, <2>1, <2>2, SMT
    <2>4. Numbers' /\ Replaced'
        BY <1>0, <1>a, <2>1, <2>3, ControlsKept
    <2>5. NetTyped' /\ NoSecond'
        BY <1>0, <1>a, <1>b, <1>c, <2>1, <2>3, NetMoves, ElsewhereIsSafe
           DEF controlVars
    <2> QED BY <2>2, <2>4, <2>5 DEF ControlInv
<1>6. ASSUME NEW g \in Gens, StartWorker(g)
      PROVE  ControlInv'
    <2>1. /\ StartDownload(g) /\ pending' = 0
          /\ \/ cancelled' = cancelled
             \/ cancelled' = cancelled \cup ({registered} \ {0, g})
          /\ GoTo("spawn", g) \/ GoTo("register", g)
          /\ UNCHANGED <<registered, made, ipc, running>>
        BY <1>6 DEF StartWorker
    <2>2. Channels' /\ g \in 1..made
        BY <1>0, <2>1, StartFacts
    <2>a. {registered} \ {0, g} \subseteq 1..made
        BY <1>0, SMT DEF Numbers
    <2>3. Numbers'
        BY <1>0, <1>a, <2>1, <2>a DEF Numbers
    <2>4. Replaced'
        BY <1>0, <2>1 DEF Numbers, Replaced
    <2>5. g \in 0..made' /\ g # 0
        BY <1>a, <2>1, <2>2, SMT
    <2>6. NetTyped' /\ NoSecond'
        BY <1>0, <1>a, <1>b, <2>1, <2>5, NetMoves, ElsewhereIsSafe
    <2> QED BY <2>2, <2>3, <2>4, <2>6 DEF ControlInv
<1> QED BY <1>1, <1>2, <1>3, <1>4, <1>5, <1>6

(* A step the network task takes between commands. *)
LEMMA StartStep ==
    ASSUME ControlInv,
           \/ SetSearching \/ RegisterWorker \/ Spawn
           \/ StartPending \/ StartRechecked \/ RetryPending \/ RetryStart
    PROVE  ControlInv'
<1> USE DEF taskVars, workerVars, rowVars
<1>0. Numbers /\ NetTyped /\ Channels /\ Replaced /\ NoSecond
    BY DEF ControlInv
<1>a. made \in Nat /\ pending \in 0..made /\ running \subseteq 1..made
      /\ 0 \in 0..made /\ registered \in 0..made
    BY <1>0, SMT DEF Numbers
<1>b. {"idle", "spawn", "recheck", "retry"} \subseteq NetPCs \ {"reregister", "requeue"}
    BY DEF NetPCs
<1>c. "idle" \notin Working
    BY DEF Working
<1>d. net.pc \in Working => net.gen \in 1..made /\ net.gen \in 0..made /\ net.gen # 0
    BY <1>0, <1>a, SMT DEF NetTyped
<1>e. {"searching", "register", "spawn", "recheck", "retry"} \subseteq Working
    BY DEF Working
<1>1. CASE SetSearching
    <2>1. /\ net.pc = "searching" /\ install_control(net.gen)
          /\ pending' = net.gen /\ GoTo("idle", 0)
          /\ UNCHANGED <<made, ipc, cmds, running>>
        BY <1>1 DEF SetSearching
    <2>2. net.gen \in 1..made /\ pending' \in 0..made
        BY <1>d, <1>e, <2>1
    <2>3. Numbers' /\ Replaced'
        BY <1>0, <2>1, <2>2, InstallKeeps
    <2>4. Channels'
        BY <1>0, <1>a, <2>1, ChannelsKept, SMT
    <2>5. NetTyped' /\ NoSecond'
        BY <1>0, <1>a, <1>b, <1>c, <2>1, NetMoves, ElsewhereIsSafe
    <2> QED BY <2>3, <2>4, <2>5 DEF ControlInv
<1>2. CASE RegisterWorker
    <2>1. /\ net.pc = "register" /\ GoTo("spawn", net.gen)
          /\ registered' = net.gen \/ (registered = 0 /\ registered' = 0)
          /\ cancelled' = cancelled \cup ({registered} \ {0, net.gen})
          /\ UNCHANGED <<made, ipc, cmds, pending, running>>
        BY <1>2 DEF RegisterWorker
    <2>2. net.gen \in 1..made /\ net.gen \in 0..made /\ net.gen # 0
        BY <1>d, <1>e, <2>1
    <2>3. {registered} \ {0, net.gen} \subseteq 1..made
        BY <1>a, SMT
    <2>4. registered' \in 0..made
        BY <1>a, <2>1, <2>2
    <2>5. Numbers'
        BY <1>0, <1>a, <2>1, <2>3, <2>4 DEF Numbers
    <2>6. Replaced'
        BY <1>0, <2>1, SMT DEF Replaced
    <2>7. Channels'
        BY <1>0, <1>a, <2>1, ChannelsKept, SMT
    <2>8. NetTyped' /\ NoSecond'
        BY <1>0, <1>a, <1>b, <2>1, <2>2, NetMoves, ElsewhereIsSafe
    <2> QED BY <2>5, <2>6, <2>7, <2>8 DEF ControlInv
<1>3. CASE Spawn
    <2>1. /\ net.pc = "spawn" /\ GoTo("idle", 0)
          /\ running' = running \cup {net.gen}
          /\ UNCHANGED <<controlVars, ipc, cmds, pending>>
        BY <1>3 DEF Spawn
    <2>2. running' \subseteq 1..made
        BY <1>a, <1>d, <1>e, <2>1
    <2>3. Numbers' /\ Replaced'
        BY <1>0, <1>a, <2>1, <2>2, ControlsKept
    <2>4. Channels'
        BY <1>0, <1>a, <2>1, ChannelsKept, SMT DEF controlVars
    <2>5. NetTyped' /\ NoSecond'
        BY <1>0, <1>a, <1>b, <1>c, <2>1, NetMoves, ElsewhereIsSafe DEF controlVars
    <2> QED BY <2>3, <2>4, <2>5 DEF ControlInv
<1>4. CASE StartPending \/ RetryPending
    <2>1. /\ Live(pending) /\ pending' = 0
          /\ GoTo("recheck", pending) \/ GoTo("retry", pending)
          /\ UNCHANGED <<controlVars, ipc, cmds, running>>
        BY <1>4 DEF StartPending, RetryPending
    <2>2. pending # 0 /\ pending' \in 0..made
        BY <1>a, <2>1 DEF Live
    <2>3. Numbers' /\ Replaced'
        BY <1>0, <1>a, <2>1, <2>2, ControlsKept
    <2>4. Channels'
        BY <1>0, <1>a, <2>1, ChannelsKept, SMT DEF controlVars
    <2>5. NetTyped' /\ NoSecond'
        BY <1>0, <1>a, <1>b, <2>1, <2>2, NetMoves, ElsewhereIsSafe DEF controlVars
    <2> QED BY <2>3, <2>4, <2>5 DEF ControlInv
<1>5. CASE StartRechecked \/ RetryStart
    <2>1. /\ net.pc \in {"recheck", "retry"}
          /\ UNCHANGED <<controlVars, ipc, cmds, running>>
          /\ \/ GoTo("spawn", net.gen) /\ UNCHANGED pending
             \/ GoTo("idle", 0) /\ pending' = net.gen
        BY <1>5 DEF StartRechecked, RetryStart
    <2>2. net.gen \in 0..made /\ net.gen # 0
        BY <1>d, <1>e, <2>1
    <2>3. Numbers' /\ Replaced'
        BY <1>0, <1>a, <2>1, <2>2, ControlsKept
    <2>4. Channels'
        BY <1>0, <1>a, <2>1, ChannelsKept, SMT DEF controlVars
    <2>5. NetTyped' /\ NoSecond'
        BY <1>0, <1>a, <1>b, <1>c, <2>1, <2>2, NetMoves, ElsewhereIsSafe DEF controlVars
    <2> QED BY <2>3, <2>4, <2>5 DEF ControlInv
<1> QED BY <1>1, <1>2, <1>3, <1>4, <1>5

(* A step that takes an event, promotes the row or queues it again. *)
LEMMA EventStep ==
    ASSUME ControlInv,
           \/ RetryDrop \/ RetryFail \/ NetPromoted \/ reregister_transfer_control
           \/ \E kind \in EventKinds \ {"cancel"} : Report(kind)
           \/ \E g \in Gens : Unwind(g)
           \/ SourcesUpdate \/ Completed \/ Failed \/ Requeue
    PROVE  ControlInv'
<1> USE DEF taskVars, workerVars, rowVars
<1>0. Numbers /\ NetTyped /\ Channels /\ Replaced /\ NoSecond
    BY DEF ControlInv
<1>a. made \in Nat /\ pending \in 0..made /\ running \subseteq 1..made
      /\ 0 \in 0..made /\ registered \in 0..made
    BY <1>0, SMT DEF Numbers
<1>b. {"idle", "fail", "start"} \subseteq NetPCs \ {"reregister", "requeue"}
      /\ {"reregister", "requeue"} \subseteq NetPCs
    BY DEF NetPCs
<1>c. {"idle", "fail", "reregister", "requeue"} \cap Working = {}
    BY DEF Working
<1>1. CASE RetryDrop
    <2>1. /\ pending' = 0
          /\ GoTo("idle", 0) \/ GoTo("fail", 0)
          /\ UNCHANGED <<controlVars, ipc, cmds, running>>
        BY <1>1 DEF RetryDrop
    <2>2. Numbers' /\ Replaced'
        BY <1>0, <1>a, <2>1, ControlsKept
    <2>3. Channels'
        BY <1>0, <1>a, <2>1, ChannelsKept, SMT DEF controlVars
    <2>4. NetTyped' /\ NoSecond'
        BY <1>0, <1>a, <1>b, <1>c, <2>1, NetMoves, ElsewhereIsSafe DEF controlVars
    <2> QED BY <2>2, <2>3, <2>4 DEF ControlInv
<1>2. CASE RetryFail
    <2>1. /\ GoTo("idle", 0) /\ UNCHANGED <<made, ipc, cmds, pending, running>>
          /\ \/ CancelRegistered /\ registered' = 0
             \/ UNCHANGED <<registered, cancelled>>
        BY <1>2 DEF RetryFail
    <2>2. Numbers' /\ Replaced'
        <3>1. CASE CancelRegistered /\ registered' = 0
            BY <1>0, <2>1, <3>1, CancelKeeps
        <3>2. CASE UNCHANGED <<registered, cancelled>>
            BY <1>0, <1>a, <2>1, <3>2, ControlsKept DEF controlVars
        <3> QED BY <2>1, <3>1, <3>2
    <2>3. Channels'
        BY <1>0, <1>a, <2>1, ChannelsKept, SMT
    <2>4. NetTyped' /\ NoSecond'
        BY <1>0, <1>a, <1>b, <1>c, <2>1, NetMoves, ElsewhereIsSafe
    <2> QED BY <2>2, <2>3, <2>4 DEF ControlInv
<1>3. CASE NetPromoted
    <2>1. /\ GoTo("reregister", 0) /\ place' = "active"
          /\ UNCHANGED <<controlVars, ipc, cmds, pending, running>>
        BY <1>3 DEF NetPromoted
    <2>2. Numbers' /\ Replaced'
        BY <1>0, <1>a, <2>1, ControlsKept
    <2>3. Channels'
        BY <1>0, <1>a, <2>1, ChannelsKept, SMT DEF controlVars
    <2>4. NetTyped'
        BY <1>0, <1>a, <1>b, <1>c, <2>1, NetMoves DEF controlVars
    <2>5. NoSecond'
        BY <2>1 DEF NoSecond, Listed
    <2> QED BY <2>2, <2>3, <2>4, <2>5 DEF ControlInv
<1>4. CASE reregister_transfer_control
    <2>1. /\ net.pc = "reregister" /\ MakeControl /\ GoTo("start", made + 1)
          /\ UNCHANGED <<ipc, cmds, pending, running>>
        BY <1>4 DEF reregister_transfer_control
    <2>2. Listed \/ ~Live(registered)
        BY <1>0, <2>1 DEF NoSecond
    <2>3. made' = made + 1
        BY <2>1 DEF MakeControl
    <2>4. made' \in Nat /\ made' >= made /\ pending' \in 0..made'
          /\ made + 1 \in 0..made' /\ made + 1 # 0
        BY <1>a, <2>1, <2>3, SMT
    <2>5. Numbers' /\ Replaced'
        BY <1>0, <2>1, <2>2, <2>4, MakeKeeps
    <2>6. Channels'
        BY <1>0, <2>1, <2>4, ChannelsKept
    <2>7. NetTyped' /\ NoSecond'
        BY <1>0, <1>b, <2>1, <2>4, NetMoves, ElsewhereIsSafe
    <2> QED BY <2>5, <2>6, <2>7 DEF ControlInv
<1>5. ASSUME \/ \E kind \in EventKinds \ {"cancel"} : Report(kind)
             \/ \E g \in Gens : Unwind(g)
      PROVE  ControlInv'
    <2>1. /\ UNCHANGED <<place, controlVars, ipc, cmds, net, pending>>
          /\ running' \subseteq running
        BY <1>5 DEF Report, Unwind
    <2>2. Numbers' /\ Replaced'
        BY <1>0, <1>a, <2>1, ControlsKept
    <2>3. Channels'
        BY <1>0, <1>a, <2>1, ChannelsKept, SMT DEF controlVars
    <2>4. NetTyped'
        BY <1>0, <1>a, <2>1, NetKept, SMT DEF controlVars
    <2>5. NoSecond'
        BY <1>0, <2>1 DEF NoSecond, Listed, Live, controlVars
    <2> QED BY <2>2, <2>3, <2>4, <2>5 DEF ControlInv
<1>6. CASE SourcesUpdate
    <2>1. /\ net = Idle
          /\ UNCHANGED <<controlVars, ipc, cmds, net, pending, running>>
        BY <1>6 DEF SourcesUpdate, TakeEvent
    <2>2. Numbers' /\ Replaced'
        BY <1>0, <1>a, <2>1, ControlsKept
    <2>3. Channels'
        BY <1>0, <1>a, <2>1, ChannelsKept, SMT DEF controlVars
    <2>4. NetTyped' /\ NoSecond'
        BY <1>0, <1>a, <2>1, NetKept, IdleIsSafe, SMT DEF controlVars
    <2> QED BY <2>2, <2>3, <2>4 DEF ControlInv
<1>7. CASE Completed
    <2>1. /\ net = Idle /\ UNCHANGED <<made, ipc, cmds, net, pending, running>>
          /\ \/ CancelRegistered /\ registered' = 0
             \/ UNCHANGED <<registered, cancelled>>
        BY <1>7 DEF Completed, TakeEvent
    <2>2. Numbers' /\ Replaced'
        <3>1. CASE CancelRegistered /\ registered' = 0
            BY <1>0, <2>1, <3>1, CancelKeeps
        <3>2. CASE UNCHANGED <<registered, cancelled>>
            BY <1>0, <1>a, <2>1, <3>2, ControlsKept DEF controlVars
        <3> QED BY <2>1, <3>1, <3>2
    <2>3. Channels'
        BY <1>0, <1>a, <2>1, ChannelsKept, SMT
    <2>4. NetTyped' /\ NoSecond'
        BY <1>0, <1>a, <2>1, NetKept, IdleIsSafe, SMT
    <2> QED BY <2>2, <2>3, <2>4 DEF ControlInv
<1>8. CASE Failed
    <2>1. /\ net = Idle
          /\ UNCHANGED <<place, controlVars, ipc, cmds, pending, running>>
          /\ \/ UNCHANGED net
             \/ GoTo("idle", 0)
             \/ Listed /\ GoTo("requeue", 0)
        BY <1>8 DEF Failed, TakeEvent
    <2>2. Numbers' /\ Replaced'
        BY <1>0, <1>a, <2>1, ControlsKept
    <2>3. Channels'
        BY <1>0, <1>a, <2>1, ChannelsKept, SMT DEF controlVars
    <2>4. NetTyped'
        BY <1>0, <1>a, <1>b, <1>c, <2>1, NetKept, NetMoves, SMT DEF controlVars
    <2>5. NoSecond'
        <3>1. CASE UNCHANGED net
            BY <2>1, <3>1, IdleIsSafe
        <3>2. CASE GoTo("idle", 0)
            BY <1>b, <3>2, ElsewhereIsSafe
        <3>3. CASE Listed
            BY <2>1, <3>3 DEF NoSecond, Listed
        <3> QED BY <2>1, <3>1, <3>2, <3>3
    <2> QED BY <2>2, <2>3, <2>4, <2>5 DEF ControlInv
<1>9. CASE Requeue
    <2>1. /\ net.pc = "requeue" /\ GoTo("idle", 0)
          /\ UNCHANGED <<ipc, cmds, running>>
          /\ \/ UNCHANGED <<controlVars, pending>>
             \/ MakeControl /\ pending' = made + 1
        BY <1>9 DEF Requeue
    <2>2. Numbers' /\ Replaced' /\ made' \in Nat /\ made' >= made
        <3>1. CASE UNCHANGED <<controlVars, pending>>
            BY <1>0, <1>a, <2>1, <3>1, ControlsKept, SMT DEF controlVars
        <3>2. CASE MakeControl /\ pending' = made + 1
            <4>1. Listed \/ ~Live(registered)
                BY <1>0, <2>1 DEF NoSecond
            <4>2. made' = made + 1
                BY <3>2 DEF MakeControl
            <4>3. made' \in Nat /\ made' >= made /\ pending' \in 0..made'
                BY <1>a, <3>2, <4>2, SMT
            <4> QED BY <1>0, <2>1, <3>2, <4>1, <4>3, MakeKeeps
        <3> QED BY <2>1, <3>1, <3>2
    <2>3. Channels'
        BY <1>0, <2>1, <2>2, ChannelsKept
    <2>4. 0 \in 0..made'
        BY <2>2, SMT
    <2>5. NetTyped' /\ NoSecond'
        BY <1>0, <1>b, <1>c, <2>1, <2>2, <2>4, NetMoves, ElsewhereIsSafe
    <2> QED BY <2>2, <2>3, <2>5 DEF ControlInv
<1> QED BY <1>1, <1>2, <1>3, <1>4, <1>5, <1>6, <1>7, <1>8, <1>9

-----------------------------------------------------------------------------
LEMMA ControlStep == ControlInv /\ [Next]_vars => ControlInv'
<1> SUFFICES ASSUME ControlInv, [Next]_vars PROVE ControlInv'
    OBVIOUS
<1>1. CASE UNCHANGED vars
    BY <1>1 DEF ControlInv, Numbers, NetTyped, Channels, Replaced, NoSecond,
                Live, Listed, vars
<1>2. CASE Next
    BY <1>2, HandlerStep, CommandStep, StartStep, EventStep DEF Next
<1> QED BY <1>1, <1>2

(* The controls are numbered in the order made, and every one but the      *)
(* registered one is cancelled, in every state of every behaviour.         *)
THEOREM ReplacedIsCancelled == Spec => []ControlInv
<1>1. Init => ControlInv
    BY ControlInit
<1>2. ControlInv /\ [Next]_vars => ControlInv'
    BY ControlStep
<1> QED BY <1>1, <1>2, PTL DEF Spec

(* A task that still transfers is always within reach of Pause, Stop and   *)
(* Cancel, however many handlers, restarts and late commands there are.    *)
THEOREM WorkersAreReachable == Spec => []OnlyRegisteredRuns
<1>1. ControlInv => OnlyRegisteredRuns
    BY DEF ControlInv, Numbers, Replaced, OnlyRegisteredRuns
<1> QED BY <1>1, ReplacedIsCancelled, PTL

-----------------------------------------------------------------------------
(* What handlers are about to do, and what is on its way to the network    *)
(* task.                                                                   *)
Asked(pcs) == \E h \in Handlers : ipc[h].pc \in pcs
Sent(kinds) == \E i \in 1..Len(cmds) : cmds[i].kind \in kinds

(* A handler that moves on leaves what the others were asked for. *)
LEMMA AskedBecome ==
    ASSUME Channels, NEW h \in Handlers, NEW pc, NEW g, Become(h, pc, g), NEW pcs
    PROVE  /\ pc \in pcs => Asked(pcs)'
           /\ Asked(pcs) /\ ipc[h].pc \notin pcs => Asked(pcs)'
<1>1. /\ ipc'[h].pc = pc
      /\ \A k \in Handlers \ {h} : ipc'[k] = ipc[k]
    BY DEF Channels, Become, At
<1> QED BY <1>1 DEF Asked

(* What handlers are about to do is read off where they are, ... *)
LEMMA AskedKept ==
    ASSUME UNCHANGED ipc, NEW pcs PROVE Asked(pcs)' <=> Asked(pcs)
BY DEF Asked

(* ... and what is on its way off the channel. *)
LEMMA SentKept ==
    ASSUME UNCHANGED cmds, NEW kinds PROVE Sent(kinds)' <=> Sent(kinds)
BY DEF Sent

(* Sending adds a command and loses none. *)
LEMMA SentAppend ==
    ASSUME Channels, NEW c \in [kind : Commands, gen : Nat],
           cmds' = Append(cmds, c), NEW kinds
    PROVE  /\ Sent(kinds) => Sent(kinds)'
           /\ c.kind \in kinds => Sent(kinds)'
<1>1. /\ cmds \in Seq([kind : Commands, gen : Nat]) /\ Len(cmds) \in Nat
      /\ Len(cmds') = Len(cmds) + 1
      /\ \A i \in 1..Len(cmds) : cmds'[i] = cmds[i]
      /\ cmds'[Len(cmds) + 1] = c
    BY SMT DEF Channels
<1>2. /\ \A i \in 1..Len(cmds) : i \in 1..Len(cmds')
      /\ Len(cmds) + 1 \in 1..Len(cmds')
    BY <1>1, SMT
<1> QED BY <1>1, <1>2 DEF Sent

(* Taking a command of one kind leaves those of the others. *)
LEMMA SentTake ==
    ASSUME Channels, NEW kind, Take(kind), NEW kinds
    PROVE  Sent(kinds) /\ kind \notin kinds => Sent(kinds)'
<1>1. /\ cmds \in Seq([kind : Commands, gen : Nat]) /\ Len(cmds) \in Nat
      /\ Len(cmds) >= 1 /\ Len(cmds') = Len(cmds) - 1
      /\ \A i \in 1..Len(cmds') : cmds'[i] = cmds[i + 1]
      /\ cmds[1].kind = kind
    BY SMT DEF Channels, Take
<1> SUFFICES ASSUME Sent(kinds), kind \notin kinds PROVE Sent(kinds)'
    OBVIOUS
<1>2. PICK i \in 1..Len(cmds) : cmds[i].kind \in kinds
    BY DEF Sent
<1>3. i # 1
    BY <1>1, <1>2
<1>4. i - 1 \in 1..Len(cmds') /\ cmds'[i - 1] = cmds[i]
    BY <1>1, <1>3, SMT
<1> QED BY <1>2, <1>4 DEF Sent

-----------------------------------------------------------------------------
(* Rows, and the worker that is still running. *)
Rows == {"waiting", "active", "paused", "stopped", "failed", "completed", "gone"}

Placed ==
    /\ row \in Rows
    /\ place \in {"active", "queue", "finished"}
    /\ place = "finished" <=> row \in {"failed", "completed", "gone"}
    /\ row = "stopped" => place = "queue"
    /\ worker \in running \cup {0}

(* Every row starts in its place. *)
LEMMA PlacedInit == Init => Placed
BY DEF Init, Placed, Rows

(* Every handler and every task of the network loop keeps a row in the     *)
(* place of its status, and the worker among what runs.                    *)
LEMMA PlacedStep == ControlInv /\ Placed /\ [Next]_vars => Placed'
<1> SUFFICES ASSUME ControlInv, Placed, [Next]_vars PROVE Placed'
    OBVIOUS
<1> USE DEF Placed, Rows, taskVars, workerVars, rowVars, Listed, Startable, Held,
            Abort
<1>1. ASSUME NEW h \in Handlers,
             \/ pause_transfer(h) \/ stop_transfer(h)
             \/ cancel_transfer(h) \/ SendCancel(h)
             \/ Promoted(h) \/ start_promoted_downloads(h)
             \/ start_queued_discovery(h) \/ Send(h)
      PROVE  Placed'
    BY <1>1 DEF pause_transfer, stop_transfer, cancel_transfer, SendCancel,
                Promoted, start_promoted_downloads, start_queued_discovery, Send
<1>2. ASSUME NEW h \in Handlers, NEW slot \in BOOLEAN, resume_transfer(h, slot)
      PROVE  Placed'
    BY <1>2 DEF resume_transfer
<1>3. CASE PauseDownload \/ RepairActive \/ CancelDownload \/ StartDiscovery
    BY <1>3 DEF PauseDownload, RepairActive, CancelDownload, StartDiscovery
<1>4. ASSUME NEW g \in Gens, StartSearch(g) \/ StartRefused(g) \/ StartWorker(g)
      PROVE  Placed'
    BY <1>4 DEF StartSearch, StartRefused, StartWorker
<1>5. CASE SetSearching \/ RegisterWorker \/ Spawn
    BY <1>5 DEF SetSearching, RegisterWorker, Spawn
<1>6. CASE \/ StartPending \/ StartRechecked \/ RetryPending \/ RetryStart
           \/ RetryDrop \/ RetryFail \/ NetPromoted \/ reregister_transfer_control
    BY <1>6 DEF StartPending, StartRechecked, RetryPending, RetryStart, RetryDrop,
                RetryFail, NetPromoted, reregister_transfer_control
<1>7. ASSUME NEW kind \in EventKinds \ {"cancel"}, Report(kind) PROVE Placed'
    BY <1>7 DEF Report
<1>8. ASSUME NEW g \in Gens, Unwind(g) PROVE Placed'
    BY <1>8 DEF Unwind
<1>9. CASE SourcesUpdate \/ Completed \/ Failed \/ Requeue
    BY <1>9 DEF SourcesUpdate, Completed, Failed, Requeue
<1>10. CASE UNCHANGED vars
    BY <1>10 DEF vars
<1> QED BY <1>1, <1>2, <1>3, <1>4, <1>5, <1>6, <1>7, <1>8, <1>9, <1>10 DEF Next

-----------------------------------------------------------------------------
(* A held row. *)

(* A handler has held the row and has not sent its command, or the command *)
(* is on its way.                                                          *)
Quieting == Asked({"pause", "stop", "cancel"}) \/ Sent({"pause", "stop"})

(* A held row as it is restored at launch: nothing is under way for it. *)
Still ==
    /\ \A h \in Handlers : IdleHandler(h)
    /\ net = Idle /\ cmds = <<>> /\ events = <<>>
    /\ pending = 0 /\ running = {}

(* No control is live, and none is about to be made. *)
Silenced == ~Live(registered) /\ net.pc \notin {"reregister", "requeue"}

(* A held or removed row is still being quietened, or there is nothing     *)
(* left that could run.                                                    *)
HoldInv ==
    row \in Held \cup {"gone"} /\ overtaken # "undone" =>
        Quieting \/ Still \/ Silenced

(* No control is live when the registered one is not. *)
LEMMA NoneLive ==
    ASSUME Numbers, Replaced, ~Live(registered)
    PROVE  \A g \in 0..made : ~Live(g)
BY SMT DEF Numbers, Replaced, Live

(* A row being quietened stays so while nobody moves. *)
LEMMA QuietingKept ==
    ASSUME Quieting, UNCHANGED <<ipc, cmds>> PROVE Quieting'
BY AskedKept, SentKept DEF Quieting

(* Taking a start leaves the command that will quieten the row. *)
LEMMA QuietingTake ==
    ASSUME Channels, Quieting, UNCHANGED ipc,
           \/ UNCHANGED cmds \/ Take("start") \/ Take("discover")
    PROVE  Quieting'
<1>1. CASE UNCHANGED cmds
    BY <1>1, QuietingKept
<1>2. CASE Take("start") \/ Take("discover")
    <2>1. Sent({"pause", "stop"}) => Sent({"pause", "stop"})'
        BY <1>2, SentTake, SMT
    <2> QED BY <2>1, AskedKept DEF Quieting
<1> QED BY <1>1, <1>2

(* A command handler that holds the row is followed by its command; no     *)
(* other one wakes a held row but Resume.                                  *)
LEMMA HoldHandler ==
    ASSUME ControlInv, Placed, HoldInv, NEW h \in Handlers,
           \/ pause_transfer(h) \/ stop_transfer(h)
           \/ cancel_transfer(h) \/ SendCancel(h)
           \/ \E slot \in BOOLEAN : resume_transfer(h, slot)
           \/ Promoted(h) \/ start_promoted_downloads(h)
           \/ start_queued_discovery(h) \/ Send(h)
    PROVE  HoldInv'
<1> SUFFICES ASSUME row' \in Held \cup {"gone"}, overtaken' # "undone"
             PROVE  Quieting' \/ Still' \/ Silenced'
    BY DEF HoldInv
<1> USE DEF taskVars, workerVars, rowVars, controlVars
<1>0. Numbers /\ NetTyped /\ Channels /\ Replaced
    BY DEF ControlInv
<1>1. CASE pause_transfer(h) \/ stop_transfer(h) \/ cancel_transfer(h)
    <2>1. Become(h, "pause", 0) \/ Become(h, "stop", 0) \/ Become(h, "cancel", 0)
        BY <1>1 DEF pause_transfer, stop_transfer, cancel_transfer
    <2>2. Asked({"pause", "stop", "cancel"})'
        BY <1>0, <2>1, AskedBecome
    <2> QED BY <2>2 DEF Quieting
<1>2. CASE SendCancel(h)
    <2>1. cmds' = Append(cmds, Cmd("stop", 0))
        BY <1>2 DEF SendCancel, Note
    <2>2. Cmd("stop", 0) \in [kind : Commands, gen : Nat] /\ Cmd("stop", 0).kind = "stop"
        BY DEF Cmd, Commands
    <2>3. Sent({"pause", "stop"})'
        BY <1>0, <2>1, <2>2, SentAppend
    <2> QED BY <2>3 DEF Quieting
<1>3. ASSUME NEW slot \in BOOLEAN, resume_transfer(h, slot) PROVE FALSE
    BY <1>3 DEF resume_transfer, Placed, Listed, Held
<1>4. CASE Promoted(h)
    BY <1>4 DEF Promoted, Held
<1>5. CASE start_promoted_downloads(h) \/ start_queued_discovery(h)
    <2>1. /\ ipc[h].pc \in {"promoted", "rediscover"} /\ Become(h, "idle", 0)
          /\ UNCHANGED <<row, registered, cancelled, cmds, net, overtaken>>
        BY <1>5 DEF start_promoted_downloads, start_queued_discovery, Startable, Held
    <2>2. ~Still
        BY <2>1, SMT DEF Still, IdleHandler, Idle, At
    <2>3. Quieting => Quieting'
        <3>1. Asked({"pause", "stop", "cancel"}) => Asked({"pause", "stop", "cancel"})'
            BY <1>0, <2>1, AskedBecome
        <3> QED BY <2>1, <3>1, SentKept DEF Quieting
    <2> QED BY <2>1, <2>2, <2>3 DEF HoldInv, Silenced, Live
<1>6. CASE Send(h)
    <2>1. /\ ipc[h].pc \in Commands /\ Become(h, "idle", 0)
          /\ cmds' = Append(cmds, Cmd(ipc[h].pc, ipc[h].gen))
          /\ UNCHANGED <<row, registered, cancelled, net, overtaken>>
        BY <1>6 DEF Send
    <2>2. /\ Cmd(ipc[h].pc, ipc[h].gen) \in [kind : Commands, gen : Nat]
          /\ Cmd(ipc[h].pc, ipc[h].gen).kind = ipc[h].pc
        BY <1>0, <2>1 DEF Cmd, Channels
    <2>3. CASE ipc[h].pc \in {"pause", "stop"}
        <3>1. Sent({"pause", "stop"})'
            BY <1>0, <2>1, <2>2, <2>3, SentAppend
        <3> QED BY <3>1 DEF Quieting
    <2>4. CASE ipc[h].pc \notin {"pause", "stop"}
        <3>1. ~Still
            BY <2>1, SMT DEF Still, IdleHandler, Idle, At, Commands
        <3>2. Asked({"pause", "stop", "cancel"}) => Asked({"pause", "stop", "cancel"})'
            BY <1>0, <2>1, <2>4, AskedBecome DEF Commands
        <3>3. Sent({"pause", "stop"}) => Sent({"pause", "stop"})'
            BY <1>0, <2>1, <2>2, SentAppend
        <3> QED BY <2>1, <3>1, <3>2, <3>3 DEF HoldInv, Quieting, Silenced, Live
    <2> QED BY <2>3, <2>4
<1> QED BY <1>1, <1>2, <1>3, <1>4, <1>5, <1>6

(* A command the network task handles quietens the row or leaves it so. *)
LEMMA HoldCommand ==
    ASSUME ControlInv, Placed, HoldInv,
           \/ PauseDownload \/ RepairActive \/ CancelDownload \/ StartDiscovery
           \/ \E g \in Gens : StartSearch(g) \/ StartRefused(g) \/ StartWorker(g)
           \/ SetSearching \/ RegisterWorker \/ Spawn
    PROVE  HoldInv'
<1> SUFFICES ASSUME row' \in Held \cup {"gone"}, overtaken' # "undone"
             PROVE  Quieting' \/ Still' \/ Silenced'
    BY DEF HoldInv
<1> USE DEF taskVars, workerVars, rowVars, controlVars
<1>0. Numbers /\ NetTyped /\ Channels /\ Replaced
    BY DEF ControlInv
<1>1. CASE PauseDownload \/ CancelDownload
    <2>1. /\ CancelRegistered /\ UNCHANGED registered
          /\ GoTo("repair", 0) \/ (net = Idle /\ UNCHANGED net)
        BY <1>1 DEF PauseDownload, CancelDownload, Take
    <2> QED BY <2>1, SMT DEF Silenced, Live, CancelRegistered, GoTo, At, Idle
<1>2. CASE RepairActive
    <2>1. /\ net.pc = "repair" /\ net'.pc = "idle"
          /\ UNCHANGED <<registered, cancelled, ipc, cmds>>
        BY <1>2 DEF RepairActive, GoTo, At
    <2>2. CASE row = "active"
        <3>1. ~Live(registered)
            BY <1>2, <2>2 DEF RepairActive, Note
        <3> QED BY <2>1, <3>1 DEF Silenced, Live
    <2>3. CASE row # "active"
        <3>1. ~Still
            BY <2>1, SMT DEF Still, Idle, At
        <3>2. row' = row /\ overtaken' = overtaken
            BY <1>2, <2>3 DEF RepairActive, Note
        <3>3. Quieting => Quieting'
            BY <2>1, QuietingKept
        <3>4. Silenced => Silenced'
            BY <2>1 DEF Silenced, Live
        <3> QED BY <3>1, <3>2, <3>3, <3>4 DEF HoldInv
    <2> QED BY <2>2, <2>3
<1>3. ASSUME ~Still, row \in Held \cup {"gone"}, overtaken # "undone",
             UNCHANGED ipc,
             UNCHANGED cmds \/ Take("start") \/ Take("discover"),
             net'.pc \notin {"reregister", "requeue"},
             Live(registered)' => Live(registered)
      PROVE  Quieting' \/ Silenced'
    BY <1>0, <1>3, QuietingTake DEF HoldInv, Silenced
<1>4. CASE StartDiscovery
    <2>1. /\ Take("discover") /\ net = Idle /\ cmds # <<>>
          /\ UNCHANGED <<row, registered, cancelled, ipc, net>>
        BY <1>4 DEF StartDiscovery, Take
    <2>2. overtaken # "undone" /\ ~Still
        BY <1>4, <2>1 DEF StartDiscovery, Note, Still
    <2>3. net'.pc \notin {"reregister", "requeue"} /\ (Live(registered)' => Live(registered))
        BY <2>1 DEF Idle, At, Live
    <2> QED BY <1>3, <2>1, <2>2, <2>3
<1>5. ASSUME NEW g \in Gens, StartSearch(g) \/ StartRefused(g) \/ StartWorker(g)
      PROVE  Quieting' \/ Silenced'
    <2>1. /\ Take("start") \/ (net = At("start", g) /\ UNCHANGED cmds)
          /\ UNCHANGED <<row, registered, ipc>>
          /\ cancelled \subseteq cancelled'
        BY <1>5 DEF StartSearch, StartRefused, StartWorker, StartDownload
    <2>2. GoTo("idle", 0) \/ GoTo("searching", g) \/ GoTo("spawn", g) \/ GoTo("register", g)
        BY <1>5 DEF StartSearch, StartRefused, StartWorker
    <2>3. overtaken # "undone"
        BY <1>5 DEF StartSearch, StartRefused, StartWorker, Note
    <2>4. ~Still
        BY <2>1, SMT DEF Still, Take, Idle, At
    <2>5. net'.pc \notin {"reregister", "requeue"} /\ (Live(registered)' => Live(registered))
        BY <2>1, <2>2, SMT DEF GoTo, At, Live
    <2> QED BY <1>3, <2>1, <2>3, <2>4, <2>5
<1>6. CASE SetSearching
    <2>1. /\ net.pc = "searching" /\ net'.pc = "idle" /\ row' = row /\ ~Listed
          /\ install_control(net.gen)
          /\ UNCHANGED <<ipc, cmds>>
        BY <1>6 DEF SetSearching, GoTo, At, Held
    <2>2. overtaken # "undone"
        BY <1>6 DEF SetSearching, Note
    <2>3. ~Still
        BY <2>1, SMT DEF Still, Idle, At
    <2>4. ASSUME Live(registered)' PROVE Live(registered)
        <3>1. CASE UNCHANGED <<registered, cancelled>>
            BY <2>4, <3>1 DEF Live
        <3>2. CASE registered' = net.gen /\ cancelled' = cancelled
            <4>1. Live(net.gen) /\ net.gen \in 0..made
                BY <1>0, <2>4, <3>2 DEF Live, NetTyped
            <4> QED BY <1>0, <4>1, NoneLive
        <3> QED BY <2>1, <3>1, <3>2 DEF install_control
    <2> QED BY <1>3, <2>1, <2>2, <2>3, <2>4
<1>7. CASE RegisterWorker
    <2>1. /\ net.pc = "register" /\ net'.pc = "spawn"
          /\ registered' = net.gen \/ registered' = 0
          /\ cancelled \subseteq cancelled'
          /\ UNCHANGED <<row, ipc, cmds, overtaken>>
        BY <1>7 DEF RegisterWorker, GoTo, At
    <2>2. ~Still
        BY <2>1, SMT DEF Still, Idle, At
    <2>3. ASSUME Live(registered)' PROVE Live(registered)
        <3>1. Live(net.gen) /\ net.gen \in 0..made
            BY <1>0, <2>1, <2>3 DEF Live, NetTyped
        <3> QED BY <1>0, <3>1, NoneLive
    <2> QED BY <1>3, <2>1, <2>2, <2>3
<1>8. CASE Spawn
    <2>1. /\ net.pc = "spawn" /\ net'.pc = "idle"
          /\ UNCHANGED <<row, registered, cancelled, ipc, cmds, overtaken>>
        BY <1>8 DEF Spawn, GoTo, At
    <2>2. ~Still
        BY <2>1, SMT DEF Still, Idle, At
    <2>3. Live(registered)' => Live(registered)
        BY <2>1 DEF Live
    <2> QED BY <1>3, <2>1, <2>2, <2>3
<1> QED BY <1>1, <1>2, <1>4, <1>5, <1>6, <1>7, <1>8

(* Nothing the network task does by itself wakes a held row. *)
LEMMA HoldTask ==
    ASSUME ControlInv, Placed, HoldInv,
           \/ StartPending \/ StartRechecked \/ RetryPending \/ RetryStart
           \/ RetryDrop \/ RetryFail \/ NetPromoted \/ reregister_transfer_control
           \/ \E kind \in EventKinds \ {"cancel"} : Report(kind)
           \/ \E g \in Gens : Unwind(g)
           \/ SourcesUpdate \/ Completed \/ Failed \/ Requeue
    PROVE  HoldInv'
<1> SUFFICES ASSUME row' \in Held \cup {"gone"}, overtaken' # "undone"
             PROVE  Quieting' \/ Still' \/ Silenced'
    BY DEF HoldInv
<1> USE DEF taskVars, workerVars, rowVars, controlVars
<1>0. Numbers /\ NetTyped /\ Channels /\ Replaced
    BY DEF ControlInv
<1>1. ASSUME ~Still, row' = row, overtaken # "undone",
             UNCHANGED <<ipc, cmds, registered, cancelled>>,
             net'.pc \in {"reregister", "requeue"} => net' = net
      PROVE  Quieting' \/ Silenced'
    <2>1. Quieting => Quieting'
        BY <1>1, QuietingKept
    <2>2. Silenced => Silenced'
        BY <1>1 DEF Silenced, Live
    <2> QED BY <1>1, <2>1, <2>2 DEF HoldInv
<1>2. CASE StartPending \/ RetryPending
    BY <1>2 DEF StartPending, RetryPending, Startable, Held
<1>3. CASE StartRechecked
    <2>1. /\ row' = row /\ UNCHANGED <<ipc, cmds, registered, cancelled, overtaken>>
          /\ net.pc = "recheck" /\ net' = Idle
        BY <1>3 DEF StartRechecked, Held, Startable, GoTo, Idle
    <2>2. ~Still /\ net'.pc \notin {"reregister", "requeue"}
        BY <2>1, SMT DEF Still, Idle, At
    <2> QED BY <1>1, <2>1, <2>2
<1>4. CASE RetryStart
    <2>1. /\ row' = row /\ UNCHANGED <<ipc, cmds, registered, cancelled>>
          /\ net.pc = "retry" /\ net'.pc = "spawn"
        BY <1>4 DEF RetryStart, Held, GoTo, At
    <2>2. overtaken # "undone"
        BY <1>4 DEF RetryStart, Note
    <2>3. ~Still
        BY <2>1, SMT DEF Still, Idle, At
    <2> QED BY <1>1, <2>1, <2>2, <2>3
<1>5. CASE RetryDrop
    <2>1. /\ row' = row /\ UNCHANGED <<ipc, cmds, registered, cancelled, overtaken>>
          /\ pending \in cancelled /\ net'.pc \in {"idle", "fail"}
        BY <1>5 DEF RetryDrop, GoTo, At
    <2>2. ~Still
        BY <1>0, <2>1, SMT DEF Still, Numbers
    <2> QED BY <1>1, <2>1, <2>2
<1>6. CASE RetryFail
    <2>1. /\ row' = row /\ UNCHANGED <<ipc, cmds, registered, cancelled, overtaken>>
          /\ net.pc = "fail" /\ net'.pc = "idle"
        BY <1>6 DEF RetryFail, Held, GoTo, At
    <2>2. ~Still
        BY <2>1, SMT DEF Still, Idle, At
    <2> QED BY <1>1, <2>1, <2>2
<1>7. CASE NetPromoted
    BY <1>7 DEF NetPromoted, Held
<1>8. CASE reregister_transfer_control \/ Requeue
    <2>1. /\ net.pc \in {"reregister", "requeue"}
          /\ row \in Held \cup {"gone"}
          /\ UNCHANGED <<ipc, cmds>>
        BY <1>8 DEF reregister_transfer_control, Requeue, Held
    <2>2. overtaken # "undone"
        BY <1>8 DEF reregister_transfer_control, Requeue, Note
    <2>3. ~Still /\ ~Silenced
        BY <2>1, SMT DEF Still, Silenced, Idle, At
    <2> QED BY <2>1, <2>2, <2>3, QuietingKept DEF HoldInv
<1>9. ASSUME NEW kind \in EventKinds \ {"cancel"}, Report(kind)
      PROVE  Quieting' \/ Silenced'
    <2>1. /\ worker # 0
          /\ UNCHANGED <<row, ipc, cmds, registered, cancelled, overtaken, net>>
        BY <1>9 DEF Report
    <2>2. ~Still
        BY <2>1 DEF Still, Placed
    <2> QED BY <1>1, <2>1, <2>2
<1>10. ASSUME NEW g \in Gens, Unwind(g) PROVE Quieting' \/ Silenced'
    <2>1. /\ running # {}
          /\ UNCHANGED <<row, ipc, cmds, registered, cancelled, overtaken, net>>
        BY <1>10 DEF Unwind
    <2>2. ~Still
        BY <2>1 DEF Still
    <2> QED BY <1>1, <2>1, <2>2
<1>11. CASE SourcesUpdate \/ Completed
    <2>1. /\ events # <<>>
          /\ UNCHANGED <<row, ipc, cmds, registered, cancelled, overtaken, net>>
        BY <1>11 DEF SourcesUpdate, Completed, TakeEvent, Held
    <2>2. ~Still
        BY <2>1 DEF Still
    <2> QED BY <1>1, <2>1, <2>2
<1>12. CASE Failed
    <2>1. /\ events # <<>>
          /\ UNCHANGED <<row, ipc, cmds, registered, cancelled, overtaken>>
          /\ UNCHANGED net \/ GoTo("idle", 0)
        BY <1>12 DEF Failed, TakeEvent, Placed, Listed
    <2>2. ~Still
        BY <2>1 DEF Still
    <2>3. net'.pc \in {"reregister", "requeue"} => net' = net
        BY <2>1, SMT DEF GoTo, At
    <2> QED BY <1>1, <2>1, <2>2, <2>3
<1> QED BY <1>2, <1>3, <1>4, <1>5, <1>6, <1>7, <1>8, <1>9, <1>10, <1>11, <1>12

(* A row restored held has nothing under way. *)
LEMMA HoldInit == Init => HoldInv
BY DEF Init, HoldInv, Still, Held, IdleHandler

(* Every step keeps a held row quiet, or on its way there. *)
LEMMA HoldStep == ControlInv /\ Placed /\ HoldInv /\ [Next]_vars => HoldInv'
<1> SUFFICES ASSUME ControlInv, Placed, HoldInv, [Next]_vars PROVE HoldInv'
    OBVIOUS
<1>1. CASE UNCHANGED vars
    <2>1. Quieting => Quieting'
        BY <1>1, QuietingKept DEF vars
    <2>2. /\ Still => Still'
          /\ Silenced => Silenced'
          /\ row' = row /\ overtaken' = overtaken
        BY <1>1 DEF Still, Silenced, IdleHandler, Live, vars
    <2> QED BY <2>1, <2>2 DEF HoldInv
<1>2. CASE Next
    BY <1>2, HoldHandler, HoldCommand, HoldTask DEF Next
<1> QED BY <1>1, <1>2

(* What HoldInv means once all is at rest. *)
LEMMA HoldQuiet == ControlInv /\ Placed /\ HoldInv => HeldRowIsQuiet
<1> SUFFICES ASSUME ControlInv, Placed, HoldInv,
                    row \in Held \cup {"gone"}, AtRest, overtaken # "undone"
             PROVE  running = {} /\ worker = 0
    BY DEF HeldRowIsQuiet
<1>1. ~Quieting
    BY SMT DEF Quieting, Asked, Sent, AtRest, IdleHandler, Idle, At
<1>2. CASE Still
    BY <1>2 DEF Still, Placed
<1>3. CASE Silenced
    <2>1. OnlyRegisteredRuns /\ running \subseteq 1..made
        BY DEF ControlInv, Replaced, Numbers, OnlyRegisteredRuns
    <2>2. running = {}
        BY <1>3, <2>1, SMT DEF Silenced, AtRest, OnlyRegisteredRuns, Live
    <2> QED BY <2>2 DEF Placed
<1> QED BY <1>1, <1>2, <1>3 DEF HoldInv

(* Pause, Stop and Cancel last: however the handlers and the network task  *)
(* interleave, a row that was held or removed ends with nothing running on *)
(* it, unless Cancel's command was lost or PauseDownload repaired a row a  *)
(* Resume had just set going.                                              *)
THEOREM HeldRowsGoQuiet == Spec => []HeldRowIsQuiet
<1>1. Init => ControlInv /\ Placed /\ HoldInv
    BY ControlInit, PlacedInit, HoldInit
<1>2. ControlInv /\ Placed /\ HoldInv /\ [Next]_vars => (ControlInv /\ Placed /\ HoldInv)'
    BY ControlStep, PlacedStep, HoldStep
<1>3. ControlInv /\ Placed /\ HoldInv => HeldRowIsQuiet
    BY HoldQuiet
<1> QED BY <1>1, <1>2, <1>3, PTL DEF Spec

-----------------------------------------------------------------------------
(* A row in a slot. *)

(* A report names a control that was made. *)
Reports ==
    /\ events \in Seq([kind : EventKinds, gen : Nat])
    /\ \A i \in 1..Len(events) : events[i].gen \in 0..made

(* A queued row is searched for with a control. *)
Discoveries ==
    /\ \A h \in Handlers : ipc[h].pc = "discover" => ipc[h].gen # 0
    /\ \A i \in 1..Len(cmds) : cmds[i].kind = "discover" => cmds[i].gen # 0

(* Nothing is reported at first. *)
LEMMA ReportsInit == Init => Reports
BY SMT DEF Init, Reports

(* A worker reports on its own control. *)
LEMMA ReportsStep == ControlInv /\ Placed /\ Reports /\ [Next]_vars => Reports'
<1> SUFFICES ASSUME ControlInv, Placed, Reports, [Next]_vars PROVE Reports'
    OBVIOUS
<1> USE DEF taskVars, workerVars, rowVars, controlVars
<1>0. made \in Nat /\ worker \in 0..made
    BY SMT DEF ControlInv, Numbers, Placed
<1>1. made' \in {made, made + 1}
    <2>1. ASSUME NEW h \in Handlers,
                 \/ pause_transfer(h) \/ stop_transfer(h)
                 \/ cancel_transfer(h) \/ SendCancel(h)
                 \/ \E slot \in BOOLEAN : resume_transfer(h, slot)
                 \/ Promoted(h) \/ start_promoted_downloads(h)
                 \/ start_queued_discovery(h) \/ Send(h)
          PROVE  made' \in {made, made + 1}
        BY <2>1 DEF pause_transfer, stop_transfer, cancel_transfer, SendCancel,
               resume_transfer, Promoted, start_promoted_downloads,
               start_queued_discovery, Send, MakeControl
    <2>2. CASE \/ PauseDownload \/ RepairActive \/ CancelDownload \/ StartDiscovery
               \/ \E g \in Gens : StartSearch(g) \/ StartRefused(g) \/ StartWorker(g)
               \/ SetSearching \/ RegisterWorker \/ Spawn
        BY <2>2 DEF PauseDownload, RepairActive, CancelDownload, StartDiscovery,
               StartSearch, StartRefused, StartWorker, SetSearching, RegisterWorker,
               Spawn
    <2>3. CASE \/ StartPending \/ StartRechecked \/ RetryPending \/ RetryStart
               \/ RetryDrop \/ RetryFail \/ NetPromoted \/ reregister_transfer_control
               \/ \E kind \in EventKinds \ {"cancel"} : Report(kind)
               \/ \E g \in Gens : Unwind(g)
               \/ SourcesUpdate \/ Completed \/ Failed \/ Requeue
        BY <2>3 DEF StartPending, StartRechecked, RetryPending, RetryStart,
               RetryDrop, RetryFail, NetPromoted, reregister_transfer_control,
               Report, Unwind, SourcesUpdate, Completed, Failed, Requeue, MakeControl
    <2>4. CASE UNCHANGED vars
        BY <2>4 DEF vars
    <2> QED BY <2>1, <2>2, <2>3, <2>4 DEF Next
<1>2. \/ UNCHANGED events
      \/ events # <<>> /\ events' = Tail(events)
      \/ \E kind \in EventKinds, g \in 0..made : events' = Append(events, Event(kind, g))
    <2>1. ASSUME NEW h \in Handlers,
                 \/ pause_transfer(h) \/ stop_transfer(h)
                 \/ cancel_transfer(h) \/ SendCancel(h)
                 \/ \E slot \in BOOLEAN : resume_transfer(h, slot)
                 \/ Promoted(h) \/ start_promoted_downloads(h)
                 \/ start_queued_discovery(h) \/ Send(h)
          PROVE  UNCHANGED events
        BY <2>1 DEF pause_transfer, stop_transfer, cancel_transfer, SendCancel,
               resume_transfer, Promoted, start_promoted_downloads,
               start_queued_discovery, Send
    <2>2. CASE \/ PauseDownload \/ RepairActive \/ CancelDownload \/ StartDiscovery
               \/ \E g \in Gens : StartSearch(g) \/ StartRefused(g) \/ StartWorker(g)
               \/ SetSearching \/ RegisterWorker \/ Spawn
        BY <2>2 DEF PauseDownload, RepairActive, CancelDownload, StartDiscovery,
               StartSearch, StartRefused, StartWorker, SetSearching, RegisterWorker,
               Spawn
    <2>3. CASE \/ StartPending \/ StartRechecked \/ RetryPending \/ RetryStart
               \/ RetryDrop \/ RetryFail \/ NetPromoted \/ reregister_transfer_control
               \/ Requeue
        BY <2>3 DEF StartPending, StartRechecked, RetryPending, RetryStart,
               RetryDrop, RetryFail, NetPromoted, reregister_transfer_control, Requeue
    <2>4. ASSUME NEW kind \in EventKinds \ {"cancel"}, Report(kind)
          PROVE  events' = Append(events, Event(kind, worker))
        BY <2>4 DEF Report
    <2>5. ASSUME NEW g \in Gens, Unwind(g)
          PROVE  UNCHANGED events \/ events' = Append(events, Event("cancel", worker))
        BY <2>5 DEF Unwind
    <2>6. CASE SourcesUpdate \/ Completed \/ Failed
        BY <2>6 DEF SourcesUpdate, Completed, Failed, TakeEvent
    <2>7. CASE UNCHANGED vars
        BY <2>7 DEF vars
    <2>8. "cancel" \in EventKinds
        BY DEF EventKinds
    <2> QED BY <1>0, <2>1, <2>2, <2>3, <2>4, <2>5, <2>6, <2>7, <2>8 DEF Next
<1>3. 0..made \subseteq 0..made'
    BY <1>0, <1>1, SMT
<1>4. CASE UNCHANGED events
    BY <1>3, <1>4 DEF Reports
<1>5. CASE events # <<>> /\ events' = Tail(events)
    <2>1. /\ events' \in Seq([kind : EventKinds, gen : Nat])
          /\ \A i \in 1..Len(events') : i + 1 \in 1..Len(events) /\ events'[i] = events[i + 1]
        BY <1>5, SMT DEF Reports
    <2> QED BY <1>3, <2>1 DEF Reports
<1>6. ASSUME NEW kind \in EventKinds, NEW g \in 0..made,
             events' = Append(events, Event(kind, g))
      PROVE  Reports'
    <2>1. Event(kind, g) \in [kind : EventKinds, gen : Nat] /\ Event(kind, g).gen = g
        BY <1>0, SMT DEF Event
    <2> QED BY <1>3, <1>6, <2>1, SMT DEF Reports
<1> QED BY <1>2, <1>4, <1>5, <1>6

(* The first search has the first control. *)
LEMMA DiscoveriesInit == Init => Discoveries
BY SMT DEF Init, Discoveries, Idle, At, Cmd

(* start_queued_discovery sends the registered control or a new one. *)
LEMMA DiscoveriesStep == ControlInv /\ Discoveries /\ [Next]_vars => Discoveries'
<1> SUFFICES ASSUME ControlInv, Discoveries, [Next]_vars PROVE Discoveries'
    OBVIOUS
<1> USE DEF taskVars, workerVars, rowVars, controlVars
<1>0. Channels /\ made \in Nat /\ registered \in Nat
    BY SMT DEF ControlInv, Numbers
<1>1. ASSUME UNCHANGED <<ipc, cmds>> PROVE Discoveries'
    BY <1>1 DEF Discoveries
<1>2. ASSUME NEW h \in Handlers, NEW pc, NEW g, Become(h, pc, g),
             pc = "discover" => g # 0
      PROVE  \A k \in Handlers : ipc'[k].pc = "discover" => ipc'[k].gen # 0
    <2>1. /\ ipc'[h].pc = pc /\ ipc'[h].gen = g
          /\ \A k \in Handlers \ {h} : ipc'[k] = ipc[k]
        BY <1>0, <1>2 DEF Channels, Become, At
    <2> QED BY <1>2, <2>1 DEF Discoveries
<1>3. ASSUME NEW c \in [kind : Commands, gen : Nat], cmds' = Append(cmds, c),
             c.kind = "discover" => c.gen # 0
      PROVE  \A i \in 1..Len(cmds') : cmds'[i].kind = "discover" => cmds'[i].gen # 0
    BY <1>0, <1>3, SMT DEF Discoveries, Channels
<1>4. ASSUME NEW kind, Take(kind), UNCHANGED ipc PROVE Discoveries'
    BY <1>0, <1>4, SMT DEF Discoveries, Channels, Take
<1>5. ASSUME NEW h \in Handlers,
             \/ pause_transfer(h) \/ stop_transfer(h) \/ cancel_transfer(h)
             \/ \E slot \in BOOLEAN : resume_transfer(h, slot)
             \/ Promoted(h) \/ start_promoted_downloads(h)
             \/ start_queued_discovery(h)
      PROVE  Discoveries'
    <2>1. UNCHANGED cmds
        BY <1>5 DEF pause_transfer, stop_transfer, cancel_transfer, resume_transfer,
                    Promoted, start_promoted_downloads, start_queued_discovery
    <2>2. \/ UNCHANGED ipc
          \/ \E pc \in {"pause", "stop", "cancel", "promoted", "rediscover", "idle"} :
                 Become(h, pc, 0)
          \/ Become(h, "start", made + 1) \/ Become(h, "discover", made + 1)
          \/ registered # 0 /\ Become(h, "discover", registered)
        BY <1>5 DEF pause_transfer, stop_transfer, cancel_transfer,
           resume_transfer, Promoted, start_promoted_downloads, start_queued_discovery
    <2>3. made + 1 # 0
        BY <1>0, SMT
    <2>4. CASE UNCHANGED ipc
        BY <1>1, <2>1, <2>4
    <2>5. ASSUME NEW pc, NEW g, Become(h, pc, g), pc = "discover" => g # 0
          PROVE  Discoveries'
        <3>1. \A k \in Handlers : ipc'[k].pc = "discover" => ipc'[k].gen # 0
            BY <1>2, <2>5
        <3> QED BY <2>1, <3>1 DEF Discoveries
    <2> QED BY <2>2, <2>3, <2>4, <2>5
<1>6. ASSUME NEW h \in Handlers, Send(h) \/ SendCancel(h) PROVE Discoveries'
    <2>1. \A k \in Handlers : ipc'[k].pc = "discover" => ipc'[k].gen # 0
        BY <1>2, <1>6 DEF Send, SendCancel
    <2>2. CASE UNCHANGED cmds
        BY <2>1, <2>2 DEF Discoveries
    <2>3. CASE Send(h)
        <3>1. /\ Cmd(ipc[h].pc, ipc[h].gen) \in [kind : Commands, gen : Nat]
              /\ Cmd(ipc[h].pc, ipc[h].gen).kind = "discover"
                    => Cmd(ipc[h].pc, ipc[h].gen).gen # 0
              /\ cmds' = Append(cmds, Cmd(ipc[h].pc, ipc[h].gen))
            BY <1>0, <2>3 DEF Send, Cmd, Channels, Discoveries
        <3> QED BY <1>3, <2>1, <3>1 DEF Discoveries
    <2>4. CASE cmds' = Append(cmds, Cmd("stop", 0))
        <3>1. Cmd("stop", 0) \in [kind : Commands, gen : Nat] /\ Cmd("stop", 0).kind = "stop"
            BY DEF Cmd, Commands
        <3> QED BY <1>3, <2>1, <2>4, <3>1 DEF Discoveries
    <2> QED BY <1>6, <2>2, <2>3, <2>4 DEF SendCancel
<1>7. CASE PauseDownload \/ CancelDownload \/ StartDiscovery
    BY <1>4, <1>7 DEF PauseDownload, CancelDownload, StartDiscovery
<1>8. ASSUME NEW g \in Gens, StartSearch(g) \/ StartRefused(g) \/ StartWorker(g)
      PROVE  Discoveries'
    BY <1>1, <1>4, <1>8 DEF StartSearch, StartRefused, StartWorker, StartDownload
<1>9. CASE \/ RepairActive \/ SetSearching \/ RegisterWorker \/ Spawn
           \/ StartPending \/ StartRechecked \/ RetryPending \/ RetryStart
           \/ RetryDrop \/ RetryFail \/ NetPromoted \/ reregister_transfer_control
           \/ \E kind \in EventKinds \ {"cancel"} : Report(kind)
           \/ \E g \in Gens : Unwind(g)
           \/ SourcesUpdate \/ Completed \/ Failed \/ Requeue
           \/ UNCHANGED vars
    <2>1. UNCHANGED <<ipc, cmds>>
        BY <1>9 DEF RepairActive, SetSearching, RegisterWorker, Spawn,
           StartPending, StartRechecked, RetryPending, RetryStart, RetryDrop,
           RetryFail, NetPromoted, reregister_transfer_control, Report, Unwind,
           SourcesUpdate, Completed, Failed, Requeue, vars
    <2> QED BY <1>1, <2>1
<1> QED BY <1>5, <1>6, <1>7, <1>8, <1>9 DEF Next

-----------------------------------------------------------------------------
(* A handler, or a command of one, will start a worker for the row. *)
HandlerToken == Asked({"promoted", "start"}) \/ Sent({"start"})

(* A live worker ended, and the network task has not heard of it. *)
LiveEvent ==
    \E i \in 1..Len(events) :
        events[i].kind \in {"error", "completed"} /\ Live(events[i].gen)

(* Where the network task is about to see to the row, whatever it finds, ... *)
Busy == {"reregister", "requeue", "start", "searching", "retry", "fail"}

(* ... and where it does so only if the control in its hand is live. *)
Starting == {"register", "spawn", "recheck"}

NetToken ==
    \/ Live(pending) \/ Live(worker) \/ LiveEvent
    \/ net.pc \in Busy
    \/ net.pc \in Starting /\ Live(net.gen)

Doomed == net.pc \in Starting /\ ~Live(net.gen)

(* A row in a slot has somebody who will see to it; one whose start is     *)
(* doomed has a handler that was there since.                              *)
ServeInv ==
    Startable /\ overtaken = "no" => HandlerToken \/ (NetToken /\ ~Doomed)

(* A report of a live worker is lost by none of these steps, ... *)
LEMMA LiveEventKept ==
    ASSUME UNCHANGED events, cancelled' \subseteq cancelled, LiveEvent
    PROVE  LiveEvent'
BY DEF LiveEvent, Live

(* ... nor as another one is sent, ... *)
LEMMA LiveEventAppend ==
    ASSUME Reports, NEW kind \in EventKinds, NEW g \in Nat, UNCHANGED cancelled,
           events' = Append(events, Event(kind, g))
    PROVE  /\ LiveEvent => LiveEvent'
           /\ kind \in {"error", "completed"} /\ Live(g) => LiveEvent'
<1>1. Event(kind, g) \in [kind : EventKinds, gen : Nat]
    BY DEF Event
<1>2. /\ Len(events) \in Nat /\ Len(events') = Len(events) + 1
      /\ \A i \in 1..Len(events) : events'[i] = events[i]
      /\ events'[Len(events) + 1] = Event(kind, g)
    BY <1>1, SMT DEF Reports
<1>3. /\ \A i \in 1..Len(events) : i \in 1..Len(events')
      /\ Len(events) + 1 \in 1..Len(events')
    BY <1>2, SMT
<1>4. Event(kind, g).kind = kind /\ Event(kind, g).gen = g
    BY DEF Event
<1> QED BY <1>2, <1>3, <1>4 DEF LiveEvent, Live

(* ... nor as one ahead of it is heard. *)
LEMMA LiveEventTake ==
    ASSUME Reports, UNCHANGED cancelled, LiveEvent,
           events # <<>>, events' = Tail(events),
           Head(events).kind \notin {"error", "completed"} \/ ~Live(Head(events).gen)
    PROVE  LiveEvent'
<1>1. /\ Len(events) \in Nat /\ Len(events') = Len(events) - 1
      /\ \A i \in 1..Len(events') : events'[i] = events[i + 1]
      /\ Head(events) = events[1]
    BY SMT DEF Reports
<1>2. PICK i \in 1..Len(events) :
          events[i].kind \in {"error", "completed"} /\ Live(events[i].gen)
    BY DEF LiveEvent
<1>3. i # 1
    BY <1>1, <1>2
<1>4. i - 1 \in 1..Len(events') /\ events'[i - 1] = events[i]
    BY <1>1, <1>3, SMT
<1> QED BY <1>2, <1>4 DEF LiveEvent, Live

(* Nothing of the network task's serves a row that has no live control. *)
LEMMA NoNetToken ==
    ASSUME ControlInv, Placed, Reports, ~Live(registered), net = Idle
    PROVE  ~NetToken
<1>1. Numbers /\ Replaced
    BY DEF ControlInv
<1>2. pending \in 0..made /\ worker \in 0..made
    BY <1>1, SMT DEF Numbers, Placed
<1>3. ~LiveEvent
    BY <1>1, NoneLive DEF LiveEvent, Reports
<1> QED BY <1>1, <1>2, <1>3, NoneLive DEF NetToken, Idle, At, Busy, Starting

(* The frame of the actions that leave what serves the row alone. *)
LEMMA ServeFrame ==
    ASSUME ServeInv, Startable' => Startable, overtaken' = "no" => overtaken = "no",
           HandlerToken => HandlerToken',
           NetToken /\ ~Doomed => NetToken' /\ ~Doomed'
    PROVE  ServeInv'
BY DEF ServeInv

(* The network task leaves what the handlers promised. *)
LEMMA TokenKept ==
    ASSUME UNCHANGED <<ipc, cmds>>, HandlerToken PROVE HandlerToken'
BY AskedKept, SentKept DEF HandlerToken

(* Controls that come alive again only help. *)
LEMMA NetTokenKept ==
    ASSUME UNCHANGED <<pending, worker, events, net>>, cancelled' \subseteq cancelled,
           NetToken, ~Doomed
    PROVE  NetToken' /\ ~Doomed'
<1>1. LiveEvent => LiveEvent'
    BY LiveEventKept
<1>2. \A g : Live(g) => Live(g)'
    BY DEF Live
<1> QED BY <1>1, <1>2 DEF NetToken, Doomed

(* A handler that puts the row in a slot starts it. *)
LEMMA ServeHandler ==
    ASSUME ControlInv, Placed, ServeInv, NEW h \in Handlers,
           \/ pause_transfer(h) \/ stop_transfer(h)
           \/ cancel_transfer(h) \/ SendCancel(h)
           \/ \E slot \in BOOLEAN : resume_transfer(h, slot)
           \/ Promoted(h) \/ start_promoted_downloads(h)
           \/ start_queued_discovery(h) \/ Send(h)
    PROVE  ServeInv'
<1> USE DEF taskVars, workerVars, rowVars, controlVars
<1>0. Channels
    BY DEF ControlInv
<1>1. ASSUME NEW pc \in {"promoted", "start"}, NEW g, Become(h, pc, g) PROVE ServeInv'
    BY <1>0, <1>1, AskedBecome DEF ServeInv, HandlerToken
<1>2. CASE pause_transfer(h) \/ stop_transfer(h) \/ cancel_transfer(h)
    BY <1>2 DEF pause_transfer, stop_transfer, cancel_transfer, ServeInv, Startable
<1>3. CASE SendCancel(h)
    <2>1. Asked({"promoted", "start"}) => Asked({"promoted", "start"})'
        BY <1>0, <1>3, AskedBecome DEF SendCancel
    <2>2. Cmd("stop", 0) \in [kind : Commands, gen : Nat]
        BY DEF Cmd, Commands
    <2>3. Sent({"start"}) => Sent({"start"})'
        BY <1>0, <1>3, <2>2, SentAppend, SentKept DEF SendCancel
    <2>4. /\ overtaken' = "no" => overtaken = "no"
          /\ UNCHANGED <<row, place, cancelled, pending, worker, events, net>>
        BY <1>3 DEF SendCancel, Note
    <2>5. Startable' => Startable
        BY <2>4 DEF Startable
    <2> QED BY <2>1, <2>3, <2>4, <2>5, NetTokenKept, ServeFrame DEF HandlerToken
<1>4. ASSUME NEW slot \in BOOLEAN, resume_transfer(h, slot) PROVE ServeInv'
    <2>1. CASE place = "active" /\ row # "paused"
        <3>1. /\ UNCHANGED <<row, place, ipc, cmds, overtaken, pending, worker, events, net>>
              /\ cancelled' \subseteq cancelled
            BY <1>4, <2>1 DEF resume_transfer, Uncancel
        <3>2. Startable' => Startable
            BY <3>1 DEF Startable
        <3> QED BY <3>1, <3>2, TokenKept, NetTokenKept, ServeFrame
    <2>2. CASE ~(place = "active" /\ row # "paused") /\ slot
        BY <1>1, <1>4, <2>2 DEF resume_transfer
    <2>3. CASE ~(place = "active" /\ row # "paused") /\ ~slot
        BY <1>4, <2>3 DEF resume_transfer, ServeInv, Startable
    <2> QED BY <2>1, <2>2, <2>3
<1>5. CASE Promoted(h)
    BY <1>1, <1>5 DEF Promoted
<1>6. CASE start_promoted_downloads(h)
    <2>1. CASE Startable
        BY <1>1, <1>6, <2>1 DEF start_promoted_downloads
    <2>2. CASE ~Startable
        BY <1>6, <2>2 DEF start_promoted_downloads, ServeInv, Startable
    <2> QED BY <2>1, <2>2
<1>7. CASE start_queued_discovery(h)
    <2>1. CASE place = "queue"
        BY <1>7, <2>1 DEF start_queued_discovery, ServeInv, Startable
    <2>2. CASE place # "queue"
        <3>1. /\ UNCHANGED <<row, place, cmds, cancelled, overtaken, pending, worker, events, net>>
              /\ ipc[h].pc = "rediscover" /\ Become(h, "idle", 0)
            BY <1>7, <2>2 DEF start_queued_discovery
        <3>2. Startable' => Startable
            BY <3>1 DEF Startable
        <3>3. Asked({"promoted", "start"}) => Asked({"promoted", "start"})'
            BY <1>0, <3>1, AskedBecome
        <3>4. HandlerToken => HandlerToken'
            BY <3>1, <3>3, SentKept DEF HandlerToken
        <3> QED BY <3>1, <3>2, <3>4, NetTokenKept, ServeFrame
    <2> QED BY <2>1, <2>2
<1>8. CASE Send(h)
    <2>1. /\ UNCHANGED <<row, place, cancelled, overtaken, pending, worker, events, net>>
          /\ ipc[h].pc \in Commands /\ Become(h, "idle", 0)
          /\ cmds' = Append(cmds, Cmd(ipc[h].pc, ipc[h].gen))
        BY <1>8 DEF Send
    <2>2. /\ Cmd(ipc[h].pc, ipc[h].gen) \in [kind : Commands, gen : Nat]
          /\ Cmd(ipc[h].pc, ipc[h].gen).kind = ipc[h].pc
        BY <1>0, <2>1 DEF Cmd, Channels
    <2>3. CASE ipc[h].pc = "start"
        BY <1>0, <2>1, <2>2, <2>3, SentAppend DEF ServeInv, HandlerToken
    <2>4. CASE ipc[h].pc # "start"
        <3>1. Asked({"promoted", "start"}) => Asked({"promoted", "start"})'
            BY <1>0, <2>1, <2>4, AskedBecome DEF Commands
        <3>2. Sent({"start"}) => Sent({"start"})'
            BY <1>0, <2>1, <2>2, SentAppend
        <3>3. Startable' => Startable
            BY <2>1 DEF Startable
        <3> QED BY <2>1, <3>1, <3>2, <3>3, NetTokenKept, ServeFrame DEF HandlerToken
    <2> QED BY <2>3, <2>4
<1> QED BY <1>2, <1>3, <1>4, <1>5, <1>6, <1>7, <1>8

(* A command started in time leaves a pending entry or a worker. *)
LEMMA ServeCommand ==
    ASSUME ControlInv, Placed, Discoveries, ServeInv,
           \/ PauseDownload \/ RepairActive \/ CancelDownload \/ StartDiscovery
           \/ \E g \in Gens : StartSearch(g) \/ StartRefused(g) \/ StartWorker(g)
           \/ SetSearching \/ RegisterWorker \/ Spawn
    PROVE  ServeInv'
<1> USE DEF taskVars, workerVars, rowVars, controlVars
<1>0. Numbers /\ NetTyped /\ Channels
    BY DEF ControlInv
<1>1. CASE PauseDownload \/ CancelDownload
    <2>1. overtaken' = "no" => row \in {"paused", "stopped", "gone"}
        BY <1>1 DEF PauseDownload, CancelDownload, Note
    <2>2. row' = row
        BY <1>1 DEF PauseDownload, CancelDownload
    <2> QED BY <2>1, <2>2 DEF ServeInv, Startable
<1>2. CASE RepairActive
    <2>1. /\ net.pc = "repair" /\ net'.pc = "idle"
          /\ UNCHANGED <<place, cancelled, ipc, cmds, pending, worker, events>>
          /\ row' = IF row = "active" THEN "paused" ELSE row
        BY <1>2 DEF RepairActive, GoTo, At
    <2>2. overtaken' = "no" => overtaken = "no"
        BY <1>2 DEF RepairActive, Note
    <2>3. Startable' => Startable
        BY <2>1 DEF Startable
    <2>4. NetToken => NetToken' /\ ~Doomed'
        BY <2>1, LiveEventKept DEF NetToken, Doomed, Live, Busy, Starting
    <2> QED BY <2>1, <2>2, <2>3, <2>4, TokenKept, ServeFrame
<1>3. ASSUME Live(pending)', net'.pc \notin Starting PROVE ServeInv'
    BY <1>3 DEF ServeInv, NetToken, Doomed
<1>4. ASSUME Live(net.gen)', net'.gen = net.gen, net'.pc \in Starting PROVE ServeInv'
    BY <1>4 DEF ServeInv, NetToken, Doomed, Live
<1>5. CASE StartDiscovery
    <2>1. /\ Take("discover") /\ net' = Idle /\ pending' = Head(cmds).gen
          /\ UNCHANGED cancelled
        BY <1>5 DEF StartDiscovery, Take
    <2>2. overtaken' = "no" => pending' \notin cancelled
        BY <1>5 DEF StartDiscovery, Note
    <2>3. pending' # 0
        BY <1>0, <2>1, SMT DEF Take, Channels, Discoveries
    <2>4. net'.pc \notin Starting
        BY <2>1 DEF Idle, At, Starting
    <2> QED BY <1>3, <2>1, <2>2, <2>3, <2>4 DEF Live, ServeInv
<1>6. ASSUME NEW g \in Gens, StartSearch(g) \/ StartRefused(g) \/ StartWorker(g)
      PROVE  ServeInv'
    <2> SUFFICES ASSUME overtaken' = "no" PROVE ServeInv'
        BY DEF ServeInv
    <2>1. g \notin cancelled /\ g # 0
        BY <1>6, SMT DEF StartSearch, StartRefused, StartWorker, Note, Gens
    <2>2. CASE StartSearch(g)
        <3>1. Live(pending)' /\ net'.pc = "idle"
            BY <2>1, <2>2 DEF StartSearch, GoTo, At, Live
        <3> QED BY <1>3, <3>1 DEF Starting
    <2>3. CASE StartRefused(g)
        <3>1. net'.pc = "searching"
            BY <2>1, <2>3, SMT DEF StartRefused, GoTo, At
        <3> QED BY <3>1 DEF ServeInv, NetToken, Doomed, Busy, Starting
    <2>4. CASE StartWorker(g)
        <3>1. net' = At("register", g) /\ g \notin cancelled'
            BY <2>1, <2>4 DEF StartWorker, GoTo
        <3> QED BY <2>1, <3>1 DEF ServeInv, NetToken, Doomed, Starting, Live, At
    <2> QED BY <1>6, <2>2, <2>3, <2>4
<1>7. CASE SetSearching
    <2> SUFFICES ASSUME overtaken' = "no" PROVE ServeInv'
        BY DEF ServeInv
    <2>1. net.gen \notin cancelled /\ net.gen # 0
        BY <1>0, <1>7 DEF SetSearching, Note, NetTyped, Working
    <2>2. pending' = net.gen /\ net'.pc = "idle" /\ net.gen \notin cancelled'
        BY <1>7, <2>1 DEF SetSearching, GoTo, At, install_control
    <2> QED BY <1>3, <2>1, <2>2 DEF Live, Starting
<1>8. CASE RegisterWorker
    <2>1. /\ net.pc = "register" /\ net' = At("spawn", net.gen)
          /\ cancelled' = cancelled \cup ({registered} \ {0, net.gen})
          /\ UNCHANGED <<row, place, ipc, cmds, overtaken>>
        BY <1>8 DEF RegisterWorker, GoTo
    <2>2. CASE Live(net.gen)
        <3>1. Live(net.gen)' /\ net'.gen = net.gen /\ net'.pc \in Starting
            BY <2>1, <2>2 DEF Live, At, Starting
        <3> QED BY <1>4, <3>1
    <2>3. CASE Doomed
        <3>1. Startable' => Startable
            BY <2>1 DEF Startable
        <3> QED BY <2>1, <2>3, <3>1, TokenKept DEF ServeInv
    <2> QED BY <2>1, <2>2, <2>3 DEF Doomed, Starting
<1>9. CASE Spawn
    <2>1. /\ net.pc = "spawn" /\ net'.pc = "idle" /\ worker' = net.gen
          /\ UNCHANGED <<row, place, ipc, cmds, overtaken, cancelled>>
        BY <1>9 DEF Spawn, GoTo, At
    <2>2. CASE Live(net.gen)
        BY <2>1, <2>2 DEF ServeInv, NetToken, Doomed, Live, Starting
    <2>3. CASE Doomed
        <3>1. Startable' => Startable
            BY <2>1 DEF Startable
        <3> QED BY <2>1, <2>3, <3>1, TokenKept DEF ServeInv
    <2> QED BY <2>1, <2>2, <2>3 DEF Doomed, Starting
<1> QED BY <1>1, <1>2, <1>5, <1>6, <1>7, <1>8, <1>9

(* A pending entry becomes a worker or stays. *)
LEMMA ServePending ==
    ASSUME ControlInv, Placed, ServeInv,
           \/ StartPending \/ StartRechecked \/ RetryPending \/ RetryStart
           \/ RetryDrop \/ RetryFail \/ NetPromoted \/ reregister_transfer_control
    PROVE  ServeInv'
<1> USE DEF taskVars, workerVars, rowVars, controlVars
<1>1. ASSUME net'.pc \in Busy PROVE ServeInv'
    BY <1>1 DEF ServeInv, NetToken, Doomed, Busy, Starting
<1>2. ASSUME Live(net'.gen), UNCHANGED cancelled, net'.pc \in Starting PROVE ServeInv'
    BY <1>2 DEF ServeInv, NetToken, Doomed, Live
<1>3. CASE StartPending
    BY <1>2, <1>3 DEF StartPending, GoTo, At, Starting
<1>4. CASE StartRechecked
    <2>1. CASE Live(net.gen) /\ Startable
        BY <1>2, <1>4, <2>1, SMT DEF StartRechecked, GoTo, At, Starting
    <2>2. CASE ~(Live(net.gen) /\ Startable)
        <3>1. UNCHANGED <<row, place, ipc, cmds, overtaken>>
            BY <1>4, <2>2 DEF StartRechecked
        <3>2. Startable' => Startable /\ Doomed
            BY <1>4, <2>2, <3>1 DEF Startable, Doomed, StartRechecked, Starting
        <3> QED BY <3>1, <3>2, TokenKept DEF ServeInv
    <2> QED BY <2>1, <2>2
<1>5. CASE RetryPending \/ NetPromoted \/ reregister_transfer_control
    BY <1>1, <1>5, SMT DEF RetryPending, NetPromoted, reregister_transfer_control,
                      GoTo, At, Busy
<1>6. CASE RetryStart
    <2>1. overtaken' = "no" => Live(net.gen)
        BY <1>6 DEF RetryStart, Note
    <2>2. net' = At("spawn", net.gen) /\ UNCHANGED cancelled
        BY <1>6 DEF RetryStart, GoTo
    <2> QED BY <1>2, <2>1, <2>2 DEF At, Starting, ServeInv
<1>7. CASE RetryDrop
    <2>1. /\ net = Idle /\ pending \in cancelled /\ pending' = 0
          /\ UNCHANGED <<row, place, ipc, cmds, cancelled, worker, events, overtaken>>
          /\ net'.pc \in {"idle", "fail"}
        BY <1>7 DEF RetryDrop, GoTo, At
    <2>2. CASE net'.pc = "fail"
        BY <1>1, <2>2 DEF Busy
    <2>3. CASE net'.pc = "idle"
        <3>1. Startable' => Startable
            BY <2>1 DEF Startable
        <3>2. NetToken => NetToken' /\ ~Doomed'
            BY <2>1, <2>3, LiveEventKept DEF NetToken, Doomed, Live, Busy, Starting, Idle, At
        <3> QED BY <2>1, <3>1, <3>2, TokenKept, ServeFrame
    <2> QED BY <2>1, <2>2, <2>3
<1>8. CASE RetryFail
    BY <1>8 DEF RetryFail, ServeInv, Startable, Listed
<1> QED BY <1>3, <1>4, <1>5, <1>6, <1>7, <1>8

(* A worker that ends leaves a report, and the report a pending entry. *)
LEMMA ServeEvent ==
    ASSUME ControlInv, Placed, Reports, ServeInv,
           \/ \E kind \in EventKinds \ {"cancel"} : Report(kind)
           \/ \E g \in Gens : Unwind(g)
           \/ SourcesUpdate \/ Completed \/ Failed \/ Requeue
    PROVE  ServeInv'
<1> USE DEF taskVars, workerVars, rowVars, controlVars
<1>0. Numbers /\ Replaced /\ worker \in Nat
    BY SMT DEF ControlInv, Placed, Numbers
<1>1. ASSUME UNCHANGED <<pending, net, cancelled>>,
             Live(worker) \/ LiveEvent => Live(worker)' \/ LiveEvent',
             NetToken, ~Doomed
      PROVE  NetToken' /\ ~Doomed'
    BY <1>1 DEF NetToken, Doomed, Live
<1>2. ASSUME NEW kind \in EventKinds \ {"cancel"}, Report(kind) PROVE ServeInv'
    <2>1. /\ UNCHANGED <<row, place, cancelled, ipc, cmds, net, pending, overtaken>>
          /\ Live(worker) /\ events' = Append(events, Event(kind, worker))
          /\ kind = "progress" => worker' = worker
        BY <1>2 DEF Report
    <2>2. Startable' => Startable
        BY <2>1 DEF Startable
    <2>3. Live(worker)' \/ LiveEvent'
        <3>1. CASE kind = "progress"
            BY <2>1, <3>1 DEF Live
        <3>2. CASE kind \in {"error", "completed"}
            BY <1>0, <2>1, <3>2, LiveEventAppend
        <3> QED BY <3>1, <3>2 DEF EventKinds
    <2> QED BY <1>1, <2>1, <2>2, <2>3, TokenKept, ServeFrame
<1>3. ASSUME NEW g \in Gens, Unwind(g) PROVE ServeInv'
    <2>1. /\ UNCHANGED <<row, place, cancelled, ipc, cmds, net, pending, overtaken>>
          /\ \/ UNCHANGED <<worker, events>>
             \/ worker \in cancelled /\ events' = Append(events, Event("cancel", worker))
        BY <1>3 DEF Unwind
    <2>2. Startable' => Startable
        BY <2>1 DEF Startable
    <2>3. CASE UNCHANGED <<worker, events>>
        BY <2>1, <2>2, <2>3, TokenKept, NetTokenKept, ServeFrame
    <2>4. CASE worker \in cancelled /\ events' = Append(events, Event("cancel", worker))
        <3>1. "cancel" \in EventKinds
            BY DEF EventKinds
        <3>2. LiveEvent => LiveEvent'
            BY <1>0, <2>1, <2>4, <3>1, LiveEventAppend
        <3>3. ~Live(worker)
            BY <2>4 DEF Live
        <3> QED BY <1>1, <2>1, <2>2, <3>2, <3>3, TokenKept, ServeFrame
    <2> QED BY <2>1, <2>3, <2>4
<1>4. CASE SourcesUpdate
    <2>1. /\ UNCHANGED <<place, cancelled, ipc, cmds, net, pending, worker, overtaken>>
          /\ events # <<>> /\ Head(events).kind = "progress" /\ events' = Tail(events)
        BY <1>4 DEF SourcesUpdate, TakeEvent
    <2>2. Startable' => Startable
        BY <1>4 DEF SourcesUpdate, Startable
    <2>3. LiveEvent => LiveEvent'
        BY <2>1, LiveEventTake
    <2> QED BY <1>1, <2>1, <2>2, <2>3, TokenKept, ServeFrame DEF Live
<1>5. CASE Completed
    BY <1>5 DEF Completed, ServeInv, Startable, Listed
<1>6. CASE Failed
    <2>1. /\ UNCHANGED <<row, place, registered, cancelled, ipc, cmds, pending, overtaken>>
          /\ net = Idle /\ events # <<>> /\ events' = Tail(events)
          /\ Head(events).kind \in {"error", "cancel"}
        BY <1>6 DEF Failed, TakeEvent
    <2>2. Startable' => Startable
        BY <2>1 DEF Startable
    <2>3. CASE superseded(Head(events))
        <3>1. UNCHANGED <<worker, net>>
            BY <1>6, <2>3 DEF Failed
        <3>2. Head(events).gen \in 0..made
            BY <2>1, SMT DEF Reports
        <3>3. Head(events).kind = "cancel" \/ ~Live(Head(events).gen)
            BY <1>0, <2>1, <2>3, <3>2, SMT DEF superseded, Replaced, Live, Numbers
        <3>4. LiveEvent => LiveEvent'
            BY <2>1, <3>3, LiveEventTake
        <3> QED BY <1>1, <2>1, <2>2, <3>1, <3>4, TokenKept, ServeFrame DEF Live
    <2>4. CASE ~superseded(Head(events)) /\ net'.pc = "requeue"
        BY <2>4 DEF ServeInv, NetToken, Doomed, Busy, Starting
    <2>5. CASE ~superseded(Head(events)) /\ net'.pc # "requeue" /\ Startable
        <3>1. Head(events).kind = "cancel" \/ registered \in cancelled
            BY <1>6, <2>5, SMT DEF Failed, GoTo, At, Startable, Held, Listed
        <3>2. ~Live(registered)
            BY <2>5, <3>1 DEF superseded, Live
        <3>3. ~NetToken
            BY <2>1, <3>2, NoNetToken
        <3> QED BY <2>1, <2>2, <3>3, TokenKept DEF ServeInv
    <2> QED BY <2>2, <2>3, <2>4, <2>5 DEF ServeInv
<1>7. CASE Requeue
    <2>1. CASE row \in Held \cup {"completed", "failed"}
        BY <1>7, <2>1 DEF Requeue, ServeInv, Startable, Held
    <2>2. CASE row \notin Held \cup {"completed", "failed"}
        <3>1. pending' = made + 1 /\ net'.pc = "idle" /\ install_control(made + 1)
            BY <1>7, <2>2 DEF Requeue, MakeControl, GoTo, At
        <3>2. made + 1 \notin cancelled /\ made + 1 # 0
            BY <1>0, SMT DEF Numbers
        <3>3. made + 1 \notin cancelled'
            BY <3>1, <3>2 DEF install_control
        <3> QED BY <3>1, <3>2, <3>3 DEF ServeInv, NetToken, Doomed, Live, Starting
    <2> QED BY <2>1, <2>2
<1> QED BY <1>2, <1>3, <1>4, <1>5, <1>6, <1>7

(* A row added in a slot has its start in the channel. *)
LEMMA ServeInit == Init => ServeInv
<1> SUFFICES ASSUME Init, Startable PROVE Sent({"start"})
    BY DEF ServeInv, HandlerToken
<1>1. cmds = <<Cmd("start", 1)>>
    BY DEF Init, Startable
<1>2. Len(cmds) = 1 /\ cmds[1].kind = "start"
    BY <1>1 DEF Cmd
<1> QED BY <1>2, SMT DEF Sent

(* Every step leaves somebody to see to a row in a slot. *)
LEMMA ServeStep ==
    ControlInv /\ Placed /\ Reports /\ Discoveries /\ ServeInv /\ [Next]_vars => ServeInv'
<1> SUFFICES ASSUME ControlInv, Placed, Reports, Discoveries, ServeInv, [Next]_vars
             PROVE  ServeInv'
    OBVIOUS
<1>1. CASE UNCHANGED vars
    <2>1. /\ UNCHANGED <<ipc, cmds, pending, worker, events, net, overtaken>>
          /\ cancelled' \subseteq cancelled
          /\ Startable' => Startable
        BY <1>1 DEF vars, Startable
    <2> QED BY <2>1, TokenKept, NetTokenKept, ServeFrame
<1>2. CASE Next
    BY <1>2, ServeHandler, ServeCommand, ServePending, ServeEvent DEF Next
<1> QED BY <1>1, <1>2

(* What ServeInv means once all is at rest. *)
LEMMA ServeServed == ServeInv => WaitingRowIsServed
<1> SUFFICES ASSUME ServeInv, AtRest, Startable, overtaken = "no" PROVE Served
    BY DEF WaitingRowIsServed
<1>1. ~HandlerToken /\ ~LiveEvent
    BY SMT DEF HandlerToken, Asked, Sent, LiveEvent, AtRest, IdleHandler, Idle, At
<1>2. net.pc \notin Busy \cup Starting
    BY DEF AtRest, Idle, At, Busy, Starting
<1> QED BY <1>1, <1>2 DEF ServeInv, NetToken, Served, Live

(* A row in a slot is never forgotten: of the start a handler promised,    *)
(* the search, the worker and the report of its end there is always one    *)
(* left that sees to it, however the handlers and the network task         *)
(* interleave, unless a command or a check came too late for the row.      *)
THEOREM SlotsAreServed == Spec => []WaitingRowIsServed
<1> DEFINE Inv == ControlInv /\ Placed /\ Reports /\ Discoveries /\ ServeInv
<1>1. Init => Inv
    BY ControlInit, PlacedInit, ReportsInit, DiscoveriesInit, ServeInit
<1>2. Inv /\ [Next]_vars => Inv'
    BY ControlStep, PlacedStep, ReportsStep, DiscoveriesStep, ServeStep
<1>3. Inv => WaitingRowIsServed
    BY ServeServed
<1> QED BY <1>1, <1>2, <1>3, PTL DEF Spec

====
