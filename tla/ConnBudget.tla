----------------------------- MODULE ConnBudget -----------------------------
(* The machine-wide budget of client connections (GlobalConnLimiter) and   *)
(* the "New Connections / 5s" window.  A download dial waits for the       *)
(* window, is counted in in_use by compare-and-swap, and takes a permit of *)
(* a semaphore; the upload listener is counted in in_use alone; the user   *)
(* may resize the budget at any time.  Each atomic operation is a step of  *)
(* its own.  Deadlines and timers are steps that may be taken at any time. *)
EXTENDS Integers, FiniteSets

CONSTANTS
    Dials,       \* source workers that may dial
    Acceptors,   \* tasks of the upload listener that admit connections
    Maxes,       \* values the user may give max_connections
    Budgets,     \* values of NEW_CONNS_PER_FIVE, 0 for no limit
    Headrooms,   \* headroom of the listener's calls
    Priorities,  \* priority ordinals of downloads
    MaxSessions, \* bound on the listener's connections open at one time
    MaxCount     \* bound on connections counted in one window

ASSUME ConnAssumption ==
    /\ IsFiniteSet(Dials) /\ Dials \cap Acceptors = {}
    /\ Maxes \subseteq Nat /\ Budgets \subseteq Nat /\ Headrooms \subseteq Nat

VARIABLES
    desired_max,  \* the budget the user asked for
    current_max,  \* permits the semaphore was given, less those taken back
    resize,       \* where set_max is: whether it runs, permits taken back
    in_use,       \* connections counted
    free,         \* permits free in the semaphore
    dial,         \* dial[d]: where d is, and the floor and in_use it read
    woken,        \* dials that were notified since they enrolled
    late,         \* dials whose listener_floor_deadline has passed
    accept,       \* accept[a]: where a is, the ceiling and headroom it uses
    sessions,     \* connections the listener holds
    closing,      \* those not counted any more, whose waiters are not told yet
    budget,       \* NEW_CONNS_PER_FIVE
    count,        \* connections the window has counted
    dialled,      \* history: those of them that are our own dials
    outdated      \* history: tasks that act on a budget since replaced

resizeVars == <<desired_max, current_max, resize>>
dialVars == <<dial, woken, late>>
listenerVars == <<accept, sessions, closing>>
windowVars == <<budget, count, dialled>>
vars == <<resizeVars, in_use, free, dialVars, listenerVars, windowVars, outdated>>

-----------------------------------------------------------------------------
(* Where a dial is: "window" and "reserve" sleep; "top", "load" and "cas"  *)
(* are in the loop; "parked" waits to be notified; "permit" is counted and *)
(* waits for the semaphore; "slot" has its permit; "connected" is past the *)
(* window too; "notify" and "return" give the permit back, for good or, as *)
(* the window filled up, to try again.                                     *)
At(pc, floor, seen) == [pc |-> pc, floor |-> floor, seen |-> seen]
Idle == At("idle", 0, 0)
DialsAt(pcs) == {d \in Dials : dial[d].pc \in pcs}
Counted == DialsAt({"permit", "slot", "connected"})
Holding == DialsAt({"slot", "connected", "notify", "return"})

NoResize == [busy |-> FALSE, removed |-> 0]

Init ==
    /\ desired_max \in Maxes
    /\ current_max = desired_max
    /\ resize = NoResize
    /\ in_use = 0
    /\ free = desired_max
    /\ dial = [d \in Dials |-> Idle]
    /\ woken = {}
    /\ late = {}
    /\ accept = [a \in Acceptors |-> Idle]
    /\ sessions = 0
    /\ closing = 0
    /\ budget \in Budgets
    /\ count = 0
    /\ dialled = 0
    /\ outdated = {}

Least(m, n) == IF m < n THEN m ELSE n
saturating_sub(m, n) == IF m > n THEN m - n ELSE 0

listener_reserve(max) == Least(max \div 4, saturating_sub(max, 1))

(* What a dial of this priority leaves to those above it. *)
reserve(max, priority_ord) ==
    CASE priority_ord \in {4, 5} -> 0
      [] priority_ord \in {2, 3} -> Least(max \div 5, saturating_sub(max, 1))
      [] OTHER -> Least((max * 2) \div 5, saturating_sub(max, 1))

(* It reaches those that are enrolled now. *)
notify_waiters == woken' = DialsAt({"load", "cas", "parked"})

Goto(d, to) == dial' = [dial EXCEPT ![d] = to]

-----------------------------------------------------------------------------
(* set_max, under resize_lock: the target is stored first, ... *)
StoreDesired(max) ==
    /\ ~resize.busy
    /\ desired_max' = max
    /\ resize' = [busy |-> TRUE, removed |-> 0]
    /\ outdated' = outdated \cup DialsAt({"load", "cas"})
                            \cup {a \in Acceptors : accept[a].pc = "cas"}
    /\ UNCHANGED <<current_max, in_use, free, dialVars, listenerVars, windowVars>>

(* Mutant: one permit too many is taken back. *)
ForgetOneMore ==
    /\ resize.busy /\ desired_max < current_max
    /\ free > 0 /\ resize.removed <= current_max - desired_max
    /\ free' = free - 1
    /\ resize' = [resize EXCEPT !.removed = @ + 1]
    /\ UNCHANGED <<desired_max, current_max, in_use, dialVars, listenerVars,
                   windowVars, outdated>>

(* ... then, one try_acquire at a time, the free permits are taken back    *)
(* that the new target does not need, ...                                  *)
Forget ==
    /\ resize.busy /\ desired_max < current_max
    /\ free > 0 /\ resize.removed < current_max - desired_max
    /\ free' = free - 1
    /\ resize' = [resize EXCEPT !.removed = @ + 1]
    /\ UNCHANGED <<desired_max, current_max, in_use, dialVars, listenerVars,
                   windowVars, outdated>>

(* ... or permits are added.  What could not be taken back stays counted   *)
(* in current_max.                                                         *)
FinishResize ==
    /\ resize.busy
    /\ IF desired_max > current_max
       THEN /\ free' = free + (desired_max - current_max)
            /\ current_max' = desired_max
       ELSE /\ free = 0 \/ resize.removed >= current_max - desired_max
            /\ current_max' = current_max - resize.removed
            /\ UNCHANGED free
    /\ resize' = NoResize
    /\ notify_waiters
    /\ UNCHANGED <<desired_max, in_use, dial, late, listenerVars, windowVars, outdated>>

-----------------------------------------------------------------------------
(* try_acquire_listener_conn: the ceiling is read once; the compare-and-   *)
(* swap loop ends as in_use reaches it or is raised by one.                *)
ReadCeiling(a, headroom) ==
    /\ accept[a].pc = "idle"
    /\ sessions < MaxSessions
    /\ accept' = [accept EXCEPT ![a] = At("cas", desired_max + headroom, headroom)]
    /\ UNCHANGED <<resizeVars, in_use, free, dialVars, sessions, closing, windowVars,
                   outdated>>

Admit(a) ==
    /\ accept[a].pc = "cas"
    /\ IF in_use >= accept[a].floor
       THEN /\ accept' = [accept EXCEPT ![a] = Idle]
            /\ UNCHANGED <<in_use, sessions>>
       ELSE /\ accept' = [accept EXCEPT ![a] = At("admitted", 0, 0)]
            /\ in_use' = in_use + 1
            /\ sessions' = sessions + 1
    /\ outdated' = outdated \ {a}
    /\ UNCHANGED <<resizeVars, free, dialVars, closing, windowVars>>

(* An accepted connection counts toward the window and is never refused by *)
(* it (note_inbound_connection); one over a relay, by callback or of a     *)
(* push-grant is not counted.                                              *)
Accepted(a, noted) ==
    /\ accept[a].pc = "admitted"
    /\ noted => count < MaxCount
    /\ accept' = [accept EXCEPT ![a] = Idle]
    /\ count' = IF noted THEN count + 1 ELSE count
    /\ UNCHANGED <<resizeVars, in_use, free, dialVars, sessions, closing, budget,
                   dialled, outdated>>

(* ListenerConnPermit::drop: the count is lowered, then waiters are told. *)
CloseSession ==
    /\ sessions > closing
    /\ in_use' = in_use - 1
    /\ closing' = closing + 1
    /\ UNCHANGED <<resizeVars, free, dialVars, accept, sessions, windowVars, outdated>>

(* Mutant: the listener's permit tells no one that it is free. *)
SessionClosedSilently ==
    /\ closing > 0
    /\ closing' = closing - 1
    /\ sessions' = sessions - 1
    /\ UNCHANGED <<resizeVars, in_use, free, dialVars, accept, windowVars, outdated>>

SessionClosed ==
    /\ closing > 0
    /\ closing' = closing - 1
    /\ sessions' = sessions - 1
    /\ notify_waiters
    /\ UNCHANGED <<resizeVars, in_use, free, dial, late, accept, windowVars, outdated>>

-----------------------------------------------------------------------------
(* acquire_dial_slot: a full window is waited out without a slot, and      *)
(* looked at again; then the priority reserve is waited for, 30 s at most. *)
WindowFull == budget > 0 /\ count >= budget

Scarce(priority_ord) ==
    /\ reserve(desired_max, priority_ord) > 0
    /\ saturating_sub(desired_max, in_use) <= reserve(desired_max, priority_ord)

StartDial(d, priority_ord) ==
    /\ dial[d].pc \in {"idle", "window"}
    /\ Goto(d, At(CASE WindowFull -> "window"
                    [] ~WindowFull /\ Scarce(priority_ord) -> "reserve"
                    [] OTHER -> "top", 0, 0))
    /\ UNCHANGED <<resizeVars, in_use, free, woken, late, listenerVars, windowVars,
                   outdated>>

LeaveReserve(d) ==
    /\ dial[d].pc = "reserve"
    /\ Goto(d, At("top", 0, 0))
    /\ UNCHANGED <<resizeVars, in_use, free, woken, late, listenerVars, windowVars,
                   outdated>>

(* listener_floor_deadline comes due. *)
FloorDeadline(d) ==
    /\ dial[d].pc \in {"top", "parked"}
    /\ late' = late \cup {d}
    /\ UNCHANGED <<resizeVars, in_use, free, dial, woken, listenerVars, windowVars,
                   outdated>>

(* Until then the loop leaves the listener's reserve alone. *)
Floor(d) == IF d \in late THEN desired_max
            ELSE saturating_sub(desired_max, listener_reserve(desired_max))

(* acquire_global_dl_conn, the head of the loop: the dial enrolls with     *)
(* notify, then reads the budget, ...                                      *)
Enroll(d) ==
    /\ dial[d].pc = "top"
    /\ Goto(d, At("load", Floor(d), 0))
    /\ UNCHANGED <<resizeVars, in_use, free, woken, late, listenerVars, windowVars,
                   outdated>>

(* ... and in_use. *)
Load(d) ==
    /\ dial[d].pc = "load"
    /\ IF in_use < dial[d].floor
       THEN Goto(d, At("cas", dial[d].floor, in_use)) /\ UNCHANGED outdated
       ELSE Goto(d, At("parked", dial[d].floor, 0)) /\ outdated' = outdated \ {d}
    /\ UNCHANGED <<resizeVars, in_use, free, woken, late, listenerVars, windowVars>>

(* Mutant: in_use is raised whatever it is by now. *)
FetchAdd(d) ==
    /\ dial[d].pc = "cas"
    /\ in_use' = in_use + 1
    /\ Goto(d, At("permit", 0, 0)) /\ late' = late \ {d}
    /\ woken' = woken \ {d} /\ outdated' = outdated \ {d}
    /\ UNCHANGED <<resizeVars, free, listenerVars, windowVars>>

compare_exchange(d) ==
    /\ dial[d].pc = "cas"
    /\ IF in_use = dial[d].seen
       THEN in_use' = in_use + 1 /\ Goto(d, At("permit", 0, 0)) /\ late' = late \ {d}
       ELSE Goto(d, At("top", 0, 0)) /\ UNCHANGED <<in_use, late>>
    /\ woken' = woken \ {d} /\ outdated' = outdated \ {d}
    /\ UNCHANGED <<resizeVars, free, listenerVars, windowVars>>

(* Notified, or LISTENER_FLOOR_RECHECK has passed. *)
Unpark(d) ==
    /\ dial[d].pc = "parked"
    /\ Goto(d, At("top", 0, 0))
    /\ woken' = woken \ {d}
    /\ UNCHANGED <<resizeVars, in_use, free, late, listenerVars, windowVars,
                   outdated>>

acquire_owned(d) ==
    /\ dial[d].pc = "permit"
    /\ free > 0
    /\ free' = free - 1
    /\ Goto(d, At("slot", 0, 0))
    /\ UNCHANGED <<resizeVars, in_use, woken, late, listenerVars, windowVars, outdated>>

(* Mutant: the window is not asked again once there is a slot. *)
AdmitUnasked(d) ==
    /\ dial[d].pc = "slot" /\ count < MaxCount
    /\ count' = count + 1 /\ dialled' = dialled + 1
    /\ Goto(d, At("connected", 0, 0))
    /\ UNCHANGED <<resizeVars, in_use, free, woken, late, listenerVars, budget, outdated>>

(* try_admit_outbound_dial: the dial takes its place in the window, or, as *)
(* another took the last one, drops its permit and waits for the next.     *)
try_admit_outbound_dial(d) ==
    /\ dial[d].pc = "slot"
    /\ IF WindowFull
       THEN in_use' = in_use - 1 /\ Goto(d, At("notify", 1, 0)) /\ UNCHANGED windowVars
       ELSE /\ count < MaxCount
            /\ count' = count + 1 /\ dialled' = dialled + 1
            /\ Goto(d, At("connected", 0, 0))
            /\ UNCHANGED <<in_use, budget>>
    /\ UNCHANGED <<resizeVars, free, woken, late, listenerVars, outdated>>

(* GlobalConnPermit::drop, as the connection ends or the source detaches:  *)
(* the count is lowered, waiters are told, and only then the permit goes   *)
(* back to the semaphore.                                                  *)
Disconnect(d) ==
    /\ dial[d].pc = "connected"
    /\ in_use' = in_use - 1
    /\ Goto(d, At("notify", 0, 0))
    /\ UNCHANGED <<resizeVars, free, woken, late, listenerVars, windowVars, outdated>>

Released(d) ==
    /\ dial[d].pc = "notify"
    /\ notify_waiters
    /\ Goto(d, At("return", dial[d].floor, 0))
    /\ UNCHANGED <<resizeVars, in_use, free, late, listenerVars, windowVars, outdated>>

ReturnPermit(d) ==
    /\ dial[d].pc = "return"
    /\ free' = free + 1
    /\ Goto(d, IF dial[d].floor = 1 THEN At("window", 0, 0) ELSE Idle)
    /\ UNCHANGED <<resizeVars, in_use, woken, late, listenerVars, windowVars, outdated>>

(* Mutant: no guard lowers the count of a dial dropped as it waits. *)
CancelUnguarded(d) ==
    /\ dial[d].pc \in {"window", "reserve", "parked", "permit"}
    /\ Goto(d, Idle)
    /\ UNCHANGED <<resizeVars, in_use, free, woken, late, listenerVars, windowVars,
                   outdated>>

(* The download is cancelled or paused, and the dial dropped where it      *)
(* waits.  A counted one is uncounted by its InUseAcquireGuard.            *)
Cancel(d) ==
    /\ dial[d].pc \in {"window", "reserve", "parked", "permit"}
    /\ Goto(d, IF dial[d].pc = "permit" THEN At("uncounted", 0, 0) ELSE Idle)
    /\ in_use' = IF dial[d].pc = "permit" THEN in_use - 1 ELSE in_use
    /\ woken' = woken \ {d} /\ late' = late \ {d}
    /\ UNCHANGED <<resizeVars, free, listenerVars, windowVars, outdated>>

Uncounted(d) ==
    /\ dial[d].pc = "uncounted"
    /\ notify_waiters
    /\ Goto(d, Idle)
    /\ UNCHANGED <<resizeVars, in_use, free, late, listenerVars, windowVars, outdated>>

(* Five seconds after it opened, the window is over. *)
WindowOver ==
    /\ count > 0
    /\ count' = 0 /\ dialled' = 0
    /\ UNCHANGED <<resizeVars, in_use, free, dialVars, listenerVars, budget, outdated>>

set_new_connections_per_five(b) ==
    /\ budget' = b
    /\ UNCHANGED <<resizeVars, in_use, free, dialVars, listenerVars, count, dialled,
                   outdated>>

Next ==
    \/ \E max \in Maxes : StoreDesired(max)
    \/ Forget \/ FinishResize
    \/ \E a \in Acceptors : \/ \E headroom \in Headrooms : ReadCeiling(a, headroom)
                            \/ Admit(a)
                            \/ \E noted \in BOOLEAN : Accepted(a, noted)
    \/ CloseSession \/ SessionClosed
    \/ \E d \in Dials :
           \/ \E priority_ord \in Priorities : StartDial(d, priority_ord)
           \/ LeaveReserve(d) \/ FloorDeadline(d) \/ Enroll(d) \/ Load(d)
           \/ compare_exchange(d) \/ Unpark(d) \/ acquire_owned(d)
           \/ try_admit_outbound_dial(d) \/ Disconnect(d) \/ Released(d)
           \/ ReturnPermit(d) \/ Cancel(d) \/ Uncounted(d)
    \/ WindowOver
    \/ \E b \in Budgets : set_new_connections_per_five(b)

Spec == Init /\ [][Next]_vars

-----------------------------------------------------------------------------
TypeOK ==
    /\ desired_max \in Maxes /\ current_max \in Nat
    /\ resize \in [busy : BOOLEAN, removed : Nat]
    /\ in_use \in Nat /\ free \in Nat
    /\ dial \in [Dials -> [pc : {"idle", "window", "reserve", "top", "load", "cas",
                                 "parked", "permit", "slot", "connected", "notify",
                                 "return", "uncounted"},
                           floor : Nat, seen : Nat]]
    /\ woken \subseteq Dials /\ late \subseteq Dials
    /\ accept \in [Acceptors -> [pc : {"idle", "cas", "admitted"},
                                 floor : Nat, seen : Nat]]
    /\ sessions \in Nat /\ closing \in Nat
    /\ budget \in Budgets /\ count \in Nat /\ dialled \in Nat
    /\ outdated \subseteq Dials \cup Acceptors

(* No unit of the budget leaks: in_use counts the connections the listener *)
(* holds and the dials that have, or wait for, a permit, whoever is        *)
(* cancelled where (InUseAcquireGuard, the two permits' drop).             *)
NoBudgetLeak == in_use = Cardinality(Counted) + (sessions - closing)

(* A counted dial waits for the semaphore only while desired_max others    *)
(* hold a permit, however the budget was resized: set_max never takes back *)
(* a permit the target needs.                                              *)
PermitsCoverBudget ==
    (\E d \in Dials : dial[d].pc = "permit") /\ free = 0 /\ ~resize.busy =>
        Cardinality(Holding) >= desired_max

(* No step takes the connections past the number the user configured, but  *)
(* for the listener's headroom, and a dial that has not waited its 30 s    *)
(* leaves the listener its reserve, unless the number was changed since    *)
(* the task read it.                                                       *)
BudgetKept ==
    [][ /\ \A d \in Dials \ outdated :
               (dial[d].pc = "cas" /\ dial'[d].pc = "permit") =>
                   in_use' <= IF d \in late THEN desired_max
                              ELSE desired_max - listener_reserve(desired_max)
        /\ \A a \in Acceptors \ outdated :
               (accept[a].pc = "cas" /\ accept'[a].pc = "admitted") =>
                   in_use' <= desired_max + accept[a].seen ]_vars

(* No wakeup is lost: a dial that is parked, and that no notification has  *)
(* reached, saw what still holds, that in_use is at its floor, or a        *)
(* notification is on its way (the Notified is enrolled before the check). *)
NoLostWakeup ==
    \A d \in Dials :
        dial[d].pc = "parked" /\ d \notin woken =>
            \/ in_use >= dial[d].floor
            \/ closing > 0 \/ DialsAt({"notify", "uncounted"}) # {}

(* No window sees more of our own dials than the budget allows as they are *)
(* made, though dials wait for a slot between looking at the window and    *)
(* taking a place in it.                                                   *)
DialsRationed == [][ dialled' > dialled => budget = 0 \/ dialled' <= budget ]_vars
=============================================================================
