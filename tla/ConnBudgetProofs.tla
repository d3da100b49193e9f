-------------------------- MODULE ConnBudgetProofs --------------------------
(***************************************************************************)
(* For any number of dials and listener tasks, any budgets and any resizes *)
(* of them: no unit of the budget leaks, set_max takes back no permit the  *)
(* target needs, no parked dial misses its wakeup, and neither the budget  *)
(* nor the window is overdrawn.                                            *)
(***************************************************************************)
EXTENDS ConnBudget, FiniteSetTheorems, TLAPS

(* Steps are first-order, for Zenon, unless they name SMT. *)
USE Zenon

(* Dials at one of the places pcs are finitely many. *)
LEMMA DialsAtFinite ==
    ASSUME NEW pcs
    PROVE  IsFiniteSet(DialsAt(pcs)) /\ Cardinality(DialsAt(pcs)) \in Nat
<1>1. IsFiniteSet(DialsAt(pcs))
    BY ConnAssumption, FS_Subset DEF DialsAt
<1> QED BY <1>1, FS_CardinalityType

(* Where the dials are after one of them moved. *)
LEMMA Moved ==
    ASSUME TypeOK, NEW d \in Dials, NEW pc, NEW floor, NEW seen,
           Goto(d, At(pc, floor, seen))
    PROVE  /\ dial'[d].pc = pc /\ dial'[d].floor = floor /\ dial'[d].seen = seen
           /\ \A e \in Dials \ {d} : dial'[e] = dial[e]
BY DEF TypeOK, Goto, At

(* A dial that moves into, out of, within or outside of the places pcs     *)
(* adds one to, takes one from, or leaves the number of dials there.       *)
LEMMA MovedCount ==
    ASSUME TypeOK, NEW d \in Dials, NEW pc, NEW floor, NEW seen, NEW pcs,
           Goto(d, At(pc, floor, seen))
    PROVE  /\ dial[d].pc \notin pcs /\ pc \in pcs =>
                  Cardinality(DialsAt(pcs)') = Cardinality(DialsAt(pcs)) + 1
           /\ dial[d].pc \in pcs /\ pc \notin pcs =>
                  Cardinality(DialsAt(pcs)') = Cardinality(DialsAt(pcs)) - 1
           /\ (dial[d].pc \in pcs <=> pc \in pcs) =>
                  DialsAt(pcs)' = DialsAt(pcs)
<1>0. /\ dial'[d].pc = pc
      /\ \A e \in Dials \ {d} : dial'[e] = dial[e]
    BY Moved
<1>1. ASSUME dial[d].pc \notin pcs, pc \in pcs
      PROVE  Cardinality(DialsAt(pcs)') = Cardinality(DialsAt(pcs)) + 1
    <2>1. DialsAt(pcs)' = DialsAt(pcs) \cup {d} /\ d \notin DialsAt(pcs)
        BY <1>0, <1>1, SMT DEF DialsAt
    <2> QED BY <2>1, DialsAtFinite, FS_AddElement
<1>2. ASSUME dial[d].pc \in pcs, pc \notin pcs
      PROVE  Cardinality(DialsAt(pcs)') = Cardinality(DialsAt(pcs)) - 1
    <2>1. DialsAt(pcs)' = DialsAt(pcs) \ {d} /\ d \in DialsAt(pcs)
        BY <1>0, <1>2, SMT DEF DialsAt
    <2> QED BY <2>1, DialsAtFinite, FS_RemoveElement
<1>3. ASSUME dial[d].pc \in pcs <=> pc \in pcs
      PROVE  DialsAt(pcs)' = DialsAt(pcs)
    BY <1>0, <1>3, SMT DEF DialsAt
<1> QED BY <1>1, <1>2, <1>3

(* Dials are where they were while none moves. *)
LEMMA DialsAtKept ==
    ASSUME UNCHANGED dial, NEW pcs PROVE DialsAt(pcs)' = DialsAt(pcs)
BY DEF DialsAt

-----------------------------------------------------------------------------
(* The permits of the semaphore are free, held by dials, or taken back by  *)
(* a resize that still runs; current_max counts them.                      *)
PermitInv ==
    /\ free + Cardinality(Holding) + resize.removed = current_max
    /\ ~resize.busy => resize.removed = 0 /\ current_max >= desired_max
    /\ resize.removed = 0 \/ resize.removed <= current_max - desired_max

ConnInv ==
    /\ TypeOK
    /\ closing <= sessions /\ NoBudgetLeak
    /\ PermitInv

(* Every permit is free at first, and nothing is counted. *)
LEMMA ConnInit == Init => ConnInv
<1> SUFFICES ASSUME Init PROVE ConnInv
    OBVIOUS
<1>1. TypeOK
    BY ConnAssumption DEF Init, TypeOK, NoResize, Idle, At
<1>2. Counted = {} /\ Holding = {}
    BY DEF Init, Counted, Holding, DialsAt, Idle, At
<1>3. Cardinality({}) = 0
    BY FS_EmptySet
<1>4. desired_max \in Nat
    BY ConnAssumption DEF Init
<1> QED BY <1>1, <1>2, <1>3, <1>4, SMT DEF Init, ConnInv, NoBudgetLeak, PermitInv, NoResize

(* The listener's reserve is a part of the budget. *)
LEMMA ReserveWithin ==
    ASSUME NEW max \in Nat PROVE listener_reserve(max) \in 0..max
<1>1. max \div 4 \in 0..max
    BY SMT
<1> QED BY <1>1, SMT DEF listener_reserve, Least, saturating_sub

DialPCs == {"idle", "window", "reserve", "top", "load", "cas", "parked", "permit",
            "slot", "connected", "notify", "return", "uncounted"}
DialsTyped == dial \in [Dials -> [pc : DialPCs, floor : Nat, seen : Nat]]
RestTyped ==
    /\ desired_max \in Maxes /\ current_max \in Nat
    /\ resize \in [busy : BOOLEAN, removed : Nat]
    /\ in_use \in Nat /\ free \in Nat
    /\ woken \subseteq Dials /\ late \subseteq Dials
    /\ accept \in [Acceptors -> [pc : {"idle", "cas", "admitted"},
                                 floor : Nat, seen : Nat]]
    /\ sessions \in Nat /\ closing \in Nat
    /\ budget \in Budgets /\ count \in Nat /\ dialled \in Nat
    /\ outdated \subseteq Dials \cup Acceptors

(* The type invariant in two parts: the dials, and the rest. *)
LEMMA TypeSplit == TypeOK <=> DialsTyped /\ RestTyped
BY DEF TypeOK, DialsTyped, RestTyped, DialPCs

(* A dial that moves keeps its type. *)
LEMMA MovedTyped ==
    ASSUME DialsTyped, NEW d \in Dials, NEW pc \in DialPCs, NEW floor \in Nat,
           NEW seen \in Nat, Goto(d, At(pc, floor, seen))
    PROVE  DialsTyped'
<1>1. At(pc, floor, seen) \in [pc : DialPCs, floor : Nat, seen : Nat]
    BY DEF At
<1> QED BY <1>1 DEF DialsTyped, Goto

(* What is counted is there to be uncounted. *)
LEMMA CountedIsInUse ==
    ASSUME ConnInv, NEW d \in Dials, dial[d].pc \in {"permit", "slot", "connected"}
    PROVE  in_use - 1 \in Nat
<1>1. Counted # {} /\ IsFiniteSet(Counted) /\ Cardinality(Counted) \in Nat
    BY DialsAtFinite DEF Counted, DialsAt
<1>2. Cardinality(Counted) # 0
    BY <1>1, FS_EmptySet
<1>3. /\ in_use \in Nat /\ sessions \in Nat /\ closing \in Nat /\ closing <= sessions
      /\ in_use = Cardinality(Counted) + (sessions - closing)
    BY DEF ConnInv, NoBudgetLeak, TypeOK
<1> QED BY <1>1, <1>2, <1>3, SMT

(* Each task keeps its types: none of the counts wraps below zero. *)
LEMMA TypeStep == ConnInv /\ [Next]_vars => TypeOK'
<1> SUFFICES ASSUME ConnInv, [Next]_vars PROVE TypeOK'
    OBVIOUS
<1> USE DEF resizeVars, dialVars, listenerVars, windowVars
<1>0. DialsTyped /\ RestTyped /\ desired_max \in Nat /\ TypeOK
    BY TypeSplit, ConnAssumption DEF ConnInv, RestTyped
<1>a. notify_waiters => woken' \subseteq Dials
    BY DEF notify_waiters, DialsAt
<1>1. ASSUME NEW max \in Maxes, StoreDesired(max) PROVE TypeOK'
    <2>1. DialsTyped' /\ RestTyped'
        BY <1>0, <1>1 DEF StoreDesired, DialsTyped, RestTyped, DialsAt
    <2> QED BY <2>1, TypeSplit, PTL
<1>2. CASE Forget \/ FinishResize
    <2>1. RestTyped'
        <3>1. CASE Forget
            BY <1>0, <3>1, SMT DEF Forget, RestTyped
        <3>2. CASE FinishResize
            <4>1. current_max' \in Nat /\ free' \in Nat
                BY <1>0, <3>2, ConnAssumption, SMT
                   DEF FinishResize, RestTyped, ConnInv, PermitInv
            <4> QED BY <1>0, <1>a, <3>2, <4>1 DEF FinishResize, RestTyped, NoResize
        <3> QED BY <1>2, <3>1, <3>2
    <2>2. DialsTyped'
        BY <1>0, <1>2 DEF Forget, FinishResize, DialsTyped
    <2> QED BY <2>1, <2>2, TypeSplit, PTL
<1>3. ASSUME NEW a \in Acceptors,
             \/ \E headroom \in Headrooms : ReadCeiling(a, headroom)
             \/ Admit(a) \/ \E noted \in BOOLEAN : Accepted(a, noted)
      PROVE  TypeOK'
    <2>1. ASSUME NEW headroom \in Headrooms, ReadCeiling(a, headroom) PROVE RestTyped'
        <3>1. At("cas", desired_max + headroom, headroom)
                \in [pc : {"idle", "cas", "admitted"}, floor : Nat, seen : Nat]
            BY <1>0, ConnAssumption, SMT DEF At
        <3> QED BY <1>0, <2>1, <3>1 DEF ReadCeiling, RestTyped
    <2>2. ASSUME Admit(a) PROVE RestTyped'
        BY <1>0, <2>2, SMT DEF Admit, RestTyped, Idle, At
    <2>3. ASSUME NEW noted \in BOOLEAN, Accepted(a, noted) PROVE RestTyped'
        BY <1>0, <2>3, SMT DEF Accepted, RestTyped, Idle, At
    <2>4. DialsTyped'
        BY <1>0, <1>3 DEF ReadCeiling, Admit, Accepted, DialsTyped
    <2>5. RestTyped'
        BY <1>3, <2>1, <2>2, <2>3
    <2> QED BY <2>4, <2>5, TypeSplit, PTL
<1>4. CASE CloseSession \/ SessionClosed
    <2>1. in_use' \in Nat
        BY <1>0, <1>4, DialsAtFinite, SMT
           DEF CloseSession, SessionClosed, ConnInv, NoBudgetLeak, RestTyped, Counted
    <2>2. RestTyped'
        BY <1>0, <1>a, <1>4, <2>1, SMT DEF CloseSession, SessionClosed, RestTyped, ConnInv
    <2>3. DialsTyped'
        BY <1>0, <1>4 DEF CloseSession, SessionClosed, DialsTyped
    <2> QED BY <2>2, <2>3, TypeSplit, PTL
<1>5. ASSUME NEW d \in Dials,
             \/ \E priority_ord \in Priorities : StartDial(d, priority_ord)
             \/ LeaveReserve(d) \/ FloorDeadline(d) \/ Enroll(d) \/ Load(d)
             \/ compare_exchange(d) \/ Unpark(d) \/ acquire_owned(d)
             \/ try_admit_outbound_dial(d) \/ Disconnect(d) \/ Released(d)
             \/ ReturnPermit(d) \/ Cancel(d) \/ Uncounted(d)
      PROVE  TypeOK'
    <2>1. Floor(d) \in Nat /\ dial[d].floor \in Nat /\ in_use \in Nat
        BY <1>0, ReserveWithin, SMT DEF Floor, saturating_sub, DialsTyped, RestTyped
    <2>2. \/ UNCHANGED dial
          \/ \E pc \in DialPCs, floor \in Nat, seen \in Nat : Goto(d, At(pc, floor, seen))
        <3>1. \A pc \in DialPCs, floor \in Nat, seen \in Nat :
                  Goto(d, At(pc, floor, seen)) =>
                      \E p \in DialPCs, f \in Nat, s \in Nat : Goto(d, At(p, f, s))
            OBVIOUS
        <3>2. ASSUME NEW priority_ord \in Priorities, StartDial(d, priority_ord)
              PROVE  \E pc \in {"window", "reserve", "top"} : Goto(d, At(pc, 0, 0))
            BY <3>2 DEF StartDial
        <3>3. CASE \/ LeaveReserve(d) \/ FloorDeadline(d) \/ Unpark(d)
                   \/ acquire_owned(d) \/ compare_exchange(d)
                   \/ try_admit_outbound_dial(d) \/ Disconnect(d)
                   \/ Cancel(d) \/ Uncounted(d)
            <4>1. \/ UNCHANGED dial \/ Goto(d, At("notify", 1, 0))
                  \/ \E pc \in {"top", "slot", "permit", "connected", "notify",
                                "uncounted", "idle"} : Goto(d, At(pc, 0, 0))
                BY <3>3 DEF LeaveReserve, FloorDeadline, Unpark, acquire_owned,
                   compare_exchange, try_admit_outbound_dial, Disconnect, Cancel,
                   Uncounted, Idle
            <4> QED BY <3>1, <4>1 DEF DialPCs
        <3>4. CASE Enroll(d) \/ Load(d) \/ Released(d) \/ ReturnPermit(d)
            <4>1. \/ Goto(d, At("load", Floor(d), 0))
                  \/ Goto(d, At("cas", dial[d].floor, in_use))
                  \/ Goto(d, At("parked", dial[d].floor, 0))
                  \/ Goto(d, At("return", dial[d].floor, 0))
                  \/ Goto(d, At("window", 0, 0)) \/ Goto(d, At("idle", 0, 0))
                BY <3>4 DEF Enroll, Load, Released, ReturnPermit, Idle
            <4> QED BY <2>1, <3>1, <4>1 DEF DialPCs
        <3> QED BY <1>5, <3>1, <3>2, <3>3, <3>4 DEF DialPCs
    <2>3. DialsTyped'
        <3>1. CASE UNCHANGED dial
            BY <1>0, <3>1 DEF DialsTyped
        <3> QED BY <1>0, <2>2, <3>1, MovedTyped
    <2>4. RestTyped'
        <3>1. CASE \/ \E priority_ord \in Priorities : StartDial(d, priority_ord)
                   \/ LeaveReserve(d) \/ FloorDeadline(d) \/ Enroll(d) \/ Load(d)
                   \/ compare_exchange(d) \/ Unpark(d) \/ acquire_owned(d)
            BY <1>0, <3>1, SMT DEF StartDial, LeaveReserve, FloorDeadline, Enroll, Load,
               compare_exchange, Unpark, acquire_owned, RestTyped
        <3>2. CASE try_admit_outbound_dial(d) \/ Disconnect(d) \/ Cancel(d)
            <4>1. in_use' \in Nat
                BY <1>0, <3>2, CountedIsInUse
                   DEF try_admit_outbound_dial, Disconnect, Cancel, RestTyped
            <4> QED BY <1>0, <3>2, <4>1, SMT
                    DEF try_admit_outbound_dial, Disconnect, Cancel, RestTyped
        <3>3. CASE Released(d) \/ ReturnPermit(d) \/ Uncounted(d)
            BY <1>0, <1>a, <3>3, SMT DEF Released, ReturnPermit, Uncounted, RestTyped
        <3> QED BY <1>5, <3>1, <3>2, <3>3
    <2> QED BY <2>3, <2>4, TypeSplit, PTL
<1>6. CASE WindowOver \/ \E b \in Budgets : set_new_connections_per_five(b)
    <2>1. DialsTyped' /\ RestTyped'
        BY <1>0, <1>6, SMT DEF WindowOver, set_new_connections_per_five, DialsTyped, RestTyped
    <2> QED BY <2>1, TypeSplit, PTL
<1>7. CASE UNCHANGED vars
    <2>1. DialsTyped' /\ RestTyped'
        BY <1>0, <1>7 DEF vars, DialsTyped, RestTyped
    <2> QED BY <2>1, TypeSplit, PTL
<1> QED BY <1>1, <1>2, <1>3, <1>4, <1>5, <1>6, <1>7 DEF Next

DialStep(d) ==
    \/ \E priority_ord \in Priorities : StartDial(d, priority_ord)
    \/ LeaveReserve(d) \/ FloorDeadline(d) \/ Enroll(d) \/ Load(d)
    \/ compare_exchange(d) \/ Unpark(d) \/ acquire_owned(d)
    \/ try_admit_outbound_dial(d) \/ Disconnect(d) \/ Released(d)
    \/ ReturnPermit(d) \/ Cancel(d) \/ Uncounted(d)

(* The same for the dials that are counted ... *)
LEMMA MovedCounted ==
    ASSUME TypeOK, NEW d \in Dials, NEW pc, NEW floor, NEW seen,
           Goto(d, At(pc, floor, seen))
    PROVE  LET pcs == {"permit", "slot", "connected"} IN
           /\ dial[d].pc \notin pcs /\ pc \in pcs =>
                  Cardinality(Counted)' = Cardinality(Counted) + 1
           /\ dial[d].pc \in pcs /\ pc \notin pcs =>
                  Cardinality(Counted)' = Cardinality(Counted) - 1
           /\ (dial[d].pc \in pcs <=> pc \in pcs) => Counted' = Counted
<1> DEFINE pcs == {"permit", "slot", "connected"}
<1>1. Counted = DialsAt(pcs) /\ Counted' = DialsAt(pcs)'
    BY DEF Counted
<1> HIDE DEF pcs
<1>2. /\ dial[d].pc \notin pcs /\ pc \in pcs =>
             Cardinality(Counted)' = Cardinality(Counted) + 1
      /\ dial[d].pc \in pcs /\ pc \notin pcs =>
             Cardinality(Counted)' = Cardinality(Counted) - 1
      /\ (dial[d].pc \in pcs <=> pc \in pcs) => Counted' = Counted
    BY <1>1, MovedCount, SMT
<1> QED BY <1>2 DEF pcs

(* ... and those with a permit. *)
LEMMA MovedHolding ==
    ASSUME TypeOK, NEW d \in Dials, NEW pc, NEW floor, NEW seen,
           Goto(d, At(pc, floor, seen))
    PROVE  LET pcs == {"slot", "connected", "notify", "return"} IN
           /\ dial[d].pc \notin pcs /\ pc \in pcs =>
                  Cardinality(Holding)' = Cardinality(Holding) + 1
           /\ dial[d].pc \in pcs /\ pc \notin pcs =>
                  Cardinality(Holding)' = Cardinality(Holding) - 1
           /\ (dial[d].pc \in pcs <=> pc \in pcs) => Holding' = Holding
<1> DEFINE pcs == {"slot", "connected", "notify", "return"}
<1>1. Holding = DialsAt(pcs) /\ Holding' = DialsAt(pcs)'
    BY DEF Holding
<1> HIDE DEF pcs
<1>2. /\ dial[d].pc \notin pcs /\ pc \in pcs =>
             Cardinality(Holding)' = Cardinality(Holding) + 1
      /\ dial[d].pc \in pcs /\ pc \notin pcs =>
             Cardinality(Holding)' = Cardinality(Holding) - 1
      /\ (dial[d].pc \in pcs <=> pc \in pcs) => Holding' = Holding
    BY <1>1, MovedCount, SMT
<1> QED BY <1>2 DEF pcs

(* A dial moves alone. *)
LEMMA DialAlone ==
    ASSUME TypeOK, NEW d \in Dials, DialStep(d)
    PROVE  \A e \in Dials \ {d} : dial'[e] = dial[e]
<1>1. UNCHANGED dial \/ \E to : Goto(d, to)
    <2>1. ASSUME NEW priority_ord \in Priorities, StartDial(d, priority_ord)
          PROVE  \E to : Goto(d, to)
        BY <2>1 DEF StartDial
    <2>2. CASE \/ LeaveReserve(d) \/ FloorDeadline(d) \/ Enroll(d) \/ Load(d)
               \/ compare_exchange(d) \/ Unpark(d) \/ acquire_owned(d)
        BY <2>2 DEF LeaveReserve, FloorDeadline, Enroll, Load,
           compare_exchange, Unpark, acquire_owned
    <2>3. CASE \/ try_admit_outbound_dial(d) \/ Disconnect(d) \/ Released(d)
               \/ ReturnPermit(d) \/ Cancel(d) \/ Uncounted(d)
        BY <2>3 DEF try_admit_outbound_dial, Disconnect, Released,
           ReturnPermit, Cancel, Uncounted
    <2> QED BY <2>1, <2>2, <2>3 DEF DialStep
<1>2. ASSUME NEW to, Goto(d, to) PROVE \A e \in Dials \ {d} : dial'[e] = dial[e]
    BY <1>2 DEF Goto, TypeOK
<1> QED BY <1>1, <1>2

(* A dial's step moves as many units of in_use as counted dials, and as    *)
(* many permits as dials that hold one.                                    *)
LEMMA DialBalance ==
    ASSUME ConnInv, NEW d \in Dials, DialStep(d)
    PROVE  /\ in_use' - Cardinality(Counted)' = in_use - Cardinality(Counted)
           /\ free' + Cardinality(Holding)' = free + Cardinality(Holding)
           /\ UNCHANGED <<resizeVars, listenerVars>>
<1> USE DEF dialVars, windowVars
<1>0. /\ TypeOK /\ in_use \in Nat /\ free \in Nat
      /\ Cardinality(Counted) \in Nat /\ Cardinality(Holding) \in Nat
    BY DialsAtFinite DEF ConnInv, TypeOK, Counted, Holding
<1>u. UNCHANGED <<resizeVars, listenerVars>>
    BY DEF DialStep, StartDial, LeaveReserve, FloorDeadline, Enroll, Load,
       compare_exchange, Unpark, acquire_owned, try_admit_outbound_dial, Disconnect,
       Released, ReturnPermit, Cancel, Uncounted
<1>a. ASSUME Counted' = Counted, Holding' = Holding, UNCHANGED <<in_use, free>>
      PROVE  /\ in_use' - Cardinality(Counted)' = in_use - Cardinality(Counted)
             /\ free' + Cardinality(Holding)' = free + Cardinality(Holding)
    BY <1>a
<1>1. ASSUME NEW priority_ord \in Priorities, StartDial(d, priority_ord)
      PROVE  Counted' = Counted /\ Holding' = Holding /\ UNCHANGED <<in_use, free>>
    <2>1. PICK pc \in {"window", "reserve", "top"} : Goto(d, At(pc, 0, 0))
        BY <1>1 DEF StartDial
    <2>2. dial[d].pc \in {"idle", "window"} /\ UNCHANGED <<in_use, free>>
        BY <1>1 DEF StartDial
    <2> QED BY <1>0, <2>1, <2>2, MovedCounted, MovedHolding
<1>2. ASSUME LeaveReserve(d) \/ Unpark(d)
      PROVE  Counted' = Counted /\ Holding' = Holding /\ UNCHANGED <<in_use, free>>
    <2>1. /\ dial[d].pc \in {"reserve", "parked"} /\ Goto(d, At("top", 0, 0))
          /\ UNCHANGED <<in_use, free>>
        BY <1>2 DEF LeaveReserve, Unpark
    <2> QED BY <1>0, <2>1, MovedCounted, MovedHolding, SMT
<1>3. ASSUME FloorDeadline(d)
      PROVE  Counted' = Counted /\ Holding' = Holding /\ UNCHANGED <<in_use, free>>
    BY <1>3, DialsAtKept DEF FloorDeadline, Counted, Holding
<1>4. ASSUME Enroll(d) \/ Load(d)
      PROVE  Counted' = Counted /\ Holding' = Holding /\ UNCHANGED <<in_use, free>>
    <2>1. dial[d].pc \in {"top", "load"} /\ UNCHANGED <<in_use, free>>
        BY <1>4 DEF Enroll, Load
    <2>2. \/ Goto(d, At("load", Floor(d), 0))
          \/ Goto(d, At("cas", dial[d].floor, in_use))
          \/ Goto(d, At("parked", dial[d].floor, 0))
        BY <1>4 DEF Enroll, Load
    <2> QED BY <1>0, <2>1, <2>2, MovedCounted, MovedHolding, SMT
<1>5. ASSUME Released(d) \/ Uncounted(d)
      PROVE  Counted' = Counted /\ Holding' = Holding /\ UNCHANGED <<in_use, free>>
    <2>1. UNCHANGED <<in_use, free>>
        BY <1>5 DEF Released, Uncounted
    <2>2. \/ dial[d].pc = "notify" /\ Goto(d, At("return", dial[d].floor, 0))
          \/ dial[d].pc = "uncounted" /\ Goto(d, At("idle", 0, 0))
        BY <1>5 DEF Released, Uncounted, Idle
    <2> QED BY <1>0, <2>1, <2>2, MovedCounted, MovedHolding, SMT
<1>6. ASSUME compare_exchange(d)
      PROVE  /\ in_use' - Cardinality(Counted)' = in_use - Cardinality(Counted)
             /\ free' + Cardinality(Holding)' = free + Cardinality(Holding)
    <2>1. dial[d].pc = "cas" /\ free' = free
        BY <1>6 DEF compare_exchange
    <2>2. CASE in_use' = in_use + 1 /\ Goto(d, At("permit", 0, 0))
        <3>1. Cardinality(Counted)' = Cardinality(Counted) + 1 /\ Holding' = Holding
            BY <1>0, <2>1, <2>2, MovedCounted, MovedHolding, SMT
        <3> QED BY <1>0, <2>1, <2>2, <3>1, SMT
    <2>3. CASE in_use' = in_use /\ Goto(d, At("top", 0, 0))
        BY <1>0, <1>a, <2>1, <2>3, MovedCounted, MovedHolding, SMT
    <2> QED BY <1>6, <2>2, <2>3 DEF compare_exchange
<1>7. ASSUME acquire_owned(d)
      PROVE  /\ in_use' - Cardinality(Counted)' = in_use - Cardinality(Counted)
             /\ free' + Cardinality(Holding)' = free + Cardinality(Holding)
    <2>1. /\ dial[d].pc = "permit" /\ Goto(d, At("slot", 0, 0))
          /\ in_use' = in_use /\ free' = free - 1
        BY <1>7 DEF acquire_owned
    <2>2. Counted' = Counted /\ Cardinality(Holding)' = Cardinality(Holding) + 1
        BY <1>0, <2>1, MovedCounted, MovedHolding
    <2> QED BY <1>0, <2>1, <2>2, SMT
<1>8. ASSUME try_admit_outbound_dial(d) \/ Disconnect(d)
      PROVE  /\ in_use' - Cardinality(Counted)' = in_use - Cardinality(Counted)
             /\ free' + Cardinality(Holding)' = free + Cardinality(Holding)
    <2>1. dial[d].pc \in {"slot", "connected"} /\ free' = free
        BY <1>8 DEF try_admit_outbound_dial, Disconnect
    <2>2. CASE in_use' = in_use /\ Goto(d, At("connected", 0, 0))
        BY <1>0, <1>a, <2>1, <2>2, MovedCounted, MovedHolding
    <2>3. ASSUME NEW floor \in {0, 1}, in_use' = in_use - 1, Goto(d, At("notify", floor, 0))
          PROVE  /\ in_use' - Cardinality(Counted)' = in_use - Cardinality(Counted)
                 /\ free' + Cardinality(Holding)' = free + Cardinality(Holding)
        <3>1. Cardinality(Counted)' = Cardinality(Counted) - 1 /\ Holding' = Holding
            BY <1>0, <2>1, <2>3, MovedCounted, MovedHolding, SMT
        <3> QED BY <1>0, <2>1, <2>3, <3>1, SMT
    <2>4. \/ in_use' = in_use /\ Goto(d, At("connected", 0, 0))
          \/ \E floor \in {0, 1} : in_use' = in_use - 1 /\ Goto(d, At("notify", floor, 0))
        BY <1>8 DEF try_admit_outbound_dial, Disconnect
    <2> QED BY <2>2, <2>3, <2>4
<1>9. ASSUME ReturnPermit(d)
      PROVE  /\ in_use' - Cardinality(Counted)' = in_use - Cardinality(Counted)
             /\ free' + Cardinality(Holding)' = free + Cardinality(Holding)
    <2>1. /\ dial[d].pc = "return" /\ in_use' = in_use /\ free' = free + 1
          /\ Goto(d, At("window", 0, 0)) \/ Goto(d, At("idle", 0, 0))
        BY <1>9 DEF ReturnPermit, Idle
    <2>2. Counted' = Counted /\ Cardinality(Holding)' = Cardinality(Holding) - 1
        BY <1>0, <2>1, MovedCounted, MovedHolding, SMT
    <2> QED BY <1>0, <2>1, <2>2, SMT
<1>10. ASSUME Cancel(d)
      PROVE  /\ in_use' - Cardinality(Counted)' = in_use - Cardinality(Counted)
             /\ free' + Cardinality(Holding)' = free + Cardinality(Holding)
    <2>1. CASE dial[d].pc = "permit"
        <3>1. Goto(d, At("uncounted", 0, 0)) /\ in_use' = in_use - 1 /\ free' = free
            BY <1>10, <2>1 DEF Cancel
        <3>2. Cardinality(Counted)' = Cardinality(Counted) - 1 /\ Holding' = Holding
            BY <1>0, <2>1, <3>1, MovedCounted, MovedHolding, SMT
        <3> QED BY <1>0, <3>1, <3>2, SMT
    <2>2. CASE dial[d].pc # "permit"
        <3>1. /\ Goto(d, At("idle", 0, 0)) /\ UNCHANGED <<in_use, free>>
              /\ dial[d].pc \in {"window", "reserve", "parked"}
            BY <1>10, <2>2 DEF Cancel, Idle
        <3> QED BY <1>0, <1>a, <3>1, MovedCounted, MovedHolding, SMT
    <2> QED BY <2>1, <2>2
<1> QED BY <1>u, <1>a, <1>1, <1>2, <1>3, <1>4, <1>5, <1>6, <1>7, <1>8, <1>9, <1>10
        DEF DialStep

(* Every step keeps the accounts of in_use and of the semaphore's permits. *)
LEMMA ConnStep == ConnInv /\ [Next]_vars => ConnInv'
<1> SUFFICES ASSUME ConnInv, [Next]_vars PROVE ConnInv'
    OBVIOUS
<1> USE DEF resizeVars, dialVars, listenerVars, windowVars
<1>t. TypeOK'
    BY TypeStep
<1>0. /\ in_use \in Nat /\ free \in Nat /\ sessions \in Nat /\ closing \in Nat
      /\ current_max \in Nat /\ desired_max \in Nat /\ resize.removed \in Nat
      /\ Cardinality(Counted) \in Nat /\ Cardinality(Holding) \in Nat
      /\ closing <= sessions /\ NoBudgetLeak /\ PermitInv
    BY DialsAtFinite, ConnAssumption DEF ConnInv, TypeOK, Counted, Holding
<1>c. ASSUME UNCHANGED dial PROVE Counted' = Counted /\ Holding' = Holding
    BY <1>c, DialsAtKept DEF Counted, Holding
<1>1. ASSUME NEW max \in Maxes, StoreDesired(max) PROVE ConnInv'
    BY <1>t, <1>0, <1>c, <1>1 DEF StoreDesired, ConnInv, NoBudgetLeak, PermitInv
<1>2. CASE Forget
    <2>1. /\ free' = free - 1 /\ UNCHANGED <<desired_max, current_max, in_use, sessions, closing>>
          /\ resize'.removed = resize.removed + 1 /\ resize'.busy
          /\ resize.removed < current_max - desired_max
        BY <1>2 DEF Forget, ConnInv, TypeOK
    <2>2. Counted' = Counted /\ Holding' = Holding
        BY <1>2, <1>c DEF Forget
    <2> QED BY <1>t, <1>0, <2>1, <2>2, SMT DEF ConnInv, NoBudgetLeak, PermitInv
<1>3. CASE FinishResize
    <2>1. Counted' = Counted /\ Holding' = Holding
        BY <1>3, <1>c DEF FinishResize
    <2>2. /\ UNCHANGED <<desired_max, in_use, sessions, closing>>
          /\ resize'.removed = 0 /\ ~resize'.busy
          /\ \/ /\ desired_max > current_max
                /\ free' = free + (desired_max - current_max) /\ current_max' = desired_max
             \/ /\ desired_max <= current_max
                /\ current_max' = current_max - resize.removed /\ free' = free
        BY <1>0, <1>3, SMT DEF FinishResize, NoResize
    <2> QED BY <1>t, <1>0, <2>1, <2>2, SMT DEF ConnInv, NoBudgetLeak, PermitInv
<1>4. ASSUME NEW a \in Acceptors,
             \/ \E headroom \in Headrooms : ReadCeiling(a, headroom)
             \/ Admit(a) \/ \E noted \in BOOLEAN : Accepted(a, noted)
      PROVE  ConnInv'
    <2>1. Counted' = Counted /\ Holding' = Holding
        BY <1>4, <1>c DEF ReadCeiling, Admit, Accepted
    <2>2. /\ UNCHANGED <<desired_max, current_max, resize, free, closing>>
          /\ \/ UNCHANGED <<in_use, sessions>>
             \/ in_use' = in_use + 1 /\ sessions' = sessions + 1
        BY <1>4 DEF ReadCeiling, Admit, Accepted
    <2> QED BY <1>t, <1>0, <2>1, <2>2, SMT DEF ConnInv, NoBudgetLeak, PermitInv
<1>5. CASE CloseSession \/ SessionClosed
    <2>1. Counted' = Counted /\ Holding' = Holding
        BY <1>5, <1>c DEF CloseSession, SessionClosed
    <2> QED BY <1>t, <1>0, <1>5, <2>1, SMT
            DEF CloseSession, SessionClosed, ConnInv, NoBudgetLeak, PermitInv
<1>6. ASSUME NEW d \in Dials, DialStep(d) PROVE ConnInv'
    <2>1. /\ in_use' - Cardinality(Counted)' = in_use - Cardinality(Counted)
          /\ free' + Cardinality(Holding)' = free + Cardinality(Holding)
          /\ UNCHANGED <<desired_max, current_max, resize, sessions, closing>>
        BY <1>6, DialBalance
    <2>2. /\ in_use' \in Nat /\ free' \in Nat
          /\ Cardinality(Counted)' \in Nat /\ Cardinality(Holding)' \in Nat
        <3>1. in_use' \in Nat /\ free' \in Nat
            BY <1>t DEF TypeOK
        <3>2. \A S \in {{"permit", "slot", "connected"},
                        {"slot", "connected", "notify", "return"}} :
                  Cardinality(DialsAt(S)') \in Nat
            BY ConnAssumption, FS_Subset, FS_CardinalityType DEF DialsAt
        <3> QED BY <3>1, <3>2 DEF Counted, Holding
    <2> QED BY <1>t, <1>0, <2>1, <2>2, SMT DEF ConnInv, NoBudgetLeak, PermitInv
<1>7. CASE \/ WindowOver \/ \E b \in Budgets : set_new_connections_per_five(b)
           \/ UNCHANGED vars
    <2>1. /\ Counted' = Counted /\ Holding' = Holding
          /\ UNCHANGED <<resizeVars, in_use, free, sessions, closing>>
        BY <1>7, <1>c DEF WindowOver, set_new_connections_per_five, vars
    <2> QED BY <1>t, <1>0, <2>1 DEF ConnInv, NoBudgetLeak, PermitInv
<1> QED BY <1>1, <1>2, <1>3, <1>4, <1>5, <1>6, <1>7 DEF Next, DialStep

-----------------------------------------------------------------------------
(* Every unit of in_use belongs to a connection or to a dial that waits    *)
(* for its permit, whoever is cancelled, refused or dropped where.         *)
THEOREM BudgetIsAccounted == Spec => []NoBudgetLeak
<1>1. Init => ConnInv
    BY ConnInit
<1>2. ConnInv /\ [Next]_vars => ConnInv'
    BY ConnStep
<1>3. ConnInv => NoBudgetLeak
    BY DEF ConnInv
<1> QED BY <1>1, <1>2, <1>3, PTL DEF Spec

(* A counted dial that finds no permit free finds desired_max of them      *)
(* held: set_max, racing dials and drops, takes back none the target needs. *)
THEOREM PermitsAreThere == Spec => []PermitsCoverBudget
<1>1. Init => ConnInv
    BY ConnInit
<1>2. ConnInv /\ [Next]_vars => ConnInv'
    BY ConnStep
<1>3. ConnInv => PermitsCoverBudget
    <2> SUFFICES ASSUME ConnInv, free = 0, ~resize.busy
                 PROVE  Cardinality(Holding) >= desired_max
        BY DEF PermitsCoverBudget
    <2>1. /\ Cardinality(Holding) \in Nat /\ current_max \in Nat /\ desired_max \in Nat
        BY DialsAtFinite, ConnAssumption DEF ConnInv, TypeOK, Holding
    <2> QED BY <2>1, SMT DEF ConnInv, PermitInv
<1> QED BY <1>1, <1>2, <1>3, PTL DEF Spec

-----------------------------------------------------------------------------
(* Waiters that are told are all those enrolled. *)
LEMMA ToldAll ==
    ASSUME TypeOK, notify_waiters,
           \A d \in Dials : dial'[d].pc = "parked" => dial[d].pc = "parked"
    PROVE  NoLostWakeup'
<1>1. \A d \in Dials : dial'[d].pc = "parked" => d \in woken'
    BY DEF notify_waiters, DialsAt
<1> QED BY <1>1 DEF NoLostWakeup

(* A step after which no dial is parked that was not, in_use is no lower   *)
(* and no notification on its way is lost.                                 *)
LEMMA StillAsleep ==
    ASSUME TypeOK, in_use' \in Nat, NoLostWakeup, in_use' >= in_use, closing' = closing,
           \A d \in Dials : dial'[d].pc = "parked" =>
               dial'[d] = dial[d] /\ (d \in woken => d \in woken'),
           \A d \in Dials : dial[d].pc \in {"notify", "uncounted"} => dial'[d] = dial[d]
    PROVE  NoLostWakeup'
<1> SUFFICES ASSUME NEW d \in Dials, dial'[d].pc = "parked", d \notin woken'
             PROVE  \/ in_use' >= dial'[d].floor
                    \/ closing' > 0 \/ DialsAt({"notify", "uncounted"})' # {}
    BY DEF NoLostWakeup
<1>1. dial'[d] = dial[d] /\ d \notin woken
    OBVIOUS
<1>2. \/ in_use >= dial[d].floor
      \/ closing > 0 \/ DialsAt({"notify", "uncounted"}) # {}
    BY <1>1 DEF NoLostWakeup
<1>3. CASE in_use >= dial[d].floor
    <2>1. in_use \in Nat /\ dial[d].floor \in Nat
        BY DEF TypeOK
    <2> QED BY <1>1, <1>3, <2>1, SMT
<1>4. CASE closing > 0
    BY <1>4
<1>5. CASE DialsAt({"notify", "uncounted"}) # {}
    BY <1>5 DEF DialsAt
<1> QED BY <1>2, <1>3, <1>4, <1>5

(* Nobody is parked at first. *)
LEMMA WakeInit == Init => NoLostWakeup
BY SMT DEF Init, NoLostWakeup, Idle, At

(* Each step that lowers in_use is followed by a notification, and a dial  *)
(* enrolls before it looks.                                                *)
LEMMA WakeStep == ConnInv /\ NoLostWakeup /\ [Next]_vars => NoLostWakeup'
<1> SUFFICES ASSUME ConnInv, NoLostWakeup, [Next]_vars PROVE NoLostWakeup'
    OBVIOUS
<1> USE DEF resizeVars, dialVars, listenerVars, windowVars
<1>0. TypeOK /\ in_use \in Nat /\ closing \in Nat
    BY DEF ConnInv, TypeOK
<1>t. in_use' \in Nat
    BY TypeStep DEF TypeOK
<1>1. ASSUME UNCHANGED <<dial, woken, closing>>, in_use' >= in_use PROVE NoLostWakeup'
    BY <1>0, <1>t, <1>1, StillAsleep
<1>2. CASE \/ \E max \in Maxes : StoreDesired(max)
           \/ Forget \/ WindowOver \/ UNCHANGED vars
           \/ \E b \in Budgets : set_new_connections_per_five(b)
    BY <1>0, <1>1, <1>2, SMT DEF StoreDesired, Forget, WindowOver, vars,
                            set_new_connections_per_five
<1>3. CASE FinishResize \/ SessionClosed
    BY <1>0, <1>3, ToldAll DEF FinishResize, SessionClosed
<1>4. ASSUME NEW a \in Acceptors,
             \/ \E headroom \in Headrooms : ReadCeiling(a, headroom)
             \/ Admit(a) \/ \E noted \in BOOLEAN : Accepted(a, noted)
      PROVE  NoLostWakeup'
    BY <1>0, <1>1, <1>4, SMT DEF ReadCeiling, Admit, Accepted
<1>5. CASE CloseSession
    BY <1>0, <1>5, SMT DEF CloseSession, NoLostWakeup
<1>6. ASSUME NEW d \in Dials, NEW pc, NEW floor, NEW seen, Goto(d, At(pc, floor, seen)),
             pc \in {"notify", "uncounted"}
      PROVE  NoLostWakeup'
    <2>1. d \in DialsAt({"notify", "uncounted"})'
        BY <1>0, <1>6, Moved DEF DialsAt
    <2> QED BY <2>1 DEF NoLostWakeup
<1>7. ASSUME NEW d \in Dials, NEW pc, NEW floor, NEW seen, Goto(d, At(pc, floor, seen)),
             pc # "parked", dial[d].pc \notin {"notify", "uncounted"},
             in_use' >= in_use, closing' = closing, woken \ {d} \subseteq woken'
      PROVE  NoLostWakeup'
    <2>1. /\ dial'[d].pc = pc
          /\ \A e \in Dials \ {d} : dial'[e] = dial[e]
        BY <1>0, <1>7, Moved
    <2> QED BY <1>0, <1>t, <1>7, <2>1, StillAsleep
<1>8. ASSUME NEW d \in Dials, NEW priority_ord \in Priorities, StartDial(d, priority_ord)
      PROVE  NoLostWakeup'
    <2>1. PICK pc \in {"window", "reserve", "top"} : Goto(d, At(pc, 0, 0))
        BY <1>8 DEF StartDial
    <2>2. /\ dial[d].pc \in {"idle", "window"}
          /\ UNCHANGED <<in_use, closing, woken>>
        BY <1>8 DEF StartDial
    <2> QED BY <1>0, <1>7, <2>1, <2>2, SMT
<1>9. ASSUME NEW d \in Dials, FloorDeadline(d) PROVE NoLostWakeup'
    BY <1>0, <1>1, <1>9, SMT DEF FloorDeadline
<1>10. ASSUME NEW d \in Dials, LeaveReserve(d) \/ Enroll(d) \/ Unpark(d) \/ acquire_owned(d)
       PROVE  NoLostWakeup'
    <2>1. /\ dial[d].pc \in {"reserve", "top", "parked", "permit"}
          /\ UNCHANGED <<in_use, closing>> /\ woken \ {d} \subseteq woken'
          /\ \/ Goto(d, At("top", 0, 0)) \/ Goto(d, At("load", Floor(d), 0))
             \/ Goto(d, At("slot", 0, 0))
        BY <1>10 DEF LeaveReserve, Enroll, Unpark, acquire_owned
    <2> QED BY <1>0, <1>7, <2>1, SMT
<1>11. ASSUME NEW d \in Dials, Load(d) PROVE NoLostWakeup'
    <2>1. dial[d].pc = "load" /\ UNCHANGED <<in_use, closing, woken>>
        BY <1>11 DEF Load
    <2>2. CASE in_use < dial[d].floor
        BY <1>0, <1>7, <1>11, <2>1, <2>2, SMT DEF Load
    <2>3. CASE ~(in_use < dial[d].floor)
        <3>1. Goto(d, At("parked", dial[d].floor, 0))
            BY <1>11, <2>3 DEF Load
        <3>2. /\ dial'[d].pc = "parked" /\ dial'[d].floor = dial[d].floor
              /\ \A e \in Dials \ {d} : dial'[e] = dial[e]
            BY <1>0, <3>1, Moved, SMT
        <3>3. in_use' >= dial'[d].floor
            BY <1>0, <2>1, <2>3, <3>2, SMT DEF TypeOK
        <3>4. DialsAt({"notify", "uncounted"})' = DialsAt({"notify", "uncounted"})
            BY <2>1, <3>2 DEF DialsAt
        <3>5. ASSUME NEW e \in Dials \ {d}, dial'[e].pc = "parked", e \notin woken'
              PROVE  \/ in_use' >= dial'[e].floor
                     \/ closing' > 0 \/ DialsAt({"notify", "uncounted"})' # {}
            BY <2>1, <3>2, <3>4, <3>5 DEF NoLostWakeup
        <3> QED BY <3>3, <3>5 DEF NoLostWakeup
    <2> QED BY <2>2, <2>3
<1>12. ASSUME NEW d \in Dials, compare_exchange(d) PROVE NoLostWakeup'
    <2>1. /\ dial[d].pc = "cas" /\ closing' = closing /\ woken \ {d} \subseteq woken'
          /\ in_use' >= in_use
          /\ Goto(d, At("permit", 0, 0)) \/ Goto(d, At("top", 0, 0))
        BY <1>0, <1>12, SMT DEF compare_exchange
    <2> QED BY <1>7, <2>1
<1>13. ASSUME NEW d \in Dials, try_admit_outbound_dial(d) PROVE NoLostWakeup'
    <2>1. CASE WindowFull
        BY <1>6, <1>13, <2>1 DEF try_admit_outbound_dial
    <2>2. CASE ~WindowFull
        <3>1. /\ dial[d].pc = "slot" /\ UNCHANGED <<in_use, closing, woken>>
              /\ Goto(d, At("connected", 0, 0))
            BY <1>13, <2>2 DEF try_admit_outbound_dial
        <3> QED BY <1>0, <1>7, <3>1, SMT
    <2> QED BY <2>1, <2>2
<1>14. ASSUME NEW d \in Dials, Disconnect(d) PROVE NoLostWakeup'
    BY <1>6, <1>14 DEF Disconnect
<1>15. ASSUME NEW d \in Dials, Released(d) \/ Uncounted(d) PROVE NoLostWakeup'
    <2>1. /\ notify_waiters
          /\ Goto(d, At("return", dial[d].floor, 0)) \/ Goto(d, At("idle", 0, 0))
        BY <1>15 DEF Released, Uncounted, Idle
    <2>2. /\ dial'[d].pc # "parked"
          /\ \A e \in Dials \ {d} : dial'[e] = dial[e]
        BY <1>0, <2>1, Moved, SMT
    <2> QED BY <1>0, <2>1, <2>2, ToldAll
<1>16. ASSUME NEW d \in Dials, ReturnPermit(d) PROVE NoLostWakeup'
    <2>1. /\ dial[d].pc = "return" /\ UNCHANGED <<in_use, closing, woken>>
          /\ Goto(d, At("window", 0, 0)) \/ Goto(d, At("idle", 0, 0))
        BY <1>16 DEF ReturnPermit, Idle
    <2> QED BY <1>0, <1>7, <2>1, SMT
<1>17. ASSUME NEW d \in Dials, Cancel(d) PROVE NoLostWakeup'
    <2>1. CASE dial[d].pc = "permit"
        BY <1>6, <1>17, <2>1 DEF Cancel
    <2>2. CASE dial[d].pc # "permit"
        <3>1. /\ dial[d].pc \in {"window", "reserve", "parked"}
              /\ UNCHANGED <<in_use, closing>> /\ woken \ {d} \subseteq woken'
              /\ Goto(d, At("idle", 0, 0))
            BY <1>17, <2>2 DEF Cancel, Idle
        <3> QED BY <1>0, <1>7, <3>1, SMT
    <2> QED BY <2>1, <2>2
<1> QED BY <1>2, <1>3, <1>4, <1>5, <1>8, <1>9, <1>10, <1>11, <1>12, <1>13, <1>14,
           <1>15, <1>16, <1>17 DEF Next

(* No dial sleeps through room in the budget: one that is parked and has   *)
(* not been told saw in_use at its floor, where it still is, or somebody   *)
(* is about to tell it.                                                    *)
THEOREM NoDialOversleeps == Spec => []NoLostWakeup
<1>1. Init => ConnInv /\ NoLostWakeup
    BY ConnInit, WakeInit
<1>2. ConnInv /\ NoLostWakeup /\ [Next]_vars => ConnInv' /\ NoLostWakeup'
    BY ConnStep, WakeStep
<1> QED BY <1>1, <1>2, PTL DEF Spec

-----------------------------------------------------------------------------
(* What a task read of the budget is what the budget is, unless it was     *)
(* changed since; a dial swaps only from below its floor.                  *)
FloorRead(d) ==
    /\ dial[d].pc \in {"load", "cas"} /\ d \notin outdated => dial[d].floor = Floor(d)
    /\ dial[d].pc = "cas" => dial[d].seen < dial[d].floor

CeilingRead(a) ==
    accept[a].pc = "cas" /\ a \notin outdated =>
        accept[a].floor = desired_max + accept[a].seen

ReadInv ==
    /\ \A d \in Dials : FloorRead(d)
    /\ \A a \in Acceptors : CeilingRead(a)

(* Nobody has read a budget at first. *)
LEMMA ReadInit == Init => ReadInv
BY SMT DEF Init, ReadInv, FloorRead, CeilingRead, Idle, At

(* The frame of a step that changes no budget. *)
LEMMA FloorKept ==
    ASSUME NEW e \in Dials, FloorRead(e), dial'[e] = dial[e],
           desired_max' = desired_max, e \in outdated => e \in outdated',
           e \in late' <=> e \in late
    PROVE  FloorRead(e)'
BY DEF FloorRead, Floor

(* The same for a task of the listener. *)
LEMMA CeilingKept ==
    ASSUME NEW b \in Acceptors, CeilingRead(b), accept'[b] = accept[b],
           desired_max' = desired_max, b \in outdated => b \in outdated'
    PROVE  CeilingRead(b)'
BY DEF CeilingRead

(* What a task read stays true until set_max, which marks it outdated. *)
LEMMA ReadStep == ConnInv /\ ReadInv /\ [Next]_vars => ReadInv'
<1> SUFFICES ASSUME ConnInv, ReadInv, [Next]_vars PROVE ReadInv'
    OBVIOUS
<1> USE DEF resizeVars, dialVars, listenerVars, windowVars
<1>0. TypeOK /\ \A d \in Dials : d \notin Acceptors
    BY ConnAssumption DEF ConnInv
<1>1. ASSUME UNCHANGED <<desired_max, accept>>,
             \A a \in Acceptors : a \in outdated => a \in outdated'
      PROVE  \A a \in Acceptors : CeilingRead(a)'
    BY <1>1, CeilingKept DEF ReadInv
<1>2. ASSUME UNCHANGED <<desired_max, dial, late>>,
             \A d \in Dials : d \in outdated => d \in outdated'
      PROVE  \A d \in Dials : FloorRead(d)'
    BY <1>2, FloorKept DEF ReadInv
<1>3. ASSUME NEW max \in Maxes, StoreDesired(max) PROVE ReadInv'
    <2>1. /\ \A d \in Dials : dial[d].pc \in {"load", "cas"} => d \in outdated'
          /\ \A a \in Acceptors : accept[a].pc = "cas" => a \in outdated'
          /\ UNCHANGED <<dial, accept>>
        BY <1>3 DEF StoreDesired, DialsAt
    <2> QED BY <2>1 DEF ReadInv, FloorRead, CeilingRead
<1>4. CASE \/ Forget \/ FinishResize \/ CloseSession \/ SessionClosed
           \/ WindowOver \/ \E b \in Budgets : set_new_connections_per_five(b)
           \/ UNCHANGED vars
    <2>1. UNCHANGED <<desired_max, dial, late, accept, outdated>>
        BY <1>4 DEF Forget, FinishResize, CloseSession, SessionClosed, WindowOver,
           set_new_connections_per_five, vars
    <2> QED BY <1>1, <1>2, <2>1 DEF ReadInv
<1>5. ASSUME NEW a \in Acceptors,
             \/ \E headroom \in Headrooms : ReadCeiling(a, headroom)
             \/ Admit(a) \/ \E noted \in BOOLEAN : Accepted(a, noted)
      PROVE  ReadInv'
    <2>1. /\ UNCHANGED <<desired_max, dial, late>>
          /\ \A x \in (Dials \cup Acceptors) \ {a} : x \in outdated => x \in outdated'
          /\ \A b \in Acceptors \ {a} : accept'[b] = accept[b]
        BY <1>0, <1>5 DEF ReadCeiling, Admit, Accepted, TypeOK
    <2>2. \/ accept'[a].pc # "cas"
          \/ accept'[a].floor = desired_max + accept'[a].seen
        BY <1>0, <1>5, SMT DEF ReadCeiling, Admit, Accepted, TypeOK, At, Idle
    <2>3. \A d \in Dials : FloorRead(d)'
        BY <1>0, <1>2, <2>1
    <2>4. \A b \in Acceptors \ {a} : CeilingRead(b)'
        BY <2>1, CeilingKept DEF ReadInv
    <2>5. CeilingRead(a)'
        BY <2>1, <2>2 DEF CeilingRead
    <2> QED BY <2>3, <2>4, <2>5 DEF ReadInv
<1>6. ASSUME NEW d \in Dials, DialStep(d) PROVE ReadInv'
    <2>1. /\ UNCHANGED <<desired_max, accept>>
          /\ \A x \in (Dials \cup Acceptors) \ {d} : x \in outdated => x \in outdated'
          /\ \A e \in Dials \ {d} : e \in late' <=> e \in late
        BY <1>6 DEF DialStep, StartDial, LeaveReserve, FloorDeadline, Enroll, Load,
           compare_exchange, Unpark, acquire_owned, try_admit_outbound_dial, Disconnect,
           Released, ReturnPermit, Cancel, Uncounted
    <2>2. \A a \in Acceptors : CeilingRead(a)'
        BY <1>0, <1>1, <2>1
    <2>3. \A e \in Dials \ {d} : dial'[e] = dial[e]
        BY <1>0, <1>6, DialAlone
    <2>4. \A e \in Dials \ {d} : FloorRead(e)'
        BY <2>1, <2>3, FloorKept DEF ReadInv
    <2>5. FloorRead(d)'
        <3>1. CASE Enroll(d)
            <4>1. /\ dial'[d].pc = "load" /\ dial'[d].floor = Floor(d)
                  /\ UNCHANGED <<late, desired_max>>
                BY <1>0, <3>1, Moved DEF Enroll
            <4> QED BY <4>1 DEF FloorRead, Floor
        <3>2. CASE Load(d) /\ in_use < dial[d].floor
            <4>1. /\ dial[d].pc = "load" /\ dial'[d].floor = dial[d].floor
                  /\ dial'[d].seen = in_use
                  /\ UNCHANGED <<late, desired_max, outdated>>
                BY <1>0, <3>2, Moved, SMT DEF Load
            <4> QED BY <3>2, <4>1 DEF FloorRead, Floor, ReadInv
        <3>3. CASE FloorDeadline(d)
            BY <3>3 DEF FloorDeadline, FloorRead
        <3>4. CASE ~Enroll(d) /\ ~(Load(d) /\ in_use < dial[d].floor) /\ ~FloorDeadline(d)
            <4>1. \E pc \in {"window", "reserve", "top", "parked", "permit", "slot",
                             "connected", "notify", "return", "uncounted", "idle"},
                     floor \in {0, 1, dial[d].floor} : Goto(d, At(pc, floor, 0))
                BY <1>6, <3>4 DEF DialStep, StartDial, LeaveReserve, Load,
                   compare_exchange, Unpark, acquire_owned, try_admit_outbound_dial,
                   Disconnect, Released, ReturnPermit, Cancel, Uncounted, Idle
            <4>2. dial'[d].pc \notin {"load", "cas"}
                BY <1>0, <4>1, Moved
            <4> QED BY <4>2 DEF FloorRead
        <3> QED BY <3>1, <3>2, <3>3, <3>4
    <2> QED BY <2>2, <2>4, <2>5 DEF ReadInv
<1> QED BY <1>3, <1>4, <1>5, <1>6 DEF Next, DialStep

(* A dial is counted by its compare-and-swap alone. *)
LEMMA CountedByCas ==
    ASSUME TypeOK, [Next]_vars, NEW d \in Dials,
           dial[d].pc = "cas", dial'[d].pc = "permit"
    PROVE  in_use = dial[d].seen /\ in_use' = in_use + 1
<1> USE DEF resizeVars, dialVars, listenerVars, windowVars
<1>1. ~UNCHANGED dial
    OBVIOUS
<1>2. PICK e \in Dials : DialStep(e)
    BY <1>1 DEF Next, DialStep, StoreDesired, Forget, FinishResize, ReadCeiling,
       Admit, Accepted, CloseSession, SessionClosed, WindowOver,
       set_new_connections_per_five, vars
<1>3. e = d
    BY <1>2, DialAlone
<1>4. compare_exchange(d)
    BY <1>1, <1>2, <1>3 DEF DialStep, StartDial, LeaveReserve, FloorDeadline, Enroll,
       Load, Unpark, acquire_owned, try_admit_outbound_dial, Disconnect, Released,
       ReturnPermit, Cancel, Uncounted
<1>5. Goto(d, At("top", 0, 0)) => dial'[d].pc = "top"
    BY Moved
<1> QED BY <1>4, <1>5 DEF compare_exchange

(* The same for try_acquire_listener_conn. *)
LEMMA CountedByAdmit ==
    ASSUME TypeOK, [Next]_vars, NEW a \in Acceptors,
           accept[a].pc = "cas", accept'[a].pc = "admitted"
    PROVE  in_use < accept[a].floor /\ in_use' = in_use + 1
<1> USE DEF resizeVars, dialVars, listenerVars, windowVars
<1>1. ~UNCHANGED accept
    OBVIOUS
<1>2. PICK b \in Acceptors : \/ \E headroom \in Headrooms : ReadCeiling(b, headroom)
                             \/ Admit(b)
                             \/ \E noted \in BOOLEAN : Accepted(b, noted)
    <2>1. ASSUME NEW d \in Dials,
                 \/ \E priority_ord \in Priorities : StartDial(d, priority_ord)
                 \/ LeaveReserve(d) \/ FloorDeadline(d) \/ Enroll(d) \/ Load(d)
                 \/ compare_exchange(d) \/ Unpark(d) \/ acquire_owned(d)
          PROVE  UNCHANGED accept
        BY <2>1 DEF StartDial, LeaveReserve, FloorDeadline, Enroll, Load,
                    compare_exchange, Unpark, acquire_owned
    <2>2. ASSUME NEW d \in Dials,
                 \/ try_admit_outbound_dial(d) \/ Disconnect(d) \/ Released(d)
                 \/ ReturnPermit(d) \/ Cancel(d) \/ Uncounted(d)
          PROVE  UNCHANGED accept
        BY <2>2 DEF try_admit_outbound_dial, Disconnect, Released, ReturnPermit,
                    Cancel, Uncounted
    <2>3. ASSUME \/ \E max \in Maxes : StoreDesired(max)
                 \/ Forget \/ FinishResize \/ CloseSession \/ SessionClosed
                 \/ WindowOver \/ \E n \in Budgets : set_new_connections_per_five(n)
                 \/ UNCHANGED vars
          PROVE  UNCHANGED accept
        BY <2>3 DEF StoreDesired, Forget, FinishResize, CloseSession, SessionClosed,
                    WindowOver, set_new_connections_per_five, vars
    <2> QED BY <1>1, <2>1, <2>2, <2>3 DEF Next
<1>3. b = a
    BY <1>2 DEF ReadCeiling, Admit, Accepted, TypeOK
<1>4. Admit(a)
    BY <1>2, <1>3 DEF ReadCeiling, Accepted
<1>5. in_use < accept[a].floor
    <2>1. accept' = [accept EXCEPT ![a] = Idle] => accept'[a].pc = "idle"
        BY SMT DEF TypeOK, Idle, At
    <2>2. ~(in_use >= accept[a].floor)
        BY <1>4, <2>1 DEF Admit
    <2>3. in_use \in Nat /\ accept[a].floor \in Nat
        BY DEF TypeOK
    <2> QED BY <2>2, <2>3, SMT
<1>6. ~(in_use >= accept[a].floor)
    <2>1. in_use \in Nat /\ accept[a].floor \in Nat
        BY DEF TypeOK
    <2> QED BY <1>5, <2>1, SMT
<1> QED BY <1>4, <1>5, <1>6 DEF Admit

(* However dials, listener and resizes interleave, no task takes in_use    *)
(* past the budget it read, and that is the user's unless it was replaced. *)
THEOREM BudgetIsKept == Spec => BudgetKept
<1> DEFINE Kept ==
        /\ \A d \in Dials \ outdated :
               (dial[d].pc = "cas" /\ dial'[d].pc = "permit") =>
                   in_use' <= IF d \in late THEN desired_max
                              ELSE desired_max - listener_reserve(desired_max)
        /\ \A a \in Acceptors \ outdated :
               (accept[a].pc = "cas" /\ accept'[a].pc = "admitted") =>
                   in_use' <= desired_max + accept[a].seen
<1>1. Init => ConnInv /\ ReadInv
    BY ConnInit, ReadInit
<1>2. ConnInv /\ ReadInv /\ [Next]_vars => ConnInv' /\ ReadInv'
    BY ConnStep, ReadStep
<1>3. ConnInv /\ ReadInv /\ [Next]_vars => [Kept]_vars
    <2> SUFFICES ASSUME ConnInv, ReadInv, [Next]_vars PROVE Kept
        OBVIOUS
    <2>0. TypeOK /\ desired_max \in Nat /\ in_use \in Nat
        BY ConnAssumption DEF ConnInv, TypeOK
    <2>1. ASSUME NEW d \in Dials \ outdated, dial[d].pc = "cas", dial'[d].pc = "permit"
          PROVE  in_use' <= IF d \in late THEN desired_max
                            ELSE desired_max - listener_reserve(desired_max)
        <3>1. in_use = dial[d].seen /\ in_use' = in_use + 1
            BY <2>0, <2>1, CountedByCas
        <3>2. dial[d].floor = Floor(d) /\ dial[d].seen < dial[d].floor
            BY <2>1 DEF ReadInv, FloorRead
        <3>3. listener_reserve(desired_max) \in 0..desired_max
            BY <2>0, ReserveWithin
        <3> QED BY <2>0, <3>1, <3>2, <3>3, SMT DEF Floor, saturating_sub
    <2>2. ASSUME NEW a \in Acceptors \ outdated,
                 accept[a].pc = "cas", accept'[a].pc = "admitted"
          PROVE  in_use' <= desired_max + accept[a].seen
        <3>1. in_use < accept[a].floor /\ in_use' = in_use + 1
            BY <2>0, <2>2, CountedByAdmit
        <3>2. accept[a].floor = desired_max + accept[a].seen /\ accept[a].seen \in Nat
            BY <2>0, <2>2 DEF ReadInv, CeilingRead, TypeOK
        <3> QED BY <2>0, <3>1, <3>2, SMT
    <2> QED BY <2>1, <2>2
<1> QED BY <1>1, <1>2, <1>3, PTL DEF Spec, BudgetKept

-----------------------------------------------------------------------------
(* Our own dials are among what the window counts. *)
RationInv == dialled <= count

(* Only try_admit_outbound_dial counts a dial, below the budget. *)
LEMMA RationStep ==
    ConnInv /\ RationInv /\ [Next]_vars =>
        RationInv' /\ (dialled' > dialled => budget = 0 \/ dialled' <= budget)
<1> SUFFICES ASSUME ConnInv, RationInv, [Next]_vars
             PROVE  RationInv' /\ (dialled' > dialled => budget = 0 \/ dialled' <= budget)
    OBVIOUS
<1> USE DEF resizeVars, dialVars, listenerVars, windowVars
<1>0. dialled \in Nat /\ count \in Nat /\ budget \in Nat
    BY ConnAssumption DEF ConnInv, TypeOK
<1>1. \/ UNCHANGED <<dialled, count>>
      \/ dialled' = dialled /\ count' = count + 1
      \/ dialled' = 0 /\ count' = 0
      \/ dialled' = dialled + 1 /\ count' = count + 1 /\ ~WindowFull
    <2> DEFINE Rationed ==
            \/ UNCHANGED <<dialled, count>>
            \/ dialled' = dialled /\ count' = count + 1
            \/ dialled' = 0 /\ count' = 0
            \/ dialled' = dialled + 1 /\ count' = count + 1 /\ ~WindowFull
    <2>1. ASSUME NEW d \in Dials,
                 \/ \E priority_ord \in Priorities : StartDial(d, priority_ord)
                 \/ LeaveReserve(d) \/ FloorDeadline(d) \/ Enroll(d) \/ Load(d)
                 \/ compare_exchange(d) \/ Unpark(d) \/ acquire_owned(d)
          PROVE  Rationed
        BY <2>1 DEF StartDial, LeaveReserve, FloorDeadline, Enroll, Load,
                    compare_exchange, Unpark, acquire_owned
    <2>2. ASSUME NEW d \in Dials,
                 \/ try_admit_outbound_dial(d) \/ Disconnect(d) \/ Released(d)
                 \/ ReturnPermit(d) \/ Cancel(d) \/ Uncounted(d)
          PROVE  Rationed
        BY <2>2 DEF try_admit_outbound_dial, Disconnect, Released, ReturnPermit,
                    Cancel, Uncounted
    <2>3. ASSUME \/ \E max \in Maxes : StoreDesired(max)
                 \/ Forget \/ FinishResize \/ CloseSession \/ SessionClosed
                 \/ WindowOver \/ \E n \in Budgets : set_new_connections_per_five(n)
                 \/ UNCHANGED vars
          PROVE  Rationed
        BY <2>3 DEF StoreDesired, Forget, FinishResize, CloseSession, SessionClosed,
                    WindowOver, set_new_connections_per_five, vars
    <2>4. ASSUME NEW a \in Acceptors,
                 \/ \E headroom \in Headrooms : ReadCeiling(a, headroom)
                 \/ Admit(a)
                 \/ \E noted \in BOOLEAN : Accepted(a, noted)
          PROVE  Rationed
        BY <2>4 DEF ReadCeiling, Admit, Accepted
    <2> QED BY <2>1, <2>2, <2>3, <2>4 DEF Next
<1> QED BY <1>0, <1>1, SMT DEF RationInv, WindowFull

(* A dial takes its place in the window only while there is one, though    *)
(* it waited for a slot since it looked.                                   *)
THEOREM WindowIsKept == Spec => DialsRationed
<1>1. Init => ConnInv /\ RationInv
    <2>1. Init => RationInv
        BY SMT DEF Init, RationInv
    <2> QED BY <2>1, ConnInit
<1>2. ConnInv /\ RationInv /\ [Next]_vars => ConnInv' /\ RationInv'
    BY ConnStep, RationStep
<1>3. ConnInv /\ RationInv /\ [Next]_vars =>
          [dialled' > dialled => budget = 0 \/ dialled' <= budget]_vars
    BY RationStep
<1> QED BY <1>1, <1>2, <1>3, PTL DEF Spec, DialsRationed
=============================================================================
