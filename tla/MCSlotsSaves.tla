---------------------------- MODULE MCSlotsSaves ----------------------------
(* The sidecar saves of one download (PartMet) and the slots that several  *)
(* downloads share (TransferManager), one at a time: a behaviour is one of *)
(* the focus, and the other stays in its first state.  Saving threads and  *)
(* downloads are the same three model values, so that one symmetry serves  *)
(* both.                                                                   *)
EXTENDS PartMet, TLC

CONSTANTS Priorities, MaxConcurrent, MaxEvents

VARIABLES active, queue, status, priority, max_concurrent, verifying,
          checking, rejoining, unpromoted

VARIABLE focus

Slots == INSTANCE TransferManager WITH Ids <- Savers

metVars == <<clock, version, tracker, stopped, save_generation, task, guards,
             minted, suppressed, cancel, met, due, stops>>
slotVars == <<active, queue, status, priority, max_concurrent, verifying,
              checking, rejoining, unpromoted>>

MCInit ==
    /\ focus \in {"saves", "slots"}
    /\ Init /\ Slots!Init
    /\ focus # "slots" =>
           /\ \A n \in MaxConcurrent : max_concurrent <= n
           /\ \A p \in Priorities, s \in Savers : priority[s] <= p

MCNext ==
    /\ \/ focus = "saves" /\ Next /\ UNCHANGED slotVars
       \/ focus = "slots" /\ Slots!Next /\ UNCHANGED metVars
    /\ UNCHANGED focus

MCSpec == MCInit /\ [][MCNext]_<<metVars, slotVars, focus>>

Symmetry == Permutations(Savers)

-----------------------------------------------------------------------------
(* TransferManager: no download waits in the queue while a slot is free. *)
NoIdleSlot == Slots!NoIdleSlot

(* TransferManager: no step takes a slot beyond max_concurrent. *)
CapKept == Slots!CapKept

=============================================================================
