------------------------------ MODULE MCParts -------------------------------
(* The bytes and the verified bits of one file in three small models of    *)
(* PartTracker, one at a time: two workers that write, abort and apply     *)
(* their hash verdicts, one at the gap cap, and one over several loads.  A *)
(* behaviour is one of the focus; the others stay in their first state.    *)
EXTENDS Integers, TLC

CONSTANTS Workers, Downloader

VARIABLES gapped, gappedUnverified, gappedHeld, gappedDropped,
          gappedVerdict, gappedMet, gappedSession

VARIABLES tracker, unverified, held, dropped, verdict, met, session

VARIABLES shared, sharedUnverified, sharedHeld, sharedDropped,
          sharedVerdict, sharedMet, sharedSession

VARIABLE focus

(* Five bytes in two parts, the second one short; blocks of one byte, of a *)
(* whole part and across parts.  A third gap is one too many.              *)
Shared == INSTANCE PartTracker WITH
    Blocks <- {<<1, 2>>, <<3, 4>>, <<0, 3>>, <<2, 5>>},
    file_size <- 5, PARTSIZE <- 3, MAX_GAP_ENTRIES <- 2,
    MAX_WRITE_RESERVATIONS <- 2, MaxGeneration <- 2, MaxSessions <- 0,
    tracker <- shared, unverified <- sharedUnverified, held <- sharedHeld,
    dropped <- sharedDropped, verdict <- sharedVerdict, met <- sharedMet,
    session <- sharedSession

(* Eight bytes in parts of three: a verified middle part can lie between   *)
(* two of three gaps.                                                      *)
Coalesce == INSTANCE PartTracker WITH
    Workers <- {Downloader}, Blocks <- {<<1, 2>>, <<3, 6>>, <<6, 8>>, <<0, 3>>},
    file_size <- 8, PARTSIZE <- 3, MAX_GAP_ENTRIES <- 2,
    MAX_WRITE_RESERVATIONS <- 2, MaxGeneration <- 2, MaxSessions <- 0,
    tracker <- gapped, unverified <- gappedUnverified, held <- gappedHeld,
    dropped <- gappedDropped, verdict <- gappedVerdict, met <- gappedMet,
    session <- gappedSession

(* Three bytes in parts of two, and two loads of the sidecar, resumed or   *)
(* restarted, with the data file cut anywhere.                             *)
Loads == INSTANCE PartTracker WITH
    Workers <- {Downloader}, Blocks <- {<<0, 2>>, <<1, 2>>, <<1, 3>>},
    file_size <- 3, PARTSIZE <- 2, MAX_GAP_ENTRIES <- 1,
    MAX_WRITE_RESERVATIONS <- 1, MaxGeneration <- 2, MaxSessions <- 2

sharedVars == <<shared, sharedUnverified, sharedHeld, sharedDropped,
                sharedVerdict, sharedMet, sharedSession>>
coalesceVars == <<gapped, gappedUnverified, gappedHeld, gappedDropped,
                  gappedVerdict, gappedMet, gappedSession>>
loadsVars == <<tracker, unverified, held, dropped, verdict, met, session>>

MCInit ==
    /\ focus \in {"shared", "coalesce", "loads"}
    /\ Shared!Init /\ Coalesce!Init /\ Loads!Init

MCNext ==
    /\ \/ focus = "shared" /\ Shared!Next
          /\ UNCHANGED <<coalesceVars, loadsVars>>
       \/ focus = "coalesce" /\ Coalesce!Next
          /\ UNCHANGED <<sharedVars, loadsVars>>
       \/ focus = "loads" /\ Loads!Next
          /\ UNCHANGED <<sharedVars, coalesceVars>>
    /\ UNCHANGED focus

MCSpec ==
    MCInit /\ [][MCNext]_<<sharedVars, coalesceVars, loadsVars, focus>>

Symmetry == Permutations(Workers)

-----------------------------------------------------------------------------
(* PartTracker: every reservation in the list has an owner that will give  *)
(* it back.                                                                *)
NoLeakedReservation == Shared!NoLeakedReservation

(* PartTracker implements PartBytes. *)
ImplementsPartBytes == Shared!ImplementsPartBytes

(* PartTracker: coalescing at the cap costs no verified part its bit. *)
CommitKeepsVerified == Coalesce!CommitKeepsVerified

(* PartTracker: no load brings back a bit this process withdrew. *)
WithdrawnStaysWithdrawn == Loads!WithdrawnStaysWithdrawn

(* PartTracker, over several loads, implements PartBytes. *)
ResumedImplementsPartBytes == Loads!ImplementsPartBytes
=============================================================================
