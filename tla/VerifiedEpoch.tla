--------------------------- MODULE VerifiedEpoch ----------------------------
(***************************************************************************)
(* How upload sessions learn that a verified bit was withdrawn             *)
(* (VERIFICATION_EPOCH and UNVERIFIED_SINCE_CLEAR of                       *)
(* network/ed2k/part_tracker.rs; the tracker cache of                      *)
(* network/ed2k/upload.rs).                                                *)
(*                                                                         *)
(* The download worker owns the live tracker of a file.  A session serves  *)
(* from its own copy, parsed from a sidecar that may be older than the     *)
(* live tracker, and takes neither the tracker's lock nor a message from   *)
(* it.  A withdrawal is put in a registry and then announced by a counter; *)
(* sessions read the counter before they read anything else.               *)
(***************************************************************************)
EXTENDS Naturals

CONSTANTS
    Parts,
    Sessions,   \* upload sessions that serve this file
    MaxEpoch    \* bound on VERIFICATION_EPOCH

VARIABLES
    live,        \* part_verified of the worker's tracker
    unverified,  \* UNVERIFIED_SINCE_CLEAR for this file
    fresh,       \* recorded by the withdrawal in progress, not announced yet
    epoch,       \* VERIFICATION_EPOCH
    snap,        \* bits of the last snapshot taken for saving
    met,         \* bits in `.part.met`
    cache,       \* cache[s]: bits of the session's tracker, and their epoch
    seen,        \* seen[s]: the epoch s read for what it is doing
    parsed,      \* parsed[s]: bits of the tracker s is loading
    at,          \* at[s]: where s is
    known        \* history: known[s] are the parts that were withdrawn, and
                 \* announced, when s read the epoch, and are still

workerVars == <<live, unverified, fresh, epoch, snap, met>>
sessionVars == <<cache, seen, parsed, at, known>>
vars == <<live, unverified, fresh, epoch, snap, met,
          cache, seen, parsed, at, known>>

At == {"idle", "batch", "load", "overlay", "install", "block", "gate"}

TypeOK ==
    /\ live \subseteq Parts
    /\ unverified \subseteq Parts
    /\ fresh \subseteq unverified
    /\ epoch \in Nat
    /\ snap \subseteq Parts
    /\ met \subseteq Parts
    /\ cache \in [Sessions -> [bits : SUBSET Parts, epoch : Nat]]
    /\ seen \in [Sessions -> Nat]
    /\ parsed \in [Sessions -> SUBSET Parts]
    /\ at \in [Sessions -> At]
    /\ known \in [Sessions -> SUBSET Parts]

(* No cached tracker serves like one without bits. *)
NoCache == [bits |-> {}, epoch |-> 0]

Init ==
    /\ live = {} /\ unverified = {} /\ fresh = {}
    /\ epoch = 0
    /\ snap = {} /\ met = {}
    /\ cache = [s \in Sessions |-> NoCache]
    /\ seen = [s \in Sessions |-> 0]
    /\ parsed = [s \in Sessions |-> {}]
    /\ at = [s \in Sessions |-> "idle"]
    /\ known = [s \in Sessions |-> {}]

-----------------------------------------------------------------------------
(* The worker.  It holds the tracker's lock from the record to the bump.   *)

(* set_part_verified, or mark_file_hash_verified when P is every part. *)
set_part_verified(P) ==
    /\ fresh = {}
    /\ live' = live \cup P
    /\ unverified' = unverified \ P
    /\ known' = [s \in Sessions |-> known[s] \ P]
    /\ UNCHANGED <<fresh, epoch, snap, met, cache, seen, parsed, at>>

(* mark_incomplete, invalidate_range, clear_part_hashes_and_verified. *)
record_unverified(P) ==
    /\ fresh = {}
    /\ P # {} /\ P \subseteq live
    /\ epoch < MaxEpoch
    /\ live' = live \ P
    /\ unverified' = unverified \cup P
    /\ fresh' = P
    /\ UNCHANGED <<epoch, snap, met, sessionVars>>

bump_verification_epoch ==
    /\ fresh # {}
    /\ epoch' = epoch + 1
    /\ fresh' = {}
    /\ UNCHANGED <<live, unverified, snap, met, sessionVars>>

(* A snapshot is written some time after it is taken, or never. *)
snapshot_for_save ==
    /\ fresh = {}
    /\ snap' = live
    /\ UNCHANGED <<live, unverified, fresh, epoch, met, sessionVars>>

write_to_disk ==
    /\ met' = snap
    /\ UNCHANGED <<live, unverified, fresh, epoch, snap, sessionVars>>

-----------------------------------------------------------------------------
(* A session.  It reads the epoch first, whatever it does next. *)

Goto(s, from, to) == at[s] = from /\ at' = [at EXCEPT ![s] = to]

verification_epoch(s, to) ==
    /\ Goto(s, "idle", to)
    /\ seen' = [seen EXCEPT ![s] = epoch]
    /\ known' = [known EXCEPT ![s] = unverified \ fresh]
    /\ UNCHANGED <<workerVars, cache, parsed>>

(* The copy is behind: take the registry's bits out of it. *)
apply_pending_invalidations(s) ==
    cache' = [cache EXCEPT ![s] =
        IF cache[s].epoch = seen[s] THEN cache[s]
        ELSE [bits |-> cache[s].bits \ unverified, epoch |-> seen[s]]]

(* A batch of requested blocks: the cached copy is brought up to date and  *)
(* kept, or parsed again when it is old and the sidecar has changed.       *)
Batch(s) ==
    /\ at[s] = "batch"
    /\ apply_pending_invalidations(s)
    /\ \E to \in {"idle", "load"} : Goto(s, "batch", to)
    /\ UNCHANGED <<workerVars, seen, parsed, known>>

(* PartTracker::new: the sidecar is read... *)
load_inner(s) ==
    /\ Goto(s, "load", "overlay")
    /\ parsed' = [parsed EXCEPT ![s] = met]
    /\ UNCHANGED <<workerVars, cache, seen, known>>

(* ... and what the registry has is taken out. *)
Overlay(s) ==
    /\ Goto(s, "overlay", "install")
    /\ parsed' = [parsed EXCEPT ![s] = @ \ unverified]
    /\ UNCHANGED <<workerVars, cache, seen, known>>

Install(s) ==
    /\ Goto(s, "install", "idle")
    /\ cache' = [cache EXCEPT ![s] = [bits |-> parsed[s], epoch |-> seen[s]]]
    /\ UNCHANGED <<workerVars, seen, parsed, known>>

(* Mutant: the epoch is compared once a batch only. *)
BlockFromCache(s) ==
    /\ Goto(s, "block", "gate")
    /\ UNCHANGED <<workerVars, cache, seen, parsed, known>>

(* One block of a batch: the copy is brought up to date again... *)
Block(s) ==
    /\ Goto(s, "block", "gate")
    /\ apply_pending_invalidations(s)
    /\ UNCHANGED <<workerVars, seen, parsed, known>>

(* ... and is_range_safe_to_serve decides from it. *)
Gate(s) ==
    /\ Goto(s, "gate", "idle")
    /\ UNCHANGED <<workerVars, cache, seen, parsed, known>>

Worker ==
    \/ \E P \in SUBSET Parts : set_part_verified(P) \/ record_unverified(P)
    \/ bump_verification_epoch
    \/ snapshot_for_save
    \/ write_to_disk

Session(s) ==
    \/ \E to \in {"batch", "load", "block"} : verification_epoch(s, to)
    \/ Batch(s)
    \/ load_inner(s)
    \/ Overlay(s)
    \/ Install(s)
    \/ Block(s)
    \/ Gate(s)

Next == Worker \/ \E s \in Sessions : Session(s)

Spec == Init /\ [][Next]_vars

-----------------------------------------------------------------------------
(* A copy that carries the current epoch has no bit that was withdrawn and *)
(* announced since: reading the epoch is enough to know whether the copy   *)
(* can be trusted.                                                         *)
CurrentCopyIsClean ==
    \A s \in Sessions :
        cache[s].epoch = epoch => cache[s].bits \cap (unverified \ fresh) = {}

(* A block is not served from a part whose verified bit had been withdrawn *)
(* when the session looked at the epoch for it ("a part un-verified        *)
(* meanwhile has to stop the next one").                                   *)
NoWithdrawnBlock ==
    \A s \in Sessions : at[s] = "gate" => cache[s].bits \cap known[s] = {}
=============================================================================
