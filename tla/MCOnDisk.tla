------------------------------ MODULE MCOnDisk ------------------------------
(* What one owner after another writes to disk, one at a time: the data    *)
(* file of a download, handed from one session's writer to the next        *)
(* (PartFileWriter), and the files that say what is shared (ShareIntent).  *)
(* A behaviour is one of the focus; the other stays in its first state.    *)
EXTENDS PartFileWriter, TLC

CONSTANTS MaxChanges, MaxAuto, MaxFaults, MaxCrashes, MaxDamage,
          MaxTrouble    \* faults, crashes and damage in one behaviour

VARIABLES intent, intent_file, slot, force, sequence, write_seq, deferred,
          known, list, row, pc, req, before, saving, ui, auto, choice, last,
          spent

VARIABLE focus

Shares == INSTANCE ShareIntent

shareVars == <<intent, intent_file, slot, force, sequence, write_seq,
               deferred, known, list, row, pc, req, before, saving, ui, auto,
               choice, last, spent>>

MCInit ==
    /\ focus \in {"writer", "shares"}
    /\ Init /\ Shares!Init
    /\ focus # "shares" => known.kind = "absent"

WithinTrouble == spent.faults + spent.crashes + spent.damage <= MaxTrouble

MCNext ==
    /\ \/ focus = "writer" /\ Next /\ UNCHANGED shareVars
       \/ focus = "shares" /\ Shares!Next /\ WithinTrouble' /\ UNCHANGED vars
    /\ UNCHANGED focus

MCSpec == MCInit /\ [][MCNext]_<<vars, shareVars, focus>>

Symmetry == Permutations(Gens)

-----------------------------------------------------------------------------
(* ShareIntent: a file the user unshared stays off the network. *)
UnshareIsKept == Shares!UnshareIsKept

(* ShareIntent: a file the user shared stays offered. *)
ShareIsKept == Shares!ShareIsKept

(* ShareIntent: no crash leaves a share denied for good. *)
NotStuck == Shares!NotStuck
=============================================================================
