----------------------------- MODULE PartBytes ------------------------------
(***************************************************************************)
(* What a PartTracker (network/ed2k/part_tracker.rs) promises the workers  *)
(* of a download, without the gap list, the reservation list and the       *)
(* sidecar that implement it.                                              *)
(*                                                                         *)
(* A byte is missing or present.  A worker may write a byte only while it  *)
(* is missing and reserved by that worker alone; a part is verified only   *)
(* while all its bytes are present.                                        *)
(***************************************************************************)
CONSTANTS
    Bytes,     \* offsets of the file
    Parts,     \* part indices
    PartSpan,      \* PartSpan[p]: the bytes of part p
    Workers    \* source workers

VARIABLES
    missing,    \* bytes not on disk yet
    writing,    \* writing[w]: bytes w has reserved
    abandoned,  \* bytes reserved by workers that died, not handed back yet
    verified    \* parts whose hash matched

vars == <<missing, writing, abandoned, verified>>

TypeOK ==
    /\ missing \subseteq Bytes
    /\ writing \in [Workers -> SUBSET Bytes]
    /\ abandoned \subseteq Bytes
    /\ verified \subseteq Parts

Reserved == abandoned \cup UNION {writing[w] : w \in Workers}

Complete(p, gone) == PartSpan[p] \cap gone = {}

Init ==
    /\ missing = Bytes
    /\ writing = [w \in Workers |-> {}]
    /\ abandoned = {}
    /\ verified = {}

(* Bytes B are missing (again): the parts they belong to are not verified. *)
Reopened(B) == {p \in verified : Complete(p, B)}

(* Mutant: what others reserved is granted again. *)
ReserveAgain(w, R) ==
    /\ writing[w] = {}
    /\ writing' = [writing EXCEPT ![w] = R]
    /\ UNCHANGED <<missing, abandoned, verified>>

Reserve(w, R) ==
    /\ writing[w] = {}
    /\ R \cap Reserved = {}
    /\ writing' = [writing EXCEPT ![w] = R]
    /\ UNCHANGED <<missing, abandoned, verified>>

(* w hands its reservation back having written C; bounding the gap list    *)
(* may take present bytes B back.                                          *)
Finish(w, C, B) ==
    /\ missing' = (missing \ C) \cup B
    /\ writing' = [writing EXCEPT ![w] = {}]
    /\ verified' = Reopened(B)
    /\ UNCHANGED abandoned

Abandon(w) ==
    /\ abandoned' = abandoned \cup writing[w]
    /\ writing' = [writing EXCEPT ![w] = {}]
    /\ UNCHANGED <<missing, verified>>

Reclaim(A) ==
    /\ abandoned' = abandoned \ A
    /\ UNCHANGED <<missing, writing, verified>>

Reopen(B) ==
    /\ missing' = missing \cup B
    /\ verified' = Reopened(B)
    /\ UNCHANGED <<writing, abandoned>>

(* The parts P matched their hashes; here too bytes B may be taken back. *)
Verify(P, B) ==
    /\ \A p \in P : Complete(p, missing \cup B)
    /\ missing' = missing \cup B
    /\ verified' = Reopened(B) \cup P
    /\ UNCHANGED <<writing, abandoned>>

Withdraw(P) ==
    /\ verified' = verified \ P
    /\ UNCHANGED <<missing, writing, abandoned>>

(* A new session: any progress, but no part verified without its bytes. *)
Load(M, V) ==
    /\ \A p \in V : Complete(p, M)
    /\ missing' = M
    /\ verified' = V
    /\ writing' = [w \in Workers |-> {}]
    /\ abandoned' = {}

Next ==
    \/ \E w \in Workers :
           \/ \E R \in SUBSET missing : Reserve(w, R)
           \/ \E C \in SUBSET writing[w], B \in SUBSET Bytes : Finish(w, C, B)
           \/ Abandon(w)
    \/ \E A \in SUBSET abandoned : Reclaim(A)
    \/ \E B \in SUBSET Bytes :
           \/ Reopen(B)
           \/ \E P \in SUBSET Parts : Verify(P, B)
    \/ \E P \in SUBSET Parts : Withdraw(P)
    \/ \E M \in SUBSET Bytes, V \in SUBSET Parts : Load(M, V)

Spec == Init /\ [][Next]_vars

-----------------------------------------------------------------------------
(* No byte has two writers: what a worker reserved, no other worker and no *)
(* dropped reservation holds (reserve_write_subranges:                     *)
(* "never write bytes another worker is writing").                         *)
OneWriterPerByte ==
    \A w \in Workers :
        /\ writing[w] \cap abandoned = {}
        /\ \A v \in Workers \ {w} : writing[w] \cap writing[v] = {}

(* A reserved byte is missing: no worker is about to write a byte that is  *)
(* on disk already, where another source may have verified it              *)
(* (fillable_subranges).                                                   *)
WritesOnlyMissing == Reserved \subseteq missing

(* A verified part has all its bytes. *)
VerifiedIsComplete == \A p \in verified : Complete(p, missing)

(* A byte becomes present only by the hand of the worker that reserved it, *)
(* or with a new session.                                                  *)
OnlyHoldersFill ==
    [][ \/ Load(missing', verified')
        \/ \A b \in missing \ missing' :
               \E w \in Workers : b \in writing[w] /\ writing'[w] = {} ]_vars
=============================================================================
