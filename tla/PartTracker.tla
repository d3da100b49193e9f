---------------------------- MODULE PartTracker -----------------------------
(***************************************************************************)
(* The tracker of a partly downloaded file                                 *)
(* (network/ed2k/part_tracker.rs) and the ways source workers use it       *)
(* (network/ed2k/multi_source.rs): the sorted list of missing byte ranges, *)
(* the reservations workers take while they write outside the lock, the    *)
(* verified bits, the per-part content generation that outdates a hash     *)
(* verdict, and the sidecar a later session loads.                         *)
(*                                                                         *)
(* Every operation runs under the tracker's lock and is one action.  A     *)
(* range <<s, e>> is the bytes s .. e - 1.                                 *)
(***************************************************************************)
EXTENDS Integers, Sequences, SequencesExt, FiniteSets, FiniteSetsExt

CONSTANTS
    Workers,                 \* source workers
    Blocks,                  \* byte ranges the sources send
    file_size,
    PARTSIZE,
    MAX_GAP_ENTRIES,         \* gap ranges a fill may leave behind
    MAX_WRITE_RESERVATIONS,  \* reservations the tracker holds at most
    MaxGeneration,           \* bound on part_content_generation
    MaxSessions              \* bound on loads of the sidecar

VARIABLES
    tracker,     \* the PartTracker of the running session
    unverified,  \* parts in UNVERIFIED_SINCE_CLEAR for this sidecar
    held,        \* held[w]: ranges in w's WriteReservation
    dropped,     \* DropReleaseOp queue: ranges of dropped WriteReservations
    verdict,     \* verdict[w]: the part hash w is working on
    met,         \* what `.part.met` on disk says
    session      \* loads so far

vars == <<tracker, unverified, held, dropped, verdict, met, session>>

FileBytes == 0 .. file_size - 1
part_count == (file_size + PARTSIZE - 1) \div PARTSIZE
FileParts == 0 .. part_count - 1
Lesser(a, b) == IF a < b THEN a ELSE b
Greater(a, b) == IF a > b THEN a ELSE b
part_range(p) == <<p * PARTSIZE, Lesser((p + 1) * PARTSIZE, file_size)>>
Span(r) == {b \in FileBytes : r[1] <= b /\ b < r[2]}
SpanOf(ranges) == UNION {Span(r) : r \in ToSet(ranges)}

(* Parts first ..= last of the byte range s .. e - 1. *)
PartsOf(s, e) ==
    {p \in FileParts : s < e /\ s \div PARTSIZE <= p /\ p <= (e - 1) \div PARTSIZE}

Ranges == {<<s, e>> \in FileBytes \X (1 .. file_size) : s < e}
WholeFile == << <<0, file_size>> >>
NoVerdict == [at |-> "none"]
NoMet == [gaps |-> WholeFile, part_verified |-> {}]

Overlaps(g, s, e) == ~(g[2] <= s \/ g[1] >= e)

(* A part outside the file is not complete: callers only ask for parts. *)
is_part_complete(t, p) ==
    LET r == part_range(p)
    IN  \A i \in DOMAIN t.gaps : ~Overlaps(t.gaps[i], r[1], r[2])

bump_content_generation(t, s, e) ==
    [t EXCEPT !.generation =
        [p \in FileParts |-> IF p \in PartsOf(s, e) THEN @[p] + 1 ELSE @[p]]]

-----------------------------------------------------------------------------
(* The gap list. *)

add_gap(t, s, end) ==
    LET e == Lesser(end, file_size)
        Merge(acc, g) ==
            IF g[2] < acc.s \/ g[1] > acc.e
            THEN [acc EXCEPT !.kept = Append(@, g)]
            ELSE [acc EXCEPT !.s = Lesser(@, g[1]), !.e = Greater(@, g[2])]
        m == FoldLeft(Merge, [kept |-> <<>>, s |-> s, e |-> e], t.gaps)
        gaps == SortSeq(Append(m.kept, <<m.s, m.e>>), LAMBDA a, b : a[1] < b[1])
    IN  IF s >= e THEN t
        ELSE bump_content_generation([t EXCEPT !.gaps = gaps], s, e)

(* A withdrawn bit is recorded for the loads to come. *)
Withdraw(t, parts) ==
    [t EXCEPT !.part_verified = @ \ parts,
              !.cleared = @ \cup (t.part_verified \cap parts)]

invalidate_range(t, s, end) ==
    LET e == Lesser(end, file_size)
    IN  Withdraw(add_gap(t, s, e), PartsOf(s, e))

mark_incomplete(t, p) ==
    Withdraw(add_gap(t, part_range(p)[1], part_range(p)[2]), {p})

(* Mutant: the largest run. *)
LargestCandidate(gaps) ==
    LET run(i) == gaps[i + 1][1] - gaps[i][2]
    IN  CHOOSE i \in 1 .. Len(gaps) - 1 :
            \A j \in 1 .. Len(gaps) - 1 : run(i) >= run(j)

(* The index of the smallest filled run between two gaps, the first one    *)
(* of those of equal length.                                               *)
find_smallest_coalesce_candidate(gaps) ==
    LET run(i) == gaps[i + 1][1] - gaps[i][2]
    IN  CHOOSE i \in 1 .. Len(gaps) - 1 :
            \A j \in 1 .. Len(gaps) - 1 :
                run(i) < run(j) \/ (run(i) = run(j) /\ i <= j)

RECURSIVE Coalesced(_)

Coalesced(t) ==
    IF Len(t.gaps) <= MAX_GAP_ENTRIES \/ Len(t.gaps) < 2 THEN t
    ELSE LET i == find_smallest_coalesce_candidate(t.gaps)
             s == t.gaps[i][2]
             e == t.gaps[i + 1][1]
         IN  IF s >= e THEN t ELSE Coalesced(invalidate_range(t, s, e))

fill_range(t, s, e) ==
    LET Rest(g) ==
            IF ~Overlaps(g, s, e) THEN <<g>>
            ELSE (IF g[1] < s THEN << <<g[1], s>> >> ELSE <<>>)
                 \o (IF g[2] > e THEN << <<e, g[2]>> >> ELSE <<>>)
        filled == [t EXCEPT !.gaps =
                      FlattenSeq([i \in DOMAIN @ |-> Rest(@[i])])]
        newly == \E i \in DOMAIN t.gaps : Overlaps(t.gaps[i], s, e)
    IN  IF s >= e THEN t
        ELSE Coalesced(IF newly THEN bump_content_generation(filled, s, e)
                       ELSE filled)

fillable_subranges(t, s, e) ==
    LET hit == SelectSeq(t.gaps, LAMBDA g : Overlaps(g, s, e))
    IN  [i \in DOMAIN hit |-> <<Greater(hit[i][1], s), Lesser(hit[i][2], e)>>]

-----------------------------------------------------------------------------
(* Reservations. *)

(* What is left of the range c when the sorted `blocked` ranges are cut    *)
(* out of it.                                                              *)
Unblocked(c, blocked) ==
    LET Cut(acc, r) ==
            IF r[2] <= acc.cursor \/ r[1] >= c[2] THEN acc
            ELSE [out |-> IF r[1] > acc.cursor
                          THEN Append(acc.out, <<acc.cursor, r[1]>>)
                          ELSE acc.out,
                  cursor |-> r[2]]
        m == FoldLeft(Cut, [out |-> <<>>, cursor |-> c[1]], blocked)
    IN  IF m.cursor < c[2] THEN Append(m.out, <<m.cursor, c[2]>>) ELSE m.out

(* Mutant: only gaps are consulted, not what other workers reserved. *)
GrantFillable(t, s, e) ==
    LET candidates == fillable_subranges(t, s, e)
    IN  SubSeq(candidates, 1,
               Lesser(Len(candidates),
                      Greater(MAX_WRITE_RESERVATIONS
                                - Cardinality(t.write_reservations), 0)))

(* The ranges reserve_write_subranges grants. *)
Granted(t, s, e) ==
    LET candidates == fillable_subranges(t, s, e)
        blocked == SetToSortSeq({r \in t.write_reservations :
                                     r[1] < e /\ r[2] > s},
                                LAMBDA a, b : a[1] < b[1])
        granted == FlattenSeq([i \in DOMAIN candidates |->
                                  Unblocked(candidates[i], blocked)])
        room == Greater(MAX_WRITE_RESERVATIONS - Cardinality(t.write_reservations), 0)
    IN  SubSeq(granted, 1, Lesser(Len(granted), room))

(* The list is kept in no order and without equal entries: a set. *)
release_write_reservation(t, r) ==
    [t EXCEPT !.write_reservations = @ \ {r}]

commit_write_reservation(t, r) ==
    fill_range(release_write_reservation(t, r), r[1], r[2])

Released(t, ranges) == FoldLeft(release_write_reservation, t, ranges)
Committed(t, ranges) == FoldLeft(commit_write_reservation, t, ranges)

-----------------------------------------------------------------------------
(* A tracker, and the load of one. *)

Tracker(gaps, bits) ==
    [gaps |-> gaps, part_verified |-> bits, write_reservations |-> {},
     generation |-> [p \in FileParts |-> 0], cleared |-> {}]

(* load_emule_format: a sidecar without gaps is a candidate for the final  *)
(* hash, with no bit; a bit of an incomplete part is dropped.              *)
load_emule_format(m) ==
    LET t == Tracker(m.gaps, {})
    IN  IF m.gaps = <<>> THEN t
        ELSE [t EXCEPT !.part_verified =
                  {p \in m.part_verified : is_part_complete(t, p)}]

(* Mutant: the bytes past the end are missing again, the bits stay. *)
UnreadableKeepsBits(t, len) == add_gap(t, len, file_size)

invalidate_unreadable(t, len) ==
    IF len < file_size THEN invalidate_range(t, len, file_size) ELSE t

(* Mutant: a load forgets the bits withdrawn in this process. *)
LoadWithoutOverlay(m, len, pending) ==
    invalidate_unreadable(load_emule_format(m), len)

(* load: the sidecar, cut to the length the `.part` has, without the bits  *)
(* some tracker of this process withdrew.                                  *)
load(m, len, pending) ==
    LET t == invalidate_unreadable(load_emule_format(m), len)
    IN  [t EXCEPT !.part_verified = @ \ (pending \cup t.cleared)]

-----------------------------------------------------------------------------
TypeOK ==
    /\ tracker.gaps \in Seq(Ranges)
    /\ tracker.part_verified \subseteq FileParts
    /\ tracker.write_reservations \subseteq Ranges
    /\ Cardinality(tracker.write_reservations) <= MAX_WRITE_RESERVATIONS
    /\ tracker.generation \in [FileParts -> 0 .. MaxGeneration]
    /\ tracker.cleared = {}
    /\ unverified \subseteq FileParts
    /\ held \in [Workers -> Seq(Ranges)]
    /\ dropped \in Seq(Seq(Ranges))
    /\ \A w \in Workers :
           \/ verdict[w] = NoVerdict
           \/ verdict[w] \in [at : {"checked"}, part : FileParts]
           \/ verdict[w] \in [at : {"hashed"}, part : FileParts,
                              generation : 0 .. MaxGeneration]
    /\ met.gaps \in Seq(Ranges) /\ met.part_verified \subseteq FileParts
    /\ session \in 0 .. MaxSessions

Init ==
    /\ tracker = Tracker(WholeFile, {})
    /\ unverified = {}
    /\ held = [w \in Workers |-> <<>>]
    /\ dropped = <<>>
    /\ verdict = [w \in Workers |-> NoVerdict]
    /\ met = NoMet
    /\ session = 0

(* The tracker becomes t; the bits t withdrew go to the registry, those it *)
(* set leave it.                                                           *)
Becomes(t) ==
    /\ \A p \in FileParts : t.generation[p] <= MaxGeneration
    /\ tracker' = [t EXCEPT !.cleared = {}]
    /\ unverified' = (unverified \cup t.cleared) \ t.part_verified

Idle(w) == held[w] = <<>> /\ verdict[w] = NoVerdict

-----------------------------------------------------------------------------
(* A worker writes the missing bytes of a block it received               *)
(* (write_gap_subranges_ms).                                               *)

Reserve(w, r) ==
    LET granted == Granted(tracker, r[1], r[2])
    IN  /\ Idle(w)
        /\ granted # <<>>
        /\ tracker' = [tracker EXCEPT !.write_reservations =
                                       @ \cup ToSet(granted)]
        /\ held' = [held EXCEPT ![w] = granted]
        /\ UNCHANGED <<unverified, dropped, verdict, met, session>>

(* Mutant: the ranges that did not reach the disk are committed too. *)
FinishAll(w, k) ==
    /\ held[w] # <<>>
    /\ Becomes(Committed(tracker, SubSeq(held[w], 1, k)))
    /\ held' = [held EXCEPT ![w] = <<>>]
    /\ UNCHANGED <<dropped, verdict, met, session>>

(* finish: the first k ranges reached the disk; the rest are handed back. *)
Finish(w, k) ==
    /\ held[w] # <<>>
    /\ Becomes(Released(Committed(tracker, SubSeq(held[w], 1, k)),
                        SubSeq(held[w], k + 1, Len(held[w]))))
    /\ held' = [held EXCEPT ![w] = <<>>]
    /\ UNCHANGED <<dropped, verdict, met, session>>

(* The worker's task is aborted: its reservation is dropped wherever it    *)
(* was, and so is its verdict.                                             *)
Abort(w) ==
    /\ ~Idle(w)
    /\ dropped' = IF held[w] = <<>> THEN dropped ELSE Append(dropped, held[w])
    /\ held' = [held EXCEPT ![w] = <<>>]
    /\ verdict' = [verdict EXCEPT ![w] = NoVerdict]
    /\ UNCHANGED <<tracker, unverified, met, session>>

(* The detached drop-release worker. *)
DropRelease ==
    /\ dropped # <<>>
    /\ tracker' = Released(tracker, Head(dropped))
    /\ dropped' = Tail(dropped)
    /\ UNCHANGED <<unverified, held, verdict, met, session>>

-----------------------------------------------------------------------------
(* A worker verifies the part it closed. *)

CheckGaps(w, p) ==
    /\ Idle(w)
    /\ is_part_complete(tracker, p)
    /\ verdict' = [verdict EXCEPT ![w] = [at |-> "checked", part |-> p]]
    /\ UNCHANGED <<tracker, unverified, held, dropped, met, session>>

(* The generation is read under a second lock, before the hash. *)
HashPart(w) ==
    /\ verdict[w].at = "checked"
    /\ verdict' = [verdict EXCEPT ![w] =
           [at |-> "hashed", part |-> @.part,
            generation |-> tracker.generation[verdict[w].part]]]
    /\ UNCHANGED <<tracker, unverified, held, dropped, met, session>>

Superseded(v) ==
    \/ tracker.generation[v.part] # v.generation
    \/ v.part \in tracker.part_verified

set_part_verified(t, p) == [t EXCEPT !.part_verified = @ \cup {p}]

(* The hash matched and the file is synced. *)
Verified(w) ==
    LET v == verdict[w]
        r == part_range(v.part)
        reopened == \/ ~is_part_complete(tracker, v.part)
                    \/ tracker.generation[v.part] # v.generation
    IN  /\ v.at = "hashed"
        /\ Becomes(IF reopened THEN tracker
                   ELSE set_part_verified(fill_range(tracker, r[1], r[2]),
                                          v.part))
        /\ verdict' = [verdict EXCEPT ![w] = NoVerdict]
        /\ UNCHANGED <<held, dropped, met, session>>

(* The hash differs, and AICH did not narrow the damage down. *)
Mismatch(w) ==
    LET v == verdict[w]
    IN  /\ v.at = "hashed"
        /\ Becomes(IF Superseded(v) THEN tracker
                   ELSE mark_incomplete(tracker, v.part))
        /\ verdict' = [verdict EXCEPT ![w] = NoVerdict]
        /\ UNCHANGED <<held, dropped, met, session>>

(* AICH recovery named the bad blocks r of the part. *)
AichNarrowed(w, r) ==
    LET v == verdict[w]
    IN  /\ v.at = "hashed"
        /\ PartsOf(r[1], r[2]) = {v.part}
        /\ ~Superseded(v)
        /\ Becomes(invalidate_range(tracker, r[1], r[2]))
        /\ verdict' = [verdict EXCEPT ![w] = NoVerdict]
        /\ UNCHANGED <<held, dropped, met, session>>

-----------------------------------------------------------------------------
(* The whole file.  The final hash runs once every worker is joined. *)

FinalVerify ==
    /\ tracker.gaps = <<>>
    /\ \A w \in Workers : Idle(w)

mark_file_hash_verified ==
    /\ FinalVerify
    /\ Becomes([tracker EXCEPT !.part_verified = FileParts])
    /\ UNCHANGED <<held, dropped, verdict, met, session>>

(* The final hash failed and the parts P have to be fetched again; the     *)
(* save is awaited.                                                        *)
ReopenParts(P) ==
    LET t == FoldSet(LAMBDA p, acc : mark_incomplete(acc, p), tracker, P)
    IN  /\ FinalVerify
        /\ P # {}
        /\ Becomes(t)
        /\ met' = [gaps |-> t.gaps, part_verified |-> t.part_verified]
        /\ UNCHANGED <<held, dropped, verdict, session>>

-----------------------------------------------------------------------------
(* The sidecar and the sessions. *)

(* A snapshot, which every change above takes before it lets go of the     *)
(* lock, reaches the disk.  Another thread writes it, and may fail; only   *)
(* the last to land counts, so the snapshot and its write are one step     *)
(* that may be missing.                                                    *)
Save ==
    /\ session < MaxSessions
    /\ met' = [gaps |-> tracker.gaps, part_verified |-> tracker.part_verified]
    /\ UNCHANGED <<tracker, unverified, held, dropped, verdict, session>>

NewSession ==
    /\ session < MaxSessions
    /\ session' = session + 1
    /\ held' = [w \in Workers |-> <<>>]
    /\ dropped' = <<>>
    /\ verdict' = [w \in Workers |-> NoVerdict]
    /\ UNCHANGED met

(* A hashset that fails verify_hashset takes every bit with it            *)
(* (clear_part_hashes_and_verified).                                       *)
Checked(t, hashset_ok) == IF hashset_ok THEN t ELSE Withdraw(t, FileParts)

(* The download is resumed in the same process, with `len` bytes in the    *)
(* `.part`; the previous session's tracker and workers are gone.           *)
Resume(len, hashset_ok) ==
    LET t == Checked(load(met, len, unverified), hashset_ok)
    IN  /\ NewSession
        /\ tracker' = [t EXCEPT !.cleared = {}]
        /\ unverified' = unverified \cup t.cleared

(* The program is started again. *)
Restart(len, hashset_ok) ==
    LET t == Checked(load(met, len, {}), hashset_ok)
    IN  /\ NewSession
        /\ tracker' = [t EXCEPT !.cleared = {}]
        /\ unverified' = t.cleared

(* The `.part` is gone: the sidecar is ignored. *)
ResumeMissing ==
    /\ NewSession
    /\ tracker' = Tracker(WholeFile, {})
    /\ UNCHANGED unverified

Next ==
    \/ \E w \in Workers :
           \/ \E r \in Blocks : Reserve(w, r)
           \/ \E b \in FileBytes : AichNarrowed(w, <<b, b + 1>>)
           \/ \E k \in 0 .. Len(held[w]) : Finish(w, k)
           \/ Abort(w)
           \/ \E p \in FileParts : CheckGaps(w, p)
           \/ HashPart(w) \/ Verified(w) \/ Mismatch(w)
    \/ DropRelease
    \/ mark_file_hash_verified
    \/ \E P \in SUBSET FileParts : ReopenParts(P)
    \/ Save
    \/ \E len \in 0 .. file_size, ok \in BOOLEAN :
           Resume(len, ok) \/ Restart(len, ok)
    \/ ResumeMissing

Spec == Init /\ [][Next]_vars

-----------------------------------------------------------------------------
(* Every reservation the tracker holds has an owner that will hand it      *)
(* back, a worker or the drop queue, and no two of them overlap: "a        *)
(* reservation nobody hands back is a gap no worker is ever allowed to     *)
(* fill again".                                                            *)
NoLeakedReservation ==
    LET holders == [w \in Workers |-> ToSet(held[w])] @@
                   [i \in DOMAIN dropped |-> ToSet(dropped[i])]
    IN  /\ tracker.write_reservations = UNION Range(holders)
        /\ \A h, i \in DOMAIN holders :
               \A q \in holders[h], r \in holders[i] :
                   Span(q) \cap Span(r) # {} => h = i /\ q = r

(* A verified part has all its bytes. *)
VerifiedIsComplete ==
    \A p \in tracker.part_verified : is_part_complete(tracker, p)

(* A part whose bit was withdrawn in this process and that was not hashed  *)
(* again since is not verified, whatever sidecar was loaded meanwhile      *)
(* (UNVERIFIED_SINCE_CLEAR).                                               *)
WithdrawnStaysWithdrawn == unverified \cap tracker.part_verified = {}

(* Bounding the list gives back the smallest filled run, which holds no    *)
(* whole part unless the file has room for MAX_GAP_ENTRIES runs that do:   *)
(* below that size, a commit never costs a part its verified bit.          *)
CommitKeepsVerified ==
    [][ /\ file_size < MAX_GAP_ENTRIES * (PARTSIZE + 1) + 1
        /\ \E w \in Workers : \E k \in 0 .. Len(held[w]) : Finish(w, k)
        => tracker'.part_verified = tracker.part_verified ]_vars

(* The tracker implements the abstract one. *)
Abstract ==
    INSTANCE PartBytes WITH
        Bytes <- FileBytes,
        Parts <- FileParts,
        PartSpan <- [p \in FileParts |-> Span(part_range(p))],
        missing <- SpanOf(tracker.gaps),
        writing <- [w \in Workers |-> SpanOf(held[w])],
        abandoned <- UNION {SpanOf(dropped[i]) : i \in DOMAIN dropped},
        verified <- tracker.part_verified

(* Gap list, reservation list, drop queue and sidecar together behave like *)
(* PartBytes: one writer per byte, only missing bytes written, verified    *)
(* only when complete.                                                     *)
ImplementsPartBytes == Abstract!Spec
=============================================================================
