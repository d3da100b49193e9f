------------------------- MODULE DownloadIntegrity --------------------------
(***************************************************************************)
(* The bytes of a download, from a peer's block to the verified bit        *)
(* (network/ed2k/multi_source.rs with part_tracker.rs and                  *)
(* write_coordinator.rs).                                                  *)
(*                                                                         *)
(* Source workers reserve missing blocks, write them through the one queue *)
(* of the `.part` file, and commit them.  Whoever closes a part, and a     *)
(* sweep, hash it through the same queue, flush it, and mark it verified   *)
(* if nothing happened to it meanwhile.  Snapshots of the tracker go to    *)
(* `.part.met`; after a crash the download restarts from that sidecar and  *)
(* from what the disk kept.                                                *)
(*                                                                         *)
(* Data: a block on disk is good (what the file's hashes ask for) or bad.  *)
(* A content generation is only ever compared with an earlier value of     *)
(* itself, so a hash job carries "unchanged since" instead of the number.  *)
(* The writer is its queue; PartFileWriter has its threads and gates, and  *)
(* PartMet the threads that save.                                          *)
(***************************************************************************)
EXTENDS Naturals, Sequences

CONSTANTS
    Blocks, Parts,
    PartOf,    \* PartOf[b]: the part block b lies in
    Workers,   \* source workers, the rehash sweep among them
    MaxLane,   \* bound on queued operations
    MaxSaves,  \* bound on snapshots on their way to the sidecar
    None       \* no block, part or worker

ASSUME IntegrityAssumption ==
    /\ PartOf \in [Blocks -> Parts]
    /\ None \notin Blocks \cup Parts \cup Workers
    /\ MaxLane \in Nat /\ MaxSaves \in Nat

VARIABLES
    missing,    \* blocks in the gap list
    verified,   \* parts with a verified bit
    abandoned,  \* blocks reserved by aborted workers
    job,        \* job[w]: what worker w is doing
    lane,       \* the writer's queue
    wedged,     \* the writer refuses operations
    disk,       \* disk[b]: content of block b
    stable,     \* stable[b]: contents b may have after a crash
    saves,      \* snapshots on their way to the sidecar, oldest first
    met         \* `.part.met`

trackerVars == <<missing, verified, abandoned>>
diskVars == <<disk, stable>>
savedVars == <<saves, met>>
vars == <<missing, verified, abandoned, job, lane, wedged, disk, stable,
          saves, met>>

Contents == {"good", "bad"}
BlocksOf(p) == {b \in Blocks : PartOf[b] = p}

Idle == [at |-> "idle", blk |-> None, part |-> None, same |-> FALSE,
         sweep |-> FALSE]
At == {"idle", "write", "written", "failed", "gaps", "hash", "matched",
       "mismatched", "sync", "synced"}
Jobs == [at : At, blk : Blocks \cup {None}, part : Parts \cup {None},
         same : BOOLEAN, sweep : BOOLEAN]
Ops == [op : {"write", "hash", "sync"}, blk : Blocks \cup {None},
        data : Contents, by : Workers \cup {None}]
Trackers == [missing : SUBSET Blocks, verified : SUBSET Parts]

TypeOK ==
    /\ missing \subseteq Blocks /\ verified \subseteq Parts
    /\ abandoned \subseteq Blocks
    /\ job \in [Workers -> Jobs]
    /\ lane \in Seq(Ops) /\ wedged \in BOOLEAN
    /\ disk \in [Blocks -> Contents] /\ stable \in [Blocks -> SUBSET Contents]
    /\ saves \in Seq(Trackers) /\ met \in Trackers

(* A new download: an empty file, and no sidecar, which loads the same. *)
Init ==
    /\ missing = Blocks /\ verified = {} /\ abandoned = {}
    /\ job = [w \in Workers |-> Idle]
    /\ lane = <<>> /\ wedged = FALSE
    /\ disk = [b \in Blocks |-> "bad"] /\ stable = [b \in Blocks |-> {"bad"}]
    /\ saves = <<>> /\ met = [missing |-> Blocks, verified |-> {}]

-----------------------------------------------------------------------------
(* Steps of the code that several actions share. *)

Become(w, j) == job' = [job EXCEPT ![w] = j]

(* reserve_write_subranges grants no block of another reservation. *)
Reserved == abandoned \cup {job[w].blk : w \in Workers}

(* A worker claims the part it fills or hashes (InProgressGuard). *)
Claimed(p) ==
    \E w \in Workers : \/ job[w].part = p
                       \/ job[w].blk # None /\ PartOf[job[w].blk] = p

Submit(w, op, b, c) ==
    /\ ~wedged /\ Len(lane) < MaxLane
    /\ lane' = Append(lane, [op |-> op, blk |-> b, data |-> c, by |-> w])

(* bump_content_generation: hash jobs of the parts P carry an old number. *)
Bumped(j, P) == IF j.part \in P THEN [j EXCEPT !.same = FALSE] ELSE j

(* Mutant: the content generation is left alone. *)
BumpNobody(w, j, P) == Become(w, j)

Bump(w, j, P) ==
    job' = [v \in Workers |-> IF v = w THEN j ELSE Bumped(job[v], P)]

(* snapshot_for_save, in the critical section of the change. *)
Save(m, v) ==
    /\ Len(saves) < MaxSaves
    /\ saves' = Append(saves, [missing |-> m, verified |-> v])

(* w's operation goes on without anybody to answer to. *)
Orphan(w) ==
    lane' = [i \in 1 .. Len(lane) |->
                IF lane[i].by = w THEN [lane[i] EXCEPT !.by = None]
                                  ELSE lane[i]]

-----------------------------------------------------------------------------
(* Filling: write_gap_subranges_ms. *)

(* Mutant: a block another worker is writing is granted again. *)
ReserveTwice(w, b, c) ==
    /\ job[w] = Idle
    /\ b \in missing
    /\ Submit(w, "write", b, c)
    /\ Become(w, [Idle EXCEPT !.at = "write", !.blk = b])
    /\ UNCHANGED <<trackerVars, wedged, diskVars, savedVars>>

Reserve(w, b, c) ==
    /\ job[w] = Idle
    /\ b \in missing \ Reserved
    /\ Submit(w, "write", b, c)
    /\ Become(w, [Idle EXCEPT !.at = "write", !.blk = b])
    /\ UNCHANGED <<trackerVars, wedged, diskVars, savedVars>>

(* WriteReservation::finish, after a write that succeeded. *)
Commit(w) ==
    /\ job[w].at = "written"
    /\ missing' = missing \ {job[w].blk}
    /\ Bump(w, Idle, {PartOf[job[w].blk]})
    /\ UNCHANGED <<verified, abandoned, lane, wedged, diskVars, savedVars>>

(* ... and after one that failed.  A source worker whose flush failed, or  *)
(* that narrowed a mismatch down, lets go of its part and saves.           *)
Release(w) ==
    /\ job[w].at = "failed"
    /\ IF job[w].part # None /\ ~job[w].sweep
         THEN Save(missing, verified) ELSE UNCHANGED saves
    /\ Become(w, Idle)
    /\ UNCHANGED <<trackerVars, lane, wedged, diskVars, met>>

(* The worker's task is aborted: its reservation is dropped, and waits for *)
(* the release worker; its queued operation is carried out all the same.   *)
Abort(w) ==
    /\ job[w] # Idle
    /\ abandoned' = IF job[w].blk = None THEN abandoned
                                         ELSE abandoned \cup {job[w].blk}
    /\ Orphan(w)
    /\ Become(w, Idle)
    /\ UNCHANGED <<missing, verified, wedged, diskVars, savedVars>>

(* DropReleaseOp::WriteRanges. *)
DropRelease(b) ==
    /\ b \in abandoned
    /\ abandoned' = abandoned \ {b}
    /\ UNCHANGED <<missing, verified, job, lane, wedged, diskVars, savedVars>>

(* An operation runs out of its budget: the caller is told it failed, and  *)
(* the writer takes no more.                                               *)
Timeout(w) ==
    /\ job[w].at \in {"write", "hash", "sync"}
    /\ wedged' = TRUE
    /\ Orphan(w)
    /\ Become(w, IF job[w].at = "hash" THEN Idle
                                       ELSE [job[w] EXCEPT !.at = "failed"])
    /\ UNCHANGED <<trackerVars, diskVars, savedVars>>

-----------------------------------------------------------------------------
(* The writer thread, in the order of its queue.  A wedged one leaves what *)
(* is queued undone: it then never takes these steps, and the callers are  *)
(* told so like those of an operation that runs out of its budget.         *)

(* A failed write may have torn the block. *)
LaneWrite ==
    /\ lane # <<>> /\ Head(lane).op = "write"
    /\ lane' = Tail(lane)
    /\ LET o == Head(lane)
       IN  \/ /\ disk' = [disk EXCEPT ![o.blk] = o.data]
              /\ stable' = [stable EXCEPT ![o.blk] = @ \cup {o.data}]
              /\ IF o.by = None THEN UNCHANGED job
                 ELSE Become(o.by, [job[o.by] EXCEPT !.at = "written"])
           \/ /\ disk' = [disk EXCEPT ![o.blk] = "bad"]
              /\ stable' = [stable EXCEPT ![o.blk] = @ \cup {"bad"}]
              /\ IF o.by = None THEN UNCHANGED job
                 ELSE Become(o.by, [job[o.by] EXCEPT !.at = "failed"])
    /\ UNCHANGED <<trackerVars, wedged, savedVars>>

(* hash_part_md4; a read error ends the job. *)
LaneHash ==
    /\ lane # <<>> /\ Head(lane).op = "hash"
    /\ lane' = Tail(lane)
    /\ LET w == Head(lane).by
       IN  IF w = None THEN UNCHANGED job
           ELSE \/ Become(w, [job[w] EXCEPT !.at =
                       IF \A b \in BlocksOf(job[w].part) : disk[b] = "good"
                         THEN "matched" ELSE "mismatched"])
                \/ Become(w, Idle)
    /\ UNCHANGED <<trackerVars, wedged, diskVars, savedVars>>

(* Mutant: the flush is a no-op. *)
LaneSyncNothing ==
    /\ lane # <<>> /\ Head(lane).op = "sync"
    /\ lane' = Tail(lane)
    /\ LET w == Head(lane).by
       IN  IF w = None THEN UNCHANGED job
           ELSE Become(w, [job[w] EXCEPT !.at = "synced"])
    /\ UNCHANGED <<trackerVars, wedged, diskVars, savedVars>>

(* sync_data. *)
LaneSync ==
    /\ lane # <<>> /\ Head(lane).op = "sync"
    /\ lane' = Tail(lane)
    /\ LET w == Head(lane).by
       IN  \/ /\ stable' = [b \in Blocks |-> {disk[b]}]
              /\ IF w = None THEN UNCHANGED job
                 ELSE Become(w, [job[w] EXCEPT !.at = "synced"])
           \/ /\ UNCHANGED stable
              /\ IF w = None THEN UNCHANGED job
                 ELSE Become(w, [job[w] EXCEPT !.at = "failed"])
    /\ UNCHANGED <<trackerVars, wedged, disk, savedVars>>

-----------------------------------------------------------------------------
(* Verifying. *)

(* A worker sees that its part has no gaps; the lock is then dropped, ...  *)
CheckGaps(w, p) ==
    /\ job[w] = Idle
    /\ BlocksOf(p) \cap missing = {}
    /\ Become(w, [Idle EXCEPT !.at = "gaps", !.part = p])
    /\ UNCHANGED <<trackerVars, lane, wedged, diskVars, savedVars>>

(* ... taken again to read the generation, and the hash asked for. *)
HashPart(w) ==
    /\ job[w].at = "gaps"
    /\ Submit(w, "hash", None, "bad")
    /\ Become(w, [job[w] EXCEPT !.at = "hash", !.same = TRUE])
    /\ UNCHANGED <<trackerVars, wedged, diskVars, savedVars>>

(* No hash of the part is known yet: it stays unverified. *)
Unverified(w) ==
    /\ job[w].at = "gaps"
    /\ Become(w, Idle)
    /\ Save(missing, verified)
    /\ UNCHANGED <<trackerVars, lane, wedged, diskVars, met>>

(* rehash_unverified_parts picks a part and its generation in one section. *)
RehashPart(w, p) ==
    /\ job[w] = Idle
    /\ BlocksOf(p) \cap missing = {} /\ p \notin verified /\ ~Claimed(p)
    /\ Submit(w, "hash", None, "bad")
    /\ Become(w, [Idle EXCEPT !.at = "hash", !.part = p, !.same = TRUE,
                              !.sweep = TRUE])
    /\ UNCHANGED <<trackerVars, wedged, diskVars, savedVars>>

(* Durability before the verified bit. *)
SyncData(w) ==
    /\ job[w].at = "matched"
    /\ Submit(w, "sync", None, "bad")
    /\ Become(w, [job[w] EXCEPT !.at = "sync"])
    /\ UNCHANGED <<trackerVars, wedged, diskVars, savedVars>>

(* The writer refuses the operation: a hash ends the job, a flush fails. *)
Refused(w) ==
    /\ job[w].at \in {"gaps", "matched"} /\ wedged
    /\ Become(w, IF job[w].at = "gaps" THEN Idle
                                       ELSE [job[w] EXCEPT !.at = "failed"])
    /\ UNCHANGED <<trackerVars, lane, wedged, diskVars, savedVars>>

(* Whether the verdict is void: `reopened`, or part_verdict_superseded. *)
Superseded(w) ==
    IF job[w].sweep \/ job[w].at = "mismatched"
      THEN ~job[w].same \/ job[w].part \in verified
      ELSE BlocksOf(job[w].part) \cap missing # {} \/ ~job[w].same

Verified(w) ==
    /\ job[w].at = "synced"
    /\ IF Superseded(w)
         THEN UNCHANGED <<verified, saves>>
         ELSE /\ verified' = verified \cup {job[w].part}
              /\ Save(missing, verified \cup {job[w].part})
    /\ Become(w, Idle)
    /\ UNCHANGED <<missing, abandoned, lane, wedged, diskVars, met>>

(* The blocks B of p have to be fetched again (invalidate_range). *)
Reopen(w, j, p, B) ==
    /\ missing' = missing \cup B
    /\ verified' = verified \ {p}
    /\ Bump(w, j, {p})
    /\ Save(missing \cup B, verified \ {p})

(* mark_incomplete of the part. *)
Mismatch(w) ==
    /\ job[w].at = "mismatched"
    /\ IF Superseded(w)
         THEN /\ Become(w, Idle)
              /\ IF job[w].sweep THEN UNCHANGED saves ELSE Save(missing, verified)
              /\ UNCHANGED <<missing, verified>>
         ELSE Reopen(w, Idle, job[w].part, BlocksOf(job[w].part))
    /\ UNCHANGED <<abandoned, lane, wedged, diskVars, met>>

(* AICH recovery data, which only a source worker asks for, names the bad  *)
(* blocks B.                                                               *)
AichNarrowed(w, B) ==
    /\ job[w].at = "mismatched" /\ ~job[w].sweep
    /\ B # {} /\ B \subseteq BlocksOf(job[w].part)
    /\ IF Superseded(w)
         THEN Become(w, Idle) /\ UNCHANGED <<missing, verified, saves>>
         ELSE Reopen(w, [job[w] EXCEPT !.at = "failed"], job[w].part, B)
    /\ UNCHANGED <<abandoned, lane, wedged, diskVars, met>>

(* The end of a session that has every block: the workers are gone, the    *)
(* file is flushed and read as a whole.  Parts of a bad file are reopened. *)
FinalVerify ==
    /\ missing = {} /\ lane = <<>> /\ ~wedged
    /\ \A w \in Workers : job[w] = Idle
    /\ stable' = [b \in Blocks |-> {disk[b]}]
    /\ LET bad == {PartOf[b] : b \in {c \in Blocks : disk[c] = "bad"}}
       IN  IF bad = {}
             THEN /\ verified' = Parts  \* mark_file_hash_verified
                  /\ UNCHANGED <<missing, saves>>
             ELSE /\ missing' = {b \in Blocks : PartOf[b] \in bad}
                  /\ verified' = verified \ bad
                  /\ Save(missing', verified')
    /\ UNCHANGED <<abandoned, job, lane, wedged, disk, met>>

-----------------------------------------------------------------------------
(* The sidecar, and crashes. *)

(* periodic_snapshot_for_save. *)
PeriodicSave ==
    /\ Save(missing, verified)
    /\ UNCHANGED <<trackerVars, job, lane, wedged, diskVars, met>>

(* A snapshot reaches the disk; an older one then never does. *)
Saved(i) ==
    /\ met' = saves[i]
    /\ saves' = SubSeq(saves, i + 1, Len(saves))
    /\ UNCHANGED <<trackerVars, job, lane, wedged, diskVars>>

(* Power is lost; the program comes up and loads the sidecar, which keeps  *)
(* the verified bit of a complete part only.                               *)
Crash ==
    /\ \E d \in [Blocks -> Contents] :
           /\ \A b \in Blocks : d[b] \in stable[b]
           /\ disk' = d
           /\ stable' = [b \in Blocks |-> {d[b]}]
    /\ missing' = met.missing
    /\ verified' = {p \in met.verified : BlocksOf(p) \cap met.missing = {}}
    /\ abandoned' = {}
    /\ job' = [w \in Workers |-> Idle]
    /\ lane' = <<>> /\ wedged' = FALSE /\ saves' = <<>>
    /\ UNCHANGED met

-----------------------------------------------------------------------------
Fill(w) ==
    \/ \E b \in Blocks, c \in Contents : Reserve(w, b, c)
    \/ Commit(w) \/ Release(w) \/ Abort(w) \/ Timeout(w)

Verify(w) ==
    \/ \E p \in Parts : CheckGaps(w, p) \/ RehashPart(w, p)
    \/ HashPart(w) \/ Unverified(w) \/ SyncData(w) \/ Refused(w) \/ Verified(w)
    \/ Mismatch(w) \/ \E B \in SUBSET Blocks : AichNarrowed(w, B)

Writer == LaneWrite \/ LaneHash \/ LaneSync

Next ==
    \/ \E w \in Workers : Fill(w) \/ Verify(w)
    \/ \E b \in Blocks : DropRelease(b)
    \/ Writer \/ FinalVerify \/ PeriodicSave
    \/ \E i \in 1 .. Len(saves) : Saved(i)
    \/ Crash

Spec == Init /\ [][Next]_vars

(* Pause and Start within one process: the new session reads the sidecar   *)
(* while the writer still empties the old queue and snapshots of the old   *)
(* tracker are still being written.                                        *)
Resume ==
    /\ missing' = met.missing
    /\ verified' = {p \in met.verified : BlocksOf(p) \cap met.missing = {}}
    /\ abandoned' = {}
    /\ job' = [w \in Workers |-> Idle]
    /\ lane' = [i \in 1 .. Len(lane) |-> [lane[i] EXCEPT !.by = None]]
    /\ wedged' = FALSE
    /\ UNCHANGED <<diskVars, savedVars>>

SpecOverlap == Init /\ [][Next \/ Resume]_vars

-----------------------------------------------------------------------------
(* PROPERTIES *)

(* A part with a verified bit, which is_range_safe_to_serve lets uploads   *)
(* read, holds the bytes its hash was taken of, whatever other workers,    *)
(* aborted writes and crashes did since.                                   *)
VerifiedIsGood ==
    \A p \in verified : \A b \in BlocksOf(p) : disk[b] = "good"

(* "Durability before persisting verified bits": what the sidecar calls    *)
(* verified and complete, no crash can take away.                          *)
SidecarIsDurable ==
    \A p \in met.verified :
        BlocksOf(p) \cap met.missing = {} =>
            \A b \in BlocksOf(p) : stable[b] = {"good"}

(* A write that was abandoned lands, if at all, on a block that is still   *)
(* missing: no committed block is overwritten.                             *)
CommittedStays ==
    [][LaneWrite => \A b \in Blocks \ missing : disk'[b] = disk[b]]_vars

=============================================================================
