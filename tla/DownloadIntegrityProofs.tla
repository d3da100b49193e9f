---------------------- MODULE DownloadIntegrityProofs -----------------------
(***************************************************************************)
(* A verified part holds good bytes, and what the sidecar calls verified   *)
(* survives any crash, for every file, every number of workers and every   *)
(* length of the queue.                                                    *)
(***************************************************************************)
EXTENDS DownloadIntegrity, TLAPS

(* Steps are first-order, for Zenon, unless they name SMT. *)
USE Zenon

Busy == {"gaps", "hash", "matched", "mismatched", "sync", "synced"}

(* A job has a block while it fills and a part while it verifies.          *)
JobOK(w) ==
    /\ job[w].at = "idle" => job[w].blk = None /\ job[w].part = None
    /\ job[w].at \in {"write", "written"} =>
           job[w].blk \in Blocks /\ job[w].part = None
    /\ job[w].at \in Busy => job[w].part \in Parts /\ job[w].blk = None
    /\ job[w].at = "gaps" => ~job[w].sweep
    /\ job[w].blk # None => job[w].blk \in missing \ abandoned

JobInv ==
    \A w \in Workers :
        /\ JobOK(w)
        /\ \A v \in Workers \ {w} : job[w].blk # None => job[v].blk # job[w].blk

(* The queue only writes missing blocks, and a block's last write is the   *)
(* one its holder waits for: whatever an aborted worker left in the queue  *)
(* comes before it.                                                        *)
LaneInv ==
    /\ \A i \in 1 .. Len(lane) :
           /\ lane[i].op = "write" => lane[i].blk \in missing
           /\ lane[i].by # None =>
                  /\ job[lane[i].by].at = lane[i].op
                  /\ job[lane[i].by].blk = lane[i].blk
           /\ \A w \in Workers :
                  job[w].at = "written" /\ lane[i].op = "write" =>
                      lane[i].blk # job[w].blk
           /\ \A j \in 1 .. Len(lane) :
                  /\ lane[i].by # None /\ lane[i].by = lane[j].by => i = j
                  /\ i < j /\ lane[i].by # None /\ lane[j].op = "write"
                     /\ lane[i].op = "write" => lane[j].blk # lane[i].blk

(* A match is about the bytes on disk as long as the part has no gap and   *)
(* its generation is the one read before.                                  *)
VerdictOK(w) ==
    /\ job[w].sweep /\ job[w].same /\ job[w].at \in Busy =>
           BlocksOf(job[w].part) \cap missing = {}
    /\ job[w].at \in {"matched", "sync", "synced"} /\ job[w].same
           /\ BlocksOf(job[w].part) \cap missing = {} =>
           \A b \in BlocksOf(job[w].part) :
               /\ disk[b] = "good"
               /\ job[w].at = "synced" => stable[b] = {"good"}

VerdictInv == \A w \in Workers : VerdictOK(w)

(* Verified parts are complete, good and flushed, and stay verified.       *)
VerifiedInv ==
    /\ \A p \in verified : \A b \in BlocksOf(p) :
           b \notin missing /\ disk[b] = "good" /\ stable[b] = {"good"}
    /\ met.verified \subseteq verified
    /\ \A p \in met.verified : BlocksOf(p) \cap met.missing = {}
    /\ \A i \in 1 .. Len(saves) :
           /\ saves[i].verified \subseteq verified
           /\ \A p \in saves[i].verified : BlocksOf(p) \cap saves[i].missing = {}

IntegrityInv == TypeOK /\ JobInv /\ LaneInv /\ VerdictInv /\ VerifiedInv

-----------------------------------------------------------------------------
(* What the operations on the queue and on the snapshots do. *)

LEMMA LaneTypes ==
    TypeOK => /\ Len(lane) \in Nat
              /\ \A i \in 1 .. Len(lane) :
                     /\ lane[i].op \in {"write", "hash", "sync"}
                     /\ lane[i].by \in Workers \cup {None}
<1> SUFFICES ASSUME TypeOK
             PROVE  /\ Len(lane) \in Nat
                    /\ \A i \in 1 .. Len(lane) :
                           /\ lane[i].op \in {"write", "hash", "sync"}
                           /\ lane[i].by \in Workers \cup {None}
    OBVIOUS
<1>1. Len(lane) \in Nat /\ \A i \in 1 .. Len(lane) : lane[i] \in Ops
    BY SMT DEF TypeOK
<1> QED BY <1>1 DEF Ops

LEMMA SubmitLane ==
    ASSUME TypeOK, NEW w \in Workers, NEW op \in {"write", "hash", "sync"},
           NEW b \in Blocks \cup {None}, NEW c \in Contents, Submit(w, op, b, c)
    PROVE  /\ lane' \in Seq(Ops) /\ Len(lane') = Len(lane) + 1 /\ Len(lane) \in Nat
           /\ \A i \in 1 .. Len(lane) : lane'[i] = lane[i]
           /\ lane'[Len(lane) + 1].op = op /\ lane'[Len(lane) + 1].blk = b
           /\ lane'[Len(lane) + 1].by = w
<1>1. PICK o \in Ops : o = [op |-> op, blk |-> b, data |-> c, by |-> w]
    BY DEF Ops
<1>2. lane' = Append(lane, o) /\ lane \in Seq(Ops)
    BY <1>1 DEF Submit, TypeOK
<1>3. /\ lane' \in Seq(Ops) /\ Len(lane') = Len(lane) + 1 /\ Len(lane) \in Nat
      /\ \A i \in 1 .. Len(lane) : lane'[i] = lane[i]
      /\ lane'[Len(lane) + 1] = o
    BY <1>2, SMT
<1> QED BY <1>1, <1>3, SMT

LEMMA OrphanLane ==
    ASSUME TypeOK, NEW w \in Workers, Orphan(w)
    PROVE  /\ lane' \in Seq(Ops) /\ Len(lane') = Len(lane) /\ Len(lane) \in Nat
           /\ \A i \in 1 .. Len(lane) :
                  /\ lane'[i].op = lane[i].op /\ lane'[i].blk = lane[i].blk
                  /\ lane'[i].by = IF lane[i].by = w THEN None ELSE lane[i].by
<1>1. Len(lane) \in Nat /\ \A i \in 1 .. Len(lane) : lane[i] \in Ops
    BY SMT DEF TypeOK
<1>2. \A i \in 1 .. Len(lane) :
          (IF lane[i].by = w THEN [lane[i] EXCEPT !.by = None] ELSE lane[i]) \in Ops
    BY <1>1 DEF Ops
<1>3. lane' \in Seq(Ops) /\ Len(lane') = Len(lane)
    BY <1>1, <1>2, SMT DEF Orphan
<1>4. \A i \in 1 .. Len(lane) :
          lane'[i] = IF lane[i].by = w THEN [lane[i] EXCEPT !.by = None]
                                       ELSE lane[i]
    BY <1>1 DEF Orphan
<1> QED BY <1>1, <1>3, <1>4 DEF Ops

LEMMA TailLane ==
    ASSUME TypeOK, lane # <<>>, lane' = Tail(lane)
    PROVE  /\ lane' \in Seq(Ops) /\ Len(lane) \in Nat \ {0}
           /\ Len(lane') = Len(lane) - 1
           /\ \A i \in 1 .. Len(lane') : lane'[i] = lane[i + 1]
           /\ Head(lane) = lane[1] /\ lane[1] \in Ops
<1>1. lane \in Seq(Ops)
    BY DEF TypeOK
<1>2. Len(lane) \in Nat /\ Len(lane) # 0
    BY <1>1, SMT
<1> QED BY <1>1, <1>2, SMT

LEMMA SaveSeq ==
    ASSUME TypeOK, NEW m \in SUBSET Blocks, NEW v \in SUBSET Parts, Save(m, v)
    PROVE  /\ saves' \in Seq(Trackers) /\ Len(saves') = Len(saves) + 1
           /\ Len(saves) \in Nat
           /\ \A i \in 1 .. Len(saves) : saves'[i] = saves[i]
           /\ saves'[Len(saves) + 1].missing = m
           /\ saves'[Len(saves) + 1].verified = v
<1>1. PICK t \in Trackers : t = [missing |-> m, verified |-> v]
    BY DEF Trackers
<1>2. saves' = Append(saves, t) /\ saves \in Seq(Trackers)
    BY <1>1 DEF Save, TypeOK
<1> QED BY <1>1, <1>2, SMT

(* Snapshots of what is verified keep VerifiedInv. *)
LEMMA SavesKept ==
    ASSUME TypeOK, VerifiedInv, verified \subseteq verified', met' = met,
           missing' \in SUBSET Blocks, verified' \in SUBSET Parts,
           \/ saves' = saves
           \/ Save(missing', verified'),
           \A p \in verified' : \A b \in BlocksOf(p) :
               b \notin missing' /\ disk'[b] = "good" /\ stable'[b] = {"good"}
    PROVE  VerifiedInv' /\ saves' \in Seq(Trackers)
<1>1. CASE saves' = saves
    BY <1>1 DEF VerifiedInv, TypeOK
<1>2. CASE Save(missing', verified')
    <2>1. /\ saves' \in Seq(Trackers) /\ Len(saves') = Len(saves) + 1
          /\ Len(saves) \in Nat
          /\ \A i \in 1 .. Len(saves) : saves'[i] = saves[i]
          /\ saves'[Len(saves) + 1].missing = missing'
          /\ saves'[Len(saves) + 1].verified = verified'
        BY <1>2, SaveSeq
    <2>2. \A p \in verified' : BlocksOf(p) \cap missing' = {}
        OBVIOUS
    <2>3. \A i \in 1 .. Len(saves') : i \in 1 .. Len(saves) \/ i = Len(saves) + 1
        BY <2>1, SMT
    <2> QED BY <2>1, <2>2, <2>3 DEF VerifiedInv
<1> QED BY <1>1, <1>2

LEMMA IntegrityInit == Init => IntegrityInv
<1> USE IntegrityAssumption DEF IntegrityAssumption
<1> SUFFICES ASSUME Init PROVE IntegrityInv
    OBVIOUS
<1>1. Idle \in Jobs
    BY DEF Idle, Jobs, At
<1>2. TypeOK
    <2>1. /\ missing \subseteq Blocks /\ verified \subseteq Parts
          /\ abandoned \subseteq Blocks
          /\ job \in [Workers -> Jobs] /\ met \in Trackers
        BY <1>1 DEF Init, Trackers
    <2>2. lane \in Seq(Ops) /\ saves \in Seq(Trackers)
        BY SMT DEF Init
    <2>3. wedged \in BOOLEAN
        BY DEF Init
    <2>4. disk \in [Blocks -> Contents] /\ stable \in [Blocks -> SUBSET Contents]
        BY DEF Init, Contents
    <2> QED BY <2>1, <2>2, <2>3, <2>4 DEF TypeOK
<1>3. JobInv /\ VerdictInv
    BY DEF Init, JobInv, JobOK, VerdictInv, VerdictOK, Idle, Busy
<1>4. LaneInv /\ VerifiedInv
    BY SMT DEF Init, LaneInv, VerifiedInv
<1> QED BY <1>2, <1>3, <1>4 DEF IntegrityInv

-----------------------------------------------------------------------------
(* What a step owes each conjunct. *)

(* Worker v's job is as it was, except that its generation may be old now. *)
SameJob(v) ==
    /\ job'[v].at = job[v].at /\ job'[v].blk = job[v].blk
    /\ job'[v].part = job[v].part /\ job'[v].sweep = job[v].sweep
    /\ job'[v].same => job[v].same

LEMMA BecomeKeeps ==
    ASSUME TypeOK, NEW w \in Workers, NEW n \in Jobs, Become(w, n)
    PROVE  /\ job' \in [Workers -> Jobs] /\ job'[w] = n
           /\ \A v \in Workers \ {w} : job'[v] = job[v] /\ SameJob(v)
BY DEF TypeOK, Become, SameJob

LEMMA BumpKeeps ==
    ASSUME TypeOK, NEW w \in Workers, NEW n \in Jobs, NEW P, Bump(w, n, P)
    PROVE  /\ job' \in [Workers -> Jobs] /\ job'[w] = n
           /\ \A v \in Workers \ {w} :
                  SameJob(v) /\ (job'[v].same => job[v].part \notin P)
<1>1. \A v \in Workers : job[v] \in Jobs
    BY DEF TypeOK
<1>2. \A j \in Jobs : /\ Bumped(j, P) \in Jobs
                      /\ Bumped(j, P).at = j.at /\ Bumped(j, P).blk = j.blk
                      /\ Bumped(j, P).part = j.part /\ Bumped(j, P).sweep = j.sweep
                      /\ Bumped(j, P).same => j.same /\ j.part \notin P
    BY DEF Bumped, Jobs
<1>3. /\ job' \in [Workers -> Jobs] /\ job'[w] = n
      /\ \A v \in Workers \ {w} : job'[v] = Bumped(job[v], P)
    BY <1>1, <1>2 DEF Bump
<1> QED BY <1>1, <1>2, <1>3, SMT DEF SameJob

LEMMA JobStep ==
    ASSUME JobInv, NEW w \in Workers, JobOK(w)',
           \A v \in Workers \ {w} : SameJob(v),
           \A v \in Workers \ {w} :
               job[v].blk # None => job[v].blk \in missing' \ abandoned',
           \A v \in Workers \ {w} :
               job'[w].blk # None => job'[v].blk # job'[w].blk
    PROVE  JobInv'
<1>1. ASSUME NEW v \in Workers \ {w} PROVE JobOK(v)'
    BY SMT DEF JobInv, JobOK, SameJob
<1>2. \A v \in Workers : \A u \in Workers \ {v} :
          job'[v].blk # None => job'[u].blk # job'[v].blk
    <2>1. \A v \in Workers \ {w} : job'[v].blk = job[v].blk
        BY DEF SameJob
    <2> QED BY <2>1, SMT DEF JobInv
<1> QED BY <1>1, <1>2 DEF JobInv

LEMMA LaneStep ==
    ASSUME TypeOK, LaneInv, NEW k \in {0, 1}, Len(lane') = Len(lane) - k,
           \A i \in 1 .. Len(lane') :
               /\ lane'[i].op = lane[i + k].op /\ lane'[i].blk = lane[i + k].blk
               /\ lane'[i].by \in {None, lane[i + k].by}
               /\ lane'[i].op = "write" => lane'[i].blk \in missing'
               /\ lane'[i].by # None =>
                      /\ job'[lane'[i].by].at = lane'[i].op
                      /\ job'[lane'[i].by].blk = lane'[i].blk
               /\ \A v \in Workers :
                      job'[v].at = "written" /\ lane'[i].op = "write" =>
                          lane'[i].blk # job'[v].blk
    PROVE  LaneInv'
<1>1. Len(lane) \in Nat
    BY LaneTypes
<1>2. ASSUME NEW i \in 1 .. Len(lane'), NEW j \in 1 .. Len(lane')
      PROVE  /\ lane'[i].by # None /\ lane'[i].by = lane'[j].by => i = j
             /\ i < j /\ lane'[i].by # None /\ lane'[j].op = "write"
                /\ lane'[i].op = "write" => lane'[j].blk # lane'[i].blk
    <2>1. /\ i + k \in 1 .. Len(lane) /\ j + k \in 1 .. Len(lane)
          /\ i < j => i + k < j + k
          /\ i + k = j + k => i = j
        BY <1>1, SMT
    <2>2. /\ lane'[i].op = lane[i + k].op /\ lane'[i].blk = lane[i + k].blk
          /\ lane'[i].by \in {None, lane[i + k].by}
          /\ lane'[j].op = lane[j + k].op /\ lane'[j].blk = lane[j + k].blk
          /\ lane'[j].by \in {None, lane[j + k].by}
        OBVIOUS
    <2>3. PICK x \in 1 .. Len(lane), y \in 1 .. Len(lane) : x = i + k /\ y = j + k
        BY <2>1
    <2>4. /\ lane[x].by # None /\ lane[x].by = lane[y].by => x = y
          /\ x < y /\ lane[x].by # None /\ lane[y].op = "write"
             /\ lane[x].op = "write" => lane[y].blk # lane[x].blk
        BY SMT DEF LaneInv
    <2> QED BY <2>1, <2>2, <2>3, <2>4
<1> QED BY <1>2 DEF LaneInv

LEMMA LaneAppend ==
    ASSUME TypeOK, JobInv, LaneInv, NEW w \in Workers,
           NEW op \in {"write", "hash", "sync"}, NEW b \in Blocks \cup {None},
           NEW c \in Contents, Submit(w, op, b, c),
           missing' = missing, job[w].at \in {"idle", "gaps", "matched"},
           job'[w].at = op, job'[w].blk = b,
           \A v \in Workers \ {w} : SameJob(v),
           op = "write" =>
               b \in missing /\ \A v \in Workers \ {w} : job[v].blk # b
    PROVE  LaneInv'
<1> DEFINE n == Len(lane) + 1
<1>1. /\ Len(lane') = n /\ Len(lane) \in Nat
      /\ \A i \in 1 .. Len(lane) : lane'[i] = lane[i]
      /\ lane'[n].op = op /\ lane'[n].blk = b /\ lane'[n].by = w
    BY SubmitLane, SMT
<1>2. \A i \in 1 .. Len(lane) :
          /\ lane[i].by = None \/ lane[i].by \in Workers
          /\ lane[i].op \in {"write", "hash", "sync"}
    BY LaneTypes
<1>3. \A i \in 1 .. Len(lane) : lane[i].by # w
    BY <1>2, IntegrityAssumption, SMT DEF LaneInv, IntegrityAssumption
<1>4. \A i \in 1 .. Len(lane) : lane[i].by # None =>
          lane[i].by \in Workers \ {w}
    BY <1>2, <1>3
<1>5. \A i \in 1 .. Len(lane') : i \in 1 .. Len(lane) \/ i = n
    BY <1>1, SMT
<1>6. ASSUME NEW i \in 1 .. Len(lane')
      PROVE  /\ lane'[i].op = "write" => lane'[i].blk \in missing'
             /\ lane'[i].by # None => /\ job'[lane'[i].by].at = lane'[i].op
                                      /\ job'[lane'[i].by].blk = lane'[i].blk
             /\ \A v \in Workers : job'[v].at = "written" /\ lane'[i].op = "write" =>
                    lane'[i].blk # job'[v].blk
    <2>1. CASE i \in 1 .. Len(lane)
        <3>1. lane'[i] = lane[i]
            BY <2>1, <1>1
        <3>2. lane[i].by # None => /\ job'[lane[i].by].at = lane[i].op
                                   /\ job'[lane[i].by].blk = lane[i].blk
            BY <2>1, <1>4, SMT DEF LaneInv, SameJob
        <3>3. \A v \in Workers : job'[v].at = "written" =>
                  job[v].at = "written" /\ job'[v].blk = job[v].blk
            BY DEF SameJob
        <3> QED BY <2>1, <3>1, <3>2, <3>3, SMT DEF LaneInv
    <2>2. CASE i = n
        BY <2>2, <1>1, SMT DEF SameJob
    <2> QED BY <2>1, <2>2, <1>5
<1>7. ASSUME NEW i \in 1 .. Len(lane'), NEW j \in 1 .. Len(lane')
      PROVE  /\ lane'[i].by # None /\ lane'[i].by = lane'[j].by => i = j
             /\ i < j /\ lane'[i].by # None /\ lane'[j].op = "write"
                /\ lane'[i].op = "write" => lane'[j].blk # lane'[i].blk
    <2>1. CASE i \in 1 .. Len(lane) /\ j \in 1 .. Len(lane)
        BY <2>1, <1>1, SMT DEF LaneInv
    <2>2. CASE i \in 1 .. Len(lane) /\ j = n
        <3>1. lane[i].by # None => job[lane[i].by].blk = lane[i].blk
            BY <2>2 DEF LaneInv
        <3>2. lane'[i] = lane[i] /\ lane[i].by # w
            BY <2>2, <1>1, <1>3
        <3> QED BY <2>2, <3>1, <3>2, <1>1, <1>4, SMT
    <2>3. CASE i = n /\ j \in 1 .. Len(lane)
        <3>1. lane'[j] = lane[j] /\ lane[j].by # w /\ ~(i < j)
            BY <2>3, <1>1, <1>3, SMT
        <3> QED BY <2>3, <3>1, <1>1
    <2>4. CASE i = n /\ j = n
        BY <2>4, <1>1, SMT
    <2> QED BY <2>1, <2>2, <2>3, <2>4, <1>5
<1> HIDE DEF n
<1> QED BY <1>6, <1>7 DEF LaneInv

LEMMA VerdictStep ==
    ASSUME TypeOK, JobInv, VerdictInv,
           \A b \in Blocks \ missing :
               /\ disk'[b] = disk[b]
               /\ disk[b] = "good" /\ stable[b] = {"good"} => stable'[b] = {"good"},
           \A v \in Workers :
               \/ VerdictOK(v)'
               \/ /\ SameJob(v)
                  /\ job'[v].same /\ job[v].at \in Busy =>
                         BlocksOf(job[v].part) \cap missing'
                             = BlocksOf(job[v].part) \cap missing
    PROVE  VerdictInv'
<1> SUFFICES ASSUME NEW v \in Workers, ~VerdictOK(v)' PROVE VerdictOK(v)'
    BY DEF VerdictInv
<1>1. /\ SameJob(v)
      /\ job'[v].same /\ job[v].at \in Busy =>
             BlocksOf(job[v].part) \cap missing' = BlocksOf(job[v].part) \cap missing
    OBVIOUS
<1>2. VerdictOK(v)
    BY DEF VerdictInv
<1>3. job'[v].sweep /\ job'[v].same /\ job'[v].at \in Busy =>
          BlocksOf(job'[v].part) \cap missing' = {}
    BY <1>1, <1>2 DEF SameJob, VerdictOK
<1>4. ASSUME job'[v].at \in {"matched", "sync", "synced"}, job'[v].same,
             BlocksOf(job'[v].part) \cap missing' = {},
             NEW b \in BlocksOf(job'[v].part)
      PROVE  disk'[b] = "good" /\ (job'[v].at = "synced" => stable'[b] = {"good"})
    <2>1. BlocksOf(job[v].part) \cap missing = {} /\ b \in BlocksOf(job[v].part)
        BY <1>1, <1>4 DEF SameJob, Busy
    <2>2. disk[b] = "good" /\ (job[v].at = "synced" => stable[b] = {"good"})
        BY <1>1, <1>2, <1>4, <2>1 DEF SameJob, VerdictOK
    <2>3. b \in Blocks \ missing
        BY <2>1 DEF BlocksOf
    <2> QED BY <1>1, <2>2, <2>3 DEF SameJob
<1> QED BY <1>3, <1>4 DEF VerdictOK

-----------------------------------------------------------------------------
(* One lemma per group of actions. *)

LEMMA JobFacts ==
    /\ Idle \in Jobs /\ Idle.at = "idle" /\ Idle.blk = None /\ Idle.part = None
    /\ ~Idle.same /\ ~Idle.sweep
    /\ TypeOK => \A v \in Workers : job[v] \in Jobs /\ job[v].at \in At
BY DEF Idle, Jobs, At, TypeOK

(* What may happen to bytes: those of missing blocks change, those of the  *)
(* others reach the disk at most.                                          *)
BytesKept ==
    /\ disk' \in [Blocks -> Contents] /\ stable' \in [Blocks -> SUBSET Contents]
    /\ \A b \in Blocks \ missing :
           /\ disk'[b] = disk[b]
           /\ disk[b] = "good" /\ stable[b] = {"good"} => stable'[b] = {"good"}

LEMMA VerifiedStep ==
    ASSUME TypeOK, VerifiedInv, BytesKept, UNCHANGED <<missing, verified, met>>,
           saves' = saves \/ Save(missing, verified)
    PROVE  VerifiedInv' /\ saves' \in Seq(Trackers)
<1>1. \A p \in verified' : \A b \in BlocksOf(p) :
           b \notin missing' /\ disk'[b] = "good" /\ stable'[b] = {"good"}
    BY DEF VerifiedInv, BytesKept, BlocksOf
<1>2. \/ saves' = saves
      \/ Save(missing', verified')
    BY DEF Save
<1>3. missing' \in SUBSET Blocks /\ verified' \in SUBSET Parts
    BY DEF TypeOK
<1> QED BY <1>1, <1>2, <1>3, SavesKept

(* Steps on one job, that leave the gap list and the verified bits alone. *)
LEMMA OwnStep ==
    ASSUME IntegrityInv, NEW w \in Workers, NEW n \in Jobs, Become(w, n),
           UNCHANGED <<missing, verified, met>>, BytesKept,
           saves' = saves \/ Save(missing, verified), wedged' \in BOOLEAN,
           abandoned' \in SUBSET Blocks,
           lane' \in Seq(Ops), LaneInv', JobOK(w)', VerdictOK(w)',
           \A v \in Workers \ {w} :
               job[v].blk # None => job[v].blk \notin abandoned' \cup {n.blk}
    PROVE  IntegrityInv'
<1> USE DEF IntegrityInv
<1>1. /\ job' \in [Workers -> Jobs] /\ job'[w] = n
      /\ \A v \in Workers \ {w} : job'[v] = job[v] /\ SameJob(v)
    BY BecomeKeeps
<1>2. JobInv'
    <2>1. \A v \in Workers \ {w} :
              job[v].blk # None => job[v].blk \in missing' \ abandoned'
        BY DEF JobInv, JobOK
    <2> QED BY <1>1, <2>1, JobStep
<1>3. VerdictInv'
    BY <1>1, VerdictStep DEF BytesKept
<1>4. VerifiedInv' /\ saves' \in Seq(Trackers)
    BY VerifiedStep
<1>5. TypeOK'
    BY <1>1, <1>4 DEF TypeOK, BytesKept
<1> QED BY <1>2, <1>3, <1>4, <1>5

(* Steps on no job at all. *)
LEMMA OtherStep ==
    ASSUME IntegrityInv, job' = job,
           UNCHANGED <<missing, verified, met>>, BytesKept,
           saves' = saves \/ Save(missing, verified), wedged' \in BOOLEAN,
           abandoned' \in SUBSET abandoned, lane' \in Seq(Ops), LaneInv'
    PROVE  IntegrityInv'
<1> USE DEF IntegrityInv
<1>1. JobInv'
    BY DEF JobInv, JobOK
<1>2. VerdictInv'
    BY VerdictStep DEF BytesKept, SameJob
<1>3. VerifiedInv' /\ saves' \in Seq(Trackers)
    BY VerifiedStep
<1>4. TypeOK'
    BY <1>3 DEF TypeOK, BytesKept
<1> QED BY <1>1, <1>2, <1>3, <1>4

LEMMA LaneSame ==
    ASSUME IntegrityInv, NEW w \in Workers, lane' = lane,
           \A v \in Workers \ {w} : SameJob(v),
           job[w].at \notin {"write", "hash", "sync"}, job'[w].at # "written",
           \A i \in 1 .. Len(lane) :
               lane[i].op = "write" => lane[i].blk \in missing'
    PROVE  LaneInv' /\ lane' \in Seq(Ops)
<1> USE DEF IntegrityInv
<1>1. ASSUME NEW i \in 1 .. Len(lane')
      PROVE  /\ lane'[i].op = lane[i + 0].op /\ lane'[i].blk = lane[i + 0].blk
             /\ lane'[i].by \in {None, lane[i + 0].by}
             /\ lane'[i].op = "write" => lane'[i].blk \in missing'
             /\ lane'[i].by # None =>
                    /\ job'[lane'[i].by].at = lane'[i].op
                    /\ job'[lane'[i].by].blk = lane'[i].blk
             /\ \A v \in Workers :
                    job'[v].at = "written" /\ lane'[i].op = "write" =>
                        lane'[i].blk # job'[v].blk
    <2>1. i + 0 = i /\ i \in 1 .. Len(lane)
        BY SMT
    <2>2. /\ lane[i].by \in Workers \cup {None}
          /\ lane[i].op \in {"write", "hash", "sync"}
        BY <2>1, LaneTypes
    <2>3. lane[i].by # None =>
              /\ lane[i].by \in Workers \ {w}
              /\ job'[lane[i].by].at = lane[i].op
              /\ job'[lane[i].by].blk = lane[i].blk
        BY <2>1, <2>2, SMT DEF LaneInv, SameJob
    <2>4. \A v \in Workers : job'[v].at = "written" =>
              job[v].at = "written" /\ job'[v].blk = job[v].blk
        BY DEF SameJob
    <2> QED BY <2>1, <2>3, <2>4, SMT DEF LaneInv
<1>2. Len(lane') = Len(lane) - 0 /\ lane' \in Seq(Ops)
    BY LaneTypes, SMT DEF TypeOK
<1> QED BY <1>1, <1>2, LaneStep

(* The owner of an operation stops waiting for it. *)
LEMMA OrphanInv ==
    ASSUME IntegrityInv, NEW w \in Workers, NEW n \in Jobs, Become(w, n), Orphan(w),
           n.at \notin {"written"}, missing' = missing
    PROVE  LaneInv' /\ lane' \in Seq(Ops)
<1> USE DEF IntegrityInv
<1>1. /\ job' \in [Workers -> Jobs] /\ job'[w] = n
      /\ \A v \in Workers \ {w} : job'[v] = job[v] /\ SameJob(v)
    BY BecomeKeeps
<1>2. /\ lane' \in Seq(Ops) /\ Len(lane') = Len(lane) /\ Len(lane) \in Nat
      /\ \A i \in 1 .. Len(lane) :
             /\ lane'[i].op = lane[i].op /\ lane'[i].blk = lane[i].blk
             /\ lane'[i].by = IF lane[i].by = w THEN None ELSE lane[i].by
    BY OrphanLane
<1>3. ASSUME NEW i \in 1 .. Len(lane')
      PROVE  /\ lane'[i].op = lane[i + 0].op /\ lane'[i].blk = lane[i + 0].blk
             /\ lane'[i].by \in {None, lane[i + 0].by}
             /\ lane'[i].op = "write" => lane'[i].blk \in missing'
             /\ lane'[i].by # None =>
                    /\ job'[lane'[i].by].at = lane'[i].op
                    /\ job'[lane'[i].by].blk = lane'[i].blk
             /\ \A v \in Workers :
                    job'[v].at = "written" /\ lane'[i].op = "write" =>
                        lane'[i].blk # job'[v].blk
    <2>1. i + 0 = i /\ i \in 1 .. Len(lane)
        BY <1>2, SMT
    <2>2. lane[i].by \in Workers \cup {None}
        BY <2>1, LaneTypes
    <2>3. lane'[i].by # None =>
              /\ lane'[i].by \in Workers \ {w}
              /\ job'[lane'[i].by].at = lane'[i].op
              /\ job'[lane'[i].by].blk = lane'[i].blk
        BY <2>1, <2>2, <1>1, <1>2, SMT DEF LaneInv
    <2>4. \A v \in Workers : job'[v].at = "written" =>
              job[v].at = "written" /\ job'[v].blk = job[v].blk
        BY <1>1
    <2> QED BY <2>1, <2>3, <2>4, <1>2, SMT DEF LaneInv
<1> QED BY <1>2, <1>3, LaneStep, SMT

(* A job ends, and the bytes stay as they are. *)
LEMMA EndStep ==
    ASSUME IntegrityInv, NEW w \in Workers, Become(w, Idle),
           UNCHANGED <<missing, verified, disk, stable, met>>,
           saves' = saves \/ Save(missing, verified), wedged' \in BOOLEAN,
           abandoned' \in SUBSET (abandoned \cup ({job[w].blk} \ {None})),
           lane' \in Seq(Ops), LaneInv'
    PROVE  IntegrityInv'
<1> USE DEF IntegrityInv
<1>1. Idle \in Jobs /\ job'[w] = Idle
    BY JobFacts, BecomeKeeps
<1>2. JobOK(w)' /\ VerdictOK(w)'
    BY <1>1, JobFacts DEF JobOK, VerdictOK, Busy
<1>3. BytesKept
    BY DEF BytesKept, TypeOK
<1>4. abandoned' \in SUBSET Blocks
    <2>1. job[w].blk \in Blocks \cup {None}
        BY DEF TypeOK, Jobs
    <2> QED BY <2>1 DEF TypeOK
<1>5. \A v \in Workers \ {w} :
          job[v].blk # None => job[v].blk \notin abandoned' \cup {Idle.blk}
    BY JobFacts DEF JobInv, JobOK
<1> QED BY <1>1, <1>2, <1>3, <1>4, <1>5, OwnStep

LEMMA ReserveStep ==
    ASSUME IntegrityInv, NEW w \in Workers, NEW b \in Blocks, NEW c \in Contents,
           Reserve(w, b, c)
    PROVE  IntegrityInv'
<1> USE DEF IntegrityInv
<1>1. PICK n \in Jobs : n = [Idle EXCEPT !.at = "write", !.blk = b]
    BY DEF Idle, Jobs, At
<1>2. /\ n.at = "write" /\ n.blk = b /\ n.part = None /\ ~n.same /\ ~n.sweep
      /\ b # None
    BY <1>1, IntegrityAssumption DEF Idle, IntegrityAssumption
<1>3. /\ Become(w, n) /\ Submit(w, "write", b, c) /\ b \in missing \ Reserved
      /\ UNCHANGED <<missing, verified, abandoned, wedged, disk, stable, saves, met>>
      /\ job[w].at = "idle"
    BY <1>1, JobFacts DEF Reserve, trackerVars, diskVars, savedVars
<1>4. job'[w] = n /\ \A v \in Workers \ {w} : SameJob(v)
    BY <1>3, BecomeKeeps
<1>5. b \notin abandoned /\ \A v \in Workers : job[v].blk # b
    BY <1>3 DEF Reserved
<1>6. JobOK(w)' /\ VerdictOK(w)'
    BY <1>2, <1>3, <1>4, <1>5 DEF JobOK, VerdictOK, Busy
<1>7. LaneInv' /\ lane' \in Seq(Ops)
    <2>1. /\ job'[w].at = "write" /\ job'[w].blk = b /\ missing' = missing
          /\ b \in missing /\ \A v \in Workers \ {w} : job[v].blk # b
        BY <1>2, <1>3, <1>4, <1>5
    <2>2. LaneInv'
        BY <1>3, <1>4, <2>1, LaneAppend
    <2>3. lane' \in Seq(Ops)
        BY <1>3, SubmitLane
    <2> QED BY <2>2, <2>3
<1>8. BytesKept /\ wedged' \in BOOLEAN /\ abandoned' \in SUBSET Blocks
    <2>1. BytesKept
        BY <1>3 DEF BytesKept, TypeOK
    <2>2. wedged' \in BOOLEAN
        BY <1>3 DEF TypeOK
    <2>3. abandoned' \in SUBSET Blocks
        BY <1>3 DEF TypeOK
    <2> QED BY <2>1, <2>2, <2>3
<1>9. \A v \in Workers \ {w} :
          job[v].blk # None => job[v].blk \notin abandoned' \cup {n.blk}
    BY <1>2, <1>3, <1>5 DEF JobInv, JobOK
<1> QED BY <1>3, <1>6, <1>7, <1>8, <1>9, OwnStep

LEMMA CommitStep ==
    ASSUME IntegrityInv, NEW w \in Workers, Commit(w)
    PROVE  IntegrityInv'
<1> USE DEF IntegrityInv
<1> DEFINE p == PartOf[job[w].blk]
<1>1. /\ job[w].at = "written" /\ missing' = missing \ {job[w].blk}
      /\ UNCHANGED <<verified, abandoned, lane, wedged, disk, stable, saves, met>>
      /\ Bump(w, Idle, {p})
    BY DEF Commit, diskVars, savedVars
<1>2. job[w].blk \in Blocks /\ p \in Parts /\ job[w].blk # None
    BY <1>1, IntegrityAssumption DEF JobInv, JobOK, IntegrityAssumption
<1>3. /\ job' \in [Workers -> Jobs] /\ job'[w] = Idle
      /\ \A v \in Workers \ {w} :
             SameJob(v) /\ (job'[v].same => job[v].part \notin {p})
    BY <1>1, JobFacts, BumpKeeps, SMT
<1>4. JobOK(w)' /\ VerdictOK(w)'
    BY <1>3, JobFacts DEF JobOK, VerdictOK, Busy
<1>5. JobInv'
    <2>1. \A v \in Workers \ {w} :
              job[v].blk # None => job[v].blk \in missing' \ abandoned'
        BY <1>1, <1>2 DEF JobInv, JobOK
    <2> QED BY <1>3, <1>4, <2>1, JobFacts, JobStep
<1>6. LaneInv'
    <2>1. \A i \in 1 .. Len(lane) :
              lane[i].op = "write" => lane[i].blk \in missing'
        BY <1>1 DEF LaneInv
    <2> QED BY <1>1, <1>3, <2>1, JobFacts, LaneSame
<1>7. VerdictInv'
    <2>1. \A q \in Parts : q # p =>
              BlocksOf(q) \cap missing' = BlocksOf(q) \cap missing
        BY <1>1, <1>2 DEF BlocksOf
    <2>2. \A v \in Workers \ {w} : job'[v].same /\ job[v].at \in Busy =>
              BlocksOf(job[v].part) \cap missing' = BlocksOf(job[v].part) \cap missing
        BY <1>3, <2>1 DEF JobInv, JobOK
    <2> QED BY <1>1, <1>3, <1>4, <2>2, VerdictStep
<1>8. VerifiedInv'
    <2>1. \A q \in verified' : \A b \in BlocksOf(q) :
              b \notin missing' /\ disk'[b] = "good" /\ stable'[b] = {"good"}
        BY <1>1 DEF VerifiedInv
    <2> QED BY <1>1, <2>1, SavesKept DEF TypeOK
<1>9. TypeOK'
    BY <1>1, <1>3 DEF TypeOK
<1> QED BY <1>5, <1>6, <1>7, <1>8, <1>9

(* A job that waits for nothing ends. *)
LEMMA QuitStep ==
    ASSUME IntegrityInv, NEW w \in Workers, Become(w, Idle),
           UNCHANGED <<missing, verified, abandoned, lane, wedged, disk, stable, met>>,
           saves' = saves \/ Save(missing, verified),
           job[w].at \notin {"write", "hash", "sync"}
    PROVE  IntegrityInv'
<1> USE DEF IntegrityInv
<1>1. job'[w].at = "idle" /\ \A v \in Workers \ {w} : SameJob(v)
    BY JobFacts, BecomeKeeps
<1>2. LaneInv' /\ lane' \in Seq(Ops)
    BY <1>1, LaneSame DEF LaneInv
<1>3. wedged' \in BOOLEAN
    BY DEF TypeOK
<1> QED BY <1>2, <1>3, EndStep

(* An answer that leaves the job's block and part alone. *)
LEMMA AnswerJob ==
    ASSUME IntegrityInv, NEW w \in Workers, NEW a \in At,
           Become(w, [job[w] EXCEPT !.at = a])
    PROVE  \E n \in Jobs :
               /\ Become(w, n) /\ job'[w] = n /\ n.at = a
               /\ n.blk = job[w].blk /\ n.part = job[w].part
               /\ n.same = job[w].same /\ n.sweep = job[w].sweep
<1>1. job[w] \in Jobs /\ TypeOK
    BY JobFacts DEF IntegrityInv
<1>2. PICK n \in Jobs : n = [job[w] EXCEPT !.at = a]
    BY <1>1 DEF Jobs
<1>3. /\ n.at = a /\ n.blk = job[w].blk /\ n.part = job[w].part
      /\ n.same = job[w].same /\ n.sweep = job[w].sweep
    BY <1>1, <1>2 DEF Jobs
<1>4. Become(w, n) /\ job'[w] = n
    BY <1>1, <1>2, BecomeKeeps
<1> QED BY <1>3, <1>4

(* An operation fails. *)
LEMMA FailStep ==
    ASSUME IntegrityInv, NEW w \in Workers,
           Become(w, [job[w] EXCEPT !.at = "failed"]),
           UNCHANGED <<missing, verified, abandoned, disk, stable, saves, met>>,
           wedged' \in BOOLEAN, job[w].at # "failed",
           \/ Orphan(w)
           \/ lane' = lane /\ job[w].at \notin {"write", "hash", "sync"}
    PROVE  IntegrityInv'
<1>1. PICK n \in Jobs :
          /\ Become(w, n) /\ job'[w] = n /\ n.at = "failed"
          /\ n.blk = job[w].blk /\ n.part = job[w].part
          /\ n.same = job[w].same /\ n.sweep = job[w].sweep
    <2>1. "failed" \in At
        BY DEF At
    <2> QED BY <2>1, AnswerJob
<1> USE DEF IntegrityInv
<1>2. LaneInv' /\ lane' \in Seq(Ops)
    <2>1. CASE Orphan(w)
        BY <1>1, <2>1, OrphanInv
    <2>2. CASE lane' = lane /\ job[w].at \notin {"write", "hash", "sync"}
        <3>1. \A v \in Workers \ {w} : SameJob(v)
            BY <1>1, BecomeKeeps
        <3>2. \A i \in 1 .. Len(lane) :
                  lane[i].op = "write" => lane[i].blk \in missing'
            BY DEF LaneInv
        <3> QED BY <1>1, <2>2, <3>1, <3>2, LaneSame
    <2> QED BY <2>1, <2>2
<1>3. JobOK(w)' /\ VerdictOK(w)'
    BY <1>1 DEF JobInv, JobOK, VerdictOK, Busy
<1>4. BytesKept /\ abandoned' \in SUBSET Blocks
    BY DEF BytesKept, TypeOK
<1>5. \A v \in Workers \ {w} :
          job[v].blk # None => job[v].blk \notin abandoned' \cup {n.blk}
    BY <1>1 DEF JobInv, JobOK
<1> QED BY <1>1, <1>2, <1>3, <1>4, <1>5, OwnStep

LEMMA FillStep ==
    ASSUME IntegrityInv, NEW w \in Workers, Fill(w)
    PROVE  IntegrityInv'
<1> USE DEF IntegrityInv
<1>0. wedged \in BOOLEAN
    BY DEF TypeOK
<1>1. CASE \E b \in Blocks, c \in Contents : Reserve(w, b, c)
    BY <1>1, ReserveStep
<1>2. CASE Commit(w)
    BY <1>2, CommitStep
<1>3. CASE Release(w)
    <2>1. /\ Become(w, Idle) /\ job[w].at = "failed"
          /\ UNCHANGED <<missing, verified, abandoned, lane, wedged, disk, stable, met>>
          /\ saves' = saves \/ Save(missing, verified)
        BY <1>3 DEF Release, trackerVars, diskVars
    <2> QED BY <2>1, QuitStep
<1>4. CASE Abort(w)
    <2>1. /\ Become(w, Idle) /\ Orphan(w)
          /\ UNCHANGED <<missing, verified, wedged, disk, stable, saves, met>>
          /\ abandoned' \in SUBSET (abandoned \cup ({job[w].blk} \ {None}))
        BY <1>4 DEF Abort, diskVars, savedVars
    <2>2. LaneInv' /\ lane' \in Seq(Ops)
        BY <2>1, JobFacts, OrphanInv
    <2> QED BY <1>0, <2>1, <2>2, EndStep
<1>5. CASE Timeout(w)
    <2>1. /\ job[w].at \in {"write", "hash", "sync"} /\ Orphan(w)
          /\ UNCHANGED <<missing, verified, abandoned, disk, stable, saves, met>>
        BY <1>5 DEF Timeout, trackerVars, diskVars, savedVars
    <2>2. wedged' \in BOOLEAN
        BY <1>5 DEF Timeout
    <2>3. CASE job[w].at = "hash"
        <3>1. Become(w, Idle)
            BY <1>5, <2>3 DEF Timeout
        <3>2. LaneInv' /\ lane' \in Seq(Ops)
            BY <2>1, <3>1, JobFacts, OrphanInv
        <3> QED BY <2>1, <2>2, <3>1, <3>2, EndStep
    <2>4. CASE job[w].at # "hash"
        <3>1. Become(w, [job[w] EXCEPT !.at = "failed"]) /\ job[w].at # "failed"
            BY <1>5, <2>4 DEF Timeout
        <3> HIDE DEF IntegrityInv
        <3> QED BY <2>1, <2>2, <3>1, FailStep
    <2> QED BY <2>3, <2>4
<1> QED BY <1>1, <1>2, <1>3, <1>4, <1>5 DEF Fill

(* A job asks the writer for a hash or a flush. *)
LEMMA AskStep ==
    ASSUME IntegrityInv, NEW w \in Workers, NEW n \in Jobs, Become(w, n),
           NEW op \in {"hash", "sync"}, Submit(w, op, None, "bad"),
           UNCHANGED <<trackerVars, wedged, diskVars, savedVars>>,
           job[w].at \in {"idle", "gaps", "matched"},
           n.at = op, n.blk = None, n.part \in Parts, VerdictOK(w)'
    PROVE  IntegrityInv'
<1> USE DEF IntegrityInv
<1>1. UNCHANGED <<missing, verified, abandoned, wedged, disk, stable, saves, met>>
    BY DEF trackerVars, diskVars, savedVars
<1>2. job'[w] = n /\ \A v \in Workers \ {w} : SameJob(v)
    BY BecomeKeeps
<1>3. LaneInv' /\ lane' \in Seq(Ops)
    <2>1. "bad" \in Contents /\ op \in {"write", "hash", "sync"} /\ op # "write"
        BY DEF Contents
    <2> QED BY <1>1, <1>2, <2>1, LaneAppend, SubmitLane, SMT
<1>4. JobOK(w)'
    BY <1>2 DEF JobOK, Busy
<1>5. BytesKept /\ abandoned' \in SUBSET Blocks
    BY <1>1 DEF BytesKept, TypeOK
<1>6. wedged' \in BOOLEAN
    BY <1>1 DEF TypeOK
<1>7. \A v \in Workers \ {w} :
          job[v].blk # None => job[v].blk \notin abandoned' \cup {n.blk}
    BY <1>1 DEF JobInv, JobOK
<1> QED BY <1>1, <1>3, <1>4, <1>5, <1>6, <1>7, OwnStep

LEMMA VerifiedBitStep ==
    ASSUME IntegrityInv, NEW w \in Workers, Verified(w)
    PROVE  IntegrityInv'
<1> USE DEF IntegrityInv
<1>1. /\ job[w].at = "synced" /\ Become(w, Idle)
      /\ UNCHANGED <<missing, abandoned, lane, wedged, disk, stable, met>>
    BY DEF Verified, diskVars
<1>2. CASE Superseded(w)
    BY <1>1, <1>2, QuitStep DEF Verified
<1>3. CASE ~Superseded(w)
    <2>1. /\ verified' = verified \cup {job[w].part}
          /\ Save(missing', verified') /\ job[w].part \in Parts
        BY <1>1, <1>3 DEF Verified, JobInv, JobOK, Busy, Save
    <2>2. job[w].same /\ BlocksOf(job[w].part) \cap missing = {}
        BY <1>1, <1>3 DEF Superseded, VerdictInv, VerdictOK, Busy
    <2>3. \A b \in BlocksOf(job[w].part) : disk[b] = "good" /\ stable[b] = {"good"}
        BY <1>1, <2>2 DEF VerdictInv, VerdictOK
    <2>4. /\ job' \in [Workers -> Jobs] /\ job'[w] = Idle
          /\ \A v \in Workers \ {w} : job'[v] = job[v] /\ SameJob(v)
        BY <1>1, JobFacts, BecomeKeeps
    <2>5. JobOK(w)' /\ VerdictOK(w)'
        BY <2>4, JobFacts DEF JobOK, VerdictOK, Busy
    <2>6. JobInv'
        <3>1. \A v \in Workers \ {w} :
                  job[v].blk # None => job[v].blk \in missing' \ abandoned'
            BY <1>1 DEF JobInv, JobOK
        <3> QED BY <2>4, <2>5, <3>1, JobFacts, JobStep
    <2>7. LaneInv' /\ lane' \in Seq(Ops)
        <3>1. \A i \in 1 .. Len(lane) :
                  lane[i].op = "write" => lane[i].blk \in missing'
            BY <1>1 DEF LaneInv
        <3> QED BY <1>1, <2>4, <3>1, JobFacts, LaneSame
    <2>8. VerdictInv'
        BY <1>1, <2>4, <2>5, VerdictStep
    <2>9. VerifiedInv' /\ saves' \in Seq(Trackers)
        <3>1. \A p \in verified' : \A b \in BlocksOf(p) :
                  b \notin missing' /\ disk'[b] = "good" /\ stable'[b] = {"good"}
            BY <1>1, <2>1, <2>2, <2>3 DEF VerifiedInv
        <3>2. missing' \in SUBSET Blocks /\ verified' \in SUBSET Parts
            BY <1>1, <2>1 DEF TypeOK
        <3> QED BY <1>1, <2>1, <3>1, <3>2, SavesKept
    <2>10. TypeOK'
        BY <1>1, <2>1, <2>4, <2>9 DEF TypeOK
    <2> QED BY <2>6, <2>7, <2>8, <2>9, <2>10
<1> QED BY <1>2, <1>3

(* Blocks of an unverified part are missing again. *)
LEMMA ReopenStep ==
    ASSUME IntegrityInv, NEW w \in Workers, NEW n \in Jobs, NEW p \in Parts,
           NEW B \in SUBSET BlocksOf(p), p \notin verified, Reopen(w, n, p, B),
           UNCHANGED <<abandoned, lane, wedged, disk, stable, met>>,
           job[w].at = "mismatched", n.at \in {"idle", "failed"}, n.blk = None,
           n.at = "idle" => n.part = None
    PROVE  IntegrityInv'
<1> USE DEF IntegrityInv
<1>1. /\ missing' = missing \cup B /\ verified' = verified
      /\ Bump(w, n, {p}) /\ Save(missing', verified')
    BY DEF Reopen, Save
<1>2. /\ job' \in [Workers -> Jobs] /\ job'[w] = n
      /\ \A v \in Workers \ {w} :
             SameJob(v) /\ (job'[v].same => job[v].part \notin {p})
    BY <1>1, BumpKeeps
<1>3. JobOK(w)' /\ VerdictOK(w)'
    BY <1>2 DEF JobOK, VerdictOK, Busy
<1>4. JobInv'
    <2>1. \A v \in Workers \ {w} :
              job[v].blk # None => job[v].blk \in missing' \ abandoned'
        BY <1>1 DEF JobInv, JobOK
    <2> QED BY <1>2, <1>3, <2>1, JobStep
<1>5. LaneInv' /\ lane' \in Seq(Ops)
    <2>1. \A i \in 1 .. Len(lane) :
              lane[i].op = "write" => lane[i].blk \in missing'
        BY <1>1 DEF LaneInv
    <2> QED BY <1>2, <2>1, LaneSame
<1>6. VerdictInv'
    <2>1. \A q \in Parts : q # p =>
              BlocksOf(q) \cap missing' = BlocksOf(q) \cap missing
        BY <1>1 DEF BlocksOf
    <2>2. \A v \in Workers \ {w} : job'[v].same /\ job[v].at \in Busy =>
              BlocksOf(job[v].part) \cap missing' = BlocksOf(job[v].part) \cap missing
        BY <1>2, <2>1 DEF JobInv, JobOK
    <2> QED BY <1>2, <1>3, <2>2, VerdictStep
<1>7. VerifiedInv' /\ saves' \in Seq(Trackers)
    <2>1. \A q \in verified' : \A b \in BlocksOf(q) : b \notin B
        BY <1>1 DEF BlocksOf
    <2>2. \A q \in verified' : \A b \in BlocksOf(q) :
              b \notin missing' /\ disk'[b] = "good" /\ stable'[b] = {"good"}
        BY <1>1, <2>1 DEF VerifiedInv
    <2>3. missing' \in SUBSET Blocks /\ verified' \in SUBSET Parts
        BY <1>1 DEF TypeOK, BlocksOf
    <2> QED BY <1>1, <2>2, <2>3, SavesKept
<1>8. TypeOK'
    BY <1>1, <1>2, <1>5, <1>7 DEF TypeOK, BlocksOf
<1> QED BY <1>4, <1>5, <1>6, <1>7, <1>8

LEMMA MismatchStep ==
    ASSUME IntegrityInv, NEW w \in Workers,
           Mismatch(w) \/ \E B \in SUBSET Blocks : AichNarrowed(w, B)
    PROVE  IntegrityInv'
<1> USE DEF IntegrityInv
<1>1. /\ job[w].at = "mismatched" /\ job[w].part \in Parts /\ job[w].blk = None
      /\ UNCHANGED <<abandoned, lane, wedged, disk, stable, met>>
    BY DEF Mismatch, AichNarrowed, diskVars, JobInv, JobOK, Busy
<1>2. CASE Superseded(w)
    <2>1. /\ Become(w, Idle) /\ UNCHANGED <<missing, verified>>
          /\ saves' = saves \/ Save(missing, verified)
        BY <1>2 DEF Mismatch, AichNarrowed
    <2> QED BY <1>1, <2>1, QuitStep
<1>3. CASE ~Superseded(w)
    <2>1. job[w].part \notin verified
        BY <1>1, <1>3 DEF Superseded
    <2>2. CASE Mismatch(w)
        <3>1. Reopen(w, Idle, job[w].part, BlocksOf(job[w].part))
            BY <1>3, <2>2 DEF Mismatch
        <3> HIDE DEF IntegrityInv
        <3> QED BY <1>1, <2>1, <3>1, JobFacts, ReopenStep
    <2>3. ASSUME NEW B \in SUBSET Blocks, AichNarrowed(w, B) PROVE IntegrityInv'
        <3>1. /\ Reopen(w, [job[w] EXCEPT !.at = "failed"], job[w].part, B)
              /\ B \in SUBSET BlocksOf(job[w].part)
            BY <1>3, <2>3 DEF AichNarrowed
        <3>2. PICK n \in Jobs : n = [job[w] EXCEPT !.at = "failed"]
            BY JobFacts DEF Jobs, At
        <3>3. n.at = "failed" /\ n.blk = None /\ Reopen(w, n, job[w].part, B)
            BY <1>1, <3>1, <3>2, JobFacts DEF Jobs
        <3> HIDE DEF IntegrityInv
        <3> QED BY <1>1, <2>1, <3>1, <3>3, ReopenStep
    <2> QED BY <2>2, <2>3
<1> QED BY <1>2, <1>3

LEMMA VerifyStep ==
    ASSUME IntegrityInv, NEW w \in Workers, Verify(w)
    PROVE  IntegrityInv'
<1> USE DEF IntegrityInv
<1>1. ASSUME NEW p \in Parts, CheckGaps(w, p) PROVE IntegrityInv'
    <2>1. PICK n \in Jobs : n = [Idle EXCEPT !.at = "gaps", !.part = p]
        BY DEF Idle, Jobs, At
    <2>2. n.at = "gaps" /\ n.blk = None /\ n.part = p /\ ~n.same /\ ~n.sweep
        BY <2>1 DEF Idle
    <2>3. /\ Become(w, n) /\ job[w].at = "idle"
          /\ UNCHANGED <<missing, verified, abandoned, lane, wedged, disk, stable,
                         saves, met>>
        BY <1>1, <2>1, JobFacts DEF CheckGaps, trackerVars, diskVars, savedVars
    <2>4. job'[w] = n /\ \A v \in Workers \ {w} : SameJob(v)
        BY <2>3, BecomeKeeps
    <2>5. LaneInv' /\ lane' \in Seq(Ops)
        BY <2>2, <2>3, <2>4, LaneSame DEF LaneInv
    <2>6. JobOK(w)' /\ VerdictOK(w)'
        BY <2>2, <2>4 DEF JobOK, VerdictOK, Busy
    <2>7. BytesKept /\ abandoned' \in SUBSET Blocks
        BY <2>3 DEF BytesKept, TypeOK
    <2>8. wedged' \in BOOLEAN
        BY <2>3 DEF TypeOK
    <2>9. \A v \in Workers \ {w} :
              job[v].blk # None => job[v].blk \notin abandoned' \cup {n.blk}
        BY <2>2, <2>3 DEF JobInv, JobOK
    <2> QED BY <2>3, <2>5, <2>6, <2>7, <2>8, <2>9, OwnStep
<1>2. ASSUME NEW p \in Parts, RehashPart(w, p) PROVE IntegrityInv'
    <2>1. PICK n \in Jobs : n = [Idle EXCEPT !.at = "hash", !.part = p,
                                             !.same = TRUE, !.sweep = TRUE]
        BY DEF Idle, Jobs, At
    <2>2. n.at = "hash" /\ n.blk = None /\ n.part = p
        BY <2>1 DEF Idle
    <2>3. /\ Become(w, n) /\ job[w].at = "idle" /\ Submit(w, "hash", None, "bad")
          /\ UNCHANGED <<trackerVars, wedged, diskVars, savedVars>>
          /\ BlocksOf(p) \cap missing = {}
        BY <1>2, <2>1, JobFacts DEF RehashPart
    <2>4. job'[w] = n
        BY <2>3, BecomeKeeps
    <2>5. VerdictOK(w)'
        BY <2>2, <2>3, <2>4 DEF VerdictOK, trackerVars
    <2> QED BY <2>2, <2>3, <2>5, AskStep
<1>3. CASE HashPart(w)
    <2>1. PICK n \in Jobs : n = [job[w] EXCEPT !.at = "hash", !.same = TRUE]
        BY JobFacts DEF Jobs, At
    <2>2. n.at = "hash" /\ n.blk = job[w].blk /\ n.part = job[w].part
          /\ n.sweep = job[w].sweep
        BY <2>1, JobFacts DEF Jobs
    <2>3. /\ Become(w, n) /\ job[w].at = "gaps" /\ Submit(w, "hash", None, "bad")
          /\ UNCHANGED <<trackerVars, wedged, diskVars, savedVars>>
        BY <1>3, <2>1 DEF HashPart
    <2>4. job[w].blk = None /\ job[w].part \in Parts /\ ~job[w].sweep
        BY <2>3 DEF JobInv, JobOK, Busy
    <2>5. job'[w] = n
        BY <2>3, BecomeKeeps
    <2>6. VerdictOK(w)'
        BY <2>2, <2>4, <2>5 DEF VerdictOK
    <2> QED BY <2>2, <2>3, <2>4, <2>6, AskStep
<1>4. CASE Unverified(w)
    BY <1>4, QuitStep DEF Unverified, trackerVars, diskVars
<1>5. CASE SyncData(w)
    <2>1. PICK n \in Jobs : n = [job[w] EXCEPT !.at = "sync"]
        BY JobFacts DEF Jobs, At
    <2>2. n.at = "sync" /\ n.blk = job[w].blk /\ n.part = job[w].part
          /\ n.sweep = job[w].sweep /\ n.same = job[w].same
        BY <2>1, JobFacts DEF Jobs
    <2>3. /\ Become(w, n) /\ job[w].at = "matched" /\ Submit(w, "sync", None, "bad")
          /\ UNCHANGED <<trackerVars, wedged, diskVars, savedVars>>
        BY <1>5, <2>1 DEF SyncData
    <2>4. job[w].blk = None /\ job[w].part \in Parts
        BY <2>3 DEF JobInv, JobOK, Busy
    <2>5. job'[w] = n
        BY <2>3, BecomeKeeps
    <2>6. VerdictOK(w)'
        BY <2>2, <2>3, <2>5 DEF VerdictInv, VerdictOK, Busy, trackerVars, diskVars
    <2> QED BY <2>2, <2>3, <2>4, <2>6, AskStep
<1>6. CASE Refused(w)
    <2>1. /\ UNCHANGED <<missing, verified, abandoned, lane, wedged, disk, stable,
                         saves, met>>
          /\ job[w].at \in {"gaps", "matched"}
        BY <1>6 DEF Refused, trackerVars, diskVars, savedVars
    <2>2. CASE job[w].at = "gaps"
        BY <1>6, <2>1, <2>2, QuitStep DEF Refused
    <2>3. CASE job[w].at = "matched"
        <3>1. Become(w, [job[w] EXCEPT !.at = "failed"])
            BY <1>6, <2>3 DEF Refused
        <3>2. wedged' \in BOOLEAN
            BY <2>1 DEF TypeOK
        <3> HIDE DEF IntegrityInv
        <3> QED BY <2>1, <2>3, <3>1, <3>2, FailStep
    <2> QED BY <2>1, <2>2, <2>3
<1>7. CASE Verified(w)
    BY <1>7, VerifiedBitStep
<1>8. CASE Mismatch(w) \/ \E B \in SUBSET Blocks : AichNarrowed(w, B)
    BY <1>8, MismatchStep
<1> QED BY <1>1, <1>2, <1>3, <1>4, <1>5, <1>6, <1>7, <1>8 DEF Verify

(* The writer takes the head of its queue. *)
LEMMA LanePop ==
    ASSUME IntegrityInv, lane # <<>>, lane' = Tail(lane), missing' = missing,
           \A v \in Workers : v # lane[1].by => job'[v] = job[v],
           lane[1].by # None =>
               \/ job'[lane[1].by].at # "written"
               \/ lane[1].op = "write" /\ job'[lane[1].by].blk = job[lane[1].by].blk
    PROVE  LaneInv' /\ lane' \in Seq(Ops)
<1> USE DEF IntegrityInv
<1>1. /\ lane' \in Seq(Ops) /\ Len(lane) \in Nat \ {0}
      /\ Len(lane') = Len(lane) - 1
      /\ \A i \in 1 .. Len(lane') : lane'[i] = lane[i + 1]
    BY TailLane
<1>2. ASSUME NEW i \in 1 .. Len(lane')
      PROVE  /\ lane'[i].op = lane[i + 1].op /\ lane'[i].blk = lane[i + 1].blk
             /\ lane'[i].by \in {None, lane[i + 1].by}
             /\ lane'[i].op = "write" => lane'[i].blk \in missing'
             /\ lane'[i].by # None =>
                    /\ job'[lane'[i].by].at = lane'[i].op
                    /\ job'[lane'[i].by].blk = lane'[i].blk
             /\ \A v \in Workers :
                    job'[v].at = "written" /\ lane'[i].op = "write" =>
                        lane'[i].blk # job'[v].blk
    <2>1. PICK x \in 1 .. Len(lane) : x = i + 1 /\ x # 1 /\ 1 < x /\ 1 \in 1 .. Len(lane)
        BY <1>1, SMT
    <2>2. lane'[i] = lane[x]
        BY <1>1, <2>1
    <2>3. lane[x].by \in Workers \cup {None}
        BY LaneTypes
    <2>4. lane[x].by # None => lane[x].by # lane[1].by
        BY <2>1 DEF LaneInv
    <2>5. lane[x].by # None => /\ job'[lane[x].by].at = lane[x].op
                               /\ job'[lane[x].by].blk = lane[x].blk
        BY <2>3, <2>4 DEF LaneInv
    <2>6. ASSUME NEW v \in Workers, job'[v].at = "written", lane[x].op = "write"
          PROVE  lane[x].blk # job'[v].blk
        <3>1. CASE v # lane[1].by
            BY <2>6, <3>1, SMT DEF LaneInv
        <3>2. CASE v = lane[1].by
            <4>1. v # None
                BY IntegrityAssumption DEF IntegrityAssumption
            <4>2. lane[1].op = "write" /\ job'[v].blk = job[v].blk
                BY <2>6, <3>2, <4>1
            <4>3. job[v].blk = lane[1].blk
                BY <2>1, <3>2, <4>1 DEF LaneInv
            <4>4. lane[x].blk # lane[1].blk
                BY <2>1, <2>6, <3>2, <4>1, <4>2 DEF LaneInv
            <4> QED BY <4>2, <4>3, <4>4
        <3> QED BY <3>1, <3>2
    <2>7. lane[x].op = "write" => lane[x].blk \in missing'
        BY DEF LaneInv
    <2> QED BY <2>1, <2>2, <2>5, <2>6, <2>7, SMT
<1> QED BY <1>1, <1>2, LaneStep

(* ... and answers whoever waits. *)
LEMMA AnswerStep ==
    ASSUME IntegrityInv, lane # <<>>, lane' = Tail(lane), BytesKept,
           UNCHANGED <<missing, verified, abandoned, wedged, saves, met>>,
           lane[1].by = None => job' = job,
           \A w \in Workers : w = lane[1].by =>
               \E n \in Jobs :
                   /\ Become(w, n) /\ n.blk \in {None, job[w].blk}
                   /\ n.at = "written" => lane[1].op = "write" /\ n.blk = job[w].blk
                   /\ JobOK(w)' /\ VerdictOK(w)'
    PROVE  IntegrityInv'
<1> USE DEF IntegrityInv
<1>1. wedged' \in BOOLEAN
    BY DEF TypeOK
<1>2. CASE lane[1].by = None
    <2>1. LaneInv' /\ lane' \in Seq(Ops)
        BY <1>2, LanePop
    <2> QED BY <1>1, <1>2, <2>1, OtherStep
<1>3. CASE lane[1].by # None
    <2>1. PICK w \in Workers : w = lane[1].by
        BY <1>3, TailLane DEF Ops
    <2>2. PICK n \in Jobs :
              /\ Become(w, n) /\ n.blk \in {None, job[w].blk}
              /\ n.at = "written" => lane[1].op = "write" /\ n.blk = job[w].blk
              /\ JobOK(w)' /\ VerdictOK(w)'
        BY <1>3, <2>1
    <2>3. job'[w] = n /\ \A v \in Workers \ {w} : job'[v] = job[v]
        BY <2>2, BecomeKeeps
    <2>4. LaneInv' /\ lane' \in Seq(Ops)
        BY <2>1, <2>2, <2>3, LanePop
    <2>5. abandoned' \in SUBSET Blocks
        BY DEF TypeOK
    <2>6. \A v \in Workers \ {w} :
              job[v].blk # None => job[v].blk \notin abandoned' \cup {n.blk}
        BY <2>2 DEF JobInv, JobOK
    <2> QED BY <1>1, <2>2, <2>4, <2>5, <2>6, OwnStep
<1> QED BY <1>2, <1>3

LEMMA WriterStep ==
    ASSUME IntegrityInv, Writer
    PROVE  IntegrityInv'
<1> USE DEF IntegrityInv
<1> DEFINE o == lane[1]
<1>0. /\ lane # <<>> /\ lane' = Tail(lane) /\ Head(lane) = o
      /\ UNCHANGED <<missing, verified, abandoned, wedged, saves, met>>
    <2>1. lane # <<>> /\ lane' = Tail(lane)
        BY DEF Writer, LaneWrite, LaneHash, LaneSync
    <2>2. UNCHANGED <<missing, verified, abandoned, wedged, saves, met>>
        BY DEF Writer, LaneWrite, LaneHash, LaneSync, trackerVars, savedVars
    <2> QED BY <2>1, <2>2, TailLane
<1>1. o \in Ops /\ 1 \in 1 .. Len(lane)
    BY <1>0, TailLane, SMT
<1>2. \A w \in Workers : w = o.by =>
          job[w].at = o.op /\ job[w].blk = o.blk /\ w # None
    BY <1>1, IntegrityAssumption, SMT DEF LaneInv, IntegrityAssumption
<1>3. \A w \in Workers : VerdictOK(w) /\ JobOK(w)
    BY DEF VerdictInv, JobInv
<1>4. CASE LaneWrite
    <2>1. o.op = "write" /\ o.blk \in missing
        BY <1>0, <1>1, <1>4 DEF LaneWrite, LaneInv
    <2>2. PICK d \in Contents :
              /\ disk' = [disk EXCEPT ![o.blk] = d]
              /\ stable' = [stable EXCEPT ![o.blk] = @ \cup {d}]
              /\ \/ o.by = None /\ UNCHANGED job
                 \/ /\ o.by # None
                    /\ \E a \in {"written", "failed"} :
                           Become(o.by, [job[o.by] EXCEPT !.at = a])
        BY <1>0, <1>1, <1>4 DEF LaneWrite, Contents, Ops
    <2>3. BytesKept
        BY <2>1, <2>2 DEF BytesKept, TypeOK
    <2>4. ASSUME NEW w \in Workers, w = o.by
          PROVE  \E n \in Jobs :
                     /\ Become(w, n) /\ n.blk \in {None, job[w].blk}
                     /\ n.at = "written" => o.op = "write" /\ n.blk = job[w].blk
                     /\ JobOK(w)' /\ VerdictOK(w)'
        <3>1. PICK a \in {"written", "failed"} :
                  Become(w, [job[w] EXCEPT !.at = a])
            BY <1>2, <2>2, <2>4
        <3>2. PICK n \in Jobs :
                  /\ Become(w, n) /\ job'[w] = n /\ n.at = a
                  /\ n.blk = job[w].blk /\ n.part = job[w].part
            <4>1. a \in At
                BY <3>1 DEF At
            <4> HIDE DEF IntegrityInv
            <4> QED BY <3>1, <4>1, AnswerJob, SMT
        <3>3. JobOK(w)' /\ VerdictOK(w)'
            BY <1>0, <1>2, <1>3, <2>1, <2>4, <3>2 DEF JobOK, VerdictOK, Busy
        <3> QED BY <2>1, <3>2, <3>3
    <2> HIDE DEF o
    <2> QED BY <1>0, <2>2, <2>3, <2>4, AnswerStep DEF o
<1>5. CASE LaneHash
    <2>1. o.op = "hash" /\ UNCHANGED <<disk, stable>>
        BY <1>0, <1>5 DEF LaneHash, diskVars
    <2>2. BytesKept
        BY <2>1 DEF BytesKept, TypeOK
    <2>3. o.by = None => job' = job
        BY <1>0, <1>5 DEF LaneHash
    <2>4. ASSUME NEW w \in Workers, w = o.by
          PROVE  \E n \in Jobs :
                     /\ Become(w, n) /\ n.blk \in {None, job[w].blk}
                     /\ n.at = "written" => o.op = "write" /\ n.blk = job[w].blk
                     /\ JobOK(w)' /\ VerdictOK(w)'
        <3>1. PICK a \in {"matched", "mismatched"} :
                  /\ \/ Become(w, [job[w] EXCEPT !.at = a])
                     \/ Become(w, Idle)
                  /\ a = "matched" =>
                         \A b \in BlocksOf(job[w].part) : disk[b] = "good"
            BY <1>0, <1>2, <1>5, <2>4 DEF LaneHash
        <3>2. CASE Become(w, [job[w] EXCEPT !.at = a])
            <4>1. PICK n \in Jobs :
                      /\ Become(w, n) /\ job'[w] = n /\ n.at = a
                      /\ n.blk = job[w].blk /\ n.part = job[w].part
                      /\ n.same = job[w].same /\ n.sweep = job[w].sweep
                <5>1. a \in At
                    BY <3>1 DEF At
                <5> HIDE DEF IntegrityInv
                <5> QED BY <3>2, <5>1, AnswerJob
            <4>2. JobOK(w)'
                BY <1>0, <1>2, <1>3, <2>1, <2>4, <4>1 DEF JobOK, Busy
            <4>3. VerdictOK(w)'
                BY <1>0, <1>2, <1>3, <2>1, <2>4, <3>1, <4>1, SMT DEF VerdictOK, Busy
            <4> QED BY <4>1, <4>2, <4>3
        <3>3. CASE Become(w, Idle)
            <4>1. Idle \in Jobs /\ job'[w] = Idle
                BY <3>3, JobFacts, BecomeKeeps
            <4>2. JobOK(w)' /\ VerdictOK(w)'
                BY <4>1, JobFacts DEF JobOK, VerdictOK, Busy
            <4> QED BY <3>3, <4>1, <4>2, JobFacts
        <3> QED BY <3>1, <3>2, <3>3
    <2> HIDE DEF o
    <2> QED BY <1>0, <2>2, <2>3, <2>4, AnswerStep DEF o
<1>6. CASE LaneSync
    <2>1. o.op = "sync" /\ disk' = disk
        BY <1>0, <1>6 DEF LaneSync
    <2>2. \/ /\ stable' = [b \in Blocks |-> {disk[b]}]
             /\ o.by # None => Become(o.by, [job[o.by] EXCEPT !.at = "synced"])
          \/ /\ stable' = stable
             /\ o.by # None => Become(o.by, [job[o.by] EXCEPT !.at = "failed"])
        BY <1>0, <1>6 DEF LaneSync
    <2>3. BytesKept
        BY <2>1, <2>2, SMT DEF BytesKept, TypeOK
    <2>4. o.by = None => job' = job
        BY <1>0, <1>6 DEF LaneSync
    <2>5. ASSUME NEW w \in Workers, w = o.by
          PROVE  \E n \in Jobs :
                     /\ Become(w, n) /\ n.blk \in {None, job[w].blk}
                     /\ n.at = "written" => o.op = "write" /\ n.blk = job[w].blk
                     /\ JobOK(w)' /\ VerdictOK(w)'
        <3>1. PICK a \in {"synced", "failed"} :
                  /\ Become(w, [job[w] EXCEPT !.at = a])
                  /\ a = "synced" => stable' = [b \in Blocks |-> {disk[b]}]
            BY <1>2, <2>2, <2>5
        <3>2. PICK n \in Jobs :
                  /\ Become(w, n) /\ job'[w] = n /\ n.at = a
                  /\ n.blk = job[w].blk /\ n.part = job[w].part
                  /\ n.same = job[w].same /\ n.sweep = job[w].sweep
            <4>1. a \in At
                BY <3>1 DEF At
            <4> HIDE DEF IntegrityInv
            <4> QED BY <3>1, <4>1, AnswerJob
        <3>3. JobOK(w)'
            BY <1>0, <1>2, <1>3, <2>1, <2>5, <3>1, <3>2 DEF JobOK, Busy
        <3>4. a = "synced" => \A b \in Blocks : disk[b] = "good" => stable'[b] = {"good"}
            BY <3>1
        <3>5. VerdictOK(w)'
            BY <1>0, <1>2, <1>3, <2>1, <2>5, <3>1, <3>2, <3>4, SMT
            DEF VerdictOK, Busy, BlocksOf
        <3> QED BY <3>1, <3>2, <3>3, <3>5
    <2> HIDE DEF o
    <2> QED BY <1>0, <2>3, <2>4, <2>5, AnswerStep DEF o
<1> QED BY <1>4, <1>5, <1>6 DEF Writer

LEMMA FinalStep ==
    ASSUME IntegrityInv, FinalVerify
    PROVE  IntegrityInv'
<1> USE DEF IntegrityInv
<1> DEFINE bad == {PartOf[b] : b \in {c \in Blocks : disk[c] = "bad"}}
<1>1. /\ lane = <<>> /\ \A w \in Workers : job[w] = Idle
      /\ stable' = [b \in Blocks |-> {disk[b]}]
      /\ UNCHANGED <<abandoned, job, lane, wedged, disk, met>>
    BY DEF FinalVerify
<1>2. JobInv' /\ VerdictInv'
    BY <1>1, JobFacts DEF JobInv, JobOK, VerdictInv, VerdictOK, Busy
<1>3. LaneInv'
    BY <1>1, SMT DEF LaneInv
<1>4. /\ missing' \in SUBSET Blocks /\ verified' \in SUBSET Parts
      /\ verified \subseteq verified'
      /\ saves' = saves \/ Save(missing', verified')
      /\ \A p \in verified' : \A b \in BlocksOf(p) :
             b \notin missing' /\ disk[b] = "good"
    <2>1. CASE bad = {}
        <3>1. \A b \in Blocks : disk[b] = "good"
            <4>1. \A b \in Blocks : disk[b] \in {"good", "bad"}
                BY DEF TypeOK, Contents
            <4>2. \A b \in Blocks : disk[b] = "bad" => PartOf[b] \in bad
                OBVIOUS
            <4>3. \A b \in Blocks : disk[b] # "bad"
                BY <2>1, <4>2
            <4> QED BY <4>1, <4>3
        <3>2. missing' = {} /\ missing = {} /\ verified' = Parts /\ saves' = saves
            BY <2>1 DEF FinalVerify
        <3> QED BY <3>1, <3>2 DEF TypeOK, BlocksOf
    <2>2. CASE bad # {}
        <3>1. /\ missing' = {b \in Blocks : PartOf[b] \in bad}
              /\ verified' = verified \ bad /\ Save(missing', verified')
            BY <2>2 DEF FinalVerify
        <3>2. \A p \in verified : p \notin bad
            BY DEF VerifiedInv, BlocksOf
        <3>3. verified' = verified
            BY <3>1, <3>2
        <3> QED BY <3>1, <3>2, <3>3 DEF VerifiedInv, BlocksOf, TypeOK
    <2> QED BY <2>1, <2>2
<1>5. VerifiedInv' /\ saves' \in Seq(Trackers)
    <2>1. \A p \in verified' : \A b \in BlocksOf(p) :
              b \notin missing' /\ disk'[b] = "good" /\ stable'[b] = {"good"}
        BY <1>1, <1>4 DEF BlocksOf
    <2> QED BY <1>1, <1>4, <2>1, SavesKept
<1>6. TypeOK'
    BY <1>1, <1>4, <1>5 DEF TypeOK
<1> QED BY <1>2, <1>3, <1>5, <1>6

LEMMA SavedStep ==
    ASSUME IntegrityInv, NEW i \in 1 .. Len(saves), Saved(i)
    PROVE  IntegrityInv'
<1> USE DEF IntegrityInv
<1>1. /\ UNCHANGED <<missing, verified, abandoned, job, lane, wedged, disk, stable>>
      /\ met' = saves[i] /\ saves' = SubSeq(saves, i + 1, Len(saves))
    BY DEF Saved, trackerVars, diskVars
<1>2. JobInv' /\ LaneInv' /\ VerdictInv'
    <2>1. JobInv'
        BY <1>1 DEF JobInv, JobOK
    <2>2. LaneInv'
        BY <1>1, SMT DEF LaneInv
    <2>3. VerdictInv'
        BY <1>1 DEF VerdictInv, VerdictOK
    <2> QED BY <2>1, <2>2, <2>3
<1>3. saves \in Seq(Trackers) /\ Len(saves) \in Nat /\ i \in Nat
    BY SMT DEF TypeOK
<1>4. /\ saves' \in Seq(Trackers) /\ Len(saves') = Len(saves) - i
      /\ \A j \in 1 .. Len(saves') :
             saves'[j] = saves[i + j] /\ i + j \in 1 .. Len(saves)
    BY <1>1, <1>3, SMT
<1>5. VerifiedInv'
    <2>1. met'.verified \subseteq verified'
          /\ \A p \in met'.verified : BlocksOf(p) \cap met'.missing = {}
        BY <1>1 DEF VerifiedInv
    <2>2. \A j \in 1 .. Len(saves') :
              /\ saves'[j].verified \subseteq verified'
              /\ \A p \in saves'[j].verified : BlocksOf(p) \cap saves'[j].missing = {}
        BY <1>1, <1>4 DEF VerifiedInv
    <2> QED BY <1>1, <2>1, <2>2 DEF VerifiedInv
<1>6. TypeOK'
    BY <1>1, <1>3, <1>4, SMT DEF TypeOK
<1> QED BY <1>2, <1>5, <1>6

LEMMA CrashStep ==
    ASSUME IntegrityInv, Crash
    PROVE  IntegrityInv'
<1> USE DEF IntegrityInv
<1>1. PICK d \in [Blocks -> Contents] :
          /\ \A b \in Blocks : d[b] \in stable[b]
          /\ disk' = d /\ stable' = [b \in Blocks |-> {d[b]}]
    BY DEF Crash
<1>2. /\ missing' = met.missing /\ abandoned' = {}
      /\ verified' = {p \in met.verified : BlocksOf(p) \cap met.missing = {}}
      /\ job' = [w \in Workers |-> Idle] /\ lane' = <<>> /\ saves' = <<>>
      /\ met' = met
    BY DEF Crash
<1>3. met.missing \in SUBSET Blocks /\ met.verified \in SUBSET Parts
    BY DEF TypeOK, Trackers
<1>4. verified' = met.verified
    BY <1>2 DEF VerifiedInv
<1>5. JobInv' /\ VerdictInv'
    BY <1>2, JobFacts DEF JobInv, JobOK, VerdictInv, VerdictOK, Busy
<1>6. LaneInv'
    BY <1>2, SMT DEF LaneInv
<1>7. VerifiedInv'
    <2>1. \A p \in verified' : \A b \in BlocksOf(p) :
              /\ b \in Blocks /\ stable[b] = {"good"} /\ b \notin met.missing
        BY <1>2, <1>4 DEF VerifiedInv, BlocksOf
    <2>2. \A b \in Blocks : stable[b] = {"good"} =>
              disk'[b] = "good" /\ stable'[b] = {"good"}
        BY <1>1
    <2>3. \A p \in verified' : \A b \in BlocksOf(p) :
              b \notin missing' /\ disk'[b] = "good" /\ stable'[b] = {"good"}
        BY <1>2, <2>1, <2>2
    <2>4. Len(saves') = 0
        BY <1>2
    <2>5. /\ met'.verified \subseteq verified'
          /\ \A p \in met'.verified : BlocksOf(p) \cap met'.missing = {}
        BY <1>2, <1>4 DEF VerifiedInv
    <2> QED BY <2>3, <2>4, <2>5, SMT DEF VerifiedInv
<1>8. TypeOK'
    <2>1. job' \in [Workers -> Jobs] /\ lane' \in Seq(Ops) /\ saves' \in Seq(Trackers)
        BY <1>2, JobFacts, SMT
    <2>2. disk' \in [Blocks -> Contents] /\ stable' \in [Blocks -> SUBSET Contents]
        BY <1>1
    <2>3. wedged' \in BOOLEAN
        BY DEF Crash
    <2> QED BY <1>2, <1>3, <1>4, <2>1, <2>2, <2>3 DEF TypeOK
<1> QED BY <1>5, <1>6, <1>7, <1>8

LEMMA IntegrityStep == IntegrityInv /\ [Next]_vars => IntegrityInv'
<1> SUFFICES ASSUME IntegrityInv, [Next]_vars PROVE IntegrityInv'
    OBVIOUS
<1>1. CASE \E w \in Workers : Fill(w) \/ Verify(w)
    BY <1>1, FillStep, VerifyStep
<1>2. ASSUME NEW b \in Blocks, DropRelease(b) PROVE IntegrityInv'
    <2> USE DEF IntegrityInv
    <2>1. /\ UNCHANGED <<missing, verified, job, lane, wedged, disk, stable, saves, met>>
          /\ abandoned' \in SUBSET abandoned
        BY <1>2 DEF DropRelease, diskVars, savedVars
    <2>2. BytesKept /\ lane' \in Seq(Ops)
        BY <2>1 DEF BytesKept, TypeOK
    <2>3. wedged' \in BOOLEAN
        BY <2>1 DEF TypeOK
    <2>4. LaneInv'
        BY <2>1, SMT DEF LaneInv
    <2> QED BY <2>1, <2>2, <2>3, <2>4, OtherStep
<1>3. CASE Writer
    BY <1>3, WriterStep
<1>4. CASE FinalVerify
    BY <1>4, FinalStep
<1>5. CASE PeriodicSave
    <2> USE DEF IntegrityInv
    <2>1. /\ UNCHANGED <<missing, verified, abandoned, job, lane, wedged, disk,
                         stable, met>>
          /\ Save(missing, verified)
        BY <1>5 DEF PeriodicSave, trackerVars, diskVars
    <2>2. BytesKept /\ lane' \in Seq(Ops) /\ abandoned' \in SUBSET abandoned
        BY <2>1 DEF BytesKept, TypeOK
    <2>3. wedged' \in BOOLEAN
        BY <2>1 DEF TypeOK
    <2>4. LaneInv'
        BY <2>1, SMT DEF LaneInv
    <2> QED BY <2>1, <2>2, <2>3, <2>4, OtherStep
<1>6. ASSUME NEW i \in 1 .. Len(saves), Saved(i) PROVE IntegrityInv'
    BY <1>6, SavedStep
<1>7. CASE Crash
    BY <1>7, CrashStep
<1>8. CASE UNCHANGED vars
    <2> USE <1>8 DEF vars, IntegrityInv
    <2>1. TypeOK'
        BY DEF TypeOK
    <2>2. JobInv'
        BY DEF JobInv, JobOK
    <2>3. LaneInv'
        BY SMT DEF LaneInv
    <2>4. VerdictInv'
        BY DEF VerdictInv, VerdictOK
    <2>5. VerifiedInv'
        BY DEF VerifiedInv
    <2> QED BY <2>1, <2>2, <2>3, <2>4, <2>5
<1> QED BY <1>1, <1>2, <1>3, <1>4, <1>5, <1>6, <1>7, <1>8 DEF Next

(* Every reachable state satisfies the inductive invariant. *)
THEOREM IntegrityInvariant == Spec => []IntegrityInv
<1> QED BY IntegrityInit, IntegrityStep, PTL DEF Spec

-----------------------------------------------------------------------------
(* The variables keep their types. *)
THEOREM TypeCorrect == Spec => []TypeOK
<1>1. IntegrityInv => TypeOK
    BY DEF IntegrityInv
<1> QED BY <1>1, IntegrityInvariant, PTL

(* What a verified bit promises to uploads (is_range_safe_to_serve): the   *)
(* part holds the bytes its hash was taken of, across races and crashes.   *)
THEOREM VerifiedBytes == Spec => []VerifiedIsGood
<1>1. IntegrityInv => VerifiedIsGood
    BY DEF IntegrityInv, VerifiedInv, VerifiedIsGood
<1> QED BY <1>1, IntegrityInvariant, PTL

(* What the flush before the bit (sync_data, then set_part_verified, then  *)
(* the snapshot) buys: the sidecar never promises what a crash can undo.   *)
THEOREM DurableSidecar == Spec => []SidecarIsDurable
<1>1. IntegrityInv => SidecarIsDurable
    BY DEF IntegrityInv, VerifiedInv, SidecarIsDurable
<1> QED BY <1>1, IntegrityInvariant, PTL

(* What reservations and the one queue of the file buy: a write an aborted *)
(* worker left behind never lands on a committed block.                    *)
THEOREM NoLateOverwrite == Spec => CommittedStays
<1>1. IntegrityInv /\ LaneWrite => \A b \in Blocks \ missing : disk'[b] = disk[b]
    <2> SUFFICES ASSUME IntegrityInv, LaneWrite, NEW b \in Blocks \ missing
                 PROVE  disk'[b] = disk[b]
        OBVIOUS
    <2>1. lane # <<>> /\ lane' = Tail(lane) /\ TypeOK
        BY DEF LaneWrite, IntegrityInv
    <2>2. Head(lane) = lane[1] /\ 1 \in 1 .. Len(lane)
        BY <2>1, TailLane, SMT
    <2>3. lane[1].blk \in missing
        BY <2>2 DEF LaneWrite, IntegrityInv, LaneInv
    <2> QED BY <2>1, <2>2, <2>3 DEF LaneWrite, TypeOK
<1>2. IntegrityInv /\ [Next]_vars =>
          [LaneWrite => \A b \in Blocks \ missing : disk'[b] = disk[b]]_vars
    BY <1>1
<1> QED BY <1>2, IntegrityInvariant, PTL DEF Spec, CommittedStays
=============================================================================
