---------------------------- MODULE ProgressProofs --------------------------
(***************************************************************************)
(* What part_tracker.rs promises to the two who use it, and what the       *)
(* update watchdog never does.  Upload sessions never serve a block of a   *)
(* part whose verified bit was withdrawn before they looked                *)
(* (VerifiedEpoch), for every set of parts, every number of sessions and   *)
(* every number of withdrawals.  Download workers never fill a byte twice  *)
(* (PartBytes), for every file, every division into parts and every set of *)
(* workers.  The watchdog starts no Ember in the middle of an install, nor *)
(* once it was told to stand down (UpdateWatchdog), for every deadline     *)
(* that outlasts an install and every number of hand-overs, sleeps and     *)
(* faults.                                                                 *)
(***************************************************************************)
EXTENDS MCProgress, TLAPS

(* What was withdrawn and announced. *)
Announced == unverified \ fresh

(* No copy, and no load, carries an epoch of the future; whatever carries  *)
(* the current one is clean.  The registry still has what a session knew,  *)
(* and a copy that passed the epoch check does not.                        *)
EpochInv ==
    /\ TypeOK
    /\ \A s \in Sessions :
           /\ cache[s].epoch <= epoch
           /\ seen[s] <= epoch
           /\ known[s] \subseteq unverified
           /\ cache[s].epoch = epoch => cache[s].bits \cap Announced = {}
           /\ at[s] = "install" /\ seen[s] = epoch
                 => parsed[s] \cap Announced = {}
           /\ at[s] \in {"batch", "block"} /\ cache[s].epoch = seen[s]
                 => cache[s].bits \cap known[s] = {}
           /\ at[s] = "gate" => cache[s].bits \cap known[s] = {}

LEMMA EpochInit == Init => EpochInv
BY DEF Init, EpochInv, TypeOK, At, NoCache, Announced

(* The worker's steps: a bit is recorded before it is announced, and the   *)
(* announcement makes every older copy visibly old.                        *)
LEMMA WorkerStep == EpochInv /\ Worker => EpochInv'
<1> SUFFICES ASSUME EpochInv, Worker PROVE EpochInv'
    OBVIOUS
<1> USE DEF EpochInv, Announced, At
<1>1. ASSUME NEW P \in SUBSET Parts, set_part_verified(P) PROVE EpochInv'
    BY <1>1 DEF set_part_verified, TypeOK
<1>2. ASSUME NEW P \in SUBSET Parts, record_unverified(P) PROVE EpochInv'
    BY <1>2 DEF record_unverified, sessionVars, TypeOK
<1>3. CASE bump_verification_epoch
    <2>1. TypeOK'
        BY <1>3 DEF bump_verification_epoch, sessionVars, TypeOK
    <2>2. \A s \in Sessions : cache[s].epoch < epoch' /\ seen[s] < epoch'
        BY <1>3 DEF bump_verification_epoch, TypeOK
    <2> QED
        BY <1>3, <2>1, <2>2 DEF bump_verification_epoch, sessionVars, TypeOK
<1>4. CASE snapshot_for_save \/ write_to_disk
    BY <1>4 DEF snapshot_for_save, write_to_disk, sessionVars, TypeOK
<1> QED BY <1>1, <1>2, <1>3, <1>4 DEF Worker

(* A session's steps: the epoch it stamps is never newer than what it read *)
(* afterwards.                                                             *)
LEMMA SessionStep ==
    ASSUME NEW s \in Sessions PROVE EpochInv /\ Session(s) => EpochInv'
<1> SUFFICES ASSUME EpochInv, Session(s) PROVE EpochInv'
    OBVIOUS
<1> USE DEF EpochInv, Announced, At, Goto, workerVars
<1>1. ASSUME NEW to \in {"batch", "load", "block"}, verification_epoch(s, to)
      PROVE EpochInv'
    BY <1>1 DEF verification_epoch, TypeOK
<1>2. ASSUME Batch(s) \/ Block(s)
      PROVE EpochInv'
    <2>1. PICK c \in [bits : SUBSET Parts, epoch : Nat] :
              /\ cache' = [cache EXCEPT ![s] = c]
              /\ c = IF cache[s].epoch = seen[s] THEN cache[s]
                     ELSE [bits |-> cache[s].bits \ unverified,
                           epoch |-> seen[s]]
        BY <1>2 DEF Batch, Block, apply_pending_invalidations, TypeOK
    <2>2. at' \in [Sessions -> At] /\ UNCHANGED <<workerVars, seen, parsed, known>>
        BY <1>2 DEF Batch, Block, TypeOK
    <2>3. /\ \A q \in Sessions \ {s} : at'[q] = at[q]
          /\ at'[s] \in {"idle", "load", "gate"}
        BY <1>2 DEF Batch, Block, TypeOK
    <2>4. TypeOK'
        BY <2>1, <2>2, Zenon DEF TypeOK
    <2>5. c.epoch <= epoch /\ (c.epoch = epoch => c.bits \cap Announced = {})
        BY <2>1 DEF TypeOK
    <2>6. at'[s] = "gate" => c.bits \cap known[s] = {}
        BY <1>2, <2>1 DEF Batch, Block, TypeOK
    <2>7. cache'[s] = c /\ \A q \in Sessions \ {s} : cache'[q] = cache[q]
        BY <2>1 DEF TypeOK
    <2> QED BY <2>2, <2>3, <2>4, <2>5, <2>6, <2>7
<1>3. CASE load_inner(s)
    BY <1>3 DEF load_inner, TypeOK
<1>6. CASE Overlay(s)
    <2>1. /\ parsed'[s] \cap Announced = {}
          /\ \A q \in Sessions \ {s} : parsed'[q] = parsed[q]
          /\ parsed' \in [Sessions -> SUBSET Parts]
        BY <1>6 DEF Overlay, TypeOK
    <2>2. /\ at'[s] = "install"
          /\ \A q \in Sessions \ {s} : at'[q] = at[q]
          /\ at' \in [Sessions -> At]
        BY <1>6 DEF Overlay, TypeOK
    <2>3. UNCHANGED <<workerVars, cache, seen, known>>
        BY <1>6 DEF Overlay
    <2>4. TypeOK'
        BY <2>1, <2>2, <2>3 DEF TypeOK
    <2> QED BY <2>1, <2>2, <2>3, <2>4
<1>4. CASE Install(s)
    BY <1>4 DEF Install, TypeOK
<1>5. CASE Gate(s)
    BY <1>5 DEF Gate, TypeOK
<1> QED BY <1>1, <1>2, <1>3, <1>4, <1>5, <1>6 DEF Session

(* The invariant holds throughout. *)
LEMMA EpochInvariant == Spec => []EpochInv
<1>1. EpochInv /\ UNCHANGED vars => EpochInv'
    BY DEF EpochInv, Announced, vars, TypeOK
<1>2. EpochInv /\ [Next]_vars => EpochInv'
    BY <1>1, WorkerStep, SessionStep DEF Next
<1> QED BY <1>2, EpochInit, PTL DEF Spec

(* Reading the epoch is enough to know whether a cached copy can be        *)
(* trusted.                                                                *)
THEOREM CurrentCopy == Spec => []CurrentCopyIsClean
<1>1. EpochInv => CurrentCopyIsClean
    BY DEF EpochInv, Announced, CurrentCopyIsClean
<1> QED BY <1>1, EpochInvariant, PTL

(* No block is served from a part whose withdrawal was announced before    *)
(* the session looked.                                                     *)
THEOREM WithdrawnNotServed == Spec => []NoWithdrawnBlock
<1>1. EpochInv => NoWithdrawnBlock
    BY DEF EpochInv, NoWithdrawnBlock
<1> QED BY <1>1, EpochInvariant, PTL

-----------------------------------------------------------------------------

(* The promises and the type, which together are inductive. *)
ByteInv ==
    /\ Tracker!TypeOK
    /\ Tracker!OneWriterPerByte
    /\ Tracker!WritesOnlyMissing
    /\ Tracker!VerifiedIsComplete

(* A new download keeps the promises: every byte is missing and unreserved. *)
LEMMA ByteInit == Tracker!Init => ByteInv
BY SpanAssumption DEF Tracker!Init, ByteInv, Tracker!TypeOK, Tracker!OneWriterPerByte,
       Tracker!WritesOnlyMissing, Tracker!Reserved, Tracker!VerifiedIsComplete

(* Every operation of the abstract tracker keeps the promises. *)
LEMMA ByteStep == ByteInv /\ [Tracker!Next]_Tracker!vars => ByteInv'
<1> SUFFICES ASSUME ByteInv, [Tracker!Next]_Tracker!vars PROVE ByteInv'
    OBVIOUS
<1> USE SpanAssumption DEF ByteInv
<1>1. ASSUME NEW w \in Workers, NEW R \in SUBSET missing, Tracker!Reserve(w, R)
      PROVE ByteInv'
    <2>1. Tracker!TypeOK'
        BY <1>1 DEF Tracker!Reserve, Tracker!TypeOK
    <2>2. Tracker!OneWriterPerByte'
        BY <1>1 DEF Tracker!Reserve, Tracker!TypeOK, Tracker!OneWriterPerByte,
                    Tracker!Reserved
    <2>3. Tracker!WritesOnlyMissing' /\ Tracker!VerifiedIsComplete'
        BY <1>1 DEF Tracker!Reserve, Tracker!TypeOK, Tracker!WritesOnlyMissing,
                    Tracker!Reserved,
                    Tracker!VerifiedIsComplete, Tracker!Complete
    <2> QED BY <2>1, <2>2, <2>3
<1>2. ASSUME NEW w \in Workers, NEW C \in SUBSET writing[w],
             NEW B \in SUBSET Bytes, Tracker!Finish(w, C, B)
      PROVE ByteInv'
    <2>1. Tracker!TypeOK'
        BY <1>2 DEF Tracker!Finish, Tracker!TypeOK, Tracker!Reopened
    <2>2. Tracker!OneWriterPerByte'
        BY <1>2 DEF Tracker!Finish, Tracker!TypeOK, Tracker!OneWriterPerByte
    <2>3. Tracker!WritesOnlyMissing'
        BY <1>2 DEF Tracker!Finish, Tracker!TypeOK, Tracker!OneWriterPerByte,
                    Tracker!WritesOnlyMissing,
                    Tracker!Reserved
    <2>4. Tracker!VerifiedIsComplete'
        BY <1>2 DEF Tracker!Finish, Tracker!TypeOK, Tracker!Reopened,
                    Tracker!VerifiedIsComplete, Tracker!Complete
    <2> QED BY <2>1, <2>2, <2>3, <2>4
<1>3. ASSUME NEW w \in Workers, Tracker!Abandon(w)
      PROVE ByteInv'
    <2>1. Tracker!TypeOK' /\ Tracker!OneWriterPerByte'
        BY <1>3 DEF Tracker!Abandon, Tracker!TypeOK, Tracker!OneWriterPerByte
    <2>2. Tracker!WritesOnlyMissing' /\ Tracker!VerifiedIsComplete'
        BY <1>3 DEF Tracker!Abandon, Tracker!TypeOK, Tracker!WritesOnlyMissing,
                    Tracker!Reserved,
                    Tracker!VerifiedIsComplete, Tracker!Complete
    <2> QED BY <2>1, <2>2
<1>4. ASSUME NEW A \in SUBSET abandoned, Tracker!Reclaim(A)
      PROVE ByteInv'
    BY <1>4 DEF Tracker!Reclaim, Tracker!TypeOK, Tracker!OneWriterPerByte,
                Tracker!WritesOnlyMissing,
                Tracker!Reserved, Tracker!VerifiedIsComplete, Tracker!Complete
<1>5. ASSUME NEW B \in SUBSET Bytes, Tracker!Reopen(B)
      PROVE ByteInv'
    <2>1. Tracker!TypeOK' /\ Tracker!OneWriterPerByte' /\ Tracker!WritesOnlyMissing'
        BY <1>5 DEF Tracker!Reopen, Tracker!TypeOK, Tracker!OneWriterPerByte,
                    Tracker!WritesOnlyMissing,
                    Tracker!Reserved, Tracker!Reopened
    <2>2. Tracker!VerifiedIsComplete'
        BY <1>5 DEF Tracker!Reopen, Tracker!TypeOK, Tracker!Reopened,
                    Tracker!VerifiedIsComplete, Tracker!Complete
    <2> QED BY <2>1, <2>2
<1>6. ASSUME NEW P \in SUBSET Parts, NEW B \in SUBSET Bytes, Tracker!Verify(P, B)
      PROVE ByteInv'
    <2>1. Tracker!TypeOK' /\ Tracker!OneWriterPerByte' /\ Tracker!WritesOnlyMissing'
        BY <1>6 DEF Tracker!Verify, Tracker!TypeOK, Tracker!OneWriterPerByte,
                    Tracker!WritesOnlyMissing,
                    Tracker!Reserved, Tracker!Reopened
    <2>2. Tracker!VerifiedIsComplete'
        BY <1>6 DEF Tracker!Verify, Tracker!TypeOK, Tracker!Reopened,
                    Tracker!VerifiedIsComplete, Tracker!Complete
    <2> QED BY <2>1, <2>2
<1>9. ASSUME NEW P \in SUBSET Parts, Tracker!Withdraw(P)
      PROVE ByteInv'
    BY <1>9 DEF Tracker!Withdraw, Tracker!TypeOK, Tracker!OneWriterPerByte,
                Tracker!WritesOnlyMissing, Tracker!Reserved,
                Tracker!VerifiedIsComplete, Tracker!Complete
<1>7. ASSUME NEW M \in SUBSET Bytes, NEW V \in SUBSET Parts, Tracker!Load(M, V)
      PROVE ByteInv'
    BY <1>7 DEF Tracker!Load, Tracker!TypeOK, Tracker!OneWriterPerByte,
                Tracker!WritesOnlyMissing,
                Tracker!Reserved, Tracker!VerifiedIsComplete, Tracker!Complete
<1>8. CASE UNCHANGED Tracker!vars
    BY <1>8 DEF Tracker!vars, Tracker!TypeOK, Tracker!OneWriterPerByte,
                Tracker!WritesOnlyMissing,
                Tracker!Reserved, Tracker!VerifiedIsComplete, Tracker!Complete
<1> QED
    BY <1>1, <1>2, <1>3, <1>4, <1>5, <1>6, <1>7, <1>8, <1>9 DEF Tracker!Next

(* No byte has two writers, a writer only fills missing bytes, and a       *)
(* verified part is complete, whatever the workers, drops, repairs and     *)
(* reloads do.                                                             *)
THEOREM BytePromises ==
    Tracker!Spec => [](/\ OneWriterPerByte
                       /\ Tracker!WritesOnlyMissing
                       /\ Tracker!VerifiedIsComplete)
<1>1. ByteInv => /\ OneWriterPerByte
                 /\ Tracker!WritesOnlyMissing
                 /\ Tracker!VerifiedIsComplete
    BY DEF ByteInv, OneWriterPerByte
<1>2. (Tracker!Init => ByteInv) /\ (ByteInv /\ [Tracker!Next]_Tracker!vars => ByteInv')
    BY ByteInit, ByteStep
<1> QED BY <1>1, <1>2, PTL DEF Tracker!Spec

(* A byte becomes present only by the hand of the worker that reserved it, *)
(* or with a new session.                                                  *)
THEOREM HoldersFill ==
    Tracker!Spec => Tracker!OnlyHoldersFill
<1> DEFINE Fills ==
        \/ Tracker!Load(missing', verified')
        \/ \A b \in missing \ missing' :
               \E w \in Workers : b \in writing[w] /\ writing'[w] = {}
<1>1. ByteInv /\ [Tracker!Next]_Tracker!vars => [Fills]_Tracker!vars
    <2> SUFFICES ASSUME ByteInv, Tracker!Next PROVE Fills
        OBVIOUS
    <2> USE DEF ByteInv, Tracker!TypeOK
    <2>1. ASSUME NEW w \in Workers, NEW C \in SUBSET writing[w],
                 NEW B \in SUBSET Bytes, Tracker!Finish(w, C, B)
          PROVE Fills
        BY <2>1 DEF Tracker!Finish
    <2>2. ASSUME NEW M \in SUBSET Bytes, NEW V \in SUBSET Parts, Tracker!Load(M, V)
          PROVE Fills
        BY <2>2 DEF Tracker!Load
    <2>3. ASSUME missing \subseteq missing' PROVE Fills
        BY <2>3
    <2> QED
        BY <2>1, <2>2, <2>3, Zenon
           DEF Tracker!Next, Tracker!Reserve, Tracker!Abandon, Tracker!Reclaim,
               Tracker!Reopen, Tracker!Verify, Tracker!Withdraw
<1>2. (Tracker!Init => ByteInv) /\ (ByteInv /\ [Tracker!Next]_Tracker!vars => ByteInv')
    BY ByteInit, ByteStep
<1> QED BY <1>1, <1>2, PTL DEF Tracker!Spec, Tracker!OnlyHoldersFill

-----------------------------------------------------------------------------
(* From here steps are first-order, for Zenon, unless they name SMT. *)
USE Zenon

(* The watchdog waits for the lock of an Ember that is installing; once it *)
(* waits for Ember to come back, its deadline outlasts the installer, and  *)
(* it has looked for a stand-down before the deadline can pass.            *)
DogInv ==
    /\ installer \in Nat /\ left \in Nat /\ installer <= InstallPolls
    /\ ember = "installing" =>
           dog \in {"gone", "exit", "exit_probe"} /\ (dog # "gone" => locked)
    /\ dog \in {"back", "back_probe"} => installer <= left
    /\ dog = "back" /\ standing => left # 0
    /\ dog \in {"back_probe", "settle", "start", "start_again"} => ~standing

(* The wait for Ember to come back is no shorter than an install. *)
Patient == /\ InstallPolls \in Nat /\ RELAUNCH_DEADLINE \in Nat \ {0}
           /\ InstallPolls <= RELAUNCH_DEADLINE

(* At first no update was handed over and no watchdog runs. *)
LEMMA DogInit == Patient /\ Watchdog!Init => DogInv
<1>1. Patient => 0 \in Nat /\ 0 <= InstallPolls
    BY SMT DEF Patient
<1> QED BY <1>1 DEF Watchdog!Init, DogInv

(* A step of Ember or of the installer under which no wait begins. *)
LEMMA EmberAside ==
    ASSUME Patient, DogInv, UNCHANGED <<dog, left>>,
           installer' \in Nat, installer' <= installer,
           ember' = "installing" => ember = "installing" /\ UNCHANGED locked,
           standing' => standing \/ ember = "installing"
    PROVE  DogInv'
<1>1. installer' <= InstallPolls
    BY SMT DEF Patient, DogInv
<1>2. installer <= left => installer' <= left
    BY SMT DEF DogInv
<1> QED BY <1>1, <1>2 DEF DogInv

(* Ember and the installer: an update is handed over only with no watchdog *)
(* left from an earlier one, or to one that still waits for Ember's lock.  *)
LEMMA EmberStep ==
    ASSUME Patient, DogInv,
           \/ Watchdog!HandOver \/ Watchdog!InstallerStarts \/ Watchdog!InstallFails
           \/ Watchdog!InstallerEnds
           \/ Watchdog!hold_instance_lock \/ Watchdog!SetupDone \/ Watchdog!SetupFails
           \/ Watchdog!Quit \/ Watchdog!UserStarts
    PROVE  DogInv'
<1>0. installer \in Nat /\ installer <= installer /\ 0 \in Nat /\ 0 <= installer
    BY SMT DEF DogInv
<1>1. CASE Watchdog!HandOver
    <2>1. /\ UNCHANGED <<locked, installer, left>>
          /\ \/ locked /\ dog' \in {"exit", "exit_probe"}
             \/ ~locked /\ dog' = "gone"
        BY <1>1 DEF Watchdog!HandOver
    <2> QED BY <2>1 DEF DogInv
<1>2. CASE Watchdog!InstallerStarts
    <2>1. UNCHANGED <<dog, left, standing>> /\ ember = "installing" /\ ember' = "down"
          /\ installer' = InstallPolls
        BY <1>2 DEF Watchdog!InstallerStarts, Watchdog!dogVars
    <2>2. InstallPolls \in Nat /\ InstallPolls <= InstallPolls
        BY SMT DEF Patient
    <2> QED BY <2>1, <2>2 DEF DogInv
<1>3. CASE Watchdog!InstallFails
    <2>1. UNCHANGED <<dog, left, installer>> /\ ember' # "installing" /\ ember = "installing"
        BY <1>3 DEF Watchdog!InstallFails, Watchdog!dogVars
    <2> QED BY <1>0, <2>1, EmberAside
<1>4. CASE Watchdog!InstallerEnds
    <2>1. /\ UNCHANGED <<dog, left, locked, standing>> /\ installer' = 0
          /\ ember' = "installing" => ember = "installing"
        BY <1>4 DEF Watchdog!InstallerEnds, Watchdog!dogVars
    <2> QED BY <1>0, <2>1, EmberAside
<1>5. CASE Watchdog!hold_instance_lock \/ Watchdog!SetupDone \/ Watchdog!SetupFails
           \/ Watchdog!Quit \/ Watchdog!UserStarts
    <2>1. UNCHANGED <<dog, left, installer, standing>> /\ ember' # "installing"
        BY <1>5 DEF Watchdog!hold_instance_lock, Watchdog!SetupDone,
                    Watchdog!SetupFails, Watchdog!Quit, Watchdog!UserStarts,
                    Watchdog!dogVars
    <2> QED BY <1>0, <2>1, EmberAside
<1> QED BY <1>1, <1>2, <1>3, <1>4, <1>5

(* A nap takes no more from the watchdog's deadline than from the installer. *)
LEMMA Nap ==
    ASSUME Patient, DogInv, NEW slept \in BOOLEAN, Watchdog!nap(slept)
    PROVE  /\ installer' \in Nat /\ installer' <= InstallPolls /\ installer' <= installer
           /\ ~slept /\ installer <= left /\ left # 0 =>
                  installer' <= left - 1 /\ left - 1 \in Nat
<1>1. /\ installer \in Nat /\ left \in Nat /\ InstallPolls \in Nat
      /\ installer <= InstallPolls
    BY DEF Patient, DogInv
<1>2. CASE slept \/ installer = 0
    <2>1. installer' = installer
        BY <1>2 DEF Watchdog!nap
    <2> QED BY <1>1, <1>2, <2>1, SMT
<1>3. CASE ~slept /\ installer # 0
    <2>1. installer' = installer - 1
        BY <1>3 DEF Watchdog!nap
    <2> QED BY <1>1, <1>3, <2>1, SMT
<1> QED BY <1>2, <1>3

(* The watchdog's own steps (watch_with): its deadline starts with Ember's *)
(* lock free, so after the last hand-over; a sleep sets it anew.           *)
LEMMA DogStep == ASSUME Patient, DogInv, Watchdog!Dog PROVE DogInv'
<1>0. installer \in Nat /\ left \in Nat /\ installer <= installer /\ installer <= InstallPolls
    BY SMT DEF DogInv
<1>1. CASE Watchdog!ExitCheck \/ Watchdog!BackProbe \/ Watchdog!BackDeadline
    <2>1. UNCHANGED <<ember, locked, standing, installer, left>>
        BY <1>1 DEF Watchdog!ExitCheck, Watchdog!BackProbe, Watchdog!BackDeadline,
                    Watchdog!DogOnly
    <2>2. \/ dog = "exit" /\ dog' \in {"gone", "exit_probe"}
          \/ dog = "back_probe" /\ dog' \in {"settle", "back"}
          \/ dog = "back" /\ left = 0 /\ dog' = "start"
        BY <1>1 DEF Watchdog!ExitCheck, Watchdog!BackProbe, Watchdog!BackDeadline
    <2> QED BY <2>1, <2>2 DEF DogInv
<1>2. CASE Watchdog!ExitProbe
    <2>1. UNCHANGED <<ember, locked, standing>> /\ dog = "exit_probe"
        BY <1>2 DEF Watchdog!ExitProbe, Watchdog!DogOnly
    <2>2. CASE ~locked /\ dog' = "back" /\ left' = RELAUNCH_DEADLINE /\ UNCHANGED installer
        <3>1. /\ RELAUNCH_DEADLINE \in Nat /\ RELAUNCH_DEADLINE # 0
              /\ installer <= RELAUNCH_DEADLINE
            BY SMT DEF Patient, DogInv
        <3> QED BY <2>1, <2>2, <3>1 DEF DogInv
    <2>3. CASE /\ locked
               /\ dog' \in {"exit"} \cup (IF ember # "installing" THEN {"gone"} ELSE {})
               /\ UNCHANGED left /\ \E slept \in BOOLEAN : Watchdog!nap(slept)
        <3>1. installer' \in Nat /\ installer' <= InstallPolls
            BY <2>3, Nap
        <3>2. dog' = "exit" \/ (dog' = "gone" /\ ember # "installing")
            BY <2>3
        <3> QED BY <2>1, <2>3, <3>1, <3>2 DEF DogInv
    <2> QED BY <1>2, <2>2, <2>3 DEF Watchdog!ExitProbe
<1>3. CASE Watchdog!BackNap
    <2>1. /\ UNCHANGED <<ember, locked, standing>> /\ dog = "back" /\ left > 0
          /\ dog' = IF standing THEN "gone" ELSE "back_probe"
        BY <1>3 DEF Watchdog!BackNap, Watchdog!DogOnly
    <2>2. PICK slept \in BOOLEAN :
              Watchdog!nap(slept) /\ left' = IF slept THEN RELAUNCH_DEADLINE ELSE left - 1
        BY <1>3 DEF Watchdog!BackNap
    <2>3. left # 0 /\ installer <= left /\ ember # "installing"
        <3>1. left # 0
            BY <1>0, <2>1, SMT
        <3> QED BY <2>1, <3>1 DEF DogInv
    <2>4. installer' \in Nat /\ installer' <= InstallPolls
        BY <2>2, Nap
    <2>5. left' \in Nat /\ installer' <= left'
        <3>1. CASE slept
            <4>1. left' = RELAUNCH_DEADLINE
                BY <2>2, <3>1
            <4> QED BY <2>4, <4>1, SMT DEF Patient
        <3>2. CASE ~slept
            BY <2>2, <2>3, <3>2, Nap
        <3> QED BY <3>1, <3>2
    <2> QED BY <2>1, <2>3, <2>4, <2>5 DEF DogInv
<1>4. CASE Watchdog!Settle
    <2>1. /\ UNCHANGED <<ember, locked, standing, left>> /\ dog = "settle"
          /\ dog' \in {"start", "gone", "settle"}
          /\ \E slept \in BOOLEAN : Watchdog!nap(slept)
        BY <1>4 DEF Watchdog!Settle, Watchdog!DogOnly
    <2>2. installer' \in Nat /\ installer' <= InstallPolls
        BY <2>1, Nap
    <2> QED BY <2>1, <2>2 DEF DogInv
<1>5. CASE Watchdog!relaunch
    <2>1. /\ UNCHANGED <<locked, standing, left, installer>> /\ dog \in {"start", "start_again"}
          /\ dog' \in {"gone", "start_again"} /\ ember' \in {ember, "setup"}
        BY <1>5 DEF Watchdog!relaunch
    <2> QED BY <2>1 DEF DogInv
<1> QED BY <1>1, <1>2, <1>3, <1>4, <1>5 DEF Watchdog!Dog

(* Every step keeps the invariant. *)
LEMMA DogNext == Patient /\ DogInv /\ [Watchdog!Next]_Watchdog!vars => DogInv'
<1> SUFFICES ASSUME Patient, DogInv, [Watchdog!Next]_Watchdog!vars PROVE DogInv'
    OBVIOUS
<1>1. CASE UNCHANGED Watchdog!vars
    BY <1>1 DEF Watchdog!vars, DogInv
<1>2. CASE Watchdog!Next
    BY <1>2, EmberStep, DogStep DEF Watchdog!Next
<1> QED BY <1>1, <1>2

(* The watchdog's deadline starts no Ember while the installer replaces    *)
(* its files, however often the machine sleeps through a poll, as long as  *)
(* the deadline is no shorter than an install takes.                       *)
THEOREM DeadlineOutlastsInstall ==
    ASSUME Patient
    PROVE  Watchdog!Spec => NoStartDuringInstall
<1>1. DogInv /\ [Watchdog!Next]_Watchdog!vars =>
          (dog = "back" /\ dog' = "start" => installer = 0)
    <2> SUFFICES ASSUME DogInv, [Watchdog!Next]_Watchdog!vars,
                        dog = "back", dog' = "start"
                 PROVE  installer = 0
        OBVIOUS
    <2>1. left = 0
        BY DEF Watchdog!Next, Watchdog!vars, Watchdog!HandOver,
           Watchdog!InstallerStarts, Watchdog!InstallFails, Watchdog!InstallerEnds,
           Watchdog!hold_instance_lock, Watchdog!SetupDone, Watchdog!SetupFails,
           Watchdog!Quit, Watchdog!UserStarts, Watchdog!Dog, Watchdog!dogVars,
           Watchdog!ExitCheck, Watchdog!ExitProbe, Watchdog!BackNap, Watchdog!BackProbe,
           Watchdog!BackDeadline, Watchdog!Settle, Watchdog!relaunch
    <2>2. installer \in Nat /\ installer <= left
        BY DEF DogInv
    <2> QED BY <2>1, <2>2, SMT
<1>2. Watchdog!Init => DogInv
    BY DogInit
<1>3. DogInv /\ [Watchdog!Next]_Watchdog!vars => DogInv'
    BY DogNext
<1> QED BY <1>1, <1>2, <1>3, PTL
       DEF Watchdog!Spec, NoStartDuringInstall, Watchdog!NoStartDuringInstall

(* A watchdog told to stand down (stand_down) does not start an Ember that *)
(* the user has quit: it looks for the stand-down file in both waits.      *)
THEOREM StoodDownStays == ASSUME Patient PROVE Watchdog!Spec => StandDownHolds
<1>1. DogInv => (dog' = "gone" /\ dog \in {"start", "start_again"} => ~(standing /\ quit))
    BY DEF DogInv
<1>2. Watchdog!Init => DogInv
    BY DogInit
<1>3. DogInv /\ [Watchdog!Next]_Watchdog!vars => DogInv'
    BY DogNext
<1> QED BY <1>1, <1>2, <1>3, PTL DEF Watchdog!Spec, StandDownHolds, Watchdog!StandDownHolds
=============================================================================
