-------------------------- MODULE StaleValuesProofs -------------------------
(***************************************************************************)
(* Values that may be stale when used: the record of silent updates        *)
(* (SilentUpdate) and the saved status of a download (TransferStatus).     *)
(*                                                                         *)
(* Updates: Ember is stopped for a silent install of a release at most     *)
(* once, and never against the user's answer, for every number of          *)
(* releases, failing file operations and answers.  A release that was      *)
(* tried is installed, or the record holds it, or a newer one has taken    *)
(* its place: Past.  What a launch then judges is the last release tried,  *)
(* because nothing that was tried is newer than the attempt on record or   *)
(* than the last resume file: Recorded.                                    *)
(*                                                                         *)
(* Status: for every number of handlers and writes, the write with the     *)
(* highest number carries the live status while no handler is between      *)
(* setting a status and taking a number for it: StatusWritten.             *)
(***************************************************************************)
EXTENDS MCStaleValues, TLAPS

(* Steps are first-order, for Zenon, unless they name SMT. *)
USE Zenon

(* Where the driver is, and what a resume file says. *)
DriverPCs == {"waiting", "countdown", "looked", "recorded", "handed"}
Files == [silent : BOOLEAN, target : Nat, old : BOOLEAN]

(* What the proof needs of the types. *)
UpdatesTyped ==
    /\ latest \in Nat /\ running \in Nat
    /\ record \in [attempting : Nat, failed : Nat, skipped : Nat, postponed : BOOLEAN]
    /\ resume \in Files /\ outcome \in Files
    /\ driver \in [pc : DriverPCs, version : Nat, held : Nat, restaged : Nat]
    /\ pending \in [version : Nat, prepared : BOOLEAN]
    /\ answers \in [skipped : Nat, postponed : {"unsaid", "yes", "no"}]
    /\ tried \in [Updates!Releases -> Nat]
    /\ misled \in BOOLEAN

(* The releases Ember was stopped for, and that none is newer than n. *)
Tried == {v \in Updates!Releases : tried[v] # 0}
UpTo(n) == n \in Nat /\ \A v \in Tried : v <= n

(* What is pending is newer than what runs; the lock keeps it the driver's. *)
Staged ==
    /\ UpTo(latest)
    /\ pending.version # Updates!None =>
           /\ running < pending.version /\ pending.version <= latest
           /\ UpTo(pending.version)
    /\ pending.prepared => pending.version # Updates!None
    /\ ~Updates!OperationFree =>
           driver.version = pending.version /\ pending.version # Updates!None
    /\ life = "installing" => pending.version # Updates!None
    /\ life \in {"down", "outcome"} =>
           pending = Updates!NothingPending /\ driver = Updates!NewDriver

(* Nothing was tried that is newer than the attempt on record or than the *)
(* release a resume file of the last hand-over names.                     *)
Newer(f) == f.silent => f.target # Updates!None /\ f.target <= latest /\ UpTo(f.target)

Recorded ==
    /\ record.attempting <= latest
    /\ record.attempting # Updates!None => UpTo(record.attempting)
    /\ driver.pc \in {"recorded", "handed"} => record.attempting = driver.version
    /\ resume.silent => resume.target # Updates!None
    /\ ~resume.old => Newer(resume)
    /\ ~misled => Newer(outcome)
    /\ life # "outcome" => outcome = Updates!NoFile

(* A release that was tried is not tried again: it is installed, the      *)
(* record holds it, or a newer one has taken its place.                   *)
Past(v) == \/ v <= running
           \/ v \in {record.failed, record.attempting}
           \/ v < latest /\ (pending.version # Updates!None => v < pending.version)

Once ==
    ~misled =>
        /\ \A v \in Tried : tried[v] = 1 /\ Past(v)
        /\ driver.pc \in {"looked", "recorded"} => driver.version \notin Tried

UpdatesInv == UpdatesTyped /\ Staged /\ Recorded /\ Once
-----------------------------------------------------------------------------
(* Releases are numbered in the order published. *)
LEMMA Numbers ==
    /\ Updates!Releases \subseteq Nat /\ Updates!None \in Nat
    /\ \A a \in Nat : a <= a /\ ~(a < a) /\ a + 1 \in Nat /\ a <= a + 1 /\ Updates!None <= a
    /\ \A a, b \in Nat : a < b => a <= b
    /\ \A a, b \in Nat : a <= b => a < b \/ a = b
    /\ \A a, b, c \in Nat : a <= b /\ b <= c => a <= c
    /\ \A a, b, c \in Nat : a < b /\ b <= c => a < c
    /\ \A a, b, c \in Nat : a <= b /\ b < c => a < c
BY SMT DEF Updates!Releases, Updates!None

(* The fields of the state. *)
LEMMA Fields ==
    ASSUME UpdatesTyped
    PROVE  /\ record.attempting \in Nat /\ record.failed \in Nat
           /\ resume.silent \in BOOLEAN /\ resume.target \in Nat /\ resume.old \in BOOLEAN
           /\ outcome.silent \in BOOLEAN /\ outcome.target \in Nat
           /\ driver.pc \in DriverPCs /\ driver.version \in Nat
           /\ pending.version \in Nat /\ pending.prepared \in BOOLEAN
BY DEF UpdatesTyped, Files

(* The records a process starts with. *)
LEMMA Empty ==
    /\ Updates!NothingPending \in [version : Nat, prepared : BOOLEAN]
    /\ Updates!NothingPending.version = Updates!None /\ Updates!NothingPending.prepared = FALSE
    /\ Updates!NewDriver \in [pc : DriverPCs, version : Nat, held : Nat, restaged : Nat]
    /\ Updates!NewDriver.pc = "waiting"
    /\ Updates!NoFile \in Files /\ Updates!NoFile.silent = FALSE
    /\ Updates!NoFile.target = Updates!None
    /\ Updates!NoAnswers \in [skipped : Nat, postponed : {"unsaid", "yes", "no"}]
<1>1. Updates!None \in Nat
    BY SMT DEF Updates!None
<1> QED BY <1>1 DEF Updates!NothingPending, Updates!NewDriver, DriverPCs,
                    Updates!NoFile, Files, Updates!NoAnswers

(* With nothing tried, there is nothing to hold. *)
LEMMA UpdatesInit == Updates!Init => UpdatesInv
<1> SUFFICES ASSUME Updates!Init PROVE UpdatesInv
    OBVIOUS
<1> USE Empty DEF Updates!Init
<1>1. 1 \in Nat /\ 0 \in Nat /\ 0 <= 1
    BY SMT
<1>2. UpdatesTyped
    BY <1>1 DEF UpdatesTyped, Updates!NewRecord, Updates!None
<1>3. Tried = {}
    BY DEF Tried
<1>4. Staged
    BY <1>1, <1>3 DEF Staged, UpTo, Updates!OperationFree
<1>5. Recorded
    <2>1. record.attempting = Updates!None /\ Updates!None <= 1
        BY <1>1 DEF Updates!NewRecord, Updates!None
    <2> QED BY <2>1, <1>1 DEF Recorded, Newer, Updates!None
<1>6. Once
    BY <1>3 DEF Once
<1> QED BY <1>2, <1>4, <1>5, <1>6 DEF UpdatesInv

-----------------------------------------------------------------------------
(* A step that changes nothing of what was tried, published, installed or *)
(* kept in a resume file, nor what the record holds and what is pending.  *)
LEMMA UpdatesAside ==
    ASSUME UpdatesInv, UpdatesTyped',
           UNCHANGED <<latest, running, tried, misled, resume, outcome, life>>,
           pending'.version = pending.version,
           pending'.prepared => pending.version # Updates!None,
           record'.failed = record.failed, record'.attempting = record.attempting,
           \/ driver'.pc \in {"waiting", "countdown"}
           \/ driver'.pc = driver.pc /\ driver'.version = driver.version,
           life \in {"down", "outcome"} => UNCHANGED <<pending, driver>>
    PROVE  UpdatesInv'
<1> USE DEF UpdatesInv
<1>1. Tried' = Tried
    BY DEF Tried
<1>2. Staged'
    BY <1>1 DEF Staged, UpTo, Updates!OperationFree
<1>3. Recorded'
    BY <1>1 DEF Recorded, UpTo, Newer
<1>4. Once'
    BY <1>1 DEF Once, Past
<1> QED BY <1>2, <1>3, <1>4

(* A release appears: it is newer than all that were tried. *)
LEMMA PublishStep == ASSUME UpdatesInv, Updates!Publish PROVE UpdatesInv'
<1> USE DEF UpdatesInv
<1>1. latest' \in Nat /\ latest <= latest' /\ latest \in Nat
    BY Numbers DEF Updates!Publish, UpdatesTyped
<1>2. /\ UNCHANGED <<running, record, resume, life, driver, pending, answers, outcome,
                     tried, misled>>
      /\ Tried' = Tried /\ Tried \subseteq Nat
    BY Numbers DEF Updates!Publish, Updates!disk, Updates!session, Updates!history,
                   Tried
<1>3. UpdatesTyped'
    BY <1>1, <1>2 DEF UpdatesTyped
<1>4. \A n \in Nat : (n <= latest => n <= latest') /\ (n < latest => n < latest')
    BY <1>1, Numbers
<1>5. UpTo(latest)'
    BY <1>1, <1>2, <1>4 DEF UpTo, Staged
<1>6. Staged'
    BY <1>2, <1>4, <1>5, Fields DEF Staged, Updates!OperationFree, UpTo
<1>7. Recorded'
    BY <1>2, <1>4, Fields DEF Recorded, Newer, UpTo
<1>8. Once'
    BY <1>2, <1>4 DEF Once, Past
<1> QED BY <1>3, <1>6, <1>7, <1>8

(* A check makes the newest release pending, or drops what was pending. *)
LEMMA CheckStep == ASSUME UpdatesInv, Updates!Check PROVE UpdatesInv'
<1> USE DEF UpdatesInv
<1>1. /\ UNCHANGED <<latest, running, record, resume, life, driver, answers, outcome,
                     tried, misled>>
      /\ life = "up" /\ driver.pc \in {"waiting", "countdown"}
    BY DEF Updates!Check, Updates!disk, Updates!history, Updates!OperationFree
<1>2. Tried' = Tried /\ Tried \subseteq Nat
    BY <1>1, Numbers DEF Tried
<1>3. /\ pending' \in [version : Nat, prepared : BOOLEAN]
      /\ \/ pending'.version = latest /\ running < latest
         \/ pending' = Updates!NothingPending
      /\ pending'.prepared => pending'.version # Updates!None
    <2>1. CASE pending' = Updates!NothingPending
        BY <2>1, Empty
    <2>2. CASE /\ latest > running
               /\ \E same \in BOOLEAN :
                     pending' = [version |-> latest,
                                 prepared |-> /\ same /\ pending.prepared
                                              /\ pending.version = latest]
        <3>1. PICK same \in BOOLEAN :
                  pending' = [version |-> latest,
                              prepared |-> /\ same /\ pending.prepared
                                           /\ pending.version = latest]
            BY <2>2
        <3>2. running < latest
            BY <2>2, SMT DEF UpdatesTyped
        <3> QED BY <3>1, <3>2, Fields DEF UpdatesTyped, Staged
    <2> QED BY <2>1, <2>2 DEF Updates!Check
<1>4. UpdatesTyped'
    BY <1>1, <1>3 DEF UpdatesTyped
<1>5. Staged'
    <2>1. CASE pending' = Updates!NothingPending
        BY <2>1, <1>1, <1>2, Empty DEF Staged, UpTo, Updates!OperationFree
    <2>2. CASE pending'.version = latest /\ running < latest
        BY <2>2, <1>1, <1>2, <1>3, Numbers
           DEF Staged, UpTo, Updates!OperationFree, UpdatesTyped
    <2> QED BY <2>1, <2>2, <1>3
<1>6. Recorded'
    BY <1>1, <1>2 DEF Recorded, Newer, UpTo
<1>7. ASSUME NEW v \in Tried, Past(v) PROVE Past(v)'
    <2>1. pending'.version # Updates!None => pending'.version = latest
        BY <1>3, Empty
    <2> QED BY <1>1, <1>7, <2>1 DEF Past
<1>8. Once'
    BY <1>1, <1>2, <1>7 DEF Once
<1> QED BY <1>4, <1>5, <1>6, <1>8

(* Staging, the countdown and the answers change none of this. *)
LEMMA WaitingStep ==
    ASSUME UpdatesInv, Updates!Prepare \/ Updates!Tick \/ Updates!Answer
           \/ Updates!RecordAnswer \/ Updates!PostponeEnds
    PROVE  UpdatesInv'
<1> USE DEF UpdatesInv
<1>1. CASE Updates!Prepare
    <2>1. /\ UNCHANGED <<latest, running, record, resume, life, driver, answers, outcome,
                         tried, misled>>
          /\ pending' = [pending EXCEPT !.prepared = TRUE]
          /\ pending.version # Updates!None /\ life = "up"
        BY <1>1 DEF Updates!Prepare, Updates!disk, Updates!history
    <2>2. pending' \in [version : Nat, prepared : BOOLEAN] /\ pending'.version = pending.version
        BY <2>1 DEF UpdatesTyped
    <2>3. UpdatesTyped'
        BY <2>1, <2>2 DEF UpdatesTyped
    <2> QED BY <2>1, <2>2, <2>3, UpdatesAside
<1>2. CASE Updates!Tick
    <2>1. PICK pc \in {"waiting", "countdown"} :
              driver' = [driver EXCEPT !.version = pending.version, !.pc = pc]
        BY <1>2 DEF Updates!Tick
    <2>2. UNCHANGED <<latest, running, record, resume, life, pending, answers, outcome,
                      tried, misled>>
          /\ life = "up"
        BY <1>2 DEF Updates!Tick, Updates!disk, Updates!history
    <2>3. /\ driver' \in [pc : DriverPCs, version : Nat, held : Nat, restaged : Nat]
          /\ driver'.pc = pc
        <3>1. /\ driver \in [pc : DriverPCs, version : Nat, held : Nat, restaged : Nat]
              /\ pending.version \in Nat /\ pc \in DriverPCs
            BY Fields DEF UpdatesTyped, DriverPCs
        <3> QED BY <2>1, <3>1
    <2>4. UpdatesTyped'
        BY <2>2, <2>3 DEF UpdatesTyped
    <2>5. pending.prepared => pending.version # Updates!None
        BY DEF Staged
    <2> QED BY <2>2, <2>3, <2>4, <2>5, UpdatesAside
<1>3. CASE Updates!Answer
    <2>1. UNCHANGED <<latest, running, record, resume, life, pending, driver, outcome,
                      tried, misled>>
        BY <1>3 DEF Updates!Answer, Updates!disk, Updates!history
    <2>2. answers' \in [skipped : Nat, postponed : {"unsaid", "yes", "no"}]
        BY <1>3, Fields DEF Updates!Answer, UpdatesTyped
    <2>3. UpdatesTyped'
        BY <2>1, <2>2 DEF UpdatesTyped
    <2>4. pending.prepared => pending.version # Updates!None
        BY DEF Staged
    <2> QED BY <2>1, <2>3, <2>4, UpdatesAside
<1>4. CASE Updates!RecordAnswer
    <2>1. UNCHANGED <<latest, running, resume, life, pending, driver, answers, outcome,
                      tried, misled>>
        BY <1>4 DEF Updates!RecordAnswer, Updates!history
    <2>2. \/ record' = record
          \/ record' = [record EXCEPT !.skipped = answers.skipped]
          \/ record' = [record EXCEPT !.postponed = asked = "postpone"]
        BY <1>4 DEF Updates!RecordAnswer, Updates!update_stored
    <2>3. /\ record' \in [attempting : Nat, failed : Nat, skipped : Nat, postponed : BOOLEAN]
          /\ record'.failed = record.failed /\ record'.attempting = record.attempting
        BY <2>2 DEF UpdatesTyped
    <2>4. UpdatesTyped'
        BY <2>1, <2>3 DEF UpdatesTyped
    <2>5. pending.prepared => pending.version # Updates!None
        BY DEF Staged
    <2> QED BY <2>1, <2>3, <2>4, <2>5, UpdatesAside
<1>5. CASE Updates!PostponeEnds
    <2>1. UNCHANGED <<latest, running, resume, life, pending, driver, outcome, tried, misled>>
        BY <1>5 DEF Updates!PostponeEnds, Updates!history
    <2>2. /\ record' \in [attempting : Nat, failed : Nat, skipped : Nat, postponed : BOOLEAN]
          /\ record'.failed = record.failed /\ record'.attempting = record.attempting
        BY <1>5 DEF Updates!PostponeEnds, UpdatesTyped
    <2>3. answers' \in [skipped : Nat, postponed : {"unsaid", "yes", "no"}]
        BY <1>5 DEF Updates!PostponeEnds, UpdatesTyped
    <2>4. UpdatesTyped'
        BY <2>1, <2>2, <2>3 DEF UpdatesTyped
    <2>5. pending.prepared => pending.version # Updates!None
        BY DEF Staged
    <2> QED BY <2>1, <2>2, <2>4, <2>5, UpdatesAside
<1> QED BY <1>1, <1>2, <1>3, <1>4, <1>5

(* The last look passes only a release that was never tried. *)
LEMMA LookStep == ASSUME UpdatesInv, Updates!InstallLook PROVE UpdatesInv'
<1> USE DEF UpdatesInv
<1>1. /\ UNCHANGED <<latest, running, record, resume, life, pending, answers, outcome,
                     tried, misled>>
      /\ life = "up" /\ pending.version = driver.version /\ pending.prepared
    BY DEF Updates!InstallLook, Updates!disk, Updates!history
<1>2. PICK pc \in {"waiting", "looked"} :
          /\ driver' = [driver EXCEPT !.pc = pc]
          /\ pc = "looked" => ~Updates!held(Updates!apply(record), driver.version)
    BY DEF Updates!InstallLook
<1>3. /\ driver' \in [pc : DriverPCs, version : Nat, held : Nat, restaged : Nat]
      /\ driver'.pc = pc /\ driver'.version = driver.version
    BY <1>2 DEF UpdatesTyped, DriverPCs
<1>4. UpdatesTyped'
    BY <1>1, <1>3 DEF UpdatesTyped
<1>5. CASE pc = "waiting"
    <2>1. pending.prepared => pending.version # Updates!None
        BY DEF Staged
    <2> QED BY <1>1, <1>3, <1>4, <1>5, <2>1, UpdatesAside
<1>6. CASE pc = "looked"
    <2>1. Tried' = Tried
        BY <1>1 DEF Tried
    <2>2. Staged'
        BY <1>1, <1>3, <2>1 DEF Staged, UpTo, Updates!OperationFree
    <2>3. Recorded'
        BY <1>1, <1>3, <1>6, <2>1 DEF Recorded, UpTo, Newer
    <2>4. Updates!apply(record).failed = record.failed
          /\ Updates!apply(record).attempting = record.attempting
        BY DEF Updates!apply, UpdatesTyped
    <2>5. driver.version \notin {record.failed, record.attempting}
        BY <1>2, <1>6, <2>4 DEF Updates!held, Updates!held_by_record
    <2>6. driver.version # Updates!None /\ running < driver.version /\ driver.version \in Nat
        BY <1>1, Fields DEF Staged
    <2>7. ~(driver.version <= running)
        BY <2>6, SMT DEF UpdatesTyped
    <2>8. ~misled => driver.version \notin Tried
        BY <1>1, <2>5, <2>6, <2>7, Numbers DEF Once, Past
    <2> QED BY <1>1, <1>3, <1>4, <2>1, <2>2, <2>3, <2>8 DEF Once, Past
<1> QED BY <1>5, <1>6

(* Whatever was tried is older than what the driver has looked at. *)
LEMMA TriedIsOlder ==
    ASSUME UpdatesInv, driver.pc \in {"looked", "recorded"}, ~misled, NEW v \in Tried
    PROVE  v < latest /\ v < pending.version
<1>1. /\ pending.version = driver.version /\ driver.version \notin Tried
      /\ pending.version <= latest /\ v <= pending.version
    BY DEF UpdatesInv, Staged, Once, Updates!OperationFree, UpTo
<1>2. v \in Nat /\ pending.version \in Nat /\ latest \in Nat
    BY Fields, Numbers DEF UpdatesInv, UpdatesTyped, Tried
<1>3. v < pending.version
    BY <1>1, <1>2, Numbers
<1> QED BY <1>1, <1>2, <1>3, Numbers

(* What the driver does with a release it looked at, short of handing it *)
(* over, takes no hold from a release that matters.                       *)
LEMMA LookedStep ==
    ASSUME UpdatesInv, UpdatesTyped', driver.pc \in {"looked", "recorded"}, life = "up",
           UNCHANGED <<latest, running, tried, misled, resume, outcome, life>>,
           pending'.version \in {Updates!None, pending.version},
           pending'.prepared => pending'.version # Updates!None,
           record'.attempting \in {Updates!None, record.attempting, driver.version},
           driver'.version = driver.version,
           \/ driver'.pc = "waiting"
           \/ /\ driver'.pc = "recorded" /\ record'.attempting = driver.version
              /\ pending' = pending
    PROVE  UpdatesInv'
<1> USE DEF UpdatesInv
<1>1. Tried' = Tried
    BY DEF Tried
<1>2. /\ pending.version = driver.version /\ UpTo(pending.version)
      /\ pending.version <= latest /\ pending.version # Updates!None
    BY DEF Staged, Updates!OperationFree
<1>3. Staged'
    BY <1>1, <1>2 DEF Staged, UpTo, Updates!OperationFree
<1>4. Recorded'
    <2>0. record.attempting <= latest /\ Updates!None <= latest
        BY Numbers DEF Recorded, UpdatesTyped
    <2>1. record'.attempting <= latest
        BY <1>2, <2>0
    <2>2. record'.attempting # Updates!None => UpTo(record.attempting)'
        BY <1>1, <1>2 DEF Recorded, UpTo
    <2> QED BY <1>1, <2>1, <2>2 DEF Recorded, Newer, UpTo
<1>5. Once'
    <2>1. ASSUME ~misled, NEW v \in Tried PROVE Past(v)'
        BY <2>1, TriedIsOlder DEF Past
    <2> QED BY <1>1, <2>1 DEF Once
<1> QED BY <1>3, <1>4, <1>5

(* The attempt goes on record before anything is handed over. *)
LEMMA RecordStep == ASSUME UpdatesInv, Updates!InstallRecord PROVE UpdatesInv'
<1> USE DEF UpdatesInv
<1>1. /\ UNCHANGED <<latest, running, resume, life, pending, answers, outcome, tried, misled>>
      /\ life = "up" /\ driver.pc = "looked"
    BY DEF Updates!InstallRecord, Updates!history
<1>2. /\ driver' \in [pc : DriverPCs, version : Nat, held : Nat, restaged : Nat]
      /\ driver'.version = driver.version
      /\ driver'.pc \in {"waiting", "recorded"}
    BY Fields DEF Updates!InstallRecord, UpdatesTyped, DriverPCs
<1>3. /\ record' \in [attempting : Nat, failed : Nat, skipped : Nat, postponed : BOOLEAN]
      /\ record'.attempting \in {Updates!None, record.attempting, driver.version}
      /\ driver'.pc = "recorded" => record'.attempting = driver.version
    <2>1. \/ record' = record /\ driver'.pc = "waiting"
          \/ record' = [record EXCEPT !.attempting = driver.version]
          \/ record' = [record EXCEPT !.attempting = Updates!None] /\ driver'.pc = "waiting"
        BY DEF Updates!InstallRecord, UpdatesTyped, Updates!update_stored
    <2>2. driver.version \in Nat /\ Updates!None \in Nat /\ "waiting" # "recorded"
        BY Fields, Numbers
    <2> QED BY <2>1, <2>2 DEF UpdatesTyped
<1>4. UpdatesTyped'
    BY <1>1, <1>2, <1>3 DEF UpdatesTyped
<1>5. pending.prepared => pending.version # Updates!None
    BY DEF Staged
<1> QED BY <1>1, <1>2, <1>3, <1>4, <1>5, LookedStep

(* A refused install takes its own attempt back, and no other hold. *)
LEMMA RefusedStep == ASSUME UpdatesInv, Updates!InstallRefused PROVE UpdatesInv'
<1> USE DEF UpdatesInv
<1>1. /\ UNCHANGED <<latest, running, resume, life, answers, outcome, tried, misled>>
      /\ life = "up" /\ driver.pc = "recorded"
    BY DEF Updates!InstallRefused, Updates!history
<1>2. \/ pending' = Updates!NothingPending
      \/ pending' = pending
      \/ pending' = [pending EXCEPT !.prepared = FALSE]
    BY DEF Updates!InstallRefused
<1>3. /\ pending' \in [version : Nat, prepared : BOOLEAN]
      /\ pending'.version \in {Updates!None, pending.version}
      /\ pending'.prepared => pending'.version # Updates!None
    BY <1>2, Empty DEF UpdatesTyped, Staged
<1>4. PICK h, r \in Nat :
          driver' = [driver EXCEPT !.pc = "waiting", !.restaged = r, !.held = h]
    BY Fields DEF Updates!InstallRefused, UpdatesTyped
<1>5. /\ driver' \in [pc : DriverPCs, version : Nat, held : Nat, restaged : Nat]
      /\ driver'.version = driver.version /\ driver'.pc = "waiting"
    BY <1>4 DEF UpdatesTyped, DriverPCs
<1>6. \/ record' = record
      \/ \E f \in Nat : record' = [record EXCEPT !.attempting = Updates!None, !.failed = f]
    <2>1. PICK f \in {driver.version, record.failed}, ok \in BOOLEAN :
              Updates!update_stored(
                  [record EXCEPT !.attempting = Updates!None, !.failed = f], ok)
        BY DEF Updates!InstallRefused
    <2> QED BY <2>1, Fields DEF Updates!update_stored
<1>7. /\ record' \in [attempting : Nat, failed : Nat, skipped : Nat, postponed : BOOLEAN]
      /\ record'.attempting \in {Updates!None, record.attempting, driver.version}
    <2>1. Updates!None \in Nat
        BY Numbers
    <2> QED BY <1>6, <2>1 DEF UpdatesTyped
<1>8. UpdatesTyped'
    BY <1>1, <1>3, <1>5, <1>7 DEF UpdatesTyped
<1> QED BY <1>1, <1>3, <1>5, <1>7, <1>8, LookedStep

(* What write_before_install leaves: the file of this install, or one that *)
(* is now known to be of an older one.                                     *)
LEMMA FileWritten ==
    ASSUME UpdatesInv, NEW silent \in BOOLEAN, NEW v \in Nat,
           Updates!write_before_install(silent, v)
    PROVE  /\ resume' \in Files
           /\ \/ resume' = [silent |-> silent, target |-> v, old |-> FALSE]
              \/ /\ resume'.silent => resume'.old
                 /\ resume'.silent <=> resume.silent
                 /\ resume'.target = resume.target
<1>1. PICK ok \in BOOLEAN :
          resume' = IF ok THEN [silent |-> silent, target |-> v, old |-> FALSE]
                    ELSE [resume EXCEPT !.old = resume.target # Updates!None]
    BY DEF Updates!write_before_install
<1>2. CASE ok
    BY <1>1, <1>2 DEF Files
<1>3. CASE ~ok
    <2>1. resume' = [resume EXCEPT !.old = resume.target # Updates!None] /\ resume \in Files
        BY <1>1, <1>3 DEF UpdatesInv, UpdatesTyped
    <2>2. /\ resume' \in Files
          /\ resume'.silent <=> resume.silent
          /\ resume'.target = resume.target
          /\ resume'.old <=> resume.target # Updates!None
        BY <2>1 DEF Files
    <2>3. resume.silent => resume.target # Updates!None
        BY DEF UpdatesInv, Recorded
    <2> QED BY <2>2, <2>3
<1> QED BY <1>2, <1>3

(* The hand-over: of a release that was never tried, newer than all that   *)
(* were, and with its attempt on record.                                   *)
LEMMA HandOverStep == ASSUME UpdatesInv, Updates!HandOver PROVE UpdatesInv'
<1> USE DEF UpdatesInv
<1> DEFINE d == driver.version
<1>1. /\ UNCHANGED <<latest, running, record, pending, answers, outcome, misled>>
      /\ life = "up" /\ driver.pc = "recorded" /\ life' = "installing"
      /\ driver' = [driver EXCEPT !.pc = "handed"]
      /\ tried' = [tried EXCEPT ![d] = @ + 1]
      /\ Updates!write_before_install(TRUE, d)
    BY DEF Updates!HandOver
<1>2. /\ d \in Nat /\ d = pending.version /\ d = record.attempting /\ d # Updates!None
      /\ d <= latest /\ UpTo(d) /\ UpTo(latest) /\ running < d /\ d <= d
    BY <1>1, Fields, Numbers DEF Staged, Recorded, Updates!OperationFree
<1>3. tried' \in [Updates!Releases -> Nat]
      /\ \A v \in Updates!Releases : tried'[v] = IF v = d THEN tried[v] + 1 ELSE tried[v]
    <2>1. \A v \in Updates!Releases : tried[v] + 1 \in Nat
        BY Numbers DEF UpdatesTyped
    <2> QED BY <1>1, <2>1 DEF UpdatesTyped
<1>4. Tried' \subseteq Tried \cup {d}
    BY <1>3 DEF Tried
<1>5. /\ driver' \in [pc : DriverPCs, version : Nat, held : Nat, restaged : Nat]
      /\ driver'.pc = "handed" /\ driver'.version = d
    BY <1>1 DEF UpdatesTyped, DriverPCs
<1>6. /\ resume' \in Files
      /\ \/ resume' = [silent |-> TRUE, target |-> d, old |-> FALSE]
         \/ resume'.silent => resume'.old /\ resume'.target # Updates!None
    <2>1. resume.silent => resume.target # Updates!None
        BY DEF Recorded
    <2> QED BY <1>1, <1>2, <2>1, FileWritten
<1>7. UpdatesTyped'
    BY <1>1, <1>3, <1>5, <1>6 DEF UpdatesTyped
<1>8. UpTo(d)' /\ UpTo(latest)'
    BY <1>1, <1>2, <1>4, <1>5 DEF UpTo
<1>9. Staged'
    BY <1>1, <1>2, <1>5, <1>8 DEF Staged, Updates!OperationFree, UpTo
<1>10. Recorded'
    <2>1. outcome = Updates!NoFile
        BY <1>1 DEF Recorded
    <2>2. CASE resume' = [silent |-> TRUE, target |-> d, old |-> FALSE]
        BY <1>1, <1>2, <1>5, <1>8, <2>1, <2>2, Empty DEF Recorded, Newer, UpTo
    <2>3. CASE resume'.silent => resume'.old /\ resume'.target # Updates!None
        BY <1>1, <1>2, <1>5, <1>8, <2>1, <2>3, Empty DEF Recorded, Newer, UpTo
    <2> QED BY <1>6, <2>2, <2>3
<1>11. Once'
    <2> SUFFICES ASSUME ~misled, NEW v \in Tried' PROVE tried'[v] = 1 /\ Past(v)'
        BY <1>1, <1>5 DEF Once
    <2>1. v \in Updates!Releases /\ d \notin Tried
        BY <1>1 DEF Tried, Once
    <2>2. CASE v = d
        <3>1. tried[v] = 0 /\ 0 + 1 = 1
            BY <2>1, <2>2, SMT DEF Tried
        <3> QED BY <1>1, <1>2, <1>3, <2>1, <2>2, <3>1 DEF Past
    <2>3. CASE v # d
        <3>1. v \in Tried /\ tried'[v] = tried[v] /\ tried[v] = 1
            BY <1>3, <1>4, <2>1, <2>3 DEF Once
        <3>2. v < latest /\ v < pending.version
            BY <1>1, <3>1, TriedIsOlder
        <3> QED BY <1>1, <3>1, <3>2 DEF Past
    <2> QED BY <2>2, <2>3
<1> QED BY <1>7, <1>9, <1>10, <1>11

(* The user's own install changes what is pending and the resume file. *)
LEMMA ManualStep == ASSUME UpdatesInv, Updates!ManualInstall PROVE UpdatesInv'
<1> USE DEF UpdatesInv
<1>1. /\ UNCHANGED <<latest, running, record, driver, answers, outcome, tried, misled>>
      /\ life \in {"up", "stopped"} /\ driver.pc \in {"waiting", "countdown"}
      /\ pending.version # Updates!None
    BY DEF Updates!ManualInstall, Updates!OperationFree, Updates!history
<1>2. Tried' = Tried
    BY <1>1 DEF Tried
<1>3. /\ pending' \in [version : Nat, prepared : BOOLEAN]
      /\ pending'.version \in {Updates!None, pending.version}
      /\ pending'.prepared => pending'.version # Updates!None
      /\ life' = "installing" => pending'.version # Updates!None
      /\ life' \in {"up", "stopped", "installing"}
    <2>1. \/ pending' = Updates!NothingPending /\ life' = life
          \/ pending' = [pending EXCEPT !.prepared = FALSE] /\ life' = life
          \/ pending' = [pending EXCEPT !.prepared = TRUE] /\ life' = "installing"
        BY DEF Updates!ManualInstall
    <2> QED BY <1>1, <2>1, Empty DEF UpdatesTyped
<1>4. /\ resume' \in Files
      /\ \/ resume' = resume
         \/ ~resume'.silent \/ (resume'.old /\ resume'.target # Updates!None)
    <2>1. resume.silent => resume.target # Updates!None
        BY DEF Recorded
    <2>2. CASE resume' = resume
        BY <2>2 DEF UpdatesTyped
    <2>3. CASE Updates!write_before_install(FALSE, pending.version)
        <3>1. PICK v \in Nat : v = pending.version
            BY Fields
        <3>2. /\ resume' \in Files
              /\ \/ resume' = [silent |-> FALSE, target |-> v, old |-> FALSE]
                 \/ /\ resume'.silent => resume'.old
                    /\ resume'.silent <=> resume.silent
                    /\ resume'.target = resume.target
            BY <2>3, <3>1, FileWritten
        <3>3. CASE resume' = [silent |-> FALSE, target |-> v, old |-> FALSE]
            BY <3>2, <3>3
        <3>4. CASE /\ resume'.silent => resume'.old
                   /\ resume'.silent <=> resume.silent
                   /\ resume'.target = resume.target
            BY <2>1, <3>2, <3>4
        <3> QED BY <3>2, <3>3, <3>4
    <2> QED BY <2>2, <2>3 DEF Updates!ManualInstall
<1>5. UpdatesTyped'
    BY <1>1, <1>3, <1>4 DEF UpdatesTyped
<1>6. Staged'
    BY <1>1, <1>2, <1>3 DEF Staged, UpTo, Updates!OperationFree
<1>7. Recorded'
    <2>1. outcome = Updates!NoFile
        BY <1>1 DEF Recorded
    <2>2. (resume.silent => resume.target # Updates!None)' /\ (~resume.old => Newer(resume))'
        BY <1>1, <1>2, <1>4 DEF Recorded, Newer, UpTo
    <2> QED BY <1>1, <1>2, <2>1, <2>2, Empty DEF Recorded, Newer, UpTo
<1>8. Once'
    BY <1>1, <1>2, <1>3 DEF Once, Past
<1> QED BY <1>5, <1>6, <1>7, <1>8

(* Ember ends: what runs next is no older, and no hold is given up. *)
LEMMA EndsStep ==
    ASSUME UpdatesInv, Updates!ProcessEnds, UNCHANGED <<latest, resume>>,
           running' \in Nat, running <= running',
           record' \in [attempting : Nat, failed : Nat, skipped : Nat, postponed : BOOLEAN],
           record'.attempting = record.attempting,
           ~misled => \A v \in Tried : Past(v)'
    PROVE  UpdatesInv'
<1> USE DEF UpdatesInv
<1>1. /\ UNCHANGED <<tried, misled>> /\ life' = "down"
      /\ driver' = Updates!NewDriver /\ pending' = Updates!NothingPending
      /\ outcome' = Updates!NoFile
      /\ answers' = Updates!NoAnswers
    BY DEF Updates!ProcessEnds
<1>2. Tried' = Tried
    BY <1>1 DEF Tried
<1>3. UpdatesTyped'
    BY <1>1, Empty DEF UpdatesTyped
<1>4. Staged'
    BY <1>1, <1>2, Empty DEF Staged, UpTo, Updates!OperationFree
<1>5. Recorded'
    BY <1>1, <1>2, Empty DEF Recorded, Newer, UpTo
<1>6. Once'
    BY <1>1, <1>2, Empty DEF Once
<1> QED BY <1>3, <1>4, <1>5, <1>6

(* The installer ends, or Ember does. *)
LEMMA InstallEndsStep ==
    ASSUME UpdatesInv, Updates!InstallEnds \/ Updates!Stop
    PROVE  UpdatesInv'
<1> USE DEF UpdatesInv
<1>1. latest \in Nat /\ running \in Nat /\ Tried \subseteq Nat
    BY Numbers DEF UpdatesTyped, Tried
<1>2. CASE /\ Updates!ProcessEnds /\ UNCHANGED <<latest, resume, record>>
           /\ \/ running' = running
              \/ running' = pending.version /\ life = "installing"
    <2>0. life = "installing" => running < pending.version
        BY DEF Staged
    <2>1. running' \in Nat /\ running <= running'
        <3>1. CASE running' = running
            BY <1>1, <3>1, Numbers
        <3>2. CASE running' = pending.version /\ running < pending.version
            BY <1>1, <3>2, Fields, SMT
        <3> QED BY <1>2, <2>0, <3>1, <3>2
    <2>2. pending' = Updates!NothingPending
        BY <1>2 DEF Updates!ProcessEnds
    <2>3. ASSUME NEW v \in Tried, Past(v) PROVE Past(v)'
        <3>1. v <= running => v <= running'
            BY <1>1, <2>1, Numbers
        <3> QED BY <1>2, <2>2, <2>3, <3>1, Empty DEF Past
    <2> QED BY <1>2, <2>1, <2>3, EndsStep DEF Once, UpdatesTyped
<1>3. CASE /\ life = "installing" /\ driver.pc = "handed" /\ Updates!ProcessEnds
           /\ \E ok \in BOOLEAN :
                Updates!update_stored([record EXCEPT !.failed = driver.version], ok)
           /\ UNCHANGED <<running, latest, resume>>
    <2>1. record' \in {record, [record EXCEPT !.failed = driver.version]}
        BY <1>3 DEF Updates!update_stored
    <2>2. /\ record' \in [attempting : Nat, failed : Nat, skipped : Nat, postponed : BOOLEAN]
          /\ record'.attempting = record.attempting
          /\ record'.failed \in {record.failed, driver.version}
        BY <2>1, Fields DEF UpdatesTyped
    <2>3. /\ driver.version = record.attempting /\ driver.version = pending.version
          /\ pending.version <= latest /\ UpTo(pending.version) /\ pending.version \in Nat
        BY <1>3, Fields DEF Recorded, Staged, Updates!OperationFree
    <2>4. pending' = Updates!NothingPending
        BY <1>3 DEF Updates!ProcessEnds
    <2>5. ASSUME NEW v \in Tried PROVE Past(v)'
        <3>1. v \in Nat /\ v <= pending.version
            BY <1>1, <2>3 DEF UpTo
        <3>2. v = record'.attempting \/ v < latest
            BY <1>1, <2>2, <2>3, <3>1, Numbers
        <3> QED BY <1>3, <2>4, <3>2, Empty DEF Past
    <2> QED BY <1>1, <1>3, <2>2, <2>5, EndsStep, Numbers
<1>4. CASE /\ driver.pc # "handed" /\ life' = "stopped" /\ life = "installing"
           /\ UNCHANGED <<running, record, faults, Updates!session, Updates!history,
                          latest, resume, given>>
    <2>1. UNCHANGED <<running, record, latest, resume, pending, driver, outcome, answers,
                      tried, misled>>
        BY <1>4 DEF Updates!session, Updates!history
    <2>2. Tried' = Tried /\ outcome = Updates!NoFile
        BY <1>4, <2>1 DEF Tried, Recorded
    <2>3. UpdatesTyped'
        BY <2>1 DEF UpdatesTyped
    <2>4. Staged'
        BY <1>4, <2>1, <2>2 DEF Staged, UpTo, Updates!OperationFree
    <2>5. Recorded'
        BY <1>4, <2>1, <2>2 DEF Recorded, Newer, UpTo
    <2>6. Once'
        BY <2>1, <2>2 DEF Once, Past
    <2> QED BY <2>3, <2>4, <2>5, <2>6
<1> QED BY <1>2, <1>3, <1>4 DEF Updates!InstallEnds, Updates!Stop, Updates!disk

(* begin_launch takes the resume file, or leaves it. *)
LEMMA LaunchStep == ASSUME UpdatesInv, Updates!Launch PROVE UpdatesInv'
<1> USE DEF UpdatesInv
<1>1. /\ UNCHANGED <<latest, running, record, driver, pending, answers, tried>>
      /\ life = "down" /\ life' = "outcome"
      /\ \/ resume' = Updates!NoFile /\ outcome' = resume /\ misled' = (misled \/ resume.old)
         \/ outcome' = Updates!NoFile /\ resume' = resume /\ misled' = misled
    BY DEF Updates!Launch
<1>2. Tried' = Tried
    BY <1>1 DEF Tried
<1>3. UpdatesTyped'
    BY <1>1, Empty DEF UpdatesTyped
<1>4. Staged'
    BY <1>1, <1>2 DEF Staged, UpTo, Updates!OperationFree
<1>5. Recorded'
    <2>1. CASE resume' = Updates!NoFile /\ outcome' = resume /\ misled' = (misled \/ resume.old)
        BY <1>1, <1>2, <2>1, Empty DEF Recorded, Newer, UpTo
    <2>2. CASE outcome' = Updates!NoFile /\ resume' = resume /\ misled' = misled
        BY <1>1, <1>2, <2>2, Empty DEF Recorded, Newer, UpTo
    <2> QED BY <1>1, <2>1, <2>2
<1>6. misled => misled'
    BY <1>1
<1>7. Once'
    BY <1>1, <1>2, <1>6 DEF Once, Past
<1> QED BY <1>3, <1>4, <1>5, <1>7

(* note_launch_outcome: what it judges is the last release that was tried, *)
(* or a newer one, so every release that was tried keeps a hold.           *)
LEMMA OutcomeStep == ASSUME UpdatesInv, Updates!note_launch_outcome PROVE UpdatesInv'
<1> USE DEF UpdatesInv
<1>1. /\ UNCHANGED <<latest, running, resume, driver, pending, answers, tried, misled>>
      /\ life = "outcome" /\ life' = "up" /\ outcome' = Updates!NoFile
    BY DEF Updates!note_launch_outcome
<1>2. Tried' = Tried /\ Tried \subseteq Nat /\ latest \in Nat /\ running \in Nat
    BY <1>1, Numbers DEF Tried, UpdatesTyped
<1>3. pending = Updates!NothingPending /\ driver = Updates!NewDriver
    BY <1>1 DEF Staged
<1>4. CASE record' = record
    <2>1. UpdatesTyped'
        BY <1>1, <1>4, Empty DEF UpdatesTyped
    <2>2. Staged'
        BY <1>1, <1>2, <1>3, Empty DEF Staged, UpTo, Updates!OperationFree
    <2>3. Recorded'
        BY <1>1, <1>2, <1>3, <1>4, Empty DEF Recorded, Newer, UpTo
    <2>4. Once'
        BY <1>1, <1>2, <1>4 DEF Once, Past
    <2> QED BY <2>1, <2>2, <2>3, <2>4
<1>5. CASE \E attempt \in {Updates!None, record.attempting} :
               LET target == IF outcome.silent THEN outcome.target ELSE attempt
               IN  target # Updates!None /\ record' = Updates!judged(target)
    <2>1. PICK target \in Nat :
              /\ record' = Updates!judged(target)
              /\ ~misled => target <= latest /\ UpTo(target)
        BY <1>5, Fields, Numbers DEF Recorded, Newer
    <2>2. Updates!None \in Nat /\ Updates!None <= latest
        BY <1>2, Numbers
    <2>3. /\ record' \in [attempting : Nat, failed : Nat, skipped : Nat, postponed : BOOLEAN]
          /\ record'.attempting = Updates!None
          /\ running # target => record'.failed = target
        <3>1. PICK f \in Nat, p \in BOOLEAN :
                  /\ Updates!judged(target) =
                         [record EXCEPT !.attempting = Updates!None,
                                        !.postponed = p, !.failed = f]
                  /\ running # target => f = target
            BY <2>2, Fields DEF Updates!judged
        <3> QED BY <2>1, <2>2, <3>1 DEF UpdatesTyped
    <2>4. UpdatesTyped'
        BY <1>1, <2>3, Empty DEF UpdatesTyped
    <2>5. Staged'
        BY <1>1, <1>2, <1>3, Empty DEF Staged, UpTo, Updates!OperationFree
    <2>6. Recorded'
        BY <1>1, <1>2, <1>3, <2>2, <2>3, Empty DEF Recorded, Newer, UpTo
    <2>7. ASSUME ~misled, NEW v \in Tried PROVE Past(v)'
        <3>1. v <= target /\ target <= latest /\ v \in Nat
            BY <1>2, <2>1, <2>7 DEF UpTo
        <3>2. v < latest \/ v = target
            BY <1>2, <3>1, Numbers
        <3>3. v = target => v <= running \/ v = record'.failed
            BY <1>2, <2>3, <3>1, Numbers
        <3> QED BY <1>1, <1>3, <2>3, <3>2, <3>3, Empty DEF Past
    <2>8. Once'
        BY <1>1, <1>2, <2>7 DEF Once
    <2> QED BY <2>4, <2>5, <2>6, <2>8
<1> QED BY <1>4, <1>5 DEF Updates!note_launch_outcome, Updates!update_stored

(* Every step keeps the invariant. *)
LEMMA UpdatesNext == UpdatesInv /\ [Updates!Next]_Updates!vars => UpdatesInv'
<1> SUFFICES ASSUME UpdatesInv, [Updates!Next]_Updates!vars PROVE UpdatesInv'
    OBVIOUS
<1>1. CASE UNCHANGED Updates!vars
    <2>1. /\ UNCHANGED <<latest, running, tried, misled, resume, outcome, life>>
          /\ UNCHANGED <<pending, record, driver, answers>>
        BY <1>1 DEF Updates!vars, Updates!disk, Updates!session, Updates!history
    <2>2. UpdatesTyped' /\ (pending.prepared => pending.version # Updates!None)
        BY <2>1 DEF UpdatesInv, UpdatesTyped, Staged
    <2> QED BY <2>1, <2>2, UpdatesAside
<1>2. CASE Updates!Next
    BY <1>2, PublishStep, CheckStep, WaitingStep, LookStep, RecordStep, RefusedStep,
       HandOverStep, ManualStep, InstallEndsStep, LaunchStep, OutcomeStep
       DEF Updates!Next
<1> QED BY <1>1, <1>2

(* Whatever fails, the record, the resume file and what is pending never   *)
(* lose a release that was tried (InstallRecord to note_launch_outcome).   *)
THEOREM UpdatesInvariant == Updates!Spec => []UpdatesInv
BY UpdatesInit, UpdatesNext, PTL DEF Updates!Spec

(* One bad release is no restart loop: for every number of releases, of    *)
(* failing file operations and of answers, Ember is stopped for a silent   *)
(* install of a release once, unless a launch took a resume file left by   *)
(* an older hand-over for that of the last one.                            *)
THEOREM TriedOnce == Updates!Spec => []NoRestartLoop
<1>1. UpdatesInv => NoRestartLoop
    <2> SUFFICES ASSUME UpdatesInv, ~misled, NEW v \in Updates!Releases PROVE tried[v] <= 1
        BY DEF NoRestartLoop, Updates!NoRestartLoop
    <2>1. tried[v] = 0 \/ tried[v] = 1
        BY DEF UpdatesInv, Once, Tried
    <2> QED BY <2>1, SMT
<1> QED BY <1>1, UpdatesInvariant, PTL

-----------------------------------------------------------------------------
(* The user's answers: what was said this session lies over the record     *)
(* (Answers::apply), and a field the session has nothing to add to, or     *)
(* has recorded, says on disk what the user last said.                     *)
AnswersStand ==
    /\ said \in [skipped : Nat, postponed : BOOLEAN]
    /\ asked \in {"nothing", "postpone", "skip", "resume"}
    /\ said.skipped = IF answers.skipped # Updates!None THEN answers.skipped ELSE record.skipped
    /\ said.postponed <=> IF answers.postponed # "unsaid" THEN answers.postponed = "yes"
                          ELSE record.postponed
    /\ "skipped" \notin unsaved /\ asked # "skip" => said.skipped = record.skipped
    /\ "postponed" \notin unsaved /\ asked \in {"nothing", "skip"} =>
           (said.postponed <=> record.postponed)
    /\ "skipped" \in unsaved \/ asked = "skip" => answers.skipped # Updates!None
    /\ "postponed" \in unsaved => answers.postponed # "unsaid"
    /\ asked = "postpone" => answers.postponed = "yes"
    /\ asked = "resume" => answers.postponed = "no"
    /\ life \in {"down", "outcome"} =>
           /\ answers.skipped = Updates!None /\ answers.postponed = "unsaid"
           /\ asked = "nothing" /\ unsaved = {}

AnswersInv == UpdatesInv /\ AnswersStand

(* At first nothing was said and nothing is on record. *)
LEMMA AnswersInit == Updates!Init => AnswersStand
<1> SUFFICES ASSUME Updates!Init PROVE AnswersStand
    OBVIOUS
<1>1. Updates!None \in Nat
    BY Numbers
<1> QED BY <1>1 DEF Updates!Init, AnswersStand, Updates!NewRecord, Updates!NoAnswers

(* A step of the driver, of a check, of the installer or of a launch. *)
LEMMA AnswersAside ==
    ASSUME AnswersInv, UNCHANGED <<answers, asked, said, unsaved>>,
           record'.skipped = record.skipped, record'.postponed = record.postponed,
           life' \in {"down", "outcome"} => life \in {"down", "outcome"}
    PROVE  AnswersStand'
BY DEF AnswersInv, AnswersStand

(* What the process had to add to the record is gone with it. *)
LEMMA AnswersEnd ==
    ASSUME AnswersInv, Updates!ProcessEnds,
           record'.skipped = record.skipped, record'.postponed = record.postponed
    PROVE  AnswersStand'
<1>1. /\ record.skipped \in Nat /\ record.postponed \in BOOLEAN
    BY DEF AnswersInv, UpdatesInv, UpdatesTyped
<1>2. /\ said' \in [skipped : Nat, postponed : BOOLEAN]
      /\ said'.skipped = record.skipped /\ (said'.postponed <=> record.postponed)
    <2>1. PICK s \in {said.skipped, record.skipped}, p \in {said.postponed, record.postponed} :
              /\ said' = [skipped |-> s, postponed |-> p]
              /\ s = record.skipped /\ (p <=> record.postponed)
        BY DEF Updates!ProcessEnds, AnswersInv, AnswersStand, Updates!Unrecorded,
           Updates!Field
    <2>2. s \in Nat /\ p \in BOOLEAN
        BY <1>1, <2>1 DEF AnswersInv, AnswersStand
    <2> QED BY <2>1, <2>2
<1>3. /\ asked' = "nothing" /\ unsaved' = {}
      /\ answers'.skipped = Updates!None /\ answers'.postponed = "unsaid"
    BY DEF Updates!ProcessEnds, Updates!NoAnswers
<1> QED BY <1>1, <1>2, <1>3 DEF AnswersStand

(* The driver writes its own fields of the record. *)
LEMMA DriverAnswers ==
    ASSUME AnswersInv,
           \/ Updates!Publish \/ Updates!Check \/ Updates!Prepare \/ Updates!Tick
           \/ Updates!InstallLook \/ Updates!InstallRecord
           \/ Updates!InstallRefused \/ Updates!HandOver \/ Updates!ManualInstall
           \/ Updates!Launch
    PROVE  AnswersStand'
<1>1. CASE Updates!Publish \/ Updates!Check \/ Updates!Prepare \/ Updates!Tick
           \/ Updates!InstallLook \/ Updates!HandOver \/ Updates!ManualInstall
           \/ Updates!Launch
    <2>1. UNCHANGED <<answers, asked, said, unsaved, record>>
        BY <1>1 DEF Updates!Publish, Updates!Check, Updates!Prepare, Updates!Tick,
                    Updates!InstallLook, Updates!HandOver, Updates!ManualInstall,
                    Updates!Launch, Updates!disk, Updates!session, Updates!history
    <2>2. life' \in {"down", "outcome"} => life \in {"down", "outcome"}
        BY <1>1 DEF Updates!Publish, Updates!Check, Updates!Prepare, Updates!Tick,
                    Updates!InstallLook, Updates!HandOver, Updates!ManualInstall,
                    Updates!Launch
    <2> QED BY <2>1, <2>2, AnswersAside
<1>2. CASE Updates!InstallRecord \/ Updates!InstallRefused
    <2>1. UNCHANGED <<answers, asked, said, unsaved, life>>
        BY <1>2 DEF Updates!InstallRecord, Updates!InstallRefused, Updates!history
    <2>2. PICK a \in {Updates!None, record.attempting, driver.version},
               f \in {driver.version, record.failed} :
              \/ record' = record
              \/ record' = [record EXCEPT !.attempting = a]
              \/ record' = [record EXCEPT !.attempting = a, !.failed = f]
        <3>1. CASE Updates!InstallRecord
            BY <3>1 DEF Updates!InstallRecord, Updates!update_stored
        <3>2. CASE Updates!InstallRefused
            <4>1. PICK f \in {driver.version, record.failed}, ok \in BOOLEAN :
                      Updates!update_stored(
                          [record EXCEPT !.attempting = Updates!None, !.failed = f], ok)
                BY <3>2 DEF Updates!InstallRefused
            <4> QED BY <4>1 DEF Updates!update_stored
        <3> QED BY <1>2, <3>1, <3>2
    <2>3. record'.skipped = record.skipped /\ record'.postponed = record.postponed
        BY <2>2 DEF AnswersInv, UpdatesInv, UpdatesTyped
    <2> QED BY <2>1, <2>3, AnswersAside
<1> QED BY <1>1, <1>2

(* Ember ends, with or without the installer. *)
LEMMA EndingAnswers ==
    ASSUME AnswersInv, Updates!InstallEnds \/ Updates!Stop
    PROVE  AnswersStand'
<1>1. CASE Updates!ProcessEnds
    <2>1. record' = record \/ record' = [record EXCEPT !.failed = driver.version]
        BY DEF Updates!InstallEnds, Updates!Stop, Updates!disk, Updates!update_stored
    <2>2. record'.skipped = record.skipped /\ record'.postponed = record.postponed
        BY <2>1 DEF AnswersInv, UpdatesInv, UpdatesTyped
    <2> QED BY <1>1, <2>2, AnswersEnd
<1>2. CASE ~Updates!ProcessEnds
    <2>1. UNCHANGED <<record, Updates!session, Updates!history>> /\ life' = "stopped"
        BY <1>2 DEF Updates!InstallEnds, Updates!Stop
    <2> QED BY <2>1, AnswersAside DEF Updates!session, Updates!history
<1> QED BY <1>1, <1>2

(* A release that runs ends the "Not now" that put it off, on the record   *)
(* and for the user.                                                       *)
LEMMA OutcomeAnswers == ASSUME AnswersInv, Updates!note_launch_outcome PROVE AnswersStand'
<1>1. /\ UNCHANGED <<answers, asked, unsaved>> /\ life = "outcome"
      /\ asked = "nothing" /\ unsaved = {}
    BY DEF Updates!note_launch_outcome, AnswersInv, AnswersStand
<1>2. answers.skipped = Updates!None /\ answers.postponed = "unsaid"
    BY <1>1 DEF AnswersInv, AnswersStand
<1>3. /\ said \in [skipped : Nat, postponed : BOOLEAN]
      /\ record \in [attempting : Nat, failed : Nat, skipped : Nat, postponed : BOOLEAN]
      /\ said.skipped = record.skipped /\ (said.postponed <=> record.postponed)
    BY <1>2 DEF AnswersInv, AnswersStand, UpdatesInv, UpdatesTyped
<1>4. /\ said' \in [skipped : Nat, postponed : BOOLEAN]
      /\ said'.skipped = record'.skipped /\ (said'.postponed <=> record'.postponed)
    <2>1. CASE UNCHANGED <<record, said>>
        BY <1>3, <2>1
    <2>2. CASE \E ok \in BOOLEAN, attempt \in {Updates!None, record.attempting} :
                   LET target == IF outcome.silent THEN outcome.target ELSE attempt
                   IN  /\ Updates!update_stored(Updates!judged(target), ok)
                       /\ said' = [said EXCEPT !.postponed = @ /\ (ok => running # target)]
        <3>1. PICK ok \in BOOLEAN,
                   target \in {outcome.target, Updates!None, record.attempting} :
                  /\ record' = IF ok THEN Updates!judged(target) ELSE record
                  /\ said' = [said EXCEPT !.postponed = @ /\ (ok => running # target)]
            BY <2>2 DEF Updates!update_stored
        <3>2. /\ Updates!judged(target).skipped = record.skipped
              /\ Updates!judged(target).postponed <=> record.postponed /\ running # target
            BY <1>3 DEF Updates!judged
        <3> QED BY <1>3, <3>1, <3>2
    <2> QED BY <2>1, <2>2 DEF Updates!note_launch_outcome
<1> QED BY <1>1, <1>2, <1>4 DEF AnswersStand

(* An answer is first in memory, then on the record; a "Not now" runs out in both. *)
LEMMA AnswerStep ==
    ASSUME AnswersInv, Updates!Answer \/ Updates!RecordAnswer \/ Updates!PostponeEnds
    PROVE  AnswersStand'
<1> USE DEF AnswersInv, AnswersStand
<1>0. /\ said \in [skipped : Nat, postponed : BOOLEAN]
      /\ record \in [attempting : Nat, failed : Nat, skipped : Nat, postponed : BOOLEAN]
      /\ answers \in [skipped : Nat, postponed : {"unsaid", "yes", "no"}]
      /\ driver.version \in Nat
    BY Fields DEF UpdatesInv, UpdatesTyped
<1>1. CASE Updates!Answer
    <2>1. UNCHANGED <<record, unsaved, life>> /\ asked = "nothing"
          /\ life \notin {"down", "outcome"}
        BY <1>1 DEF Updates!Answer, Updates!disk
    <2>2. CASE /\ asked' = "postpone" /\ said' = [said EXCEPT !.postponed = TRUE]
               /\ answers' = [answers EXCEPT !.postponed = "yes"]
        <3>1. /\ said' \in [skipped : Nat, postponed : BOOLEAN] /\ said'.postponed
              /\ said'.skipped = said.skipped
              /\ answers'.skipped = answers.skipped /\ answers'.postponed = "yes"
            BY <1>0, <2>2
        <3> QED BY <2>1, <2>2, <3>1
    <2>3. CASE /\ asked' = "resume" /\ said' = [said EXCEPT !.postponed = FALSE]
               /\ answers' = [answers EXCEPT !.postponed = "no"]
        <3>1. /\ said' \in [skipped : Nat, postponed : BOOLEAN] /\ ~said'.postponed
              /\ said'.skipped = said.skipped
              /\ answers'.skipped = answers.skipped /\ answers'.postponed = "no"
            BY <1>0, <2>3
        <3> QED BY <2>1, <2>3, <3>1
    <2>4. CASE /\ driver.version # Updates!None /\ asked' = "skip"
               /\ said' = [said EXCEPT !.skipped = driver.version]
               /\ answers' = [answers EXCEPT !.skipped = driver.version]
        <3>1. /\ said' \in [skipped : Nat, postponed : BOOLEAN]
              /\ said'.postponed <=> said.postponed
              /\ said'.skipped = driver.version
              /\ answers'.skipped = driver.version /\ answers'.postponed = answers.postponed
            BY <1>0, <2>4
        <3> QED BY <2>1, <2>4, <3>1
    <2> QED BY <1>1, <2>2, <2>3, <2>4 DEF Updates!Answer
<1>2. CASE Updates!RecordAnswer
    <2>1. /\ UNCHANGED <<answers, said, life>> /\ asked # "nothing" /\ asked' = "nothing"
          /\ life \notin {"down", "outcome"}
        BY <1>2 DEF Updates!RecordAnswer
    <2>2. PICK ok \in BOOLEAN :
              /\ Updates!update_stored(IF asked = "skip"
                               THEN [record EXCEPT !.skipped = answers.skipped]
                               ELSE [record EXCEPT !.postponed = asked = "postpone"], ok)
              /\ unsaved' = IF ok THEN unsaved \ {Updates!Field}
                            ELSE unsaved \cup {Updates!Field}
        BY <1>2 DEF Updates!RecordAnswer
    <2>3. CASE ~ok
        BY <2>1, <2>2, <2>3 DEF Updates!update_stored, Updates!Field
    <2>4. CASE ok /\ asked = "skip"
        <3>1. record'.skipped = answers.skipped /\ (record'.postponed <=> record.postponed)
            BY <1>0, <2>2, <2>4 DEF Updates!update_stored
        <3>2. unsaved' = unsaved \ {"skipped"}
            BY <2>2, <2>4 DEF Updates!Field
        <3> QED BY <2>1, <2>4, <3>1, <3>2
    <2>5. CASE ok /\ asked # "skip"
        <3>1. record'.skipped = record.skipped /\ (record'.postponed <=> asked = "postpone")
            BY <1>0, <2>2, <2>5 DEF Updates!update_stored
        <3>2. unsaved' = unsaved \ {"postponed"}
            BY <2>2, <2>5 DEF Updates!Field
        <3> QED BY <2>1, <2>5, <3>1, <3>2
    <2> QED BY <2>3, <2>4, <2>5
<1>3. CASE Updates!PostponeEnds
    <2>1. UNCHANGED <<asked, unsaved, life>> /\ asked = "nothing" /\ said.postponed
        BY <1>3 DEF Updates!PostponeEnds
    <2>2. /\ said' \in [skipped : Nat, postponed : BOOLEAN]
          /\ said'.skipped = said.skipped /\ ~said'.postponed
          /\ record'.skipped = record.skipped /\ ~record'.postponed
        BY <1>0, <1>3 DEF Updates!PostponeEnds
    <2>3. PICK p \in {"unsaid", "no"} :
              /\ answers' = [answers EXCEPT !.postponed = p]
              /\ p = "unsaid" <=> answers.postponed = "unsaid"
        <3>1. answers.postponed \in {"unsaid", "yes", "no"}
            BY <1>0
        <3>2. answers' = [answers EXCEPT !.postponed =
                              IF answers.postponed = "yes" THEN "no" ELSE answers.postponed]
            BY <1>3 DEF Updates!PostponeEnds
        <3>3. CASE answers.postponed = "yes"
            BY <3>2, <3>3
        <3>4. CASE answers.postponed # "yes"
            BY <3>1, <3>2, <3>4
        <3> QED BY <3>3, <3>4
    <2>4. answers'.skipped = answers.skipped /\ answers'.postponed = p
        BY <1>0, <2>3
    <2> QED BY <2>1, <2>2, <2>3, <2>4
<1> QED BY <1>1, <1>2, <1>3

(* Every step keeps it. *)
LEMMA AnswersNext == AnswersInv /\ [Updates!Next]_Updates!vars => AnswersInv'
<1> SUFFICES ASSUME AnswersInv, [Updates!Next]_Updates!vars PROVE AnswersStand'
    BY UpdatesNext DEF AnswersInv
<1>1. CASE UNCHANGED Updates!vars
    BY <1>1, AnswersAside DEF Updates!vars, Updates!disk, Updates!session,
                              Updates!history
<1>2. CASE Updates!Next
    BY <1>2, DriverAnswers, EndingAnswers, OutcomeAnswers, AnswerStep DEF Updates!Next
<1> QED BY <1>1, <1>2

(* Only the last look, or no change of the driver, leaves it having looked. *)
LEMMA OnlyLook ==
    ASSUME UpdatesInv, [Updates!Next]_Updates!vars,
           driver'.pc = "looked", driver.pc # "looked"
    PROVE  Updates!InstallLook
<1>1. driver \in [pc : DriverPCs, version : Nat, held : Nat, restaged : Nat]
    BY DEF UpdatesInv, UpdatesTyped
<1>2. driver' # driver /\ driver' # Updates!NewDriver
    BY Empty
<1>3. ~Updates!Tick
    <2>1. Updates!Tick => \E pc \in {"waiting", "countdown"} :
                      driver' = [driver EXCEPT !.version = pending.version, !.pc = pc]
        BY DEF Updates!Tick
    <2> QED BY <1>1, <2>1
<1>4. ~Updates!InstallRecord /\ ~Updates!HandOver
    BY <1>1 DEF Updates!InstallRecord, Updates!HandOver
<1>5. ~Updates!InstallRefused
    <2>1. Updates!InstallRefused =>
              \E h, r \in {driver.version, driver.held, driver.restaged} :
                  driver' = [driver EXCEPT !.pc = "waiting", !.restaged = r, !.held = h]
        BY DEF Updates!InstallRefused
    <2> QED BY <1>1, <2>1
<1>6. /\ ~Updates!Publish /\ ~Updates!Check /\ ~Updates!Prepare
      /\ ~Updates!ManualInstall /\ ~Updates!Launch /\ ~Updates!note_launch_outcome
      /\ ~Updates!Answer /\ ~Updates!RecordAnswer /\ ~Updates!PostponeEnds
    BY <1>2 DEF Updates!Publish, Updates!Check, Updates!Prepare, Updates!ManualInstall,
                Updates!Launch, Updates!note_launch_outcome, Updates!Answer,
                Updates!RecordAnswer, Updates!PostponeEnds, Updates!session
<1>7. ~Updates!InstallEnds /\ ~Updates!Stop /\ ~UNCHANGED Updates!vars
    BY <1>2 DEF Updates!InstallEnds, Updates!Stop, Updates!ProcessEnds, Updates!vars,
                Updates!session
<1> QED BY <1>3, <1>4, <1>5, <1>6, <1>7 DEF Updates!Next

(* The user's answer wins over the clock, for every number of answers and  *)
(* of writes that fail: no install passes its last look for a release the  *)
(* user skipped, or while a "Not now" stands.                              *)
THEOREM AnswersWin == Updates!Spec => AnswersHold
<1> DEFINE Held == driver'.pc = "looked" =>
                       driver.pc = "looked"
                         \/ (driver.version # said.skipped /\ ~said.postponed)
<1>1. AnswersInv /\ [Updates!Next]_Updates!vars => Held
    <2> SUFFICES ASSUME AnswersInv, [Updates!Next]_Updates!vars, driver'.pc = "looked",
                        driver.pc # "looked"
                 PROVE  driver.version # said.skipped /\ ~said.postponed
        OBVIOUS
    <2>1. Updates!InstallLook
        BY OnlyLook DEF AnswersInv
    <2>2. ~Updates!held_by_record(Updates!apply(record), driver.version)
        <3>1. driver \in [pc : DriverPCs, version : Nat, held : Nat, restaged : Nat]
            BY DEF AnswersInv, UpdatesInv, UpdatesTyped
        <3> QED BY <2>1, <3>1 DEF Updates!InstallLook, Updates!held
    <2>3. /\ Updates!apply(record).skipped = said.skipped
          /\ Updates!apply(record).postponed <=> said.postponed
        <3>1. record \in [attempting : Nat, failed : Nat, skipped : Nat, postponed : BOOLEAN]
            BY DEF AnswersInv, UpdatesInv, UpdatesTyped
        <3> QED BY <3>1 DEF Updates!apply, AnswersInv, AnswersStand
    <2> QED BY <2>2, <2>3 DEF Updates!held_by_record
<1>2. Updates!Init => AnswersInv
    BY UpdatesInit, AnswersInit DEF AnswersInv
<1> QED BY <1>1, <1>2, AnswersNext, PTL DEF Updates!Spec, AnswersHold, Updates!AnswersHold
-----------------------------------------------------------------------------
(* The saved status (TransferStatus): what one task holds between two steps. *)
TaskRec == [pc : Status!Between \cup {"idle", "await"}, st : Status!Statuses,
            start : BOOLEAN, seq : Nat]

(* The types, with no bound on the clock. *)
StatusTyped ==
    /\ live \in Status!Statuses /\ db \in Status!Statuses
    /\ seq \in Nat /\ last \in 0..seq
    /\ writes \in SUBSET [seq : Nat, st : Status!Statuses]
    /\ task \in [Status!Tasks -> TaskRec]
    /\ overlap \in BOOLEAN /\ lost \in BOOLEAN

(* The writes have numbers of their own, and none of them, nor the table, says active. *)
WritesNumbered ==
    /\ \A w \in writes : w.seq \in 1..seq /\ w.st # "active"
    /\ \A v, w \in writes : v.seq = w.seq => v = w
    /\ db # "active"

(* A row the network task looked at before it sets it: no handler finishes a row. *)
LookedAt ==
    /\ task[Status!Net].pc \in {"verify", "full"} => live \in Status!Pending
    /\ task[Status!Net].pc = "fail" => live \in Status!Pending \cup {"failed"}

(* The write with the highest number carries s, or has been applied, or refused. *)
NewestIs(s) ==
    IF last = seq THEN ~lost => db = s
                  ELSE \E w \in writes : w.seq = seq /\ w.st = s

(* t is about to give a status it set a number. *)
Unsaved(t) == task[t].pc \in {"read", "persist"}

StatusWritten ==
    ~overlap =>
        /\ \A t \in Status!Tasks :
               task[t].pc = "persist" => Status!Stored(task[t].st) = Status!Stored(live)
        /\ (\A t \in Status!Tasks : ~Unsaved(t)) => NewestIs(Status!Stored(live))

(* The inductive invariant. *)
StatusInv == StatusTyped /\ WritesNumbered /\ LookedAt /\ StatusWritten

-----------------------------------------------------------------------------
(* What a step does to the tasks: t goes to pc, the others stay where they are. *)
TaskMoved(t, pc) ==
    /\ task' \in [Status!Tasks -> TaskRec]
    /\ task'[t].pc = pc
    /\ \A u \in Status!Tasks \ {t} : task'[u] = task[u]

(* Between two steps of a handler only its place and its status change. *)
LEMMA GotoMoves ==
    ASSUME task \in [Status!Tasks -> TaskRec], NEW t \in Status!Tasks,
           NEW pc \in Status!Between \cup {"idle", "await"}, NEW st \in Status!Statuses,
           Status!Goto(t, pc, st)
    PROVE  TaskMoved(t, pc) /\ task'[t].st = st
<1>1. task[t] \in TaskRec
    OBVIOUS
<1> DEFINE r == [task[t] EXCEPT !.pc = pc, !.st = st]
<1>2. r \in TaskRec /\ r.pc = pc /\ r.st = st
    BY <1>1 DEF TaskRec
<1>3. task' = [task EXCEPT ![t] = r]
    BY DEF Status!Goto
<1> HIDE DEF r
<1> QED BY <1>2, <1>3 DEF TaskMoved

(* A handler that sets only its place. *)
LEMMA PlaceMoves ==
    ASSUME task \in [Status!Tasks -> TaskRec], NEW t \in Status!Tasks,
           NEW pc \in Status!Between \cup {"idle", "await"},
           task' = [task EXCEPT ![t].pc = pc]
    PROVE  TaskMoved(t, pc) /\ task'[t].st = task[t].st
<1>1. task[t] \in TaskRec
    OBVIOUS
<1> DEFINE r == [task[t] EXCEPT !.pc = pc]
<1>2. r \in TaskRec /\ r.pc = pc /\ r.st = task[t].st
    BY <1>1, SMT DEF TaskRec
<1>3. task' = [task EXCEPT ![t] = r]
    BY SMT
<1> HIDE DEF r
<1> QED BY <1>2, <1>3 DEF TaskMoved

(* A handler that takes a record of its own. *)
LEMMA RecordMoves ==
    ASSUME task \in [Status!Tasks -> TaskRec], NEW t \in Status!Tasks, NEW r \in TaskRec,
           task' = [task EXCEPT ![t] = r]
    PROVE  TaskMoved(t, r.pc) /\ task'[t].st = r.st
BY DEF TaskMoved

(* A handler that sets the row under the lock and has still to save it. *)
LEMMA StatusSet ==
    ASSUME StatusInv, NEW t \in Status!Tasks, NEW s \in Status!Statuses,
           NEW pc \in {"read", "persist"},
           Status!SetLive(t, s), TaskMoved(t, pc), pc = "persist" => task'[t].st = s,
           UNCHANGED <<db, seq, last, writes, lost>>,
           task[Status!Net].pc \in {"verify", "full", "fail"} /\ t # Status!Net =>
               s = live \/ s \in Status!Pending
    PROVE  StatusInv'
<1> USE DEF StatusInv
<1>1. StatusTyped'
    BY DEF StatusTyped, Status!SetLive, TaskMoved
<1>2. WritesNumbered'
    BY DEF WritesNumbered
<1>3. LookedAt'
    <2>1. CASE t = Status!Net
        BY <2>1 DEF LookedAt, TaskMoved
    <2>2. CASE t # Status!Net
        BY <2>2 DEF LookedAt, TaskMoved, Status!SetLive, Status!Tasks
    <2> QED BY <2>1, <2>2
<1>4. StatusWritten'
    <2> SUFFICES ASSUME ~overlap' PROVE StatusWritten'
        BY DEF StatusWritten
    <2>1. ~overlap /\ (s = live \/ \A u \in Status!Tasks \ {t} : ~Status!MidHandler(u))
        BY DEF Status!SetLive
    <2>2. ASSUME NEW u \in Status!Tasks, task'[u].pc = "persist"
          PROVE  Status!Stored(task'[u].st) = Status!Stored(live')
        <3>1. CASE u = t
            BY <2>2, <3>1 DEF Status!SetLive, TaskMoved
        <3>2. CASE u # t
            BY <2>1, <2>2, <3>2 DEF Status!SetLive, TaskMoved, StatusWritten,
                                    Status!MidHandler, Status!Between
        <3> QED BY <3>1, <3>2
    <2>3. ~(\A u \in Status!Tasks : ~Unsaved(u)')
        BY DEF Unsaved, TaskMoved
    <2> QED BY <2>2, <2>3 DEF StatusWritten
<1> QED BY <1>1, <1>2, <1>3, <1>4

(* A handler that is not about to save anything, before or after. *)
LEMMA StatusAside ==
    ASSUME StatusInv, NEW t \in Status!Tasks,
           NEW pc \in Status!Between \cup {"idle", "await"}, TaskMoved(t, pc), ~Unsaved(t),
           pc \notin {"read", "persist"}, LookedAt',
           UNCHANGED <<live, db, seq, last, writes, lost, overlap>>
    PROVE  StatusInv'
<1> USE DEF StatusInv
<1>1. StatusTyped' /\ WritesNumbered'
    BY DEF StatusTyped, TaskMoved, WritesNumbered
<1>2. \A u \in Status!Tasks :
          /\ Unsaved(u)' <=> Unsaved(u)
          /\ Unsaved(u) => task'[u] = task[u]
    BY DEF TaskMoved, Unsaved
<1>3. StatusWritten'
    <2>1. NewestIs(Status!Stored(live))' <=> NewestIs(Status!Stored(live))
        BY DEF NewestIs, Status!Stored
    <2>2. \A u \in Status!Tasks : task'[u].pc = "persist" =>
              task[u].pc = "persist" /\ task'[u].st = task[u].st
        BY <1>2 DEF Unsaved
    <2> QED BY <1>2, <2>1, <2>2 DEF StatusWritten, Status!Stored
<1> QED BY <1>1, <1>3


-----------------------------------------------------------------------------
(* A task's record, field by field. *)
LEMMA TaskFields ==
    ASSUME StatusTyped, NEW t \in Status!Tasks
    PROVE  /\ task[t] \in TaskRec /\ task[t].pc \in Status!Between \cup {"idle", "await"}
           /\ task[t].st \in Status!Statuses /\ task[t].seq \in Nat
BY DEF StatusTyped, TaskRec

(* No handler is where the network task is. *)
LEMMA NetIsTask == Status!Net \in Status!Tasks /\ Handlers \subseteq Status!Tasks
BY DEF Status!Tasks

(* A handler that is done. *)
LEMMA IdleRecord == Status!Idle \in TaskRec /\ Status!Idle.pc = "idle"
BY SMT DEF Status!Idle, TaskRec, Status!Statuses, Status!Pending

(* Pause, Stop and Revive: set and about to be saved. *)
LEMMA StatusCommand ==
    ASSUME StatusInv, NEW h \in Handlers, NEW slot \in BOOLEAN,
           Status!Pause(h) \/ Status!Stop(h) \/ Status!Revive(h, slot) \/ Status!Resume(h, slot)
    PROVE  StatusInv'
<1> USE NetIsTask DEF StatusInv
<1>0. task \in [Status!Tasks -> TaskRec] /\ live \in Status!Statuses /\ h \in Status!Tasks
    BY DEF StatusTyped
<1>s. /\ "paused" \in Status!Statuses \cap Status!Pending
      /\ "stopped" \in Status!Statuses \cap Status!Pending
      /\ "waiting" \in Status!Statuses \cap Status!Pending
      /\ "persist" \in Status!Between \cup {"idle", "await"}
      /\ "read" \in Status!Between \cup {"idle", "await"}
    BY DEF Status!Statuses, Status!Pending, Status!Held, Status!Between
<1>1. CASE Status!Pause(h)
    <2> DEFINE s == IF live \in Status!Pending THEN "paused" ELSE live
    <2>1. /\ Status!SetLive(h, s) /\ Status!Goto(h, "persist", s)
          /\ UNCHANGED <<db, seq, last, writes, lost>>
        BY <1>1 DEF Status!Pause
    <2>2. s \in Status!Statuses /\ (s = live \/ s \in Status!Pending)
        BY <1>0, <1>s
    <2> HIDE DEF s
    <2>3. TaskMoved(h, "persist") /\ task'[h].st = s
        BY <1>0, <1>s, <2>1, <2>2, GotoMoves
    <2> QED BY <1>0, <2>1, <2>2, <2>3, StatusSet
<1>2. CASE Status!Stop(h)
    <2>1. /\ Status!SetLive(h, "stopped") /\ Status!Goto(h, "persist", "stopped")
          /\ UNCHANGED <<db, seq, last, writes, lost>>
        BY <1>2 DEF Status!Stop
    <2>2. TaskMoved(h, "persist") /\ task'[h].st = "stopped"
        BY <1>0, <1>s, <2>1, GotoMoves
    <2> QED BY <1>0, <1>s, <2>1, <2>2, StatusSet
<1>3. CASE Status!Revive(h, slot)
    <2> DEFINE r == [task[h] EXCEPT !.pc = "persist", !.st = "waiting", !.start = slot]
    <2>1. /\ Status!SetLive(h, "waiting") /\ task' = [task EXCEPT ![h] = r]
          /\ UNCHANGED <<db, seq, last, writes, lost>>
        BY <1>3 DEF Status!Revive
    <2>2. r \in TaskRec /\ r.pc = "persist" /\ r.st = "waiting"
        <3>1. /\ task[h] \in TaskRec /\ "waiting" \in Status!Statuses
              /\ "persist" \in Status!Between \cup {"idle", "await"}
            BY <1>0, <1>s
        <3> QED BY <3>1 DEF TaskRec
    <2> HIDE DEF r
    <2>3. TaskMoved(h, "persist") /\ task'[h].st = "waiting"
        BY <1>0, <2>1, <2>2, RecordMoves
    <2> QED BY <1>0, <1>s, <2>1, <2>3, StatusSet
<1>4. CASE Status!Resume(h, slot)
    <2> DEFINE r == [task[h] EXCEPT !.pc = "read", !.start = slot]
               s == IF live \in Status!Held THEN "waiting" ELSE live
    <2>1. /\ Status!SetLive(h, s) /\ task' = [task EXCEPT ![h] = r]
          /\ UNCHANGED <<db, seq, last, writes, lost>>
        BY <1>4 DEF Status!Resume
    <2>2. r \in TaskRec /\ r.pc = "read"
        BY <1>s, TaskFields DEF TaskRec
    <2>3. s \in Status!Statuses /\ (s = live \/ s \in Status!Pending)
        BY <1>0, <1>s
    <2> HIDE DEF r, s
    <2>4. TaskMoved(h, "read")
        BY <1>0, <2>1, <2>2, RecordMoves
    <2> QED BY <1>0, <2>1, <2>3, <2>4, StatusSet
<1> QED BY <1>1, <1>2, <1>3, <1>4

(* An event sets the row: it was looked at before, and is still pending or failed. *)
LEMMA StatusEvent ==
    ASSUME StatusInv,
           \/ Status!SetChecked("verify", "verifying") \/ Status!SetChecked("fail", "failed")
           \/ Status!SetChecked("full", "insufficient") \/ Status!Requeue \/ Status!Complete
    PROVE  StatusInv'
<1> USE NetIsTask DEF StatusInv
<1>0. task \in [Status!Tasks -> TaskRec] /\ live \in Status!Statuses
    BY DEF StatusTyped
<1>s. {"verifying", "failed", "insufficient", "waiting", "completed"} \subseteq Status!Statuses
    BY DEF Status!Statuses, Status!Pending, Status!Held
<1>1. PICK s \in Status!Statuses :
          /\ Status!SetLive(Status!Net, s)
          /\ Status!Goto(Status!Net, "persist", s)
          /\ UNCHANGED <<db, seq, last, writes, lost>>
    <2>1. CASE Status!SetChecked("verify", "verifying")
        BY <1>s, <2>1 DEF Status!SetChecked, LookedAt
    <2>2. CASE Status!SetChecked("fail", "failed")
        <3>1. (IF live \in Status!Pending THEN "failed" ELSE live) = "failed"
            BY <2>2 DEF Status!SetChecked, LookedAt
        <3> QED BY <1>s, <2>2, <3>1 DEF Status!SetChecked
    <2>3. CASE Status!SetChecked("full", "insufficient")
        BY <1>s, <2>3 DEF Status!SetChecked, LookedAt
    <2>4. CASE Status!Requeue \/ Status!Complete
        BY <1>s, <2>4 DEF Status!Requeue, Status!Complete
    <2> QED BY <2>1, <2>2, <2>3, <2>4
<1>2. TaskMoved(Status!Net, "persist") /\ task'[Status!Net].st = s
    BY <1>0, <1>1, GotoMoves DEF Status!Between
<1> QED BY <1>1, <1>2, StatusSet

(* Resume reads the status it saves back: the live one. *)
LEMMA ReadBackStep ==
    ASSUME StatusInv, NEW h \in Handlers, Status!ReadBack(h) PROVE StatusInv'
<1> USE NetIsTask DEF StatusInv
<1>0. task \in [Status!Tasks -> TaskRec] /\ live \in Status!Statuses /\ h \in Status!Tasks
    BY DEF StatusTyped
<1>1. TaskMoved(h, "persist") /\ task'[h].st = live
    BY <1>0, GotoMoves DEF Status!ReadBack, Status!Between
<1>2. UNCHANGED <<live, db, seq, last, writes, overlap, lost>> /\ task[h].pc = "read"
    BY DEF Status!ReadBack
<1>3. StatusTyped' /\ WritesNumbered'
    BY <1>1, <1>2 DEF StatusTyped, WritesNumbered, TaskMoved
<1>4. LookedAt'
    BY <1>1, <1>2 DEF LookedAt, TaskMoved
<1>5. StatusWritten'
    BY <1>0, <1>1, <1>2 DEF StatusWritten, TaskMoved, Unsaved
<1> QED BY <1>3, <1>4, <1>5

(* A handler that is done, or at its first look: Return, StartRefused, Check. *)
LEMMA StatusLook ==
    ASSUME StatusInv, \/ \E h \in Handlers : Status!Return(h)
                \/ Status!StartRefused
                \/ \E kind \in {"verify", "fail", "full"} : Status!Check(kind)
    PROVE  StatusInv'
<1> USE NetIsTask DEF StatusInv
<1>0. task \in [Status!Tasks -> TaskRec] /\ live \in Status!Statuses
    BY DEF StatusTyped
<1>1. ASSUME NEW h \in Handlers, Status!Return(h) PROVE StatusInv'
    <2>1. /\ task' = [task EXCEPT ![h] = Status!Idle] /\ task[h].pc = "await"
          /\ UNCHANGED <<live, db, seq, last, writes, overlap, lost>>
        BY <1>1 DEF Status!Return
    <2>2. TaskMoved(h, "idle")
        BY <1>0, <2>1, IdleRecord, RecordMoves
    <2>3. LookedAt'
        BY <2>1, <2>2 DEF LookedAt, TaskMoved
    <2> QED BY <2>1, <2>2, <2>3, StatusAside DEF Unsaved
<1>2. ASSUME Status!StartRefused PROVE StatusInv'
    <2>1. PICK pc \in {"searching", "idle"} : task' = [task EXCEPT ![Status!Net].pc = pc]
        BY <1>2 DEF Status!StartRefused
    <2>2. /\ task[Status!Net].pc = "idle"
          /\ UNCHANGED <<live, db, seq, last, writes, overlap, lost>>
        BY <1>2 DEF Status!StartRefused, Status!NetIdle, Status!MayBegin
    <2>3. TaskMoved(Status!Net, pc)
        BY <1>0, <2>1, PlaceMoves DEF Status!Between
    <2>4. LookedAt'
        BY <2>3 DEF LookedAt, TaskMoved
    <2> QED BY <2>2, <2>3, <2>4, StatusAside DEF Unsaved, Status!Between
<1>3. ASSUME NEW kind \in {"verify", "fail", "full"}, Status!Check(kind) PROVE StatusInv'
    <2>1. /\ task[Status!Net].pc = "idle" /\ task' = [task EXCEPT ![Status!Net].pc = kind]
          /\ UNCHANGED <<live, db, seq, last, writes, overlap, lost>>
        BY <1>3 DEF Status!Check, Status!NetIdle, Status!MayBegin
    <2>2. TaskMoved(Status!Net, kind)
        BY <1>0, <2>1, PlaceMoves DEF Status!Between
    <2>3. LookedAt'
        BY <1>0, <1>3, <2>1, <2>2
           DEF Status!Check, LookedAt, TaskMoved, Status!Statuses, Status!Settled
    <2> QED BY <2>1, <2>2, <2>3, StatusAside DEF Unsaved, Status!Between
<1> QED BY <1>1, <1>2, <1>3

(* Steps that change no status the table would show, or say that they overlapped. *)
LEMMA UnsavedStep ==
    ASSUME StatusInv, Status!StartWorker \/ Status!SetSearching \/ Status!SetActive
    PROVE  StatusInv'
<1> USE NetIsTask DEF StatusInv
<1>0. task \in [Status!Tasks -> TaskRec] /\ live \in Status!Statuses
    BY DEF StatusTyped
<1>1. ASSUME Status!StartWorker PROVE StatusInv'
    BY <1>1 DEF Status!StartWorker, StatusTyped, WritesNumbered, LookedAt,
                StatusWritten, NewestIs, Unsaved
<1>2. ASSUME Status!SetActive PROVE StatusInv'
    <2>1. /\ live' \in Status!Statuses /\ live' \in Status!Pending
          /\ Status!Stored(live') = Status!Stored(live)
          /\ UNCHANGED <<db, seq, last, writes, task, overlap, lost>>
        BY <1>2 DEF Status!SetActive, Status!Stored, Status!Statuses, Status!Pending
    <2>2. StatusTyped' /\ WritesNumbered' /\ LookedAt'
        BY <2>1 DEF StatusTyped, WritesNumbered, LookedAt
    <2>3. StatusWritten'
        BY <2>1 DEF StatusWritten, NewestIs, Unsaved
    <2> QED BY <2>2, <2>3
<1>3. ASSUME Status!SetSearching PROVE StatusInv'
    <2>1. /\ live' \in Status!Statuses /\ task' = [task EXCEPT ![Status!Net] = Status!Idle]
          /\ task[Status!Net].pc = "searching" /\ overlap' \in BOOLEAN
          /\ ~overlap' => ~overlap /\ Status!Stored(live') = Status!Stored(live)
          /\ UNCHANGED <<db, seq, last, writes, lost>>
        BY <1>0, <1>3 DEF Status!SetSearching, Status!Statuses, Status!Pending
    <2>2. TaskMoved(Status!Net, "idle")
        BY <1>0, <2>1, IdleRecord, RecordMoves
    <2>3. StatusTyped' /\ WritesNumbered' /\ LookedAt'
        BY <2>1, <2>2 DEF StatusTyped, WritesNumbered, LookedAt, TaskMoved
    <2>4. StatusWritten'
        BY <2>1, <2>2 DEF StatusWritten, NewestIs, Unsaved, TaskMoved
    <2> QED BY <2>3, <2>4
<1> QED BY <1>1, <1>2, <1>3

(* A new write has the highest number, and is not applied yet. *)
LEMMA NewWrite ==
    ASSUME StatusInv, NEW s \in Status!Statuses, s # "active", seq' = seq + 1,
           writes' = writes \cup {[seq |-> seq + 1, st |-> s]}, UNCHANGED <<last, db>>
    PROVE  /\ seq' \in Nat /\ last' \in 0..seq'
           /\ writes' \in SUBSET [seq : Nat, st : Status!Statuses]
           /\ WritesNumbered' /\ NewestIs(s)'
<1> DEFINE n == [seq |-> seq + 1, st |-> s]
<1>1. /\ seq \in Nat /\ last \in 0..seq /\ writes \subseteq [seq : Nat, st : Status!Statuses]
      /\ seq' \in Nat /\ last' \in 0..seq' /\ last' # seq' /\ 1..seq \subseteq 1..seq'
      /\ seq' \in 1..seq' /\ seq' \notin 1..seq
    BY SMT DEF StatusInv, StatusTyped
<1>2. n \in [seq : Nat, st : Status!Statuses] /\ n.seq = seq' /\ n.st = s
    BY <1>1
<1> HIDE DEF n
<1>3. writes' = writes \cup {n}
    BY DEF n
<1>4. WritesNumbered'
    BY <1>1, <1>2, <1>3, SMT DEF StatusInv, WritesNumbered
<1>5. NewestIs(s)'
    <2>1. n \in writes'
        BY <1>3
    <2> QED BY <1>1, <1>2, <2>1 DEF NewestIs
<1> QED BY <1>1, <1>2, <1>3, <1>4, <1>5

(* A status the table holds is not active. *)
LEMMA StoredStatus ==
    ASSUME NEW s \in Status!Statuses
    PROVE  /\ Status!Stored(s) \in Status!Statuses /\ Status!Stored(s) # "active"
           /\ Status!Stored(Status!Stored(s)) = Status!Stored(s)
BY DEF Status!Stored, Status!Statuses, Status!Pending

(* A write gets its number: the live status, unless handlers overlapped. *)
LEMMA PersistStep ==
    ASSUME StatusInv, NEW t \in Status!Tasks, Status!Persist(t)
    PROVE  StatusInv'
<1> USE DEF StatusInv
<1>0. task \in [Status!Tasks -> TaskRec] /\ seq \in Nat /\ task[t] \in TaskRec
    BY DEF StatusTyped
<1>1. PICK pc \in {"idle", "await"} : TaskMoved(t, pc)
    <2> DEFINE r == [task[t] EXCEPT !.pc = "await", !.seq = seq + 1]
    <2>0. seq + 1 \in Nat
        BY <1>0, SMT
    <2>1. r \in TaskRec /\ r.pc = "await"
        BY <1>0, <2>0 DEF TaskRec
    <2> HIDE DEF r
    <2>2. task' = [task EXCEPT ![t] = IF t = Status!Net THEN Status!Idle ELSE r]
        BY DEF Status!Persist, r
    <2> QED BY <1>0, <2>1, <2>2, IdleRecord DEF TaskMoved
<1>2. /\ task[t].st \in Status!Statuses /\ task[t].pc = "persist" /\ overlap' \in BOOLEAN
      /\ UNCHANGED <<live, db, last, lost>>
    BY TaskFields DEF Status!Persist, StatusTyped
<1>a. PICK s \in Status!Statuses : s = Status!Stored(task[t].st) /\ s # "active"
    BY <1>2, StoredStatus
<1>3. /\ seq' \in Nat /\ last' \in 0..seq'
      /\ writes' \in SUBSET [seq : Nat, st : Status!Statuses]
      /\ WritesNumbered' /\ NewestIs(s)'
    BY <1>2, <1>a, NewWrite DEF Status!Persist
<1>4. StatusTyped' /\ LookedAt'
    BY <1>1, <1>2, <1>3, NetIsTask DEF StatusTyped, LookedAt, TaskMoved
<1>5. StatusWritten'
    <2> SUFFICES ASSUME ~overlap' PROVE StatusWritten'
        BY DEF StatusWritten
    <2>1. ~overlap \/ (task[t].st = live /\ \A u \in Status!Tasks \ {t} : ~Status!MidHandler(u))
        BY DEF Status!Persist
    <2>2. NewestIs(Status!Stored(live))'
        <3>1. s = Status!Stored(live')
            BY <1>2, <1>a, <2>1 DEF StatusWritten
        <3> QED BY <1>3, <3>1 DEF NewestIs
    <2>3. ASSUME NEW u \in Status!Tasks, task'[u].pc = "persist"
          PROVE  Status!Stored(task'[u].st) = Status!Stored(live')
        BY <1>1, <1>2, <2>1, <2>3 DEF StatusWritten, TaskMoved, Status!MidHandler,
                                      Status!Between
    <2> QED BY <2>2, <2>3 DEF StatusWritten
<1> QED BY <1>3, <1>4, <1>5

(* StartDownload saves "searching" at once, whatever became of the row. *)
LEMMA NoSourceStep == ASSUME StatusInv, Status!StartNoSource PROVE StatusInv'
<1> USE DEF StatusInv
<1>1. PICK s \in Status!Statuses : s = "waiting"
    BY DEF Status!Statuses, Status!Pending
<1>2. /\ seq' \in Nat /\ last' \in 0..seq'
      /\ writes' \in SUBSET [seq : Nat, st : Status!Statuses]
      /\ WritesNumbered' /\ NewestIs(s)'
    BY <1>1, NewWrite DEF Status!StartNoSource
<1>3. /\ overlap' = (overlap \/ Status!Stored(live) # "waiting")
      /\ UNCHANGED <<live, db, last, task, lost>>
    BY DEF Status!StartNoSource
<1>4. StatusTyped' /\ LookedAt'
    BY <1>2, <1>3 DEF StatusTyped, LookedAt
<1>5. StatusWritten'
    BY <1>1, <1>2, <1>3 DEF StatusWritten, NewestIs
<1> QED BY <1>2, <1>4, <1>5

(* A write runs: only one with a higher number than the last is applied. *)
LEMMA ApplyStep ==
    ASSUME StatusInv, NEW w \in writes, NEW ok \in BOOLEAN, Status!ApplyWrite(w, ok)
    PROVE  StatusInv'
<1> USE DEF StatusInv
<1>0. /\ w.seq \in 1..seq /\ w.st \in Status!Statuses /\ w.st # "active" /\ w.seq \in Nat
      /\ seq \in Nat /\ last \in 0..seq /\ last \in Nat
    BY SMT DEF StatusTyped, WritesNumbered
<1>1. /\ writes' = writes \ {w}
      /\ UNCHANGED <<live, seq, task, overlap>>
    BY DEF Status!ApplyWrite
<1>2. \/ w.seq <= last /\ UNCHANGED <<last, db, lost>>
      \/ /\ ~(w.seq <= last) /\ last' = w.seq /\ lost' = ~ok
         /\ db' = IF ok THEN w.st ELSE db
    BY DEF Status!ApplyWrite, Status!transfer_status_write_is_stale
<1>3. StatusTyped' /\ LookedAt'
    <2>0. w.seq \in 0..seq
        BY <1>0, SMT
    <2>1. last' \in 0..seq' /\ db' \in Status!Statuses /\ lost' \in BOOLEAN
        BY <1>0, <1>1, <1>2, <2>0 DEF StatusTyped
    <2> QED BY <1>1, <2>1 DEF StatusTyped, LookedAt
<1>4. WritesNumbered'
    BY <1>0, <1>1, <1>2 DEF WritesNumbered
<1>5. ASSUME NEW s \in Status!Statuses, NewestIs(s) PROVE NewestIs(s)'
    <2>1. CASE w.seq <= last
        <3>1. ASSUME last # seq PROVE w.seq # seq
            BY <1>0, <2>1, <3>1, SMT
        <3> QED BY <1>1, <1>2, <1>5, <2>1, <3>1, SMT DEF NewestIs
    <2>2. CASE ~(w.seq <= last)
        <3>1. last # seq
            BY <1>0, <2>2, SMT
        <3>2. PICK v \in writes : v.seq = seq /\ v.st = s
            BY <1>5, <3>1 DEF NewestIs
        <3>3. CASE v = w
            BY <1>1, <1>2, <2>2, <3>2, <3>3 DEF NewestIs
        <3>4. CASE v # w
            BY <1>1, <1>2, <2>2, <3>2, <3>4 DEF NewestIs, WritesNumbered
        <3> QED BY <3>3, <3>4
    <2> QED BY <2>1, <2>2
<1>6. StatusWritten'
    <2>1. PICK s \in Status!Statuses : s = Status!Stored(live)
        BY StoredStatus DEF StatusTyped
    <2>2. NewestIs(s) => NewestIs(s)'
        BY <1>5
    <2> QED BY <1>1, <2>1, <2>2 DEF StatusWritten, Unsaved, NewestIs
<1> QED BY <1>3, <1>4, <1>6

(* The next launch restores what the table holds. *)
LEMMA RestartStep == ASSUME StatusInv, Status!Restart PROVE StatusInv'
<1> USE NetIsTask, IdleRecord DEF StatusInv, Status!Restart
<1>1. task' \in [Status!Tasks -> TaskRec] /\ \A t \in Status!Tasks : task'[t].pc = "idle"
    OBVIOUS
<1>2. StatusTyped'
    <2>1. 0 \in Nat /\ 0 \in 0..0
        BY SMT
    <2> QED BY <1>1, <2>1 DEF StatusTyped
<1>3. WritesNumbered' /\ LookedAt'
    BY <1>1 DEF WritesNumbered, LookedAt
<1>4. Status!Stored(live') = db'
    BY DEF WritesNumbered, Status!Stored
<1>5. StatusWritten'
    BY <1>1, <1>4 DEF StatusWritten, NewestIs
<1> QED BY <1>2, <1>3, <1>5

(* The invariant holds of a download just added. *)
LEMMA StatusInit == Status!Init => StatusInv
<1> SUFFICES ASSUME Status!Init PROVE StatusInv
    OBVIOUS
<1> USE NetIsTask, IdleRecord DEF Status!Init
<1>1. task \in [Status!Tasks -> TaskRec] /\ \A t \in Status!Tasks : task[t].pc = "idle"
    OBVIOUS
<1>2. StatusTyped
    <2>1. 0 \in Nat /\ 0 \in 0..0
        BY SMT
    <2> QED BY <1>1, <2>1 DEF StatusTyped, Status!Statuses, Status!Pending
<1>3. WritesNumbered /\ LookedAt
    BY <1>1 DEF WritesNumbered, LookedAt
<1>4. StatusWritten
    BY <1>1 DEF StatusWritten, NewestIs, Status!Stored
<1> QED BY <1>2, <1>3, <1>4 DEF StatusInv

(* Every step keeps it. *)
LEMMA StatusNext == StatusInv /\ [Status!Next]_Status!vars => StatusInv'
<1> SUFFICES ASSUME StatusInv, [Status!Next]_Status!vars PROVE StatusInv'
    OBVIOUS
<1>1. CASE UNCHANGED Status!vars
    BY <1>1 DEF Status!vars, StatusInv, StatusTyped, WritesNumbered, LookedAt,
                StatusWritten, Unsaved, NewestIs
<1>2. CASE \E h \in Handlers :
               \/ Status!Pause(h) \/ Status!Stop(h) \/ Status!ReadBack(h) \/ Status!Return(h)
               \/ \E slot \in BOOLEAN : Status!Resume(h, slot) \/ Status!Revive(h, slot)
    BY <1>2, StatusCommand, ReadBackStep, StatusLook
<1>3. CASE \/ \E t \in Status!Tasks : Status!Persist(t)
           \/ \E w \in writes, ok \in BOOLEAN : Status!ApplyWrite(w, ok)
           \/ Status!StartNoSource \/ Status!Restart
    BY <1>3, PersistStep, ApplyStep, NoSourceStep, RestartStep
<1>4. CASE \/ Status!StartWorker \/ Status!StartRefused \/ Status!SetSearching
           \/ Status!SetActive
           \/ Status!Requeue \/ Status!Complete
           \/ \E kind \in {"verify", "fail", "full"} : Status!Check(kind)
           \/ Status!SetChecked("verify", "verifying") \/ Status!SetChecked("fail", "failed")
           \/ Status!SetChecked("full", "insufficient")
    BY <1>4, UnsavedStep, StatusEvent, StatusLook
<1> QED BY <1>1, <1>2, <1>3, <1>4 DEF Status!Next

(* Whatever order the writes run in, the newest carries the live status,   *)
(* unless a handler has still to number its own (TransferStatusWriteClock).*)
THEOREM StatusInvariant == Status!Spec => []StatusInv
BY StatusInit, StatusNext, PTL DEF Status!Spec

(* Once every write has run, the table holds the live status, however the blocking   *)
(* pool ordered them (TransferStatusWriteClock), unless two handlers overlapped or a *)
(* write was refused.                                                                *)
THEOREM SavedStatusIsLive == Status!Spec => []OrderedStatusIsPersisted
<1>1. StatusInv => OrderedStatusIsPersisted
    <2> SUFFICES ASSUME StatusInv, Status!Quiet, ~overlap, ~lost
                 PROVE  db = Status!Stored(live)
        BY DEF OrderedStatusIsPersisted, Status!OrderedStatusIsPersisted
    <2>1. NewestIs(Status!Stored(live))
        BY DEF StatusInv, StatusWritten, Status!Quiet, Unsaved
    <2> QED BY <2>1 DEF NewestIs, Status!Quiet
<1> QED BY <1>1, StatusInvariant, PTL
=============================================================================
