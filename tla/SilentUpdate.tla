---------------------------- MODULE SilentUpdate ----------------------------
(* Updates that install themselves (auto_update/silent.rs): the driver     *)
(* that waits for a quiet moment, counts down and hands the staged release *)
(* to the installer; the record it keeps on disk (record.rs); the resume   *)
(* file that tells the next launch what was tried (resume.rs); the answers *)
(* of the user; and installs the user starts meanwhile                     *)
(* (commands/updater.rs).  Any read or write of these files may fail, and  *)
(* Ember may end at any point.                                             *)
(*                                                                         *)
(* Quiet periods, input and countdowns are left to chance.  So is how old  *)
(* the driver's own copy of the record is, which it reads again every half *)
(* minute and after an answer, and which only a countdown is entered by.   *)
EXTENDS Naturals, FiniteSets

CONSTANTS Newest,       \* releases are 1..Newest; Ember starts as release 1
          MaxFaults,    \* how many file operations fail
          MaxAnswers    \* how often the user answers

VARIABLES latest,       \* the newest release published
          running,      \* the release installed
          record,       \* UpdateRecord, on disk
          resume,       \* the resume file; no target: there is none
          life,         \* where the process is
          driver,       \* Driver
          pending,      \* UpdaterService::pending
          answers,      \* ANSWERS: what the user said this session
          asked,        \* the answer whose write is under way
          outcome,      \* what begin_launch found in the resume file
          faults, given,
          tried,        \* history: silent hand-overs of each release
          misled,       \* history: a launch took a file of an older hand-over
          said,         \* history: the user's standing answers
          unsaved       \* history: the answers the record did not take

disk == <<record, resume>>
session == <<driver, pending, answers, asked, outcome>>
history == <<tried, misled, said, unsaved>>
vars == <<latest, running, disk, life, session, faults, given, history>>

Releases == 1..Newest
None == 0
MaybeRelease == Releases \cup {None}

Standing == [skipped : MaybeRelease, postponed : BOOLEAN]
Records == [attempting : MaybeRelease, failed : MaybeRelease,
            skipped : MaybeRelease, postponed : BOOLEAN]
NoFile == [silent |-> FALSE, target |-> None, old |-> FALSE]

TypeOK ==
    /\ latest \in Releases /\ running \in Releases
    /\ record \in Records
    /\ resume \in [silent : BOOLEAN, target : MaybeRelease, old : BOOLEAN]
    /\ life \in {"up", "installing", "stopped", "down", "outcome"}
    /\ driver \in [pc : {"waiting", "countdown", "looked", "recorded", "handed"},
                   version : MaybeRelease,
                   held : MaybeRelease, restaged : MaybeRelease]
    /\ pending \in [version : MaybeRelease, prepared : BOOLEAN]
    /\ answers \in [skipped : MaybeRelease, postponed : {"unsaid", "yes", "no"}]
    /\ asked \in {"nothing", "postpone", "skip", "resume"}
    /\ outcome \in [silent : BOOLEAN, target : MaybeRelease, old : BOOLEAN]
    /\ faults \in 0..MaxFaults /\ given \in 0..MaxAnswers
    /\ tried \in [Releases -> Nat] /\ misled \in BOOLEAN
    /\ said \in Standing /\ unsaved \subseteq {"skipped", "postponed"}

-----------------------------------------------------------------------------
NewRecord == [attempting |-> None, failed |-> None, skipped |-> None,
              postponed |-> FALSE]
NewDriver == [pc |-> "waiting", version |-> None,
              held |-> None, restaged |-> None]
NothingPending == [version |-> None, prepared |-> FALSE]
NoAnswers == [skipped |-> None, postponed |-> "unsaid"]

Init ==
    /\ latest = 1 /\ running = 1
    /\ record = NewRecord /\ resume = NoFile
    /\ life = "up" /\ driver = NewDriver /\ pending = NothingPending
    /\ answers = NoAnswers /\ asked = "nothing" /\ outcome = NoFile
    /\ faults = 0 /\ given = 0
    /\ tried = [v \in Releases |-> 0] /\ misled = FALSE
    /\ said = [skipped |-> None, postponed |-> FALSE] /\ unsaved = {}

(* Mutant: only the record counts. *)
ApplyNothing(rec) == rec

(* Answers::apply: what was said this session is laid over any record. *)
apply(rec) ==
    [rec EXCEPT
        !.skipped = IF answers.skipped # None THEN answers.skipped ELSE @,
        !.postponed = IF answers.postponed # "unsaid"
                      THEN answers.postponed = "yes" ELSE @]

(* Mutant: an attempt that no launch could judge is forgotten. *)
HeldByOutcome(rec, v) == v \in {rec.skipped, rec.failed} \/ rec.postponed

(* Why the record keeps a release from installing silently. *)
held_by_record(rec, v) ==
    \/ v \in {rec.skipped, rec.failed, rec.attempting}
    \/ rec.postponed

held(rec, v) == driver.held = v \/ held_by_record(rec, v)

(* A file operation works, or fails while the bound allows. *)
Works(ok) == IF ok THEN UNCHANGED faults
             ELSE faults < MaxFaults /\ faults' = faults + 1

(* record::update_stored: all of the change, or nothing of it. *)
update_stored(rec, ok) == Works(ok) /\ record' = IF ok THEN rec ELSE record

(* try_lock_operation: a silent install holds the updater from its last    *)
(* look to its end.                                                        *)
OperationFree == driver.pc \in {"waiting", "countdown"}

-----------------------------------------------------------------------------
(* A release appears. *)
Publish ==
    /\ latest < Newest
    /\ latest' = latest + 1
    /\ UNCHANGED <<running, disk, life, session, faults, given, history>>

(* run_check: the same artifact keeps what was prepared for it; a release  *)
(* published again does not.  A check that cannot keep its floor drops     *)
(* what was pending.                                                       *)
Check ==
    /\ life = "up" /\ OperationFree
    /\ \/ /\ latest > running
          /\ \E same \in BOOLEAN :
                pending' = [version |-> latest,
                            prepared |-> /\ same /\ pending.prepared
                                         /\ pending.version = latest]
          /\ UNCHANGED faults
       \/ Works(FALSE) /\ pending' = NothingPending
    /\ UNCHANGED <<latest, running, disk, life, driver, answers, asked,
                   outcome, given, history>>

(* prepare_pending_update: downloaded, verified and staged, without the    *)
(* updater's lock.                                                         *)
Prepare ==
    /\ life = "up" /\ pending.version # None
    /\ pending' = [pending EXCEPT !.prepared = TRUE]
    /\ UNCHANGED <<latest, running, disk, life, driver, answers, asked,
                   outcome, faults, given, history>>

(* Driver::tick up to the install: a countdown runs on, or is entered, for *)
(* a staged release the driver has met and nothing holds, by a record that *)
(* may be stale.                                                           *)
Tick ==
    /\ life = "up" /\ OperationFree
    /\ \E quiet, stale \in BOOLEAN :
          driver' = [driver EXCEPT
              !.version = pending.version,
              !.pc = IF /\ quiet /\ pending.prepared
                        /\ pending.version = driver.version
                        /\ driver.held # pending.version
                        /\ stale \/ ~held_by_record(apply(record), pending.version)
                     THEN "countdown" ELSE "waiting"]
    /\ UNCHANGED <<latest, running, disk, life, pending, answers, asked,
                   outcome, faults, given, history>>

(* Driver::install, its last look: the record from disk, with this         *)
(* session's answers over it.  A record that cannot be read leaves         *)
(* everything as it was.                                                   *)
InstallLook ==
    /\ life = "up" /\ driver.pc = "countdown"
    /\ pending = [version |-> driver.version, prepared |-> TRUE]
    /\ driver' = [driver EXCEPT
           !.pc = IF held(apply(record), driver.version) THEN "waiting"
                  ELSE "looked"]
    /\ UNCHANGED <<latest, running, disk, life, pending, answers, asked,
                   outcome, faults, given, history>>

(* After observe_activity: busy again, or the attempt goes on record       *)
(* before anything is handed over.  One that cannot be recorded is taken   *)
(* back, if that works, and the release held for the session.              *)
InstallRecord ==
    /\ life = "up" /\ driver.pc = "looked"
    /\ \/ /\ driver' = [driver EXCEPT !.pc = "waiting"]
          /\ UNCHANGED <<record, faults>>
       \/ /\ update_stored([record EXCEPT !.attempting = driver.version], TRUE)
          /\ driver' = [driver EXCEPT !.pc = "recorded"]
       \/ /\ Works(FALSE)
          /\ record' \in {record, [record EXCEPT !.attempting = None]}
          /\ driver' = [driver EXCEPT !.pc = "waiting", !.held = driver.version]
    /\ UNCHANGED <<latest, running, resume, life, pending, answers, asked,
                   outcome, given, history>>

(* What a refused install means for the release: superseded, or its floor  *)
(* unreadable, it is held for the session; its copy changed, for good; its *)
(* copy gone, it is downloaded again, once a session.                      *)
early_failure(why, restaged) ==
    CASE why = "changed" -> "release"
      [] why = "gone" /\ ~restaged -> "restage"
      [] OTHER -> "session"

(* install_locked refuses before anything is stopped. *)
InstallRefused ==
    /\ life = "up" /\ driver.pc = "recorded"
    /\ \E why \in {"superseded", "floor", "changed", "gone"}, ok \in BOOLEAN :
          LET v == driver.version
              failure == early_failure(why, driver.restaged = v)
          IN  /\ pending' = CASE why = "superseded" -> NothingPending
                              [] why = "floor" -> pending
                              [] OTHER -> [pending EXCEPT !.prepared = FALSE]
              /\ update_stored(
                    [record EXCEPT
                        !.attempting = None,
                        !.failed = IF failure = "release" THEN v ELSE @], ok)
              /\ driver' = [driver EXCEPT
                     !.pc = "waiting",
                     !.restaged = IF failure = "restage" THEN v ELSE @,
                     !.held = IF failure = "restage" THEN @ ELSE v]
    /\ UNCHANGED <<latest, running, resume, life, answers, asked, outcome,
                   given, history>>

(* write_before_install, best effort: a write that fails leaves the file   *)
(* that was there, if there was one.                                       *)
write_before_install(silent, v) ==
    \E ok \in BOOLEAN :
        /\ Works(ok)
        /\ resume' = IF ok THEN [silent |-> silent, target |-> v, old |-> FALSE]
                     ELSE [resume EXCEPT !.old = resume.target # None]

(* install_locked goes ahead: the resume file, and everything is stopped. *)
HandOver ==
    /\ life = "up" /\ driver.pc = "recorded"
    /\ write_before_install(TRUE, driver.version)
    /\ life' = "installing" /\ driver' = [driver EXCEPT !.pc = "handed"]
    /\ tried' = [tried EXCEPT ![driver.version] = @ + 1]
    /\ UNCHANGED <<latest, running, record, pending, answers, asked, outcome,
                   given, misled, said, unsaved>>

(* secure_updater_install: the user's own install takes the same way. *)
ManualInstall ==
    /\ life \in {"up", "stopped"} /\ OperationFree /\ pending.version # None
    /\ \/ /\ pending' \in {NothingPending, [pending EXCEPT !.prepared = FALSE]}
          /\ UNCHANGED <<life, resume, faults>>
       \/ /\ write_before_install(FALSE, pending.version)
          /\ life' = "installing"
          /\ pending' = [pending EXCEPT !.prepared = TRUE]
    /\ UNCHANGED <<latest, running, record, driver, answers, asked, outcome,
                   given, history>>

(* The field of the record the answer under way is about. *)
Field == IF asked = "skip" THEN "skipped" ELSE "postponed"

(* The record does not have the answer that stands, or not yet. *)
Unrecorded(field) == field \in unsaved \/ (asked # "nothing" /\ field = Field)

(* The process ends, and with it all it kept in memory.  An answer the     *)
(* record did not take is no longer one.                                   *)
ProcessEnds ==
    /\ life' = "down"
    /\ driver' = NewDriver /\ pending' = NothingPending
    /\ answers' = NoAnswers /\ asked' = "nothing" /\ outcome' = NoFile
    /\ said' = [skipped |-> IF Unrecorded("skipped") THEN record.skipped
                            ELSE said.skipped,
                postponed |-> IF Unrecorded("postponed") THEN record.postponed
                              ELSE said.postponed]
    /\ unsaved' = {}
    /\ UNCHANGED <<tried, misled>>

(* The installer: it ends Ember and replaces it, or does not; or the       *)
(* install fails with Ember still up.  A silent one then records the       *)
(* failure and restarts; a manual one leaves Ember up with its services    *)
(* stopped, and the user to restart it.                                    *)
InstallEnds ==
    /\ life = "installing"
    /\ \/ /\ running' \in {running, pending.version} /\ ProcessEnds
          /\ UNCHANGED <<record, faults>>
       \/ /\ driver.pc = "handed" /\ ProcessEnds
          /\ \E ok \in BOOLEAN :
                update_stored([record EXCEPT !.failed = driver.version], ok)
          /\ UNCHANGED running
       \/ /\ driver.pc # "handed" /\ life' = "stopped"
          /\ UNCHANGED <<running, record, faults, session, history>>
    /\ UNCHANGED <<latest, resume, given>>

(* Ember quits, is killed or loses power. *)
Stop ==
    /\ life # "down" /\ ProcessEnds
    /\ UNCHANGED <<latest, running, disk, faults, given>>

-----------------------------------------------------------------------------
(* begin_launch: the resume file is read, removed, and only then acted on; *)
(* one that cannot be read or removed stays.                               *)
Launch ==
    /\ life = "down" /\ life' = "outcome"
    /\ \/ /\ UNCHANGED faults
          /\ resume' = NoFile /\ outcome' = resume
          /\ misled' = (misled \/ resume.old)
       \/ /\ resume.target # None /\ Works(FALSE)
          /\ outcome' = NoFile /\ UNCHANGED <<resume, misled>>
    /\ UNCHANGED <<latest, running, record, driver, pending, answers, asked,
                   given, tried, said, unsaved>>

(* What a launch makes of the record: the release that was to run runs, or *)
(* it failed.                                                              *)
judged(target) ==
    [record EXCEPT !.attempting = None,
                   !.postponed = @ /\ running # target,
                   !.failed = IF running # target THEN target
                              ELSE IF @ = target THEN None ELSE @]

(* note_launch_outcome: what a silent resume file says, or else the        *)
(* attempt on record, judged by the release now running.                   *)
note_launch_outcome ==
    /\ life = "outcome" /\ life' = "up"
    /\ \E attempt \in {None, record.attempting}, ok \in BOOLEAN :
          LET target == IF outcome.silent THEN outcome.target ELSE attempt
          IN  /\ attempt = record.attempting \/ faults < MaxFaults
              /\ IF target = None
                 THEN UNCHANGED <<record, said>> /\ Works(attempt = record.attempting)
                 ELSE /\ update_stored(judged(target), ok)
                      /\ said' = [said EXCEPT !.postponed = @ /\ (ok => running # target)]
    /\ outcome' = NoFile
    /\ UNCHANGED <<latest, running, resume, driver, pending, answers, asked,
                   given, tried, misled, unsaved>>

-----------------------------------------------------------------------------
(* "Not now", "Skip this version" and lifting a "Not now": first in        *)
(* memory, where the driver sees it at once.                               *)
Answer ==
    /\ life \in {"up", "stopped", "installing"}
    /\ asked = "nothing" /\ given < MaxAnswers
    /\ \/ /\ asked' = "postpone" /\ said' = [said EXCEPT !.postponed = TRUE]
          /\ answers' = [answers EXCEPT !.postponed = "yes"]
       \/ /\ asked' = "resume" /\ said' = [said EXCEPT !.postponed = FALSE]
          /\ answers' = [answers EXCEPT !.postponed = "no"]
       \/ /\ driver.version # None /\ asked' = "skip"
          /\ said' = [said EXCEPT !.skipped = driver.version]
          /\ answers' = [answers EXCEPT !.skipped = driver.version]
    /\ given' = given + 1
    /\ UNCHANGED <<latest, running, disk, life, driver, pending, outcome,
                   faults, tried, misled, unsaved>>

(* record_answer: and then on the record, which may not take it. *)
RecordAnswer ==
    /\ asked # "nothing" /\ asked' = "nothing"
    /\ life \in {"up", "stopped", "installing"}
    /\ LET new == IF asked = "skip"
                  THEN [record EXCEPT !.skipped = answers.skipped]
                  ELSE [record EXCEPT !.postponed = asked = "postpone"]
       IN  \E ok \in BOOLEAN :
               /\ update_stored(new, ok)
               /\ unsaved' = IF ok THEN unsaved \ {Field}
                             ELSE unsaved \cup {Field}
    /\ UNCHANGED <<latest, running, resume, life, driver, pending, answers,
                   outcome, given, tried, misled, said>>

(* A day passes: a "Not now" runs out wherever it stands. *)
PostponeEnds ==
    /\ said.postponed /\ asked = "nothing"
    /\ said' = [said EXCEPT !.postponed = FALSE]
    /\ record' = [record EXCEPT !.postponed = FALSE]
    /\ answers' = [answers EXCEPT !.postponed = IF @ = "yes" THEN "no" ELSE @]
    /\ UNCHANGED <<latest, running, resume, life, driver, pending, asked,
                   outcome, faults, given, tried, misled, unsaved>>

Next ==
    \/ Publish \/ Check \/ Prepare \/ Tick
    \/ InstallLook \/ InstallRecord \/ InstallRefused \/ HandOver
    \/ ManualInstall \/ InstallEnds \/ Stop \/ Launch \/ note_launch_outcome
    \/ Answer \/ RecordAnswer \/ PostponeEnds

Spec == Init /\ [][Next]_vars

-----------------------------------------------------------------------------
(* One bad release is no restart loop: Ember is stopped for a silent       *)
(* install of a release once, whatever files could not be read or written  *)
(* since and however Ember ended.  The exception is a launch that took a   *)
(* resume file left by an older hand-over for that of the last one.        *)
NoRestartLoop == misled \/ \A v \in Releases : tried[v] <= 1

(* The user's answer wins over the clock: no install passes its last look  *)
(* for a release the user skipped, or while a "Not now" stands.  An answer *)
(* the record did not take holds until Ember ends.                         *)
AnswersHold ==
    [][driver'.pc = "looked" =>
           driver.pc = "looked"
             \/ (driver.version # said.skipped /\ ~said.postponed)]_vars
=============================================================================
