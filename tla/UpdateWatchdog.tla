--------------------------- MODULE UpdateWatchdog ---------------------------
(* Bringing Ember back after an update (auto_update/watchdog.rs).  Ember   *)
(* hands over to an installer that ends it, and that starts it again only  *)
(* when it succeeds.  A copy of Ember, the watchdog, polls the lock every  *)
(* Ember holds while it runs: it waits for Ember to exit, then for it to   *)
(* come back, and starts it itself when nothing else does.                 *)
(*                                                                         *)
(* Time is counted in the watchdog's polls.  The installer is done within  *)
(* InstallPolls of them, not counting those the machine slept through, and *)
(* an Ember that handed over exits, or fails to, before the watchdog stops *)
(* waiting for that.  An Ember that came back prepares another update for  *)
(* longer than a poll: by then the watchdog has seen its lock.  (One that  *)
(* could not take the lock hands nothing over until the watchdog is done.) *)
EXTENDS Naturals

CONSTANTS RELAUNCH_DEADLINE,    \* polls the watchdog waits for Ember
          InstallPolls,         \* polls an installer takes at most: fewer
          MaxHandOvers,         \* how often an update is handed over
          MaxSleeps,            \* how many polls the machine sleeps through
          MaxFaults             \* how many operations fail

VARIABLES ember,        \* the process: what Ember is doing
          locked,       \* Ember holds the instance lock
          resume,       \* there is a resume file
          installer,    \* polls the installer has left; 0: none runs
          fresh,        \* the installed release has never started
          dog,          \* where the watchdog is
          left,         \* polls left until the watchdog's deadline
          standing,     \* there is a stand-down file
          manual,       \* the update was handed over by the user
          handed, faults, sleeps,
          quit          \* history: closed by the user, not started by them since

vars == <<ember, locked, resume, installer, fresh, dog, left, standing,
          manual, handed, faults, sleeps, quit>>

Watching == {"exit", "exit_probe", "back", "back_probe", "settle", "start",
             "start_again"}

TypeOK ==
    /\ ember \in {"up", "installing", "stopped", "down", "setup"}
    /\ dog \in Watching \cup {"gone"}
    /\ installer \in 0..InstallPolls /\ left \in 0..RELAUNCH_DEADLINE
    /\ handed \in 0..MaxHandOvers /\ faults \in 0..MaxFaults
    /\ sleeps \in 0..MaxSleeps
    /\ {locked, resume, fresh, standing, manual, quit} \subseteq BOOLEAN

Init ==
    /\ ember = "up" /\ locked = TRUE /\ resume = FALSE
    /\ installer = 0 /\ fresh = FALSE
    /\ dog = "gone" /\ left = 0 /\ standing = FALSE
    /\ manual = FALSE /\ handed = 0 /\ faults = 0 /\ sleeps = 0 /\ quit = FALSE

Works(ok) == IF ok THEN UNCHANGED faults
             ELSE faults < MaxFaults /\ faults' = faults + 1

dogVars == <<dog, left, sleeps>>

-----------------------------------------------------------------------------
(* install_locked: the resume file, then spawn_for_install.  try_spawn     *)
(* clears an old stand-down and copies the executable, which fails over a  *)
(* watchdog that still runs: that one goes on.                             *)
HandOver ==
    /\ ember \in {"up", "stopped"} /\ handed < MaxHandOvers
    /\ installer = 0
    /\ dog = "gone" \/ (locked /\ dog \in {"exit", "exit_probe"})
    /\ ember' = "installing" /\ handed' = handed + 1
    /\ manual' \in (IF ember = "up" THEN BOOLEAN ELSE {TRUE})
    /\ \/ Works(TRUE) /\ resume' = TRUE
       \/ Works(FALSE) /\ UNCHANGED resume
    /\ IF locked
       THEN /\ standing' = FALSE
            /\ dog' = IF dog = "gone" THEN "exit" ELSE dog
       ELSE UNCHANGED <<standing, dog>>
    /\ UNCHANGED <<locked, installer, fresh, left, sleeps, quit>>

(* Update::install ends the process and leaves the installer to it. *)
InstallerStarts ==
    /\ ember = "installing" /\ ember' = "down" /\ locked' = FALSE
    /\ installer' = InstallPolls
    /\ UNCHANGED <<resume, fresh, dogVars, standing, manual, handed, faults,
                   quit>>

(* It fails instead.  A manual install leaves Ember up, its services       *)
(* stopped, and stands the watchdog down; a silent one restarts Ember.     *)
InstallFails ==
    /\ ember = "installing"
    /\ IF manual
       THEN /\ ember' = "stopped" /\ UNCHANGED locked
            /\ \/ Works(TRUE) /\ standing' = TRUE
               \/ Works(FALSE) /\ UNCHANGED standing
       ELSE /\ ember' = "setup" /\ locked' = FALSE
            /\ UNCHANGED <<standing, faults>>
    /\ UNCHANGED <<resume, installer, fresh, dogVars, manual, handed, quit>>

(* The installer replaces Ember and starts it, or gives up.  A second      *)
(* Ember gives way to the one that runs.                                   *)
InstallerEnds ==
    /\ installer > 0 /\ installer' = 0
    /\ \/ /\ fresh' = TRUE
          /\ ember' = IF ember = "down" THEN "setup" ELSE ember
       \/ UNCHANGED <<ember, fresh>>
    /\ UNCHANGED <<locked, resume, dogVars, standing, manual, handed, faults,
                   quit>>

-----------------------------------------------------------------------------
(* A starting Ember takes the lock first, if it can. *)
hold_instance_lock ==
    /\ ember = "setup" /\ ~locked /\ locked' = TRUE
    /\ UNCHANGED <<ember, resume, installer, fresh, dogVars, standing, manual,
                   handed, faults, quit>>

(* Setup goes through: the resume file is taken. *)
SetupDone ==
    /\ ember = "setup"
    /\ locked \/ faults < MaxFaults
    /\ Works(locked)
    /\ ember' = "up" /\ resume' = FALSE /\ fresh' = FALSE
    /\ UNCHANGED <<locked, installer, dogVars, standing, manual, handed, quit>>

(* The first start of a new release may fail before that: a migration, an  *)
(* antivirus scan.  It does so while the watchdog still looks              *)
(* (SETTLE_PERIOD).                                                        *)
SetupFails ==
    /\ ember = "setup" /\ fresh /\ dog # "gone" /\ Works(FALSE)
    /\ ember' = "down" /\ locked' = FALSE
    /\ UNCHANGED <<resume, installer, fresh, dogVars, standing, manual, handed,
                   quit>>

Quit ==
    /\ ember \in {"up", "stopped"}
    /\ ember' = "down" /\ locked' = FALSE /\ quit' = TRUE
    /\ UNCHANGED <<resume, installer, fresh, dogVars, standing, manual, handed,
                   faults>>

UserStarts ==
    /\ ember = "down" /\ ember' = "setup" /\ quit' = FALSE
    /\ UNCHANGED <<locked, resume, installer, fresh, dogVars, standing, manual,
                   handed, faults>>

-----------------------------------------------------------------------------
(* Each step of the watchdog leaves Ember alone but for starting it. *)
DogOnly == UNCHANGED <<ember, locked, resume, fresh, standing, manual, handed,
                       faults, quit>>

(* A nap lets the installer get on, unless the machine sleeps through it;  *)
(* the installer is done by the last poll it takes.                        *)
nap(slept) ==
    /\ installer # 1 \/ slept
    /\ IF slept THEN sleeps < MaxSleeps /\ sleeps' = sleeps + 1
       ELSE UNCHANGED sleeps
    /\ installer' = IF slept \/ installer = 0 THEN installer ELSE installer - 1

(* watch_with, the wait for Ember to exit: stood down, or a look at the    *)
(* lock.                                                                   *)
ExitCheck ==
    /\ dog = "exit" /\ dog' = IF standing THEN "gone" ELSE "exit_probe"
    /\ DogOnly /\ UNCHANGED <<left, sleeps, installer>>

(* The deadline passes only over an Ember that is not about to exit. *)
ExitProbe ==
    /\ dog = "exit_probe"
    /\ IF ~locked
       THEN /\ dog' = "back" /\ left' = RELAUNCH_DEADLINE
            /\ UNCHANGED <<sleeps, installer>>
       ELSE /\ dog' \in {"exit"} \cup (IF ember # "installing" THEN {"gone"} ELSE {})
            /\ UNCHANGED left /\ \E slept \in BOOLEAN : nap(slept)
    /\ DogOnly

(* Mutant: the stand-down file is looked for in the first wait only. *)
BackNapDeaf ==
    /\ dog = "back" /\ left > 0
    /\ \E slept \in BOOLEAN :
          /\ nap(slept)
          /\ left' = IF slept THEN RELAUNCH_DEADLINE ELSE left - 1
    /\ dog' = "back_probe"
    /\ DogOnly

(* Mutant: waking up finds the deadline passed. *)
BackNapOverslept ==
    /\ dog = "back" /\ left > 0
    /\ \E slept \in BOOLEAN :
          nap(slept) /\ left' = IF slept THEN 0 ELSE left - 1
    /\ dog' = IF standing THEN "gone" ELSE "back_probe"
    /\ DogOnly

(* The wait for it to come back: up to the deadline a nap, and stood down  *)
(* or on to the lock.  A sleep starts the wait again.                      *)
BackNap ==
    /\ dog = "back" /\ left > 0
    /\ \E slept \in BOOLEAN :
          /\ nap(slept)
          /\ left' = IF slept THEN RELAUNCH_DEADLINE ELSE left - 1
    /\ dog' = IF standing THEN "gone" ELSE "back_probe"
    /\ DogOnly

BackProbe ==
    /\ dog = "back_probe" /\ dog' = IF locked THEN "settle" ELSE "back"
    /\ DogOnly /\ UNCHANGED <<left, sleeps, installer>>

BackDeadline ==
    /\ dog = "back" /\ left = 0 /\ dog' = "start"
    /\ DogOnly /\ UNCHANGED <<left, sleeps, installer>>

(* Mutant: an Ember seen running is taken to be back. *)
SettleAtOnce ==
    /\ dog = "settle" /\ dog' = "gone"
    /\ DogOnly /\ UNCHANGED left /\ \E slept \in BOOLEAN : nap(slept)

(* settled: Ember is back for good once the resume file is gone.  One that *)
(* exits before is started once more; one that never takes it has had long *)
(* enough.                                                                 *)
Settle ==
    /\ dog = "settle"
    /\ IF resume /\ ~locked THEN dog' = "start"
       ELSE dog' \in {"gone"} \cup (IF resume THEN {"settle"} ELSE {})
    /\ DogOnly /\ UNCHANGED left /\ \E slept \in BOOLEAN : nap(slept)

(* relaunch: tried once more when it fails. *)
relaunch ==
    /\ dog \in {"start", "start_again"}
    /\ \/ /\ Works(TRUE) /\ dog' = "gone"
          /\ ember' = IF ember = "down" THEN "setup" ELSE ember
       \/ /\ Works(FALSE) /\ UNCHANGED ember
          /\ dog' = IF dog = "start" THEN "start_again" ELSE "gone"
    /\ UNCHANGED <<locked, resume, installer, fresh, left, sleeps, standing,
                   manual, handed, quit>>

Dog == ExitCheck \/ ExitProbe \/ BackNap \/ BackProbe \/ BackDeadline
         \/ Settle \/ relaunch

Next ==
    \/ HandOver \/ InstallerStarts \/ InstallFails \/ InstallerEnds
    \/ hold_instance_lock \/ SetupDone \/ SetupFails \/ Quit \/ UserStarts
    \/ Dog

Spec == Init /\ [][Next]_vars

(* The processes run: the installer ends, a start goes on, the watchdog    *)
(* polls, and an install ends one way or the other.                        *)
Progress == InstallerStarts \/ InstallFails
Setup == hold_instance_lock \/ SetupDone

Fairness ==
    /\ WF_vars(Progress) /\ WF_vars(InstallerEnds)
    /\ WF_vars(Setup) /\ WF_vars(Dog)

FairSpec == Spec /\ Fairness

-----------------------------------------------------------------------------
(* Ember comes back from an update: once it made way for an installer,     *)
(* under the eyes of the watchdog, it comes up unless the user closed it,  *)
(* though the installer fails, a file cannot be written, or the first      *)
(* start of the new release or the watchdog's start of Ember fails once.   *)
EmberComesBack ==
    (ember = "down" /\ installer > 0 /\ dog \in Watching)
        ~> (ember = "up" \/ quit)

(* A user who closes Ember after a failed install is not overruled: told   *)
(* to stand down, the watchdog does not start Ember again.                 *)
StandDownHolds ==
    [][dog' = "gone" /\ dog \in {"start", "start_again"} =>
           ~(standing /\ quit)]_vars

(* Time slept through does not count: the watchdog's deadline never starts *)
(* Ember in the middle of an install.                                      *)
NoStartDuringInstall == [][dog = "back" /\ dog' = "start" => installer = 0]_vars
=============================================================================
