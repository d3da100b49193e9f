----------------------------- MODULE MCProgress -----------------------------
(* What follows on a change, one model at a time: the writer of a data     *)
(* file answers everyone and lets the file go (PartFileWriter), upload     *)
(* sessions heed what was withdrawn (VerifiedEpoch), the reloads of a      *)
(* shared folder bring the index to agree with it (PagedScan), Ember comes *)
(* back from an update (UpdateWatchdog), and each byte of a file has at    *)
(* most one writer (PartBytes).  A behaviour is one of the focus; the      *)
(* others stay in their first state.                                       *)
EXTENDS VerifiedEpoch, TLC

CONSTANTS Gens, Callers, WRITER_QUEUE_CAPACITY, MaxOps, NoGate

CONSTANTS MAX_DISCOVERED_FILES, MAX_PENDING_FRONTIER, MaxChanges, MaxFaults

CONSTANTS RELAUNCH_DEADLINE, InstallPolls, MaxHandOvers, MaxSleeps

CONSTANTS Bytes, PartSpan, Workers

(* A part is a set of the file's bytes. *)
ASSUME SpanAssumption == PartSpan \in [Parts -> SUBSET Bytes]

VARIABLES gates, strong, permit, phase, thread, current, queue, discard,
          wedged, watcher, call, accepted, disk, durable, badVolume, acked,
          refused

VARIABLES shelf, index, cursor, cycle, pass, made, faults, since, since_first,
          late

VARIABLES ember, locked, resume, installer, unopened, dog, left, standing,
          manual, handed, failures, sleeps, quit

VARIABLES missing, writing, abandoned, verified

VARIABLE focus

Writer == INSTANCE PartFileWriter

writerVars == <<gates, strong, permit, phase, thread, current, queue, discard,
                wedged, watcher, call, accepted, disk, durable, badVolume,
                acked, refused>>

(* The shared folder: 1 holds 2, and 3 and 4 are beside it. *)
Scan == INSTANCE PagedScan WITH
            disk <- shelf,
            Files <- {2, 3, 4}, Folders <- {1}, Last <- (1 :> 2)

scanVars == <<shelf, index, cursor, cycle, pass, made, faults, since,
              since_first, late>>

Watchdog == INSTANCE UpdateWatchdog WITH fresh <- unopened, faults <- failures

dogVars == <<ember, locked, resume, installer, unopened, dog, left, standing,
             manual, handed, failures, sleeps, quit>>

Tracker == INSTANCE PartBytes

bytesVars == <<missing, writing, abandoned, verified>>

(* Three bytes in two parts. *)
Spans == (0 :> {0, 1}) @@ (1 :> {2})

MCInit ==
    /\ focus \in {"writer", "epoch", "scan", "update", "bytes"}
    /\ Init /\ Writer!Init /\ Scan!Init /\ Watchdog!Init /\ Tracker!Init

MCNext ==
    /\ \/ focus = "writer" /\ Writer!Next
          /\ UNCHANGED <<vars, scanVars, dogVars, bytesVars>>
       \/ focus = "epoch" /\ Next
          /\ UNCHANGED <<writerVars, scanVars, dogVars, bytesVars>>
       \/ focus = "scan" /\ Scan!Next
          /\ UNCHANGED <<vars, writerVars, dogVars, bytesVars>>
       \/ focus = "update" /\ Watchdog!Next
          /\ UNCHANGED <<vars, writerVars, scanVars, bytesVars>>
       \/ focus = "bytes" /\ Tracker!Next
          /\ UNCHANGED <<vars, writerVars, scanVars, dogVars>>
    /\ UNCHANGED focus

(* The writer's threads run and timers fire; the folder is reloaded; Ember, *)
(* the installer and the watchdog run.                                     *)
MCFairness ==
    /\ \A g \in Gens :
          /\ WF_writerVars(focus = "writer" /\ Writer!ThreadStep(g))
          /\ WF_writerVars(focus = "writer" /\ Writer!WatcherPoll(g))
          /\ \A c \in Callers :
                /\ WF_writerVars(focus = "writer" /\ Writer!BrokenPipe(g, c))
                /\ WF_writerVars(focus = "writer" /\ Writer!SubmitTimeout(g, c))
    /\ WF_scanVars(focus = "scan" /\ Scan!Reload)
    /\ WF_dogVars(focus = "update" /\ Watchdog!Progress)
    /\ WF_dogVars(focus = "update" /\ Watchdog!InstallerEnds)
    /\ WF_dogVars(focus = "update" /\ Watchdog!Setup)
    /\ WF_dogVars(focus = "update" /\ Watchdog!Dog)

MCSpec ==
    /\ MCInit
    /\ [][MCNext]_<<vars, writerVars, scanVars, dogVars, bytesVars, focus>>
    /\ MCFairness

-----------------------------------------------------------------------------
(* PartFileWriter: a caller comes back though the volume never answers. *)
CallersReturn == Writer!CallersReturn

(* PartFileWriter: a writer no one needs closes its file. *)
FileReleased == Writer!FileReleased

(* PagedScan: a reload removes the row of no file that was there throughout. *)
OnlyMissingRowsGo == Scan!OnlyMissingRowsGo

(* PagedScan: the index comes to agree with the disk. *)
RowsMatchDisk == Scan!RowsMatchDisk

(* UpdateWatchdog: Ember comes back once it made way for an installer. *)
EmberComesBack == Watchdog!EmberComesBack

(* PartBytes: no byte is written by two workers. *)
OneWriterPerByte == Tracker!OneWriterPerByte

(* UpdateWatchdog: stood down, the watchdog does not start Ember again. *)
StandDownHolds == Watchdog!StandDownHolds

(* UpdateWatchdog: the deadline starts no Ember in the middle of an install. *)
NoStartDuringInstall == Watchdog!NoStartDuringInstall
=============================================================================
