--------------------------- MODULE MCStaleValues ----------------------------
(* Values used after what they were read from may have changed, one model  *)
(* at a time: the connections counted by dials, by the listener and        *)
(* against a limit that changes (ConnBudget), the record of silent         *)
(* updates, which failed writes and restarts leave behind the facts        *)
(* (SilentUpdate), and the status of a download, saved by threads that     *)
(* overtake each other (TransferStatus).  A behaviour is one of the focus; *)
(* the others stay in their first state.                                   *)
EXTENDS ConnBudget, TLC

CONSTANTS Newest, MaxFaults, MaxAnswers

VARIABLES latest, running, record, resume, life, driver, pending, answers,
          asked, outcome, faults, given, tried, misled, said, unsaved

CONSTANTS Handlers, MaxSeq

VARIABLES live, db, seq, last, writes, task, starts, worker, overlap, lost

VARIABLE focus

Updates == INSTANCE SilentUpdate

Status == INSTANCE TransferStatus

updateVars == <<latest, running, record, resume, life, driver, pending,
                answers, asked, outcome, faults, given, tried, misled, said,
                unsaved>>
statusVars == <<live, db, seq, last, writes, task, starts, worker, overlap,
                lost>>

MCInit ==
    /\ focus \in {"conns", "updates", "status"}
    /\ Init /\ Updates!Init /\ Status!Init
    /\ focus # "conns" => /\ \A n \in Maxes : desired_max <= n
                          /\ \A n \in Budgets : budget <= n

MCNext ==
    /\ \/ focus = "conns" /\ Next /\ UNCHANGED <<updateVars, statusVars>>
       \/ focus = "updates" /\ Updates!Next /\ UNCHANGED <<vars, statusVars>>
       \/ focus = "status" /\ Status!Next /\ UNCHANGED <<vars, updateVars>>
    /\ UNCHANGED focus

MCSpec == MCInit /\ [][MCNext]_<<vars, updateVars, statusVars, focus>>

Symmetry == Permutations(Dials) \cup Permutations(Handlers)

-----------------------------------------------------------------------------
(* SilentUpdate: Ember stops for a silent install of a release once. *)
NoRestartLoop == Updates!NoRestartLoop

(* SilentUpdate: the user's answer wins over the clock. *)
AnswersHold == Updates!AnswersHold

(* TransferStatus: reordered writes leave the live status in the table. *)
OrderedStatusIsPersisted == Status!OrderedStatusIsPersisted
=============================================================================
