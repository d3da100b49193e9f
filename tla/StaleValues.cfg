\* Two dials and a listener under a budget that is resized; two releases,
\* with an answer of the user and two file operations that fail; the status
\* of one download under two handlers.
CONSTANTS
    d1 = d1
    d2 = d2
    Dials = {d1, d2}
    Acceptors = {a1}
    Maxes = {1, 4}
    Budgets = {1}
    Headrooms = {1}
    Priorities = {0, 4}
    MaxSessions = 2
    MaxCount = 2
    Newest = 3
    MaxFaults = 2
    MaxAnswers = 1
    h1 = h1
    h2 = h2
    Handlers = {h1, h2}
    MaxSeq = 3
SYMMETRY Symmetry
SPECIFICATION MCSpec
INVARIANTS NoBudgetLeak PermitsCoverBudget NoLostWakeup NoRestartLoop 
PROPERTIES AnswersHold BudgetKept DialsRationed
CHECK_DEADLOCK FALSE
