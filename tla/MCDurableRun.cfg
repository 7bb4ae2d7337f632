SPECIFICATION FairSpec
CHECK_DEADLOCK FALSE
CONSTANTS
    wait1 = wait1
    act = act
    wait2 = wait2
    pause = pause
    check = check
    Steps = {wait1, act, wait2, pause, check}
    FirstStep = wait1
    Kind <- MCKind
    Event <- MCEvent
    Goto <- MCGoto
    Else <- MCElse
    Submitters = {t1, t2}
    Cancellers = {c1}
    Signallers = {g1}
    MaxAttempts = 2
    MaxOpen = 1
    NULL = NULL
PROPERTIES
    RunTellsItsExecution
    RunEnds
