SPECIFICATION Spec
CONSTANTS
    Machines = {"X5000", "A1222", "Sam460"}
    MaxRuns = 2
    Sources <- MCSources
    MaxFaults = 2
INVARIANTS OkRunCompletes PreflightPromisesStage LaunchedOnce
PROPERTY EjectedBeforeDismount
CHECK_DEADLOCK FALSE
