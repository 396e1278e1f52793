SPECIFICATION Spec
CONSTANTS
    Operator = {o1, o2}
    Command  = {"full_reset", "run", "build_and_run"}
    Retries  = 2
INVARIANTS
    ResetRemoves
PROPERTIES
    RunningIsSpared
    CommandsEnd
