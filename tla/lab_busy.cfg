\* A benchmark whose generator never began.
SPECIFICATION Spec

CONSTANTS
    Runs = {r1}
    Benches = {b1}
    Workers = {w1, w2}
    MaxInflight = 2
    Total = 2
    Warmup = 1
    Modes = 2
    Faults = 0
INVARIANTS BusyHasRun
CHECK_DEADLOCK FALSE
