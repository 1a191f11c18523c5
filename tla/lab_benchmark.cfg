\* Runs and two benchmarks share the count, a provider answers as it likes, bytes arrive
\* in any chunks, and the store is full after three records.
SPECIFICATION LabSpec
CONSTANTS
    Runs = {r1, r2}
    Benches = {b1, b2}
    Workers = {w1, w2}
    MaxInflight = 2
    Total = 3
    Warmup = 1
    Modes = 2
    Faults = 1
    Unknown = Unknown
    MaxCount = 1
    MaxPieces = 2
    MaxLines = 4
    MaxChunk = 3
    MaxTotal = 11
    MaxBuffer = 7
    Records = {d1, d2, d3, d4, d5, d6}
    Kinds = {request, benchmark}
    Retention = 3
    Shown = 2
    Breaks = 2
INVARIANTS InflightExact BenchmarksSound ChatTruthful FramingExact KeptUntilCrowded
PROPERTIES BenchmarkEnds
CHECK_DEADLOCK FALSE
