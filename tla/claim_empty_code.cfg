SPECIFICATION Spec
CONSTANTS
    Worker = {w1, w2}
    Iters = 1
    OpeningSrc = 2
    OpeningDst = 0
    Faults = {"error", "cut"}
INVARIANTS
    EmptyCodeIsSuccess
CHECK_DEADLOCK FALSE
