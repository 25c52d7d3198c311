CONSTANTS
    Sdks = {s1, s2}
    Handles = {h1, h2, h3}
    None = None
    InputSize = 3
    SliceSize = 2
    MaxSize = 4
    MaxRef = 3
    Faults = {"build", "encode", "decode", "send", "infer", "deinit", "destroy", "die"}
SPECIFICATION Spec
SYMMETRY Symmetry
CHECK_DEADLOCK FALSE
INVARIANTS HandleServed AdapterUp 
