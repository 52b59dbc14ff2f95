CONSTANTS
    Matchers = {m1, m2}
    Bounds <- Few
    None = None
SPECIFICATION Spec
INVARIANTS TypeOK GenerationAccounted RequestServed
CHECK_DEADLOCK FALSE
