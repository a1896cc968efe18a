SPECIFICATION LiveSpec
CONSTANTS
    Chains = {c1, c2, c3}
    Callers = {u1}
    Records = {m1, m2}
    NoAnswer = NoAnswer
INVARIANT TypeOK
INVARIANT StuckOnlyByFault
PROPERTY CycleRecurs
PROPERTY IsWriteBehind
