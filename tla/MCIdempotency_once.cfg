SPECIFICATION FairSpec
CONSTANTS
    i1 = i1
    i2 = i2
    b1 = b1
    b2 = b2
    Intent = {i1, i2}
    BodyOf <- TwoBodies
    Key = {k1, k2}
    Session = {w1, w2}
    MaxTries <- ThreeAndTwo
    MaxChanges = 1
INVARIANTS
    AnswersAgree
PROPERTIES
    ImplementsExactlyOnce
    EveryRequestEnds
CHECK_DEADLOCK FALSE
