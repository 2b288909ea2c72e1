SPECIFICATION FairSpec
CONSTANTS
    bad = bad
    good = good
    other = other
    s1 = s1
    s2 = s2
    Reqs <- MCReqs
    Services = {s1, s2}
    ServiceOf <- MCServiceOf
    Poison <- MCPoison
    None = none
PROPERTIES
    NoBlindRerun
    AtLeastOnce
    PoisonDoesNotBlock
