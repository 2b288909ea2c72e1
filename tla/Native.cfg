SPECIFICATION Spec
CONSTANTS
    gate = gate
    guards = guards
    tests = tests
    Jobs <- MCJobs
    Gate = gate
    AlwaysJobs <- MCAuth
    AuthJobs <- MCAuth
    MaxCI = 2
    Groups = {g1, g2}
    MaxNative = 3
SYMMETRY Interchangeable
PROPERTIES
    ImplementsContract
    AuthorizesLatest
    BundlesNewest
CHECK_DEADLOCK FALSE
