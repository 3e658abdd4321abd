\* Every sequence of four enable and replace calls, checked against the
\* promise that the list refers only to live provider instances.  Deadlock
\* is not checked: the run stops after MaxCalls calls or at a crash.
CONSTANTS
    mm1 = mm1
    mm2 = mm2
    pa1 = pa1
    null = null
    dangling = dangling
    Providers = {mm1, mm2, pa1}
    ProvId <- MCProvId
    NULL = null
    Dangling = dangling
    MaxCalls = 4
SPECIFICATION Spec
CHECK_DEADLOCK FALSE
INVARIANT ProvidersLive
