\* Every sequence of four enable and replace calls over two maxmind
\* instances and one pfx2as instance.  The run stops after MaxCalls calls or
\* at a crash, so deadlock is not checked.
CONSTANTS
    mm1 = mm1
    mm2 = mm2
    pa1 = pa1
    null = null
    dangling = dangling
    Providers = {mm1, mm2, pa1}
    ProvId <- MCProvId
    NULL = null
    Dangling = dangling
    MaxCalls = 4
SPECIFICATION Spec
CHECK_DEADLOCK FALSE
INVARIANT TypeOK
INVARIANT MaskCoversProviders
