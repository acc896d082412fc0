\* Two users, and ids for the cookie of each and one to come.
SPECIFICATION Spec
CONSTANTS
    Browsers = {b1, b2}
    Sids = {s1, s2, s3}
    Timeout = 1
    MaxCalls = 1
SYMMETRY Symmetry
INVARIANT OneUserAtATime
