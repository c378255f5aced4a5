CONSTANTS
    u1 = u1
    s1 = s1
    NaN = NaN
    Uids <- MCUids
    Syms <- MCSyms
    NumTexts <- MCNumTexts
    IdTexts <- MCIdTexts
    MaxChildren = 2

SPECIFICATION Spec

\* A request is read child by child up to MaxChildren children; the last
\* child ends it.
CHECK_DEADLOCK FALSE

INVARIANT OneCommandPerElement
