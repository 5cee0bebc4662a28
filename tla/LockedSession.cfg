\* A process death between the boundary and the release of the session.
SPECIFICATION Spec
CONSTANTS
    MaxCommit = 2
    MaxMain = 1
    MaxBody = 1
    MaxReview = 1
    MaxCrash = 1
    MaxForeign = 0
    MaxRetouch = 0
    PortableFindings = TRUE
INVARIANTS
    NoLockedSession
\* A Task ends: merged or done, with every bound spent, nothing may be left to do.
CHECK_DEADLOCK FALSE
