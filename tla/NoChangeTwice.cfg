\* No-change is asked twice for one Review, main having moved between.
SPECIFICATION Spec
CONSTANTS
    MaxCommit = 2
    MaxMain = 2
    MaxBody = 1
    MaxReview = 1
    MaxCrash = 0
    MaxForeign = 0
    MaxRetouch = 0
    PortableFindings = TRUE
INVARIANTS
    NoChangeTerminal
\* A Task ends: merged or done, with every bound spent, nothing may be left to do.
CHECK_DEADLOCK FALSE
