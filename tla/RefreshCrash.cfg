\* Refresh, Review and Remediation with one process death at any step, while main
\* and the Task contract move; findings come from this workspace only.
SPECIFICATION Spec
CONSTANTS
    MaxCommit = 2
    MaxMain = 2
    MaxBody = 2
    MaxReview = 1
    MaxCrash = 1
    MaxForeign = 0
    MaxRetouch = 0
    PortableFindings = FALSE
INVARIANTS
    TypeOK
    DoneIsReviewed
    FreshReviewBoundary
\* A Task ends: merged or done, with every bound spent, nothing may be left to do.
CHECK_DEADLOCK FALSE
