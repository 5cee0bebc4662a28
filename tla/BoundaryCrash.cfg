\* Deliver, review, repair, review again, with one process death.
SPECIFICATION Spec
CONSTANTS
    MaxCommit = 2
    MaxMain = 1
    MaxBody = 1
    MaxReview = 2
    MaxCrash = 1
    MaxForeign = 0
    MaxRetouch = 0
    PortableFindings = TRUE
INVARIANTS
    EvidenceBeforeEffect
    FreshReviewBoundary
PROPERTIES
    ImplementsMergeAuthority
\* A Task ends: merged or done, with every bound spent, nothing may be left to do.
CHECK_DEADLOCK FALSE
