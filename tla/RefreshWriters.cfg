\* Candidate Refresh and Delivery against another writer of the Task branch, a developer
\* who edits, commits and resets by hand, and a moving main.
SPECIFICATION Spec
CONSTANTS
    MaxCommit = 3
    MaxMain = 2
    MaxBody = 1
    MaxReview = 1
    MaxCrash = 0
    MaxForeign = 1
    MaxRetouch = 1
    PortableFindings = FALSE
INVARIANTS
    EvidenceBeforeEffect
    FreshReviewBoundary
    NoLockedSession
PROPERTIES
    NoForeignWorkLost
\* A Task ends: merged or done, with every bound spent, nothing may be left to do.
CHECK_DEADLOCK FALSE
