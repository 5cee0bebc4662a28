\* A Remediation session is prepared while a Review is handed off.
SPECIFICATION Spec
CONSTANTS
    MaxCommit = 2
    MaxMain = 1
    MaxBody = 1
    MaxReview = 1
    MaxCrash = 0
    MaxForeign = 0
    MaxRetouch = 0
    PortableFindings = TRUE
INVARIANTS
    RolesDoNotOverlap
\* A Task ends: merged or done, with every bound spent, nothing may be left to do.
CHECK_DEADLOCK FALSE
