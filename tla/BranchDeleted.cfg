\* Another writer pushes while Closeout deletes the Task branch.
SPECIFICATION Spec
CONSTANTS
    MaxCommit = 2
    MaxMain = 1
    MaxBody = 1
    MaxReview = 1
    MaxCrash = 0
    MaxForeign = 1
    MaxRetouch = 0
    PortableFindings = TRUE
PROPERTIES
    DeletesOnlyProvenHead
\* A Task ends: merged or done, with every bound spent, nothing may be left to do.
CHECK_DEADLOCK FALSE
