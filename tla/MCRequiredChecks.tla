---- MODULE MCRequiredChecks ----
(* Main's CI: two jobs, one of them named; then one; then a matrix. *)
EXTENDS RequiredChecks

CONSTANTS build, lint, style

Job(id, name, form) == [id |-> id, name |-> name, form |-> form]
MCWorkflow == <<{Job(build, None, "static"), Job(style, lint, "static")},
                {Job(build, None, "static")},
                {Job(build, None, "matrix")}>>
====
