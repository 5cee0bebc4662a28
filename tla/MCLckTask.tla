------------------------------ MODULE MCLckTask ------------------------------
(* Instances of LckTask for TLC; the bounds are set in the .cfg files. *)
EXTENDS LckTask
=============================================================================
