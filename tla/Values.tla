-------------------------------- MODULE Values --------------------------------
(* What the database writes NULL and the code None. *)
CONSTANT NULL
===============================================================================
