--------------------------- MODULE MCGeoffProcess ---------------------------
(* GeoffProcess for TLC: a few threads, and all the retries of ~Timer. *)
EXTENDS GeoffProcess
=============================================================================
