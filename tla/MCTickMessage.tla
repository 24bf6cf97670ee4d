--------------------------- MODULE MCTickMessage ---------------------------
(***************************************************************************)
(* TickMessage for TLC.                                                    *)
(***************************************************************************)
EXTENDS TickMessage
=============================================================================
