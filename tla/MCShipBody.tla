----------------------------- MODULE MCShipBody -----------------------------
(* A ship with the durations of the code in a small universe. *)
EXTENDS ShipBody

\* A window that scrolls, one too narrow for its two margins, and one as wide as the
\* universe.
MCWindows == {3, 5, 10}
=============================================================================
