--------------------------- MODULE MCHttpSession ---------------------------
(***************************************************************************)
(* HttpSession for TLC, with what a comment of geoff.cpp says of it.       *)
(***************************************************************************)
EXTENDS HttpSession

\* geoff.cpp:216-217: an upgrade transfers ownership of the socket: no write of
\* the HTTP session is outstanding on it.
OwnershipTransferred == input = "upgraded" => writes = 0
=============================================================================
