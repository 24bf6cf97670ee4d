---------------------------- MODULE MCWebsockTx ----------------------------
(***************************************************************************)
(* WebsockTx for TLC, with what the sources' comments say of the transmit  *)
(* path.                                                                   *)
(***************************************************************************)
EXTENDS WebsockTx

\* websocket_session.h:21-23: a websocket_session whose connection ended has had
\* its session cleaned up.
EndedIsCleanedUp ==
    \A c \in Ids : reader[c] \in {"closed", "failed", "aborted"} => sessions[c] # "live"

\* WebsockSession.h:15-16: the buffers are managed automatically: none is freed
\* while the socket still has to read it.
DeliveredIntact == \A c \in Ids : ~garbled[c]

\* GameSession.h:14-15: the timer's handler is sequential with respect to the
\* exchange of buffers on the stream: none begins or ends while it runs.
TickIsSequential ==
    [][ \A c \in Ids : inFlight'[c] # inFlight[c] => tick.stage = "idle" ]_vars
=============================================================================
