----------------------------- MODULE MCWebSocket -----------------------------
(* Small instances of WebSocket for TLC.                                   *)
EXTENDS WebSocket, TLC

CONSTANTS k1, k2

MCConns == {k1, k2}
MCOneConn == {k1}
=============================================================================
