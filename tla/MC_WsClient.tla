------------------------------ MODULE MC_WsClient ------------------------------
(* Two WebSocketClient instances in one process (one per venue), sharing  *)
(* the statics of process_rx, and one subscription key.                   *)
EXTENDS WsClient

CONSTANTS c1, c2, k1

MC_Clients == {c1, c2}
MC_Keys == {k1}
=============================================================================
