----------------------------- MODULE MCWebSocket ------------------------------
(*****************************************************************************)
(* Instances of WebSocket for TLC: two connections that use the same          *)
(* operation id, and an action whose log changes twice.                       *)
(*****************************************************************************)
EXTENDS WebSocket, TLC

MCSubs == 1 .. MaxStarts * (1 + MaxLevel)
===============================================================================
