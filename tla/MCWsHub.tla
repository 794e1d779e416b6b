------------------------------ MODULE MCWsHub ------------------------------
(* Small instances of WsHub for TLC.  MaxEvents counts connections and       *)
(* messages together: with one connection there are five messages, which     *)
(* fill every channel behind it, with two there are four.                    *)
EXTENDS WsHub
=============================================================================
