------------------------------- MODULE MCServer -------------------------------
(* Instances of Server for TLC.                                            *)
EXTENDS Server, TLC

CONSTANTS window, stuck

(* A window that reads what it is sent, and a client that may not.         *)
OneWindow == {window}
TwoClients == {window, stuck}
WindowAsks == window :> {"action", "check"}
StuckAsks == stuck :> {"auth", "guess", "action"}
BothAsk == WindowAsks @@ StuckAsks
===============================================================================
