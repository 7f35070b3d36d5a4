------------------------------ MODULE MCSettings ------------------------------
(* Instances of Settings for TLC.                                          *)
EXTENDS Settings

CONSTANTS client, zshrc, profile

OneClient == {client}
TwoStartupFiles == {zshrc, profile}
SomeCalls ==
  {Ask("terminal", FALSE), Ask("terminal", TRUE), Ask("appearance", TRUE), Ask("switch", "apache"),
   Ask("save", "nginx"), Ask("save", "template"), Ask("delete", "template"), Ask("start", ""),
   Ask("stop", ""), Ask("php settings", ""), Ask("reset", "")}
===============================================================================
