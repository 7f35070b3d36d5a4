----------------------------- MODULE MCSupervisor -----------------------------
(* Instances of Supervisor for TLC.                                        *)
EXTENDS SupervisorInv, TLC

CONSTANTS c1, c2, i1, i2

OneCaller == {c1}
TwoCallers == {c1, c2}
OneService == {i1}
TwoServices == {i1, i2}

(* Callers and services are interchangeable where only invariants and      *)
(* action properties are checked.                                          *)
Interchangeable == Permutations(Callers) \cup Permutations(Ids)
===============================================================================
