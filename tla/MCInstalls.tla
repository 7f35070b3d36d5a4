------------------------------ MODULE MCInstalls ------------------------------
(* Instances of Installs for TLC.                                          *)
EXTENDS Installs

CONSTANTS c1, c2, v1, v2

TwoCalls == {c1, c2}
TwoVersions == {v1, v2}

(* v2 is the newest; v1 is still supported.                                *)
InOrder == [v \in TwoVersions |-> IF v = v1 THEN 1 ELSE 2]
TwoReleases ==
  [v \in TwoVersions |-> IF v = v1 THEN [released |-> 0, activeUntil |-> 1, securityUntil |-> 3]
                         ELSE [released |-> 1, activeUntil |-> 3, securityUntil |-> 5]]

(* A machine with nothing, one with a package manager, one with everything.*)
SomeMachines == {{}, {PackageManager}, {Webserver, v1, v2}}
===============================================================================
