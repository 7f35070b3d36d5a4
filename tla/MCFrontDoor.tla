------------------------------ MODULE MCFrontDoor ------------------------------
(* Instances of FrontDoor for TLC.                                         *)
EXTENDS FrontDoor, TLC

CONSTANTS p1, p2, nginx, apache

OneProject == {p1}
TwoProjects == {p1, p2}
BothServers == {nginx, apache}
TwoPorts == 8080 .. 8081
FirstPort == {8080}
SecondPort == {8081}
NoPort == {}

(* Projects are interchangeable, and so are the two webservers.            *)
Interchangeable == Permutations(Projects) \cup Permutations(Servers)
================================================================================
