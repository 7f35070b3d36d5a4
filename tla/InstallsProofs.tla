---------------------------- MODULE InstallsProofs ----------------------------
(***************************************************************************)
(* Theorems about downloads and the registry of PHP versions, for any      *)
(* number of calls under way, versions, releases and machines.             *)
(***************************************************************************)
EXTENDS Installs, TLAPS

-----------------------------------------------------------------------------
(* The first start                                                         *)
LEMMA NewestIsThere ==
  ASSUME NEW S \in SUBSET Versions, S # {}
  PROVE  Newest(S) \in S
<1>1. \E v \in S : \A w \in S : Number[w] <= Number[v]
  BY ReleasesAssumption
<1> QED
  BY <1>1 DEF Newest

LEMMA Statuses ==
  ASSUME NEW v \in Versions
  PROVE  StatusAt(v) \in {"active", "security", "unknown", "eol", "unreleased"}
<1>1. CASE v \notin DOMAIN Releases
  BY <1>1 DEF StatusAt
<1>2. CASE v \in DOMAIN Releases
  <2>1. /\ Now \in Nat /\ Releases[v].released \in Nat
        /\ Releases[v].activeUntil \in Nat /\ Releases[v].securityUntil \in Nat
    BY <1>2, ReleasesAssumption
  <2> QED
    BY <1>2, <2>1 DEF StatusAt
<1> QED
  BY <1>1, <1>2

LEMMA RecommendedIsThere == Recommended \in Versions
<1>1. DOMAIN Releases \subseteq Versions
  BY ReleasesAssumption
<1>2. PICK v \in DOMAIN Releases : Releases[v].released <= Now
  BY ReleasesAssumption
<1>3. StatusAt(v) # "unreleased"
  <2>1. /\ Now \in Nat /\ Releases[v].released \in Nat
        /\ Releases[v].activeUntil \in Nat /\ Releases[v].securityUntil \in Nat
    BY <1>2, ReleasesAssumption
  <2> QED
    BY <1>2, <2>1 DEF StatusAt
<1>4. DOMAIN Releases \ With(DOMAIN Releases, "unreleased") # {}
  BY <1>2, <1>3 DEF With
<1>5. With(DOMAIN Releases, "active") \subseteq DOMAIN Releases
  BY DEF With
<1> QED
  BY <1>1, <1>4, <1>5, NewestIsThere DEF Recommended

LEMMA PreferredIsThere ==
  ASSUME NEW S \in SUBSET Versions, S # With(S, "unreleased")
  PROVE  Preferred(S) \in S
<1>1. \A status : With(S, status) \subseteq S
  BY DEF With
<1>2. \A status : With(S, status) # {} => Newest(With(S, status)) \in S
  BY <1>1, NewestIsThere
<1>3. PICK v \in S : StatusAt(v) # "unreleased"
  BY DEF With
<1>4. v \in With(S, StatusAt(v))
  BY DEF With
<1>5. \/ With(S, "active") # {} \/ With(S, "security") # {}
      \/ With(S, "unknown") # {} \/ With(S, "eol") # {}
  BY <1>3, <1>4, Statuses
<1> QED
  BY <1>2, <1>5 DEF Preferred

-----------------------------------------------------------------------------
(* The inductive invariant.                                                *)

(* What a call does fits where it is, and d.mu is held from a scan to what *)
(* is done with it.                                                        *)
ShapeOf(c) ==
  LET o == call[c]
  IN /\ at[c] \in Downloading \cup {"look", "begin", "update"} => o.does = "install"
     /\ at[c] = "update" => o.thing = Release
     /\ at[c] = "ask" => o.thing = Webserver
     /\ at[c] \in {"add", "register"} =>
          o.does \in {"install", "add", "set"} /\ o.thing \in Versions
     /\ at[c] \in {"set", "choose"} => o.does = "set"
     /\ at[c] = "use" => o.does = "use"
     /\ at[c] \in {"remove", "take", "delete", "settle"} => o.does = "remove"
     /\ at[c] \in {"unhide", "shown"} => o.does = "unhide"
     /\ at[c] \in {"scan", "store"} =>
          IF mu = c THEN o.thing \in Versions /\ o.does \notin {"detect", "use"}
          ELSE o.does = "detect" \/ (o.does = "install" /\ o.thing \in Found)
     /\ mu = c => at[c] \in {"delete", "scan", "store", "register", "settle", "shown"}
     /\ at[c] \in {"delete", "register", "settle", "shown"} => mu = c
Shape == \A c \in Clients : ShapeOf(c)

(* What is being put together fits how far the call is.                    *)
StagedOf(c) ==
  LET s == staged[call[c].thing]
  IN call[c].does = "install" =>
       /\ at[c] \in {"stage", "end"} => s = "none"
       /\ at[c] \in {"receive", "unpack"} => s \in {"empty"} \cup Parts
       /\ at[c] = "place" => s \in {"none"} \cup Complete \cup Torn
StagedFits == \A c \in Clients : StagedOf(c)

(* What is torn is being deleted, or known to be; what is not as published *)
(* had no checksum.                                                        *)
Known == unsettled \cup cut
DeletingFrom(dirs) ==
  {v \in Versions :
     \E c \in Clients : at[c] = "delete" /\ call[c].thing = v /\ scan[c][v] \in dirs}
InPlace == {"vendored", "unservable"}
TornIsKnown ==
  \A t \in Things :
    /\ place[t] \in {"none"} \cup Complete \cup Torn
    /\ place[t] \in Torn => t \in Known \cup DeletingFrom(InPlace)
    /\ staged[t] \in Torn => t \in Known \cup DeletingFrom({"staged"})
BodyOf(c) == body[c] = "garbled" => at[c] = "unpack" /\ call[c].thing \in Versions
AlteredIsUnvouched ==
  /\ \A c \in Clients : BodyOf(c)
  /\ \A t \in Things \ Versions :
       {place[t], staged[t]} \cap {"altered part", "altered", "mute"} = {}

IInv ==
  TypeOK /\ Shape /\ DownloadsApart /\ StagedFits /\ TornIsKnown /\ AlteredIsUnvouched

-----------------------------------------------------------------------------
(* Types                                                                   *)
LEMMA CallForms ==
  ASSUME NEW o \in Calls
  PROVE  /\ o = Ask(o.does, o.thing)
         /\ o.does = "install" => o.thing \in Things
         /\ o.does = "detect" => o.thing \in {PHP, Webserver}
         /\ o.does \notin {"install", "detect"} => o.thing \in Versions
         /\ o.does \in {"install", "detect", "add", "set", "use", "remove", "unhide"}
BY DEF Calls, Ask

LEMMA IdleIsACall == Idle \in Calls
BY DEF Idle, Calls

LEMMA GoTypes ==
  ASSUME TypeOK, NEW c \in Clients, NEW step \in Steps, Go(c, step)
  PROVE  /\ at' \in [Clients -> Steps] /\ call' \in [Clients -> Calls]
         /\ at'[c] = step /\ (step # "idle" => call'[c] = call[c])
         /\ \A d \in Clients \ {c} : at'[d] = at[d] /\ call'[d] = call[d]
<1>1. at \in [Clients -> Steps] /\ call \in [Clients -> Calls]
  BY DEF TypeOK
<1> QED
  BY <1>1, IdleIsACall DEF Go

LEMMA DetectedTypes ==
  ASSUME TypeOK
  PROVE  Detected \in [Found -> Finds]
BY DEF Detected, DetectsWebserver, DetectsPHP, Vendored, OnMachine, Finds

LEMMA NothingTypes == Nothing \in [Found -> Finds]
BY DEF Nothing, Finds

LEMMA InitTypes == Init => TypeOK
<1> SUFFICES ASSUME Init PROVE TypeOK
  OBVIOUS
<1>1. system \subseteq Found \cup {PackageManager}
  BY MachinesAssumption DEF Init
<1>2. default \in Versions
  BY RecommendedIsThere, PreferredIsThere DEF Init
<1>3. found \in [Found -> Finds] /\ scan \in [Clients -> [Found -> Finds]]
  BY NothingTypes DEF Init, Finds
<1>4. at \in [Clients -> Steps] /\ call \in [Clients -> Calls]
  BY IdleIsACall DEF Init, Steps
<1>5. place \in [Things -> Contents] /\ staged \in [Things -> Contents]
  BY DEF Init, Contents
<1>6. available \subseteq Versions /\ paths \subseteq Versions /\ hidden \subseteq Versions
  BY <1>2 DEF Init
<1> QED
  BY <1>1, <1>2, <1>3, <1>4, <1>5, <1>6, BoundsAssumption DEF Init, TypeOK

LEMMA WhatIsThere ==
  ASSUME TypeOK, NEW c \in Clients, ShapeOf(c)
  PROVE  /\ call[c] \in Calls
         /\ at[c] \in Downloading \cup {"look", "begin", "update"} =>
              call[c].thing \in Things /\ call[c] = Ask("install", call[c].thing)
         /\ at[c] \in {"add", "register", "set", "choose", "use", "remove", "take", "delete",
                       "settle", "unhide", "shown"} => call[c].thing \in Versions
<1>1. call[c] \in Calls
  BY DEF TypeOK
<1> QED
  BY <1>1, CallForms DEF ShapeOf

LEMMA RegisterTypes ==
  ASSUME TypeOK, NEW v \in Versions, NEW what, Register(v, what)
  PROVE  available' \subseteq Versions /\ paths' \subseteq Versions
BY DEF TypeOK, Register

LEMMA RemovalTypes ==
  ASSUME TypeOK, NEW v \in Versions, NEW dir, RemoveAll(v, dir)
  PROVE  /\ place' \in [Things -> Contents] /\ staged' \in [Things -> Contents]
         /\ left' \subseteq Versions
BY DEF TypeOK, RemoveAll, Contents

LEMMA RestTypes ==
  ASSUME NEW content, NEW rest \in Rests(content)
  PROVE  content \in Complete \cup Torn /\ rest \in Torn
BY DEF Rests, Torn

LEMMA TroubleTypes ==
  ASSUME TypeOK, Works \/ Fails
  PROVE  trouble' \in 0 .. MaxTrouble
BY BoundsAssumption DEF TypeOK, Works, Fails

LEMMA StepTypes ==
  ASSUME TypeOK, Shape, TornIsKnown, NEW c \in Clients,
         Download(c) \/ Registry(c) \/ PackageInstall(c)
  PROVE  TypeOK'
<1>1. ShapeOf(c)
  BY DEF Shape
<1> USE WhatIsThere, <1>1
<1>2. ASSUME Look(c) PROVE TypeOK'
  <2>1. \E step \in Steps : Go(c, step)
    BY <1>2 DEF Look, Steps, Downloading
  <2>2. at' \in [Clients -> Steps] /\ call' \in [Clients -> Calls]
    BY <2>1, GoTypes
  <2> QED
    BY <1>2, <2>2 DEF TypeOK, Is, owedVars, folderVars, cacheVars, configVars, Look
<1>3. ASSUME Begin(c) PROVE TypeOK'
  <2>1. \E step \in Steps : Go(c, step)
    BY <1>3 DEF Begin, Steps, Downloading
  <2>2. at' \in [Clients -> Steps] /\ call' \in [Clients -> Calls]
    BY <2>1, GoTypes
  <2> QED
    BY <1>3, <2>2 DEF TypeOK, Is, owedVars, folderVars, cacheVars, configVars, Begin, Downloading
<1>4. ASSUME DownloadUpdate(c) PROVE TypeOK'
  <2>1. \E step \in Steps : Go(c, step)
    BY <1>4 DEF DownloadUpdate, Steps, Downloading
  <2>2. at' \in [Clients -> Steps] /\ call' \in [Clients -> Calls]
    BY <2>1, GoTypes
  <2> QED
    BY <1>4, <2>2 DEF TypeOK, Is, owedVars, folderVars, cacheVars, configVars, DownloadUpdate,
         Things
<1>5. ASSUME Stage(c) PROVE TypeOK'
  <2>1. \E step \in Steps : Go(c, step)
    BY <1>5 DEF Stage, Steps, Downloading, Plan
  <2>2. at' \in [Clients -> Steps] /\ call' \in [Clients -> Calls]
    BY <2>1, GoTypes
  <2>3. trouble' \in 0 .. MaxTrouble
    BY <1>5, TroubleTypes DEF Stage
  <2> QED
    BY <1>5, <2>2, <2>3 DEF TypeOK, Is, owedVars, cacheVars, configVars, Stage, Contents
<1>6. ASSUME Receive(c) PROVE TypeOK'
  <2>1. \E step \in Steps : Go(c, step)
    BY <1>6 DEF Receive, Steps, Downloading
  <2>2. at' \in [Clients -> Steps] /\ call' \in [Clients -> Calls]
    BY <2>1, GoTypes
  <2>3. trouble' \in 0 .. MaxTrouble
    BY <1>6, TroubleTypes DEF Receive
  <2> QED
    BY <1>6, <2>2, <2>3 DEF TypeOK, Is, owedVars, folderVars, cacheVars, configVars, Receive
<1>7. ASSUME Unpack(c) PROVE TypeOK'
  <2>1. \E step \in Steps : Go(c, step)
    BY <1>7 DEF Unpack, Steps, Downloading
  <2>2. at' \in [Clients -> Steps] /\ call' \in [Clients -> Calls]
    BY <2>1, GoTypes
  <2>3. trouble' \in 0 .. MaxTrouble
    BY <1>7, TroubleTypes DEF Unpack
  <2>4. staged' \in [Things -> Contents]
    BY <1>7 DEF TypeOK, Unpack, NextPart, Altered, Parts, Complete, Contents
  <2> QED
    BY <1>7, <2>2, <2>3, <2>4 DEF TypeOK, Is, owedVars, cacheVars, configVars, Unpack
<1>8. ASSUME Place(c) PROVE TypeOK'
  <2>1. \E step \in Steps : Go(c, step)
    BY <1>8 DEF Place, Steps, Downloading
  <2>2. at' \in [Clients -> Steps] /\ call' \in [Clients -> Calls]
    BY <2>1, GoTypes
  <2>3. trouble' \in 0 .. MaxTrouble
    BY <1>8, TroubleTypes DEF Place
  <2>4. place' \in [Things -> Contents] /\ staged' \in [Things -> Contents]
    BY <1>8 DEF TypeOK, Is, Place, Contents, Downloading
  <2>5. \A t \in Things : staged[t] \in Torn => t \in Versions
    BY DEF TornIsKnown, Known, DeletingFrom, TypeOK
  <2>6. cut' \subseteq Versions
    BY <1>8, <2>5 DEF TypeOK, Is, Place, Downloading
  <2> QED
    BY <1>8, <2>2, <2>3, <2>4, <2>6 DEF TypeOK, Is, owedVars, cacheVars, configVars, Place
<1>9. ASSUME SaveRelease(c) PROVE TypeOK'
  <2>1. \E step \in Steps : Go(c, step)
    BY <1>9 DEF SaveRelease, Steps, Downloading
  <2>2. at' \in [Clients -> Steps] /\ call' \in [Clients -> Calls]
    BY <2>1, GoTypes
  <2>3. trouble' \in 0 .. MaxTrouble
    BY <1>9, TroubleTypes DEF SaveRelease
  <2>4. place' \in [Things -> Contents] /\ staged' \in [Things -> Contents]
    BY <1>9 DEF TypeOK, Is, owedVars, SaveRelease, Contents, Things
  <2> QED
    BY <1>9, <2>2, <2>3, <2>4 DEF TypeOK, Is, owedVars, cacheVars, configVars, SaveRelease
<1>10. ASSUME Clean(c) PROVE TypeOK'
  <2>1. \E step \in Steps : Go(c, step)
    BY <1>10 DEF Clean, Steps, Downloading
  <2>2. at' \in [Clients -> Steps] /\ call' \in [Clients -> Calls]
    BY <2>1, GoTypes
  <2> QED
    BY <1>10, <2>2 DEF TypeOK, Is, owedVars, cacheVars, configVars, Clean, Contents
<1>11. ASSUME End(c) PROVE TypeOK'
  <2>1. \E step \in Steps : Go(c, step)
    BY <1>11 DEF End, Steps, Downloading
  <2>2. at' \in [Clients -> Steps] /\ call' \in [Clients -> Calls]
    BY <2>1, GoTypes
  <2> QED
    BY <1>11, <2>2 DEF TypeOK, Is, owedVars, folderVars, cacheVars, configVars, End
<1>12. ASSUME Scan(c) PROVE TypeOK'
  <2>1. \E step \in Steps : Go(c, step)
    BY <1>12 DEF Scan, Steps, Downloading
  <2>2. at' \in [Clients -> Steps] /\ call' \in [Clients -> Calls]
    BY <2>1, GoTypes
  <2>3. scan' \in [Clients -> [Found -> Finds]]
    BY <1>12, DetectedTypes DEF TypeOK, Scan
  <2> QED
    BY <1>12, <2>2, <2>3 DEF TypeOK, Is, owedVars, folderVars, configVars, Scan
<1>13. ASSUME Store(c) PROVE TypeOK'
  <2>1. \E step \in Steps : Go(c, step)
    BY <1>13 DEF Store, Steps, Downloading, AfterScan
  <2>2. at' \in [Clients -> Steps] /\ call' \in [Clients -> Calls]
    BY <2>1, GoTypes
  <2>3. found' \in [Found -> Finds] /\ scan' \in [Clients -> [Found -> Finds]]
    BY <1>13, NothingTypes DEF TypeOK, Store
  <2> QED
    BY <1>13, <2>2, <2>3 DEF TypeOK, Is, owedVars, folderVars, configVars, Store
<1>14. ASSUME AddPHPVersion(c) PROVE TypeOK'
  <2>1. \E step \in Steps : Go(c, step)
    BY <1>14 DEF AddPHPVersion, Steps, Downloading, Added, NotAdded
  <2>2. at' \in [Clients -> Steps] /\ call' \in [Clients -> Calls]
    BY <2>1, GoTypes
  <2>3. trouble' \in 0 .. MaxTrouble
    BY <1>14, TroubleTypes DEF AddPHPVersion
  <2>4. available' \subseteq Versions /\ paths' \subseteq Versions
    BY <1>14, RegisterTypes DEF TypeOK, Is, owedVars, AddPHPVersion
  <2> QED
    BY <1>14, <2>2, <2>3, <2>4
      DEF TypeOK, Is, owedVars, Lock, Passing, folderVars, cacheVars, AddPHPVersion
<1>15. ASSUME RegisterFound(c) PROVE TypeOK'
  <2>1. \E step \in Steps : Go(c, step)
    BY <1>15 DEF RegisterFound, Steps, Downloading, Added, NotAdded
  <2>2. at' \in [Clients -> Steps] /\ call' \in [Clients -> Calls]
    BY <2>1, GoTypes
  <2>3. trouble' \in 0 .. MaxTrouble
    BY <1>15, TroubleTypes DEF RegisterFound
  <2>4. /\ available' \subseteq Versions /\ paths' \subseteq Versions
        /\ scan' \in [Clients -> [Found -> Finds]]
    BY <1>15, RegisterTypes, NothingTypes DEF TypeOK, Is, owedVars, RegisterFound
  <2> QED
    BY <1>15, <2>2, <2>3, <2>4
      DEF TypeOK, Is, owedVars, Lock, Unlock, folderVars, cacheVars, configVars, RegisterFound
<1>16. ASSUME SetPHPVersion(c) PROVE TypeOK'
  <2>1. \E step \in Steps : Go(c, step)
    BY <1>16 DEF SetPHPVersion, Steps, Downloading
  <2>2. at' \in [Clients -> Steps] /\ call' \in [Clients -> Calls]
    BY <2>1, GoTypes
  <2> QED
    BY <1>16, <2>2 DEF TypeOK, Is, owedVars, folderVars, cacheVars, configVars, SetPHPVersion
<1>17. ASSUME ChooseDefault(c) PROVE TypeOK'
  <2>1. \E step \in Steps : Go(c, step)
    BY <1>17 DEF ChooseDefault, Steps, Downloading
  <2>2. at' \in [Clients -> Steps] /\ call' \in [Clients -> Calls]
    BY <2>1, GoTypes
  <2>3. trouble' \in 0 .. MaxTrouble
    BY <1>17, TroubleTypes DEF ChooseDefault
  <2>4. default' \in Versions /\ available' \subseteq Versions
    BY <1>17 DEF TypeOK, Is, owedVars, ChooseDefault
  <2> QED
    BY <1>17, <2>2, <2>3, <2>4 DEF TypeOK, Is, owedVars, Passing, folderVars, cacheVars,
         ChooseDefault
<1>18. ASSUME UseVersion(c) PROVE TypeOK'
  <2>1. \E step \in Steps : Go(c, step)
    BY <1>18 DEF UseVersion, Steps, Downloading
  <2>2. at' \in [Clients -> Steps] /\ call' \in [Clients -> Calls]
    BY <2>1, GoTypes
  <2> QED
    BY <1>18, <2>2 DEF TypeOK, Is, owedVars, Passing, folderVars, cacheVars, UseVersion
<1>19. ASSUME RemovePHP(c) PROVE TypeOK'
  <2>1. \E step \in Steps : Go(c, step)
    BY <1>19 DEF RemovePHP, Steps, Downloading
  <2>2. at' \in [Clients -> Steps] /\ call' \in [Clients -> Calls]
    BY <2>1, GoTypes
  <2> QED
    BY <1>19, <2>2 DEF TypeOK, Is, owedVars, folderVars, cacheVars, configVars, RemovePHP
<1>20. ASSUME TakeAway(c) PROVE TypeOK'
  <2>1. \E step \in Steps : Go(c, step)
    BY <1>20 DEF TakeAway, Removes, Steps, Downloading
  <2>2. at' \in [Clients -> Steps] /\ call' \in [Clients -> Calls]
    BY <2>1, GoTypes
  <2>3. trouble' \in 0 .. MaxTrouble
    BY <1>20, TroubleTypes DEF TakeAway, Removes
  <2>4. scan' \in [Clients -> [Found -> Finds]] /\ hidden' \subseteq Versions
    BY <1>20 DEF TypeOK, Is, owedVars, TakeAway, Removes
  <2> QED
    BY <1>20, <2>2, <2>3, <2>4
      DEF TypeOK, Lock, Passing, folderVars, owedVars, TakeAway, Removes
<1>25. ASSUME DeleteSome(c) PROVE TypeOK'
  <2>1. place' \in [Things -> Contents] /\ staged' \in [Things -> Contents]
    BY <1>25, RestTypes DEF TypeOK, Is, owedVars, DeleteSome, Contents
  <2> QED
    BY <1>25, <2>1 DEF TypeOK, cacheVars, configVars, owedVars, DeleteSome
<1>26. ASSUME Delete(c) PROVE TypeOK'
  <2>1. \E step \in Steps : Go(c, step)
    BY <1>26 DEF Delete, Steps, Downloading
  <2>2. at' \in [Clients -> Steps] /\ call' \in [Clients -> Calls]
    BY <2>1, GoTypes
  <2>3. trouble' \in 0 .. MaxTrouble
    BY <1>26, TroubleTypes DEF Delete
  <2>4. /\ place' \in [Things -> Contents] /\ staged' \in [Things -> Contents]
        /\ left' \subseteq Versions
    BY <1>26, RemovalTypes DEF TypeOK, Is, owedVars, Delete
  <2>5. scan' \in [Clients -> [Found -> Finds]] /\ unsettled' \subseteq Versions
    BY <1>26, NothingTypes DEF TypeOK, Is, owedVars, Delete
  <2> QED
    BY <1>26, <2>2, <2>3, <2>4, <2>5 DEF TypeOK, Unlock, configVars, Delete
<1>21. ASSUME SettlePHP(c) PROVE TypeOK'
  <2>1. \E step \in Steps : Go(c, step)
    BY <1>21 DEF SettlePHP, Steps, Downloading
  <2>2. at' \in [Clients -> Steps] /\ call' \in [Clients -> Calls]
    BY <2>1, GoTypes
  <2>3. trouble' \in 0 .. MaxTrouble
    BY <1>21, TroubleTypes DEF SettlePHP
  <2>4. /\ available' \subseteq Versions /\ paths' \subseteq Versions
        /\ scan' \in [Clients -> [Found -> Finds]]
    BY <1>21, RegisterTypes, NothingTypes DEF TypeOK, Is, owedVars, SettlePHP
  <2> QED
    BY <1>21, <2>2, <2>3, <2>4 DEF TypeOK, Is, owedVars, Unlock, folderVars, SettlePHP
<1>22. ASSUME UnhidePHP(c) PROVE TypeOK'
  <2>1. \E step \in Steps : Go(c, step)
    BY <1>22 DEF UnhidePHP, Steps, Downloading
  <2>2. at' \in [Clients -> Steps] /\ call' \in [Clients -> Calls]
    BY <2>1, GoTypes
  <2>3. trouble' \in 0 .. MaxTrouble
    BY <1>22, TroubleTypes DEF UnhidePHP
  <2> QED
    BY <1>22, <2>2, <2>3 DEF TypeOK, Is, owedVars, Lock, Passing, folderVars, cacheVars, UnhidePHP
<1>23. ASSUME RegisterShown(c) PROVE TypeOK'
  <2>1. \E step \in Steps : Go(c, step)
    BY <1>23 DEF RegisterShown, Steps, Downloading
  <2>2. at' \in [Clients -> Steps] /\ call' \in [Clients -> Calls]
    BY <2>1, GoTypes
  <2>3. trouble' \in 0 .. MaxTrouble
    BY <1>23, TroubleTypes DEF RegisterShown
  <2>4. /\ available' \subseteq Versions /\ paths' \subseteq Versions
        /\ scan' \in [Clients -> [Found -> Finds]]
    BY <1>23, RegisterTypes, NothingTypes DEF TypeOK, Is, owedVars, RegisterShown
  <2> QED
    BY <1>23, <2>2, <2>3, <2>4 DEF TypeOK, Is, owedVars, Unlock, folderVars, RegisterShown
<1>24. ASSUME PackageInstall(c) PROVE TypeOK'
  <2>1. \E step \in Steps : Go(c, step)
    BY <1>24 DEF PackageInstall, Steps, Downloading
  <2>2. at' \in [Clients -> Steps] /\ call' \in [Clients -> Calls]
    BY <2>1, GoTypes
  <2>3. trouble' \in 0 .. MaxTrouble
    BY <1>24, TroubleTypes DEF PackageInstall
  <2> QED
    BY <1>24, <2>2, <2>3 DEF TypeOK, Is, owedVars, cacheVars, configVars, PackageInstall, Found
<1> QED
  BY <1>2, <1>3, <1>4, <1>5, <1>6, <1>7, <1>8, <1>9, <1>10, <1>11, <1>12, <1>13, <1>14,
       <1>15, <1>16, <1>17, <1>18, <1>19, <1>20, <1>21, <1>22, <1>23, <1>24, <1>25, <1>26
    DEF Download, Registry

LEMMA ServeTypes ==
  ASSUME TypeOK, NEW c \in Clients, NEW o \in Calls, Serve(c, o)
  PROVE  TypeOK'
<1>1. FirstStep(o) \in Steps
  BY CallForms DEF FirstStep, Steps, Downloading
<1>2. calls' \in 0 .. MaxCalls
  BY BoundsAssumption DEF TypeOK, Serve
<1> QED
  BY <1>1, <1>2 DEF TypeOK, Serve, folderVars, cacheVars, configVars, owedVars

LEMMA CrashTypes == TypeOK /\ Crash => TypeOK'
<1> SUFFICES ASSUME TypeOK, Crash PROVE TypeOK'
  OBVIOUS
<1>1. trouble' \in 0 .. MaxTrouble
  BY TroubleTypes DEF Crash
<1>2. /\ at' \in [Clients -> Steps] /\ call' \in [Clients -> Calls]
      /\ scan' \in [Clients -> [Found -> Finds]]
  BY IdleIsACall, NothingTypes DEF Crash, Steps
<1>3. Detected' \in [Found -> Finds]
  BY DEF Detected, DetectsWebserver, DetectsPHP, Vendored, OnMachine, Finds
<1>5. cut' \subseteq Versions
  BY DEF TypeOK, Crash, BeingRemoved
<1>4. staged' \in [Things -> Contents]
  BY DEF Crash, Contents
<1> QED
  BY <1>1, <1>2, <1>3, <1>4, <1>5 DEF TypeOK, Crash, configVars

LEMMA NextTypes == TypeOK /\ Shape /\ TornIsKnown /\ [Next]_vars => TypeOK'
<1> SUFFICES ASSUME TypeOK, Shape, TornIsKnown, [Next]_vars PROVE TypeOK'
  OBVIOUS
<1>1. CASE UNCHANGED vars
  BY <1>1 DEF TypeOK, vars, folderVars, cacheVars, configVars, owedVars
<1> QED
  BY <1>1, StepTypes, ServeTypes, CrashTypes DEF Next

-----------------------------------------------------------------------------
(* Each call's own part of the invariant.                                  *)
LEMMA InitShape == Init => Shape
<1> SUFFICES ASSUME Init, NEW c \in Clients PROVE ShapeOf(c)
  BY DEF Shape
<1> QED
  BY NamesAssumption DEF Init, ShapeOf, Downloading

LEMMA ShapeOthers ==
  ASSUME Shape, NEW c \in Clients, ShapeOf(c)',
         \A d \in Clients \ {c} :
           at'[d] = at[d] /\ call'[d] = call[d] /\ (mu' = d <=> mu = d)
  PROVE  Shape'
<1> SUFFICES ASSUME NEW d \in Clients PROVE ShapeOf(d)'
  BY DEF Shape
<1>1. CASE d # c
  BY <1>1 DEF Shape, ShapeOf
<1> QED
  BY <1>1

LEMMA StepShape ==
  ASSUME TypeOK, Shape, NEW c \in Clients, Download(c) \/ Registry(c) \/ PackageInstall(c)
  PROVE  Shape'
<1>1. ShapeOf(c)
  BY DEF Shape
<1>2. mu \in Clients \cup {Nobody} /\ Nobody \notin Clients
  BY NamesAssumption DEF TypeOK
<1>3. at \in [Clients -> Steps] /\ call \in [Clients -> Calls]
  BY DEF TypeOK
<1>4. /\ call[c] = Ask(call[c].does, call[c].thing)
      /\ call[c].does = "install" => call[c].thing \in Things
      /\ call[c].does = "detect" => call[c].thing \in {PHP, Webserver}
      /\ call[c].does \notin {"install", "detect"} => call[c].thing \in Versions
      /\ call[c].does \in {"install", "detect", "add", "set", "use", "remove", "unhide"}
  BY <1>1, WhatIsThere, CallForms
<1>5. ASSUME Look(c) PROVE Shape'
  <2>1. ShapeOf(c)'
    BY <1>1, <1>2, <1>3, <1>4, <1>5 DEF ShapeOf, Look, Go, Is, Downloading, Found, Things
  <2>2. \A d \in Clients \ {c} :
          at'[d] = at[d] /\ call'[d] = call[d] /\ (mu' = d <=> mu = d)
    BY <1>1, <1>2, <1>3, <1>5 DEF ShapeOf, Look, Go, Is
  <2> QED
    BY <2>1, <2>2, ShapeOthers
<1>6. ASSUME Begin(c) PROVE Shape'
  <2>1. ShapeOf(c)'
    BY <1>1, <1>2, <1>3, <1>4, <1>6 DEF ShapeOf, Begin, Go, Is, Downloading, Found, Things
  <2>2. \A d \in Clients \ {c} :
          at'[d] = at[d] /\ call'[d] = call[d] /\ (mu' = d <=> mu = d)
    BY <1>1, <1>2, <1>3, <1>6 DEF ShapeOf, Begin, Go, Is
  <2> QED
    BY <2>1, <2>2, ShapeOthers
<1>7. ASSUME DownloadUpdate(c) PROVE Shape'
  <2>1. ShapeOf(c)'
    BY <1>1, <1>2, <1>3, <1>4, <1>7
      DEF ShapeOf, DownloadUpdate, Go, Is, Downloading, Found, Things
  <2>2. \A d \in Clients \ {c} :
          at'[d] = at[d] /\ call'[d] = call[d] /\ (mu' = d <=> mu = d)
    BY <1>1, <1>2, <1>3, <1>7 DEF ShapeOf, DownloadUpdate, Go, Is
  <2> QED
    BY <2>1, <2>2, ShapeOthers
<1>8. ASSUME Stage(c) PROVE Shape'
  <2>1. ShapeOf(c)'
    BY <1>1, <1>2, <1>3, <1>4, <1>8 DEF ShapeOf, Stage, Go, Is, Plan, Downloading, Found, Things
  <2>2. \A d \in Clients \ {c} :
          at'[d] = at[d] /\ call'[d] = call[d] /\ (mu' = d <=> mu = d)
    BY <1>1, <1>2, <1>3, <1>8 DEF ShapeOf, Stage, Go, Is
  <2> QED
    BY <2>1, <2>2, ShapeOthers
<1>9. ASSUME Receive(c) PROVE Shape'
  <2>1. ShapeOf(c)'
    BY <1>1, <1>2, <1>3, <1>4, <1>9 DEF ShapeOf, Receive, Go, Is, Downloading, Found, Things
  <2>2. \A d \in Clients \ {c} :
          at'[d] = at[d] /\ call'[d] = call[d] /\ (mu' = d <=> mu = d)
    BY <1>1, <1>2, <1>3, <1>9 DEF ShapeOf, Receive, Go, Is
  <2> QED
    BY <2>1, <2>2, ShapeOthers
<1>10. ASSUME Unpack(c) PROVE Shape'
  <2>1. ShapeOf(c)'
    BY <1>1, <1>2, <1>3, <1>4, <1>10
      DEF ShapeOf, Unpack, Go, Is, Downloading, Found, Things
  <2>2. \A d \in Clients \ {c} :
          at'[d] = at[d] /\ call'[d] = call[d] /\ (mu' = d <=> mu = d)
    BY <1>1, <1>2, <1>3, <1>10 DEF ShapeOf, Unpack, Go, Is
  <2> QED
    BY <2>1, <2>2, ShapeOthers
<1>11. ASSUME Place(c) PROVE Shape'
  <2>1. ShapeOf(c)'
    BY <1>1, <1>2, <1>3, <1>4, <1>11 DEF ShapeOf, Place, Go, Is, Downloading, Found, Things
  <2>2. \A d \in Clients \ {c} :
          at'[d] = at[d] /\ call'[d] = call[d] /\ (mu' = d <=> mu = d)
    BY <1>1, <1>2, <1>3, <1>11 DEF ShapeOf, Place, Go, Is
  <2> QED
    BY <2>1, <2>2, ShapeOthers
<1>12. ASSUME SaveRelease(c) PROVE Shape'
  <2>1. ShapeOf(c)'
    BY <1>1, <1>2, <1>3, <1>4, <1>12
      DEF ShapeOf, SaveRelease, Go, Is, Downloading, Found, Things
  <2>2. \A d \in Clients \ {c} :
          at'[d] = at[d] /\ call'[d] = call[d] /\ (mu' = d <=> mu = d)
    BY <1>1, <1>2, <1>3, <1>12 DEF ShapeOf, SaveRelease, Go, Is
  <2> QED
    BY <2>1, <2>2, ShapeOthers
<1>13. ASSUME Clean(c) PROVE Shape'
  <2>1. ShapeOf(c)'
    BY <1>1, <1>2, <1>3, <1>4, <1>13 DEF ShapeOf, Clean, Go, Is, Downloading, Found, Things
  <2>2. \A d \in Clients \ {c} :
          at'[d] = at[d] /\ call'[d] = call[d] /\ (mu' = d <=> mu = d)
    BY <1>1, <1>2, <1>3, <1>13 DEF ShapeOf, Clean, Go, Is
  <2> QED
    BY <2>1, <2>2, ShapeOthers
<1>14. ASSUME End(c) PROVE Shape'
  <2>1. ShapeOf(c)'
    BY <1>1, <1>2, <1>3, <1>4, <1>14 DEF ShapeOf, End, Go, Is, Downloading, Found, Things
  <2>2. \A d \in Clients \ {c} :
          at'[d] = at[d] /\ call'[d] = call[d] /\ (mu' = d <=> mu = d)
    BY <1>1, <1>2, <1>3, <1>14 DEF ShapeOf, End, Go, Is
  <2> QED
    BY <2>1, <2>2, ShapeOthers
<1>15. ASSUME Scan(c) PROVE Shape'
  <2>1. ShapeOf(c)'
    BY <1>1, <1>2, <1>3, <1>4, <1>15 DEF ShapeOf, Scan, Go, Is, Downloading, Found, Things
  <2>2. \A d \in Clients \ {c} :
          at'[d] = at[d] /\ call'[d] = call[d] /\ (mu' = d <=> mu = d)
    BY <1>1, <1>2, <1>3, <1>15 DEF ShapeOf, Scan, Go, Is
  <2> QED
    BY <2>1, <2>2, ShapeOthers
<1>16. ASSUME Store(c) PROVE Shape'
  <2> DEFINE o == call[c]
  <2>0. Is(c, "store") /\ mu' = mu
    BY <1>16 DEF Store
  <2>1. ShapeOf(c)'
    <3>1. CASE mu = c
      <4>1. o.thing \in Versions /\ o.does \in {"install", "add", "set", "remove", "unhide"}
        BY <1>1, <1>4, <2>0, <3>1 DEF ShapeOf, Is
      <4>2. \/ o.does = "remove" /\ Go(c, "settle")
            \/ o.does = "unhide" /\ Go(c, "shown")
            \/ o.does \in {"install", "add", "set"} /\ Go(c, "register")
        <5>1. Go(c, AfterScan(c))
          BY <1>16 DEF Store
        <5>2. AfterScan(c) = CASE o.does = "remove" -> "settle" [] o.does = "unhide" -> "shown"
                               [] OTHER -> "register"
          BY <3>1 DEF AfterScan
        <5> QED
          BY <4>1, <5>1, <5>2
      <4> QED
        BY <1>3, <2>0, <3>1, <4>1, <4>2 DEF ShapeOf, Go, Downloading
    <3>2. CASE mu # c
      <4>1. o.does = "detect" \/ (o.does = "install" /\ o.thing \in Found)
        BY <1>1, <2>0, <3>2 DEF ShapeOf, Is
      <4>2. \/ Go(c, "idle")
            \/ o.does = "install" /\ Go(c, "clean")
            \/ o.does = "install" /\ o.thing \in Versions /\ Go(c, "add")
        <5>1. Go(c, AfterScan(c))
          BY <1>16 DEF Store
        <5>2. AfterScan(c) = IF o.does = "detect" THEN "idle"
                             ELSE IF o.thing = Webserver THEN "clean" ELSE "add"
          BY <3>2 DEF AfterScan
        <5> QED
          BY <4>1, <5>1, <5>2 DEF Found
      <4> QED
        BY <1>3, <2>0, <3>2, <4>2 DEF ShapeOf, Go, Downloading
    <3> QED
      BY <3>1, <3>2
  <2>2. \A d \in Clients \ {c} :
          at'[d] = at[d] /\ call'[d] = call[d] /\ (mu' = d <=> mu = d)
    BY <1>3, <1>16, <2>0 DEF Store, Go
  <2> QED
    BY <2>1, <2>2, ShapeOthers
<1>17. ASSUME AddPHPVersion(c) PROVE Shape'
  <2>1. ShapeOf(c)'
    BY <1>1, <1>2, <1>3, <1>4, <1>17
      DEF ShapeOf, AddPHPVersion, Go, Is, Lock, Passing, Added, NotAdded, Downloading,
         Found, Things
  <2>2. \A d \in Clients \ {c} :
          at'[d] = at[d] /\ call'[d] = call[d] /\ (mu' = d <=> mu = d)
    BY <1>1, <1>2, <1>3, <1>17 DEF ShapeOf, AddPHPVersion, Go, Is, Lock, Passing
  <2> QED
    BY <2>1, <2>2, ShapeOthers
<1>18. ASSUME RegisterFound(c) PROVE Shape'
  <2>1. ShapeOf(c)'
    BY <1>1, <1>2, <1>3, <1>4, <1>18
      DEF ShapeOf, RegisterFound, Go, Is, Lock, Unlock, Added, NotAdded, Downloading, Found,
         Things
  <2>2. \A d \in Clients \ {c} :
          at'[d] = at[d] /\ call'[d] = call[d] /\ (mu' = d <=> mu = d)
    BY <1>1, <1>2, <1>3, <1>18 DEF ShapeOf, RegisterFound, Go, Is, Lock, Unlock
  <2> QED
    BY <2>1, <2>2, ShapeOthers
<1>19. ASSUME SetPHPVersion(c) PROVE Shape'
  <2>1. ShapeOf(c)'
    BY <1>1, <1>2, <1>3, <1>4, <1>19
      DEF ShapeOf, SetPHPVersion, Go, Is, Downloading, Found, Things
  <2>2. \A d \in Clients \ {c} :
          at'[d] = at[d] /\ call'[d] = call[d] /\ (mu' = d <=> mu = d)
    BY <1>1, <1>2, <1>3, <1>19 DEF ShapeOf, SetPHPVersion, Go, Is
  <2> QED
    BY <2>1, <2>2, ShapeOthers
<1>20. ASSUME ChooseDefault(c) PROVE Shape'
  <2>1. ShapeOf(c)'
    BY <1>1, <1>2, <1>3, <1>4, <1>20
      DEF ShapeOf, ChooseDefault, Go, Is, Passing, Downloading, Found, Things
  <2>2. \A d \in Clients \ {c} :
          at'[d] = at[d] /\ call'[d] = call[d] /\ (mu' = d <=> mu = d)
    BY <1>1, <1>2, <1>3, <1>20 DEF ShapeOf, ChooseDefault, Go, Is, Passing
  <2> QED
    BY <2>1, <2>2, ShapeOthers
<1>21. ASSUME UseVersion(c) PROVE Shape'
  <2>1. ShapeOf(c)'
    BY <1>1, <1>2, <1>3, <1>4, <1>21
      DEF ShapeOf, UseVersion, Go, Is, Passing, Downloading, Found, Things
  <2>2. \A d \in Clients \ {c} :
          at'[d] = at[d] /\ call'[d] = call[d] /\ (mu' = d <=> mu = d)
    BY <1>1, <1>2, <1>3, <1>21 DEF ShapeOf, UseVersion, Go, Is, Passing
  <2> QED
    BY <2>1, <2>2, ShapeOthers
<1>22. ASSUME RemovePHP(c) PROVE Shape'
  <2>1. ShapeOf(c)'
    BY <1>1, <1>2, <1>3, <1>4, <1>22 DEF ShapeOf, RemovePHP, Go, Is, Downloading, Found, Things
  <2>2. \A d \in Clients \ {c} :
          at'[d] = at[d] /\ call'[d] = call[d] /\ (mu' = d <=> mu = d)
    BY <1>1, <1>2, <1>3, <1>22 DEF ShapeOf, RemovePHP, Go, Is
  <2> QED
    BY <2>1, <2>2, ShapeOthers
<1>23. ASSUME TakeAway(c) PROVE Shape'
  <2>1. ShapeOf(c)'
    BY <1>1, <1>2, <1>3, <1>4, <1>23
      DEF ShapeOf, TakeAway, Removes, Go, Is, Lock, Passing, Downloading, Found, Things
  <2>2. \A d \in Clients \ {c} :
          at'[d] = at[d] /\ call'[d] = call[d] /\ (mu' = d <=> mu = d)
    BY <1>1, <1>2, <1>3, <1>23 DEF ShapeOf, TakeAway, Removes, Go, Is, Lock, Passing
  <2> QED
    BY <2>1, <2>2, ShapeOthers
<1>28. ASSUME DeleteSome(c) PROVE Shape'
  BY <1>28 DEF DeleteSome, Shape, ShapeOf
<1>29. ASSUME Delete(c) PROVE Shape'
  <2>1. ShapeOf(c)'
    BY <1>1, <1>2, <1>3, <1>4, <1>29
      DEF ShapeOf, Delete, Go, Is, Unlock, Downloading, Found, Things
  <2>2. \A d \in Clients \ {c} :
          at'[d] = at[d] /\ call'[d] = call[d] /\ (mu' = d <=> mu = d)
    BY <1>1, <1>2, <1>3, <1>29 DEF ShapeOf, Delete, Go, Is, Unlock
  <2> QED
    BY <2>1, <2>2, ShapeOthers
<1>24. ASSUME SettlePHP(c) PROVE Shape'
  <2>1. ShapeOf(c)'
    BY <1>1, <1>2, <1>3, <1>4, <1>24
      DEF ShapeOf, SettlePHP, Go, Is, Unlock, Downloading, Found, Things
  <2>2. \A d \in Clients \ {c} :
          at'[d] = at[d] /\ call'[d] = call[d] /\ (mu' = d <=> mu = d)
    BY <1>1, <1>2, <1>3, <1>24 DEF ShapeOf, SettlePHP, Go, Is, Unlock
  <2> QED
    BY <2>1, <2>2, ShapeOthers
<1>25. ASSUME UnhidePHP(c) PROVE Shape'
  <2>1. ShapeOf(c)'
    BY <1>1, <1>2, <1>3, <1>4, <1>25
      DEF ShapeOf, UnhidePHP, Go, Is, Lock, Passing, Downloading, Found, Things
  <2>2. \A d \in Clients \ {c} :
          at'[d] = at[d] /\ call'[d] = call[d] /\ (mu' = d <=> mu = d)
    BY <1>1, <1>2, <1>3, <1>25 DEF ShapeOf, UnhidePHP, Go, Is, Lock, Passing
  <2> QED
    BY <2>1, <2>2, ShapeOthers
<1>26. ASSUME RegisterShown(c) PROVE Shape'
  <2>1. ShapeOf(c)'
    BY <1>1, <1>2, <1>3, <1>4, <1>26
      DEF ShapeOf, RegisterShown, Go, Is, Unlock, Downloading, Found, Things
  <2>2. \A d \in Clients \ {c} :
          at'[d] = at[d] /\ call'[d] = call[d] /\ (mu' = d <=> mu = d)
    BY <1>1, <1>2, <1>3, <1>26 DEF ShapeOf, RegisterShown, Go, Is, Unlock
  <2> QED
    BY <2>1, <2>2, ShapeOthers
<1>27. ASSUME PackageInstall(c) PROVE Shape'
  <2>1. ShapeOf(c)'
    BY <1>1, <1>2, <1>3, <1>4, <1>27
      DEF ShapeOf, PackageInstall, Go, Is, Downloading, Found, Things
  <2>2. \A d \in Clients \ {c} :
          at'[d] = at[d] /\ call'[d] = call[d] /\ (mu' = d <=> mu = d)
    BY <1>1, <1>2, <1>3, <1>27 DEF ShapeOf, PackageInstall, Go, Is
  <2> QED
    BY <2>1, <2>2, ShapeOthers
<1> QED
  BY <1>5, <1>6, <1>7, <1>8, <1>9, <1>10, <1>11, <1>12, <1>13, <1>14, <1>15, <1>16, <1>17,
       <1>18, <1>19, <1>20, <1>21, <1>22, <1>23, <1>24, <1>25, <1>26, <1>27, <1>28, <1>29
    DEF Download, Registry

LEMMA NextShape == TypeOK /\ Shape /\ [Next]_vars => Shape'
<1> SUFFICES ASSUME TypeOK, Shape, [Next]_vars PROVE Shape'
  OBVIOUS
<1>1. CASE UNCHANGED vars
  BY <1>1 DEF vars, Shape, ShapeOf
<1>2. ASSUME NEW c \in Clients, NEW o \in Calls, Serve(c, o) PROVE Shape'
  <2>1. ShapeOf(c) /\ mu' = mu /\ mu # c
    BY <1>2 DEF Shape, ShapeOf, Serve, Is
  <2>2. /\ at' = [at EXCEPT ![c] = FirstStep(o)] /\ call' = [call EXCEPT ![c] = o]
        /\ at \in [Clients -> Steps] /\ call \in [Clients -> Calls]
    BY <1>2 DEF Serve, TypeOK
  <2>3. \/ FirstStep(o) = "scan" /\ o.does = "detect"
        \/ FirstStep(o) = "update" /\ o.does = "install" /\ o.thing = Release
        \/ FirstStep(o) = "look" /\ o.does = "install"
        \/ FirstStep(o) = o.does /\ o.does \in {"add", "set", "use", "remove", "unhide"}
    BY CallForms DEF FirstStep
  <2>4. o.does \notin {"install", "detect"} => o.thing \in Versions
    BY CallForms
  <2>5. ShapeOf(c)'
    BY <2>1, <2>2, <2>3, <2>4 DEF ShapeOf, Downloading
  <2> QED
    BY <2>1, <2>2, <2>5, ShapeOthers
<1>3. CASE Crash
  BY <1>3, NamesAssumption DEF Crash, Shape, ShapeOf, Downloading
<1> QED
  BY <1>1, <1>2, <1>3, StepShape DEF Next

-----------------------------------------------------------------------------
(* Downloads apart, and what they put together.                            *)
Busy(c) ==
  /\ call[c].does = "install"
  /\ at[c] \in Downloading \cup {"scan", "store", "add", "register"}

LEMMA BusyIsDownloading ==
  ASSUME NEW c \in Clients, NEW t
  PROVE  /\ IsDownloading(c, t) <=> Busy(c) /\ call[c] = Ask("install", t)
         /\ IsDownloading(c, t)' <=> Busy(c)' /\ call'[c] = Ask("install", t)
BY DEF IsDownloading, Busy, Ask

(* A step of c that neither begins nor ends a download, and at most changes*)
(* what it is putting together, or takes a finished folder away.           *)
QuietStep(c) ==
  /\ flag' = flag
  /\ Busy(c)' <=> Busy(c)
  /\ Busy(c) => call'[c] = call[c]
  /\ \A d \in Clients \ {c} : at'[d] = at[d] /\ call'[d] = call[d]
  /\ \A t \in Things :
       \/ staged'[t] = staged[t]
       \/ Busy(c) /\ call[c].thing = t
       \/ staged[t] \in Complete \cup Torn /\ staged'[t] \in {"none"} \cup Torn
  /\ StagedOf(c)'

LEMMA QuietStepKeeps ==
  ASSUME TypeOK, Shape, DownloadsApart, StagedFits, NEW c \in Clients, QuietStep(c)
  PROVE  DownloadsApart' /\ StagedFits'
<1>1. ASSUME NEW d \in Clients, NEW t \in Things
      PROVE  IsDownloading(d, t)' <=> IsDownloading(d, t)
  <2>1. CASE d = c
    BY <2>1, BusyIsDownloading DEF QuietStep
  <2>2. CASE d # c
    BY <2>2 DEF QuietStep, IsDownloading
  <2> QED
    BY <2>1, <2>2
<1>2. ASSUME NEW d \in Clients, Busy(d)
      PROVE  call[d].thing \in Things /\ IsDownloading(d, call[d].thing)
  BY <1>2, CallForms, BusyIsDownloading DEF TypeOK, Busy
<1>3. ASSUME NEW t \in Things, staged'[t] # "none" PROVE t \in flag'
  <2>1. staged[t] # "none" \/ (Busy(c) /\ call[c].thing = t)
    BY <1>3 DEF QuietStep, Torn, Complete
  <2> QED
    BY <1>2, <2>1 DEF QuietStep, DownloadsApart
<1>4. DownloadsApart'
  BY <1>1, <1>3 DEF QuietStep, DownloadsApart
<1>5. ASSUME NEW d \in Clients \ {c} PROVE StagedOf(d)'
  <2> DEFINE t == call[d].thing
  <2>1. at'[d] = at[d] /\ call'[d] = call[d] /\ StagedOf(d)
    BY DEF QuietStep, StagedFits
  <2>2. SUFFICES ASSUME call[d].does = "install",
                        at[d] \in {"stage", "end", "receive", "unpack", "place"}
                 PROVE  StagedOf(d)'
    BY <2>1 DEF StagedOf
  <2>3. Busy(d)
    BY <2>2 DEF Busy, Downloading
  <2>4. ~(Busy(c) /\ call[c].thing = t)
    BY <1>2, <2>3 DEF DownloadsApart
  <2>5. \/ staged'[t] = staged[t]
        \/ staged[t] \in Complete \cup Torn /\ staged'[t] \in {"none"} \cup Torn
    BY <1>2, <2>3, <2>4 DEF QuietStep
  <2> QED
    BY <2>1, <2>2, <2>5 DEF StagedOf, Torn, Complete, Parts
<1> QED
  BY <1>4, <1>5 DEF QuietStep, StagedFits

LEMMA InitApart == Init => DownloadsApart /\ StagedFits
<1> SUFFICES ASSUME Init PROVE DownloadsApart /\ StagedFits
  OBVIOUS
<1>1. DownloadsApart
  BY DEF Init, DownloadsApart, IsDownloading, Downloading
<1>2. StagedFits
  BY DEF Init, StagedFits, StagedOf
<1> QED
  BY <1>1, <1>2

LEMMA StepQuiet ==
  ASSUME TypeOK, Shape, DownloadsApart, StagedFits, NEW c \in Clients,
         \/ Look(c) \/ Stage(c) \/ Receive(c) \/ Unpack(c)
         \/ Place(c) \/ SaveRelease(c) \/ Clean(c) \/ PackageInstall(c) \/ Registry(c)
  PROVE  QuietStep(c)
<1>1. ShapeOf(c) /\ StagedOf(c)
  BY DEF Shape, StagedFits
<1>2. /\ at \in [Clients -> Steps] /\ call \in [Clients -> Calls]
      /\ staged \in [Things -> Contents]
  BY DEF TypeOK
<1>3. /\ call[c] = Ask(call[c].does, call[c].thing)
      /\ call[c].does = "install" => call[c].thing \in Things
      /\ call[c].does \notin {"install", "detect"} => call[c].thing \in Versions
      /\ Idle.does = "detect"
  BY <1>2, CallForms DEF Idle, Ask
<1>4. ASSUME Look(c) PROVE QuietStep(c)
  <2>1. /\ flag' = flag
        /\ \A d \in Clients \ {c} : at'[d] = at[d] /\ call'[d] = call[d]
    BY <1>2, <1>4 DEF Look, Go
  <2>2. (Busy(c)' <=> Busy(c)) /\ (Busy(c) => call'[c] = call[c])
    BY <1>1, <1>2, <1>3, <1>4 DEF Look, Go, Is, ShapeOf, Busy, Downloading
  <2>3. \A t \in Things :
          \/ staged'[t] = staged[t]
          \/ Busy(c) /\ call[c].thing = t
          \/ staged[t] \in Complete \cup Torn /\ staged'[t] \in {"none"} \cup Torn
    BY <1>4 DEF Look, folderVars
  <2>4. StagedOf(c)'
    BY <1>1, <1>2, <1>3, <1>4
      DEF Look, Go, Is, ShapeOf, StagedOf, Downloading, Torn, Complete, Parts, Contents, folderVars
  <2> QED
    BY <2>1, <2>2, <2>3, <2>4 DEF QuietStep
<1>5. ASSUME Stage(c) PROVE QuietStep(c)
  <2>1. /\ flag' = flag
        /\ \A d \in Clients \ {c} : at'[d] = at[d] /\ call'[d] = call[d]
    BY <1>2, <1>5 DEF Stage, Go
  <2>2. (Busy(c)' <=> Busy(c)) /\ (Busy(c) => call'[c] = call[c])
    BY <1>1, <1>2, <1>3, <1>5 DEF Stage, Go, Is, Plan, ShapeOf, Busy, Downloading
  <2>3. \A t \in Things :
          \/ staged'[t] = staged[t]
          \/ Busy(c) /\ call[c].thing = t
          \/ staged[t] \in Complete \cup Torn /\ staged'[t] \in {"none"} \cup Torn
    BY <1>1, <1>2, <1>3, <1>5 DEF Stage, Is, ShapeOf, Busy, Downloading
  <2>4. StagedOf(c)'
    <3>1. call'[c] = call[c] /\ call[c].does = "install" /\ staged[call[c].thing] = "none"
      BY <1>1, <1>2, <1>3, <1>5 DEF Stage, Go, Is, Plan, ShapeOf, StagedOf, Downloading
    <3>2. \/ at'[c] \in {"ask", "receive"} /\ staged'[call[c].thing] = "empty"
          \/ at'[c] = "end" /\ staged' = staged
      BY <1>2, <1>3, <1>5, <3>1 DEF Stage, Go, Plan
    <3> QED
      BY <3>1, <3>2 DEF StagedOf
  <2> QED
    BY <2>1, <2>2, <2>3, <2>4 DEF QuietStep
<1>6. ASSUME Receive(c) PROVE QuietStep(c)
  <2>1. /\ flag' = flag
        /\ \A d \in Clients \ {c} : at'[d] = at[d] /\ call'[d] = call[d]
    BY <1>2, <1>6 DEF Receive, Go
  <2>2. (Busy(c)' <=> Busy(c)) /\ (Busy(c) => call'[c] = call[c])
    BY <1>1, <1>2, <1>3, <1>6 DEF Receive, Go, Is, ShapeOf, Busy, Downloading
  <2>3. \A t \in Things :
          \/ staged'[t] = staged[t]
          \/ Busy(c) /\ call[c].thing = t
          \/ staged[t] \in Complete \cup Torn /\ staged'[t] \in {"none"} \cup Torn
    BY <1>6 DEF Receive, folderVars
  <2>4. StagedOf(c)'
    BY <1>1, <1>2, <1>3, <1>6
      DEF Receive, Go, Is, ShapeOf, StagedOf, Downloading, Torn, Complete, Parts, Contents,
         folderVars
  <2> QED
    BY <2>1, <2>2, <2>3, <2>4 DEF QuietStep
<1>7. ASSUME Unpack(c) PROVE QuietStep(c)
  <2>1. /\ flag' = flag
        /\ \A d \in Clients \ {c} : at'[d] = at[d] /\ call'[d] = call[d]
    BY <1>2, <1>7 DEF Unpack, Go
  <2>0. at[c] = "unpack" /\ \E step \in {"receive", "place", "clean"} : Go(c, step)
    BY <1>7 DEF Unpack, Is
  <2>2. (Busy(c)' <=> Busy(c)) /\ (Busy(c) => call'[c] = call[c])
    BY <1>1, <1>2, <1>3, <2>0 DEF Go, Busy, Downloading, ShapeOf
  <2>5. Busy(c)
    BY <1>1, <2>0 DEF Busy, Downloading, ShapeOf
  <2>6. \A t \in Things \ {call[c].thing} : staged'[t] = staged[t]
    BY <1>2, <1>7 DEF Unpack
  <2>3. \A t \in Things :
          \/ staged'[t] = staged[t]
          \/ Busy(c) /\ call[c].thing = t
          \/ staged[t] \in Complete \cup Torn /\ staged'[t] \in {"none"} \cup Torn
    BY <2>5, <2>6
  <2>7. call[c].thing \in Things /\ at'[c] \in {"receive", "place", "clean"} /\ call' = call
    BY <1>1, <1>2, <1>3, <2>0 DEF ShapeOf, Downloading, Go
  <2>8. \/ /\ staged'[call[c].thing] \in Parts \cup Complete
           /\ at'[c] = IF staged'[call[c].thing] \in Parts THEN "receive" ELSE "place"
        \/ at'[c] = "clean"
    <3>1. CASE Go(c, "clean")
      BY <1>2, <3>1 DEF Go
    <3>2. CASE ~Go(c, "clean")
      <4>1. PICK content \in IF body[c] = "garbled" THEN Altered(call[c].thing)
                             ELSE {NextPart(call[c].thing)} :
                /\ staged' = [staged EXCEPT ![call[c].thing] = content]
                /\ Go(c, IF content \in Parts THEN "receive" ELSE "place")
        BY <1>7, <3>2 DEF Unpack
      <4>2. content \in Parts \cup Complete
        BY <4>1 DEF Altered, NextPart, Parts, Complete
      <4> QED
        BY <1>2, <2>7, <4>1, <4>2 DEF Go
    <3> QED
      BY <3>1, <3>2
  <2>4. StagedOf(c)'
    BY <2>7, <2>8 DEF StagedOf
  <2> QED
    BY <2>1, <2>2, <2>3, <2>4 DEF QuietStep
<1>8. ASSUME Place(c) PROVE QuietStep(c)
  <2>1. /\ flag' = flag
        /\ \A d \in Clients \ {c} : at'[d] = at[d] /\ call'[d] = call[d]
    BY <1>2, <1>8 DEF Place, Go
  <2>2. (Busy(c)' <=> Busy(c)) /\ (Busy(c) => call'[c] = call[c])
    BY <1>1, <1>2, <1>3, <1>8 DEF Place, Go, Is, ShapeOf, Busy, Downloading
  <2>3. \A t \in Things :
          \/ staged'[t] = staged[t]
          \/ Busy(c) /\ call[c].thing = t
          \/ staged[t] \in Complete \cup Torn /\ staged'[t] \in {"none"} \cup Torn
    BY <1>1, <1>2, <1>3, <1>8 DEF Place, Is, ShapeOf, Busy, Downloading
  <2>4. StagedOf(c)'
    BY <1>1, <1>2, <1>3, <1>8
      DEF Place, Go, Is, ShapeOf, StagedOf, Downloading, Torn, Complete, Parts, Contents, folderVars
  <2> QED
    BY <2>1, <2>2, <2>3, <2>4 DEF QuietStep
<1>9. ASSUME SaveRelease(c) PROVE QuietStep(c)
  <2>1. /\ flag' = flag
        /\ \A d \in Clients \ {c} : at'[d] = at[d] /\ call'[d] = call[d]
    BY <1>2, <1>9 DEF SaveRelease, Go
  <2>2. (Busy(c)' <=> Busy(c)) /\ (Busy(c) => call'[c] = call[c])
    BY <1>1, <1>2, <1>3, <1>9 DEF SaveRelease, Go, Is, ShapeOf, Busy, Downloading
  <2>3. \A t \in Things :
          \/ staged'[t] = staged[t]
          \/ Busy(c) /\ call[c].thing = t
          \/ staged[t] \in Complete \cup Torn /\ staged'[t] \in {"none"} \cup Torn
    BY <1>1, <1>2, <1>3, <1>9 DEF SaveRelease, Is, ShapeOf, Busy, Downloading
  <2>4. StagedOf(c)'
    BY <1>1, <1>2, <1>3, <1>9
      DEF SaveRelease, Go, Is, ShapeOf, StagedOf, Downloading, Torn, Complete, Parts, Contents,
         folderVars
  <2> QED
    BY <2>1, <2>2, <2>3, <2>4 DEF QuietStep
<1>10. ASSUME Clean(c) PROVE QuietStep(c)
  <2>1. /\ flag' = flag
        /\ \A d \in Clients \ {c} : at'[d] = at[d] /\ call'[d] = call[d]
    BY <1>2, <1>10 DEF Clean, Go
  <2>2. (Busy(c)' <=> Busy(c)) /\ (Busy(c) => call'[c] = call[c])
    BY <1>1, <1>2, <1>3, <1>10 DEF Clean, Go, Is, ShapeOf, Busy, Downloading
  <2>3. \A t \in Things :
          \/ staged'[t] = staged[t]
          \/ Busy(c) /\ call[c].thing = t
          \/ staged[t] \in Complete \cup Torn /\ staged'[t] \in {"none"} \cup Torn
    BY <1>1, <1>2, <1>3, <1>10 DEF Clean, Is, ShapeOf, Busy, Downloading
  <2>4. StagedOf(c)'
    BY <1>1, <1>2, <1>3, <1>10
      DEF Clean, Go, Is, ShapeOf, StagedOf, Downloading, Torn, Complete, Parts, Contents, folderVars
  <2> QED
    BY <2>1, <2>2, <2>3, <2>4 DEF QuietStep
<1>11. ASSUME Scan(c) PROVE QuietStep(c)
  <2>1. /\ flag' = flag
        /\ \A d \in Clients \ {c} : at'[d] = at[d] /\ call'[d] = call[d]
    BY <1>2, <1>11 DEF Scan, Go
  <2>2. (Busy(c)' <=> Busy(c)) /\ (Busy(c) => call'[c] = call[c])
    BY <1>1, <1>2, <1>3, <1>11 DEF Scan, Go, Is, ShapeOf, Busy, Downloading
  <2>3. \A t \in Things :
          \/ staged'[t] = staged[t]
          \/ Busy(c) /\ call[c].thing = t
          \/ staged[t] \in Complete \cup Torn /\ staged'[t] \in {"none"} \cup Torn
    BY <1>11 DEF Scan, folderVars
  <2>4. StagedOf(c)'
    BY <1>1, <1>2, <1>3, <1>11
      DEF Scan, Go, Is, ShapeOf, StagedOf, Downloading, Torn, Complete, Parts, Contents, folderVars
  <2> QED
    BY <2>1, <2>2, <2>3, <2>4 DEF QuietStep
<1>12. ASSUME Store(c) PROVE QuietStep(c)
  <2>1. /\ flag' = flag
        /\ \A d \in Clients \ {c} : at'[d] = at[d] /\ call'[d] = call[d]
    BY <1>2, <1>12 DEF Store, Go
  <2>2. (Busy(c)' <=> Busy(c)) /\ (Busy(c) => call'[c] = call[c])
    BY <1>1, <1>2, <1>3, <1>12 DEF Store, Go, Is, AfterScan, ShapeOf, Busy, Downloading
  <2>3. \A t \in Things :
          \/ staged'[t] = staged[t]
          \/ Busy(c) /\ call[c].thing = t
          \/ staged[t] \in Complete \cup Torn /\ staged'[t] \in {"none"} \cup Torn
    BY <1>12 DEF Store, folderVars
  <2>4. StagedOf(c)'
    BY <1>1, <1>2, <1>3, <1>12
      DEF Store, Go, Is, AfterScan, ShapeOf, StagedOf, Downloading, Torn, Complete, Parts, Contents,
         folderVars
  <2> QED
    BY <2>1, <2>2, <2>3, <2>4 DEF QuietStep
<1>13. ASSUME AddPHPVersion(c) PROVE QuietStep(c)
  <2>1. /\ flag' = flag
        /\ \A d \in Clients \ {c} : at'[d] = at[d] /\ call'[d] = call[d]
    BY <1>2, <1>13 DEF AddPHPVersion, Go
  <2>2. (Busy(c)' <=> Busy(c)) /\ (Busy(c) => call'[c] = call[c])
    BY <1>1, <1>2, <1>3, <1>13
      DEF AddPHPVersion, Go, Is, Added, NotAdded, ShapeOf, Busy, Downloading
  <2>3. \A t \in Things :
          \/ staged'[t] = staged[t]
          \/ Busy(c) /\ call[c].thing = t
          \/ staged[t] \in Complete \cup Torn /\ staged'[t] \in {"none"} \cup Torn
    BY <1>13 DEF AddPHPVersion, folderVars
  <2>4. StagedOf(c)'
    BY <1>1, <1>2, <1>3, <1>13
      DEF AddPHPVersion, Go, Is, Added, NotAdded, ShapeOf, StagedOf, Downloading, Torn,
         Contents, folderVars
  <2> QED
    BY <2>1, <2>2, <2>3, <2>4 DEF QuietStep
<1>14. ASSUME RegisterFound(c) PROVE QuietStep(c)
  <2>1. /\ flag' = flag
        /\ \A d \in Clients \ {c} : at'[d] = at[d] /\ call'[d] = call[d]
    BY <1>2, <1>14 DEF RegisterFound, Go
  <2>2. (Busy(c)' <=> Busy(c)) /\ (Busy(c) => call'[c] = call[c])
    BY <1>1, <1>2, <1>3, <1>14
      DEF RegisterFound, Go, Is, Added, NotAdded, ShapeOf, Busy, Downloading
  <2>3. \A t \in Things :
          \/ staged'[t] = staged[t]
          \/ Busy(c) /\ call[c].thing = t
          \/ staged[t] \in Complete \cup Torn /\ staged'[t] \in {"none"} \cup Torn
    BY <1>14 DEF RegisterFound, folderVars
  <2>4. StagedOf(c)'
    BY <1>1, <1>2, <1>3, <1>14
      DEF RegisterFound, Go, Is, Added, NotAdded, ShapeOf, StagedOf, Downloading, Torn,
         Contents, folderVars
  <2> QED
    BY <2>1, <2>2, <2>3, <2>4 DEF QuietStep
<1>15. ASSUME SetPHPVersion(c) PROVE QuietStep(c)
  <2>1. /\ flag' = flag
        /\ \A d \in Clients \ {c} : at'[d] = at[d] /\ call'[d] = call[d]
    BY <1>2, <1>15 DEF SetPHPVersion, Go
  <2>2. (Busy(c)' <=> Busy(c)) /\ (Busy(c) => call'[c] = call[c])
    BY <1>1, <1>2, <1>3, <1>15 DEF SetPHPVersion, Go, Is, ShapeOf, Busy, Downloading
  <2>3. \A t \in Things :
          \/ staged'[t] = staged[t]
          \/ Busy(c) /\ call[c].thing = t
          \/ staged[t] \in Complete \cup Torn /\ staged'[t] \in {"none"} \cup Torn
    BY <1>15 DEF SetPHPVersion, folderVars
  <2>4. StagedOf(c)'
    BY <1>1, <1>2, <1>3, <1>15
      DEF SetPHPVersion, Go, Is, ShapeOf, StagedOf, Downloading, Torn, Complete, Parts, Contents,
         folderVars
  <2> QED
    BY <2>1, <2>2, <2>3, <2>4 DEF QuietStep
<1>16. ASSUME ChooseDefault(c) PROVE QuietStep(c)
  <2>1. /\ flag' = flag
        /\ \A d \in Clients \ {c} : at'[d] = at[d] /\ call'[d] = call[d]
    BY <1>2, <1>16 DEF ChooseDefault, Go
  <2>2. (Busy(c)' <=> Busy(c)) /\ (Busy(c) => call'[c] = call[c])
    BY <1>1, <1>2, <1>3, <1>16 DEF ChooseDefault, Go, Is, ShapeOf, Busy, Downloading
  <2>3. \A t \in Things :
          \/ staged'[t] = staged[t]
          \/ Busy(c) /\ call[c].thing = t
          \/ staged[t] \in Complete \cup Torn /\ staged'[t] \in {"none"} \cup Torn
    BY <1>16 DEF ChooseDefault, folderVars
  <2>4. StagedOf(c)'
    BY <1>1, <1>2, <1>3, <1>16
      DEF ChooseDefault, Go, Is, ShapeOf, StagedOf, Downloading, Torn, Complete, Parts, Contents,
         folderVars
  <2> QED
    BY <2>1, <2>2, <2>3, <2>4 DEF QuietStep
<1>17. ASSUME UseVersion(c) PROVE QuietStep(c)
  <2>1. /\ flag' = flag
        /\ \A d \in Clients \ {c} : at'[d] = at[d] /\ call'[d] = call[d]
    BY <1>2, <1>17 DEF UseVersion, Go
  <2>2. (Busy(c)' <=> Busy(c)) /\ (Busy(c) => call'[c] = call[c])
    BY <1>1, <1>2, <1>3, <1>17 DEF UseVersion, Go, Is, ShapeOf, Busy, Downloading
  <2>3. \A t \in Things :
          \/ staged'[t] = staged[t]
          \/ Busy(c) /\ call[c].thing = t
          \/ staged[t] \in Complete \cup Torn /\ staged'[t] \in {"none"} \cup Torn
    BY <1>17 DEF UseVersion, folderVars
  <2>4. StagedOf(c)'
    BY <1>1, <1>2, <1>3, <1>17
      DEF UseVersion, Go, Is, ShapeOf, StagedOf, Downloading, Torn, Complete, Parts, Contents,
         folderVars
  <2> QED
    BY <2>1, <2>2, <2>3, <2>4 DEF QuietStep
<1>18. ASSUME RemovePHP(c) PROVE QuietStep(c)
  <2>1. /\ flag' = flag
        /\ \A d \in Clients \ {c} : at'[d] = at[d] /\ call'[d] = call[d]
    BY <1>2, <1>18 DEF RemovePHP, Go
  <2>2. (Busy(c)' <=> Busy(c)) /\ (Busy(c) => call'[c] = call[c])
    BY <1>1, <1>2, <1>3, <1>18 DEF RemovePHP, Go, Is, ShapeOf, Busy, Downloading
  <2>3. \A t \in Things :
          \/ staged'[t] = staged[t]
          \/ Busy(c) /\ call[c].thing = t
          \/ staged[t] \in Complete \cup Torn /\ staged'[t] \in {"none"} \cup Torn
    BY <1>18 DEF RemovePHP, folderVars
  <2>4. StagedOf(c)'
    BY <1>1, <1>2, <1>3, <1>18
      DEF RemovePHP, Go, Is, ShapeOf, StagedOf, Downloading, Torn, Complete, Parts, Contents,
         folderVars
  <2> QED
    BY <2>1, <2>2, <2>3, <2>4 DEF QuietStep
<1>19. ASSUME TakeAway(c) PROVE QuietStep(c)
  <2>1. /\ flag' = flag
        /\ \A d \in Clients \ {c} : at'[d] = at[d] /\ call'[d] = call[d]
    BY <1>2, <1>19 DEF TakeAway, Removes, Go
  <2>2. (Busy(c)' <=> Busy(c)) /\ (Busy(c) => call'[c] = call[c])
    BY <1>1, <1>2, <1>3, <1>19 DEF TakeAway, Removes, Go, Is, ShapeOf, Busy, Downloading
  <2>3. \A t \in Things :
          \/ staged'[t] = staged[t]
          \/ Busy(c) /\ call[c].thing = t
          \/ staged[t] \in Complete \cup Torn /\ staged'[t] \in {"none"} \cup Torn
    BY <1>19 DEF TakeAway, folderVars
  <2>4. StagedOf(c)'
    BY <1>1, <1>2, <1>3, <1>19
      DEF TakeAway, Removes, Go, Is, ShapeOf, StagedOf, Downloading, Torn, Complete, Parts,
         Contents, folderVars
  <2> QED
    BY <2>1, <2>2, <2>3, <2>4 DEF QuietStep
<1>24. ASSUME Delete(c) PROVE QuietStep(c)
  <2>1. /\ flag' = flag
        /\ \A d \in Clients \ {c} : at'[d] = at[d] /\ call'[d] = call[d]
    BY <1>2, <1>24 DEF Delete, Go
  <2>2. (Busy(c)' <=> Busy(c)) /\ (Busy(c) => call'[c] = call[c])
    BY <1>1, <1>2, <1>3, <1>24 DEF Delete, Go, Is, ShapeOf, Busy, Downloading
  <2>3. \A t \in Things :
          \/ staged'[t] = staged[t]
          \/ Busy(c) /\ call[c].thing = t
          \/ staged[t] \in Complete \cup Torn /\ staged'[t] \in {"none"} \cup Torn
    BY <1>1, <1>2, <1>3, <1>24 DEF Delete, RemoveAll, Is, ShapeOf
  <2>4. StagedOf(c)'
    BY <1>1, <1>2, <1>3, <1>24
      DEF Delete, Go, Is, ShapeOf, StagedOf, Downloading, Torn, Complete, Parts, Contents,
         folderVars
  <2> QED
    BY <2>1, <2>2, <2>3, <2>4 DEF QuietStep
<1>25. ASSUME DeleteSome(c) PROVE QuietStep(c)
  <2>1. UNCHANGED <<flag, at, call>> /\ Is(c, "delete")
    BY <1>25 DEF DeleteSome
  <2>2. \A t \in Things :
          \/ staged'[t] = staged[t]
          \/ Busy(c) /\ call[c].thing = t
          \/ staged[t] \in Complete \cup Torn /\ staged'[t] \in {"none"} \cup Torn
    BY <1>1, <1>2, <1>3, <1>25, RestTypes DEF DeleteSome, Is, ShapeOf
  <2>3. StagedOf(c)'
    BY <1>1, <2>1 DEF StagedOf, Is, ShapeOf
  <2> QED
    BY <2>1, <2>2, <2>3 DEF QuietStep, Busy
<1>20. ASSUME SettlePHP(c) PROVE QuietStep(c)
  <2>1. /\ flag' = flag
        /\ \A d \in Clients \ {c} : at'[d] = at[d] /\ call'[d] = call[d]
    BY <1>2, <1>20 DEF SettlePHP, Go
  <2>2. (Busy(c)' <=> Busy(c)) /\ (Busy(c) => call'[c] = call[c])
    BY <1>1, <1>2, <1>3, <1>20 DEF SettlePHP, Go, Is, ShapeOf, Busy, Downloading
  <2>3. \A t \in Things :
          \/ staged'[t] = staged[t]
          \/ Busy(c) /\ call[c].thing = t
          \/ staged[t] \in Complete \cup Torn /\ staged'[t] \in {"none"} \cup Torn
    BY <1>20 DEF SettlePHP, folderVars
  <2>4. StagedOf(c)'
    BY <1>1, <1>2, <1>3, <1>20
      DEF SettlePHP, Go, Is, ShapeOf, StagedOf, Downloading, Torn, Complete, Parts, Contents,
         folderVars
  <2> QED
    BY <2>1, <2>2, <2>3, <2>4 DEF QuietStep
<1>21. ASSUME UnhidePHP(c) PROVE QuietStep(c)
  <2>1. /\ flag' = flag
        /\ \A d \in Clients \ {c} : at'[d] = at[d] /\ call'[d] = call[d]
    BY <1>2, <1>21 DEF UnhidePHP, Go
  <2>2. (Busy(c)' <=> Busy(c)) /\ (Busy(c) => call'[c] = call[c])
    BY <1>1, <1>2, <1>3, <1>21 DEF UnhidePHP, Go, Is, ShapeOf, Busy, Downloading
  <2>3. \A t \in Things :
          \/ staged'[t] = staged[t]
          \/ Busy(c) /\ call[c].thing = t
          \/ staged[t] \in Complete \cup Torn /\ staged'[t] \in {"none"} \cup Torn
    BY <1>21 DEF UnhidePHP, folderVars
  <2>4. StagedOf(c)'
    BY <1>1, <1>2, <1>3, <1>21
      DEF UnhidePHP, Go, Is, ShapeOf, StagedOf, Downloading, Torn, Complete, Parts, Contents,
         folderVars
  <2> QED
    BY <2>1, <2>2, <2>3, <2>4 DEF QuietStep
<1>22. ASSUME RegisterShown(c) PROVE QuietStep(c)
  <2>1. /\ flag' = flag
        /\ \A d \in Clients \ {c} : at'[d] = at[d] /\ call'[d] = call[d]
    BY <1>2, <1>22 DEF RegisterShown, Go
  <2>2. (Busy(c)' <=> Busy(c)) /\ (Busy(c) => call'[c] = call[c])
    BY <1>1, <1>2, <1>3, <1>22 DEF RegisterShown, Go, Is, ShapeOf, Busy, Downloading
  <2>3. \A t \in Things :
          \/ staged'[t] = staged[t]
          \/ Busy(c) /\ call[c].thing = t
          \/ staged[t] \in Complete \cup Torn /\ staged'[t] \in {"none"} \cup Torn
    BY <1>22 DEF RegisterShown, folderVars
  <2>4. StagedOf(c)'
    BY <1>1, <1>2, <1>3, <1>22
      DEF RegisterShown, Go, Is, ShapeOf, StagedOf, Downloading, Torn, Complete, Parts, Contents,
         folderVars
  <2> QED
    BY <2>1, <2>2, <2>3, <2>4 DEF QuietStep
<1>23. ASSUME PackageInstall(c) PROVE QuietStep(c)
  <2>1. /\ flag' = flag
        /\ \A d \in Clients \ {c} : at'[d] = at[d] /\ call'[d] = call[d]
    BY <1>2, <1>23 DEF PackageInstall, Go
  <2>2. (Busy(c)' <=> Busy(c)) /\ (Busy(c) => call'[c] = call[c])
    BY <1>1, <1>2, <1>3, <1>23 DEF PackageInstall, Go, Is, ShapeOf, Busy, Downloading
  <2>3. \A t \in Things :
          \/ staged'[t] = staged[t]
          \/ Busy(c) /\ call[c].thing = t
          \/ staged[t] \in Complete \cup Torn /\ staged'[t] \in {"none"} \cup Torn
    BY <1>23 DEF PackageInstall, folderVars
  <2>4. StagedOf(c)'
    BY <1>1, <1>2, <1>3, <1>23
      DEF PackageInstall, Go, Is, ShapeOf, StagedOf, Downloading, Torn, Complete, Parts,
         Contents, folderVars
  <2> QED
    BY <2>1, <2>2, <2>3, <2>4 DEF QuietStep
<1> QED
  BY <1>4, <1>5, <1>6, <1>7, <1>8, <1>9, <1>10, <1>11, <1>12, <1>13, <1>14, <1>15, <1>16,
       <1>17, <1>18, <1>19, <1>20, <1>21, <1>22, <1>23, <1>24, <1>25
    DEF Registry

LEMMA BeginKeeps ==
  ASSUME TypeOK, Shape, DownloadsApart, StagedFits, NEW c \in Clients, Begin(c) \/ DownloadUpdate(c)
  PROVE  DownloadsApart' /\ StagedFits'
<1> DEFINE t == call[c].thing
<1>1. at \in [Clients -> Steps] /\ call \in [Clients -> Calls]
  BY DEF TypeOK
<1>2. at[c] \in {"begin", "update"} /\ t \in Things /\ call[c] = Ask("install", t)
  <2>1. at[c] \in {"begin", "update"} /\ ShapeOf(c)
    BY DEF Begin, DownloadUpdate, Is, Shape
  <2> QED
    BY <2>1, WhatIsThere
<1>3. t = Release \/ at[c] = "begin"
  BY <1>2 DEF Shape, ShapeOf
<1>4. /\ flag' = flag \cup {t} /\ staged' = staged
      /\ Go(c, IF t \in flag THEN "idle" ELSE "stage")
  <2>1. CASE Begin(c)
    BY <2>1 DEF Begin, folderVars
  <2>2. CASE DownloadUpdate(c)
    <3>1. t = Release
      BY <2>2 DEF DownloadUpdate, Is, Shape, ShapeOf
    <3> QED
      BY <2>2, <3>1 DEF DownloadUpdate, folderVars
  <2> QED
    BY <2>1, <2>2
<1>5. \A d \in Clients \ {c} : at'[d] = at[d] /\ call'[d] = call[d]
  BY <1>1, <1>4 DEF Go
<1>6. ~Busy(c)
  BY <1>2 DEF Busy, Downloading
<1>7. ASSUME NEW d \in Clients, NEW u \in Things
      PROVE  IsDownloading(d, u)' <=>
               IsDownloading(d, u) \/ (t \notin flag /\ d = c /\ u = t)
  <2>1. CASE d # c
    BY <1>5, <2>1 DEF IsDownloading
  <2>2. CASE d = c /\ t \in flag
    <3>1. at'[c] = "idle"
      BY <1>1, <1>4, <2>2 DEF Go
    <3> QED
      BY <1>2, <2>2, <3>1 DEF IsDownloading, Downloading
  <2>3. CASE d = c /\ t \notin flag
    <3>1. at'[c] = "stage" /\ call'[c] = call[c]
      BY <1>1, <1>4, <2>3 DEF Go
    <3>2. ~IsDownloading(c, u)
      BY <1>6, BusyIsDownloading
    <3>3. call[c] = Ask("install", u) <=> u = t
      BY <1>2 DEF Ask
    <3> QED
      BY <2>3, <3>1, <3>2, <3>3 DEF IsDownloading, Downloading
  <2> QED
    BY <2>1, <2>2, <2>3
<1>8. DownloadsApart'
  BY <1>2, <1>4, <1>7 DEF DownloadsApart
<1>9. StagedOf(c)'
  <2>1. CASE t \in flag
    <3>1. at'[c] = "idle"
      BY <1>1, <1>4, <2>1 DEF Go
    <3> QED
      BY <3>1 DEF StagedOf
  <2>2. CASE t \notin flag
    <3>1. at'[c] = "stage" /\ call'[c] = call[c]
      BY <1>1, <1>4, <2>2 DEF Go
    <3>2. staged[t] = "none"
      BY <1>2, <2>2 DEF DownloadsApart
    <3> QED
      BY <1>4, <3>1, <3>2 DEF StagedOf
  <2> QED
    BY <2>1, <2>2
<1>10. \A d \in Clients \ {c} : StagedOf(d)'
  BY <1>4, <1>5 DEF StagedFits, StagedOf
<1> QED
  BY <1>8, <1>9, <1>10 DEF StagedFits

LEMMA EndKeeps ==
  ASSUME TypeOK, Shape, DownloadsApart, StagedFits, NEW c \in Clients, End(c)
  PROVE  DownloadsApart' /\ StagedFits'
<1> DEFINE t == call[c].thing
<1>1. at \in [Clients -> Steps] /\ call \in [Clients -> Calls]
  BY DEF TypeOK
<1>2. at[c] = "end" /\ t \in Things /\ call[c] = Ask("install", t)
  BY WhatIsThere DEF End, Is, Shape, Downloading
<1>3. IsDownloading(c, t) /\ call[c].does = "install"
  BY <1>2 DEF IsDownloading, Downloading, Ask
<1>4. staged[t] = "none"
  BY <1>2, <1>3 DEF StagedFits, StagedOf
<1>5. flag' = flag \ {t} /\ staged' = staged /\ at'[c] = "idle"
  BY <1>1 DEF End, Go, folderVars
<1>6. \A d \in Clients \ {c} : at'[d] = at[d] /\ call'[d] = call[d]
  BY <1>1 DEF End, Go
<1>7. ASSUME NEW d \in Clients, NEW u \in Things
      PROVE  IsDownloading(d, u)' <=> IsDownloading(d, u) /\ u # t
  <2>1. CASE d = c
    BY <1>2, <1>5, <2>1 DEF IsDownloading, Downloading, Ask
  <2>2. CASE d # c
    BY <1>3, <1>6, <2>2 DEF IsDownloading, DownloadsApart
  <2> QED
    BY <2>1, <2>2
<1>8. DownloadsApart'
  BY <1>2, <1>4, <1>5, <1>7 DEF DownloadsApart
<1>9. StagedFits'
  BY <1>5, <1>6 DEF StagedFits, StagedOf
<1> QED
  BY <1>8, <1>9

LEMMA NextApart ==
  TypeOK /\ Shape /\ DownloadsApart /\ StagedFits /\ [Next]_vars => DownloadsApart' /\ StagedFits'
<1> SUFFICES ASSUME TypeOK, Shape, DownloadsApart, StagedFits, [Next]_vars
             PROVE  DownloadsApart' /\ StagedFits'
  OBVIOUS
<1>1. at \in [Clients -> Steps] /\ call \in [Clients -> Calls]
  BY DEF TypeOK
<1>2. CASE UNCHANGED vars
  BY <1>2 DEF vars, folderVars, DownloadsApart, IsDownloading, StagedFits, StagedOf
<1>3. ASSUME NEW c \in Clients, NEW o \in Calls, Serve(c, o)
      PROVE  DownloadsApart' /\ StagedFits'
  <2>1. /\ flag' = flag /\ staged' = staged /\ call'[c] = o /\ at'[c] = FirstStep(o)
        /\ at[c] = "idle"
    BY <1>1, <1>3 DEF Serve, folderVars, Is
  <2>2. \A d \in Clients \ {c} : at'[d] = at[d] /\ call'[d] = call[d]
    BY <1>1, <1>3 DEF Serve
  <2>3. FirstStep(o) \in {"scan", "update", "look", "add", "set", "use", "remove", "unhide"}
    BY CallForms DEF FirstStep
  <2>4. o.does = "install" => FirstStep(o) \in {"update", "look"}
    BY DEF FirstStep
  <2>5. ~Busy(c) /\ ~Busy(c)'
    BY <2>1, <2>3, <2>4 DEF Busy, Downloading
  <2>6. \A d \in Clients, t \in Things : IsDownloading(d, t)' <=> IsDownloading(d, t)
    BY <2>2, <2>5, BusyIsDownloading DEF IsDownloading
  <2>7. StagedOf(c)'
    BY <2>1, <2>3 DEF StagedOf
  <2> QED
    BY <2>1, <2>2, <2>6, <2>7 DEF DownloadsApart, StagedFits, StagedOf
<1>4. ASSUME NEW c \in Clients, Download(c) \/ Registry(c) \/ PackageInstall(c)
      PROVE  DownloadsApart' /\ StagedFits'
  <2>1. CASE Begin(c) \/ DownloadUpdate(c)
    BY <2>1, BeginKeeps
  <2>2. CASE End(c)
    BY <2>2, EndKeeps
  <2>3. CASE ~(Begin(c) \/ DownloadUpdate(c) \/ End(c))
    BY <1>4, <2>3, StepQuiet, QuietStepKeeps DEF Download
  <2> QED
    BY <2>1, <2>2, <2>3
<1>5. CASE Crash
  BY <1>5 DEF Crash, DownloadsApart, IsDownloading, Downloading, StagedFits, StagedOf
<1> QED
  BY <1>2, <1>3, <1>4, <1>5 DEF Next

-----------------------------------------------------------------------------
(* What is torn is known to be: a step of each kind.                       *)

(* A call that is not deleting leaves alone what others delete.            *)
OthersDelete(c) ==
  /\ at[c] # "delete"
  /\ \A d \in Clients \ {c} : at'[d] = at[d] /\ call'[d] = call[d] /\ scan'[d] = scan[d]

LEMMA StillDeleting ==
  ASSUME NEW c \in Clients, OthersDelete(c), NEW dirs
  PROVE  DeletingFrom(dirs) \subseteq DeletingFrom(dirs)'
<1>1. SUFFICES ASSUME NEW v \in DeletingFrom(dirs) PROVE v \in DeletingFrom(dirs)'
  OBVIOUS
<1>2. PICK d \in Clients : at[d] = "delete" /\ call[d].thing = v /\ scan[d][v] \in dirs
  BY DEF DeletingFrom
<1>3. d # c
  BY <1>2 DEF OthersDelete
<1> QED
  BY <1>2, <1>3 DEF OthersDelete, DeletingFrom

LEMMA StepDeletesNothing ==
  ASSUME TypeOK, NEW c \in Clients,
         Download(c) \/ PackageInstall(c) \/ (Registry(c) /\ ~(DeleteSome(c) \/ Delete(c)))
  PROVE  OthersDelete(c)
<1>1. /\ at \in [Clients -> Steps] /\ call \in [Clients -> Calls]
      /\ scan \in [Clients -> [Found -> Finds]]
  BY DEF TypeOK
<1>2. CASE Download(c) \/ PackageInstall(c)
  <2>1. at[c] # "delete" /\ scan' = scan
    BY <1>2 DEF Download, Look, Begin, DownloadUpdate, Stage, Receive, Unpack, Place, SaveRelease,
         Clean, End, PackageInstall, Is, cacheVars
  <2>2. \E step : Go(c, step)
    BY <1>2 DEF Download, Look, Begin, DownloadUpdate, Stage, Receive, Unpack, Place, SaveRelease,
         Clean, End, PackageInstall
  <2> QED
    BY <1>1, <2>1, <2>2 DEF OthersDelete, Go
<1>3. CASE Registry(c) /\ ~(DeleteSome(c) \/ Delete(c))
  <2>1. at[c] # "delete" /\ \E step : Go(c, step)
    BY <1>3 DEF Registry, Scan, Store, AddPHPVersion, RegisterFound, SetPHPVersion, ChooseDefault,
         UseVersion, RemovePHP, TakeAway, Removes, SettlePHP, UnhidePHP, RegisterShown, Is
  <2>2. scan' = scan \/ \E what : scan' = [scan EXCEPT ![c] = what]
    BY <1>3 DEF Registry, Scan, Store, AddPHPVersion, RegisterFound, SetPHPVersion, ChooseDefault,
         UseVersion, RemovePHP, TakeAway, Removes, SettlePHP, UnhidePHP, RegisterShown, cacheVars
  <2> QED
    BY <1>1, <2>1, <2>2 DEF OthersDelete, Go
<1> QED
  BY <1>2, <1>3

LEMMA SameFoldersKeep ==
  ASSUME TornIsKnown, NEW c \in Clients, OthersDelete(c), place' = place, staged' = staged,
         Known \subseteq Known'
  PROVE  TornIsKnown'
BY StillDeleting DEF TornIsKnown

LEMMA PlaceKeeps ==
  ASSUME TypeOK, Shape, StagedFits, TornIsKnown, NEW c \in Clients, Place(c) \/ SaveRelease(c)
  PROVE  TornIsKnown'
<1> DEFINE t == call[c].thing
<1>1. place \in [Things -> Contents] /\ staged \in [Things -> Contents]
  BY DEF TypeOK
<1>2. at[c] = "place" /\ t \in Things /\ call[c] = Ask("install", t)
  BY WhatIsThere DEF Place, SaveRelease, Is, Shape, Downloading
<1>3. staged[t] \in {"none"} \cup Complete \cup Torn
  BY <1>2 DEF StagedFits, StagedOf, Ask
<1>4. \/ place' = place /\ staged' = staged
      \/ /\ place' = [place EXCEPT ![t] = staged[t]]
         /\ staged' = [staged EXCEPT ![t] = "none"]
  BY WhatIsThere, <1>2 DEF Place, SaveRelease
<1>5. Known \subseteq Known'
  BY DEF Place, SaveRelease, Known, owedVars
<1>6. place' # place /\ staged[t] \in Torn => t \in Known'
  <2>1. CASE Place(c)
    BY <2>1 DEF Place, Known
  <2>2. CASE SaveRelease(c)
    <3>1. t \notin Versions
      BY <2>2, NamesAssumption DEF SaveRelease
    <3>2. staged[t] \notin Torn
      BY <1>2, <3>1 DEF TornIsKnown, Known, DeletingFrom, TypeOK
    <3> QED
      BY <3>2
  <2> QED
    BY <2>1, <2>2
<1>7. OthersDelete(c)
  BY StepDeletesNothing DEF Download
<1>8. ASSUME NEW u \in Things
      PROVE  /\ place'[u] \in {"none"} \cup Complete \cup Torn
             /\ place'[u] \in Torn => u \in Known' \cup DeletingFrom(InPlace)'
             /\ staged'[u] \in Torn => u \in Known' \cup DeletingFrom({"staged"})'
  <2>1. /\ DeletingFrom(InPlace) \subseteq DeletingFrom(InPlace)'
        /\ DeletingFrom({"staged"}) \subseteq DeletingFrom({"staged"})'
    BY <1>7, StillDeleting
  <2>2. CASE place' = place /\ staged' = staged
    BY <1>5, <2>1, <2>2 DEF TornIsKnown
  <2>3. CASE /\ place' # place /\ place' = [place EXCEPT ![t] = staged[t]]
             /\ staged' = [staged EXCEPT ![t] = "none"]
    BY <1>1, <1>2, <1>3, <1>5, <1>6, <2>1, <2>3 DEF TornIsKnown, Torn
  <2>4. CASE /\ place' = place /\ staged' = [staged EXCEPT ![t] = "none"]
    BY <1>1, <1>2, <1>5, <2>1, <2>4 DEF TornIsKnown, Torn
  <2> QED
    BY <1>4, <2>2, <2>3, <2>4
<1> QED
  BY <1>8 DEF TornIsKnown

(* Only what is put together changes, and never to something torn.         *)
LEMMA PuttingTogetherKeeps ==
  ASSUME TypeOK, TornIsKnown, NEW c \in Clients, OthersDelete(c), NEW t \in Things,
         NEW s \in {"none", "empty"} \cup Parts \cup Complete,
         place' = place, staged' = [staged EXCEPT ![t] = s], owedVars' = owedVars
  PROVE  TornIsKnown'
<1>1. Known' = Known /\ s \notin Torn
  BY DEF Known, owedVars, Torn, Parts, Complete
<1>2. staged \in [Things -> Contents]
  BY DEF TypeOK
<1> QED
  BY <1>1, <1>2, StillDeleting DEF TornIsKnown

(* Who deletes holds d.mu.                                                 *)
LEMMA OneDeletes ==
  ASSUME Shape, NEW c \in Clients, mu = c, NEW dirs, NEW v \in DeletingFrom(dirs)
  PROVE  at[c] = "delete" /\ call[c].thing = v /\ scan[c][v] \in dirs
BY DEF DeletingFrom, Shape, ShapeOf

LEMMA DeleteSomeKeeps ==
  ASSUME TypeOK, Shape, TornIsKnown, NEW c \in Clients, DeleteSome(c)
  PROVE  TornIsKnown'
<1> DEFINE v == call[c].thing
<1>1. /\ place \in [Things -> Contents] /\ staged \in [Things -> Contents]
      /\ v \in Versions /\ v \in Things
  BY WhatIsThere DEF TypeOK, DeleteSome, Is, Shape, Things
<1>2. at[c] = "delete" /\ UNCHANGED <<at, call, scan, unsettled, cut>>
  BY DEF DeleteSome, Is, cacheVars, owedVars
<1>2a. DeletingFrom(InPlace)' = DeletingFrom(InPlace)
  BY <1>2 DEF DeletingFrom
<1>2b. DeletingFrom({"staged"})' = DeletingFrom({"staged"})
  BY <1>2 DEF DeletingFrom
<1>3. Known' = Known
  BY <1>2 DEF Known
<1>4. CASE /\ Deletes(c) \in InPlace /\ UNCHANGED staged
           /\ \E rest \in Torn : place' = [place EXCEPT ![v] = rest]
  <2>1. v \in DeletingFrom(InPlace)
    BY <1>1, <1>2, <1>4 DEF DeletingFrom, Deletes
  <2> QED
    BY <1>1, <1>2a, <1>2b, <1>3, <1>4, <2>1 DEF TornIsKnown
<1>5. CASE /\ Deletes(c) = "staged" /\ UNCHANGED place
           /\ \E rest \in Torn : staged' = [staged EXCEPT ![v] = rest]
  <2>1. v \in DeletingFrom({"staged"})
    BY <1>1, <1>2, <1>5 DEF DeletingFrom, Deletes
  <2> QED
    BY <1>1, <1>2a, <1>2b, <1>3, <1>5, <2>1 DEF TornIsKnown
<1> QED
  BY <1>4, <1>5, RestTypes DEF DeleteSome, InPlace

LEMMA DeleteKeeps ==
  ASSUME TypeOK, Shape, TornIsKnown, NEW c \in Clients, Delete(c)
  PROVE  TornIsKnown'
<1> DEFINE v == call[c].thing
<1>1. place \in [Things -> Contents] /\ staged \in [Things -> Contents] /\ v \in Things
  BY WhatIsThere DEF TypeOK, Delete, Is, Shape, Things
<1>2. mu = c /\ at[c] = "delete"
  BY DEF Delete, Is, Shape, ShapeOf
<1>3. ASSUME NEW u \in Things \ {v}
      PROVE  u \notin DeletingFrom(InPlace) /\ u \notin DeletingFrom({"staged"})
  BY <1>2, <1>3, OneDeletes
<1>4. /\ v \in DeletingFrom(InPlace) => Deletes(c) \in InPlace
      /\ v \in DeletingFrom({"staged"}) => Deletes(c) = "staged"
  BY <1>2, OneDeletes DEF Deletes
<1>5. CASE RemoveAll(v, Deletes(c)) /\ UNCHANGED <<unsettled, cut>>
  <2>1. Known' = Known
    BY <1>5 DEF Known
  <2>2. CASE /\ Deletes(c) \in InPlace
             /\ place' = [place EXCEPT ![v] = "none"] /\ staged' = staged
    BY <1>1, <1>3, <1>4, <2>1, <2>2 DEF TornIsKnown, Torn, InPlace
  <2>3. CASE /\ Deletes(c) = "staged"
             /\ staged' = [staged EXCEPT ![v] = "none"] /\ place' = place
    BY <1>1, <1>3, <1>4, <2>1, <2>3 DEF TornIsKnown, Torn, InPlace
  <2>4. CASE /\ Deletes(c) = "staged" /\ staged[v] \notin Torn
             /\ UNCHANGED <<place, staged>>
    BY <1>1, <1>3, <1>4, <2>1, <2>4 DEF TornIsKnown, InPlace
  <2> QED
    BY <1>5, <2>2, <2>3, <2>4 DEF RemoveAll, InPlace
<1>6. CASE /\ unsettled' = (IF IsTorn(v) THEN unsettled \cup {v} ELSE unsettled)
           /\ UNCHANGED <<place, staged, cut>>
  <2>1. Known \subseteq Known' /\ (IsTorn(v) => v \in Known')
    BY <1>6 DEF Known
  <2> QED
    BY <1>1, <1>3, <1>6, <2>1 DEF TornIsKnown, IsTorn
<1> QED
  BY <1>5, <1>6 DEF Delete

LEMMA SettleKeeps ==
  ASSUME TypeOK, Shape, TornIsKnown, NEW c \in Clients, SettlePHP(c)
  PROVE  TornIsKnown'
<1> DEFINE v == call[c].thing
<1>1. place' = place /\ staged' = staged
  BY DEF SettlePHP, folderVars
<1>2. mu = c /\ at[c] # "delete"
  BY DEF SettlePHP, Is, Shape, ShapeOf
<1>3. DeletingFrom(InPlace) = {} /\ DeletingFrom({"staged"}) = {}
  BY <1>2, OneDeletes
<1>4. \A u \in Known \ Known' : u = v /\ ~IsTorn(v)
  BY DEF SettlePHP, Known
<1> QED
  BY <1>1, <1>3, <1>4 DEF TornIsKnown, IsTorn

LEMMA InitTorn == Init => TornIsKnown /\ AlteredIsUnvouched
BY DEF Init, TornIsKnown, Torn, AlteredIsUnvouched, BodyOf

LEMMA NextTorn ==
  TypeOK /\ Shape /\ StagedFits /\ TornIsKnown /\ [Next]_vars => TornIsKnown'
<1> SUFFICES ASSUME TypeOK, Shape, StagedFits, TornIsKnown, [Next]_vars PROVE TornIsKnown'
  OBVIOUS
<1>1. CASE UNCHANGED vars
  BY <1>1 DEF vars, folderVars, cacheVars, owedVars, TornIsKnown, Known, DeletingFrom
<1>2. ASSUME NEW c \in Clients, NEW o \in Calls, Serve(c, o) PROVE TornIsKnown'
  <2>1. OthersDelete(c)
    BY <1>2 DEF TypeOK, Serve, Is, OthersDelete, cacheVars
  <2> QED
    BY <1>2, <2>1, SameFoldersKeep DEF Serve, folderVars, owedVars, Known
<1>3. ASSUME NEW c \in Clients, Download(c) \/ PackageInstall(c) PROVE TornIsKnown'
  <2>0. OthersDelete(c)
    BY <1>3, StepDeletesNothing
  <2>1. CASE Look(c) \/ Begin(c) \/ DownloadUpdate(c) \/ Receive(c) \/ End(c) \/ PackageInstall(c)
    <3>1. UNCHANGED <<place, staged, unsettled, cut>>
      BY <2>1 DEF Look, Begin, DownloadUpdate, Receive, End, PackageInstall, folderVars, owedVars
    <3> QED
      BY <2>0, <3>1, SameFoldersKeep DEF Known
  <2>2. CASE Stage(c) \/ Unpack(c) \/ Clean(c)
    <3>1. call[c].thing \in Things
      BY <2>2, WhatIsThere DEF Stage, Unpack, Clean, Is, Shape, Downloading
    <3>2. \/ UNCHANGED <<place, staged, owedVars>>
          \/ \E s \in {"none", "empty"} \cup Parts \cup Complete :
               /\ staged' = [staged EXCEPT ![call[c].thing] = s]
               /\ UNCHANGED <<place, owedVars>>
      BY <2>2 DEF Stage, Unpack, Clean, NextPart, Altered, Parts, Complete
    <3>3. CASE UNCHANGED <<place, staged, owedVars>>
      BY <2>0, <3>3, SameFoldersKeep DEF Known, owedVars
    <3> QED
      BY <2>0, <3>1, <3>2, <3>3, PuttingTogetherKeeps
  <2>3. CASE Place(c) \/ SaveRelease(c)
    BY <2>3, PlaceKeeps
  <2> QED
    BY <1>3, <2>1, <2>2, <2>3 DEF Download
<1>4. ASSUME NEW c \in Clients, Registry(c) PROVE TornIsKnown'
  <2>1. CASE \/ Scan(c) \/ Store(c) \/ AddPHPVersion(c) \/ RegisterFound(c)
             \/ SetPHPVersion(c) \/ ChooseDefault(c) \/ UseVersion(c)
             \/ RemovePHP(c) \/ TakeAway(c) \/ UnhidePHP(c) \/ RegisterShown(c)
    <3>1. UNCHANGED <<place, staged, unsettled, cut>>
      BY <2>1 DEF Scan, Store, AddPHPVersion, RegisterFound, SetPHPVersion, ChooseDefault,
           UseVersion, RemovePHP, TakeAway, UnhidePHP, RegisterShown, folderVars, owedVars
    <3>2. at[c] # "delete"
      BY <2>1 DEF Scan, Store, AddPHPVersion, RegisterFound, SetPHPVersion, ChooseDefault,
           UseVersion, RemovePHP, TakeAway, UnhidePHP, RegisterShown, Is
    <3>3. OthersDelete(c)
      BY <1>4, <3>2, StepDeletesNothing DEF DeleteSome, Delete, Is
    <3> QED
      BY <3>1, <3>3, SameFoldersKeep DEF Known
  <2>2. CASE DeleteSome(c) \/ Delete(c)
    BY <2>2, DeleteSomeKeeps, DeleteKeeps
  <2>3. CASE SettlePHP(c)
    BY <2>3, SettleKeeps
  <2> QED
    BY <1>4, <2>1, <2>2, <2>3 DEF Registry
<1>5. CASE Crash
  <2>1. Known \cup BeingRemoved \subseteq Known'
    BY <1>5 DEF Crash, Known
  <2>2. DeletingFrom(InPlace) \subseteq BeingRemoved
    <3>1. SUFFICES ASSUME NEW v \in DeletingFrom(InPlace) PROVE v \in BeingRemoved
      OBVIOUS
    <3>2. PICK d \in Clients : at[d] = "delete" /\ call[d].thing = v
      BY DEF DeletingFrom
    <3>3. mu = d /\ call[d].does = "remove"
      BY <3>2 DEF Shape, ShapeOf
    <3>4. call[d] = Ask("remove", v)
      BY <3>2, <3>3, CallForms DEF TypeOK
    <3> QED
      BY <3>3, <3>4 DEF BeingRemoved, DeletingFrom
  <2>3. place' = place /\ \A t \in Things : staged'[t] = "none"
    BY <1>5 DEF Crash
  <2> QED
    BY <2>1, <2>2, <2>3 DEF TornIsKnown, Torn
<1> QED
  BY <1>1, <1>2, <1>3, <1>4, <1>5 DEF Next

-----------------------------------------------------------------------------
(* Only what no checksum vouches for is not what was published.            *)
LEMMA NothingAltered ==
  ASSUME TypeOK, AlteredIsUnvouched, NEW c \in Clients, at[c] # "unpack", body' = body,
         \A d \in Clients \ {c} : at'[d] = at[d] /\ call'[d] = call[d],
         \A t \in Things \ Versions :
           /\ place'[t] \in {place[t], staged[t]}
           /\ staged'[t] \in {staged[t], "none", "empty"}
  PROVE  AlteredIsUnvouched'
<1>1. body[c] # "garbled"
  BY DEF AlteredIsUnvouched, BodyOf
<1>2. ASSUME NEW d \in Clients PROVE BodyOf(d)'
  BY <1>1 DEF AlteredIsUnvouched, BodyOf
<1>3. ASSUME NEW t \in Things \ Versions
      PROVE  {place'[t], staged'[t]} \cap {"altered part", "altered", "mute"} = {}
  BY DEF AlteredIsUnvouched
<1> QED
  BY <1>2, <1>3 DEF AlteredIsUnvouched

LEMMA UnpackAltered ==
  ASSUME TypeOK, Shape, AlteredIsUnvouched, NEW c \in Clients, Unpack(c)
  PROVE  AlteredIsUnvouched'
<1> DEFINE t == call[c].thing
<1>1. /\ staged \in [Things -> Contents] /\ t \in Things
      /\ body \in [Clients -> {"none", "good", "garbled"}]
  BY WhatIsThere DEF TypeOK, Unpack, Is, Shape, Downloading
<1>2. place' = place /\ body' = [body EXCEPT ![c] = "none"]
  BY DEF Unpack
<1>3. body[c] = "garbled" => t \in Versions
  BY DEF AlteredIsUnvouched, BodyOf
<1>4. \A d \in Clients \ {c} : at'[d] = at[d] /\ call'[d] = call[d]
  BY DEF TypeOK, Unpack, Go
<1>5. ASSUME NEW d \in Clients PROVE BodyOf(d)'
  BY <1>1, <1>2, <1>4 DEF AlteredIsUnvouched, BodyOf
<1>6. t \in Versions \/ UNCHANGED staged \/ staged' = [staged EXCEPT ![t] = "whole"]
  <2>1. SUFFICES ASSUME t \notin Versions
                 PROVE  UNCHANGED staged \/ staged' = [staged EXCEPT ![t] = "whole"]
    OBVIOUS
  <2>2. body[c] # "garbled"
    BY <1>3, <2>1
  <2>3. staged[t] # "altered part"
    BY <1>1, <2>1 DEF AlteredIsUnvouched
  <2>4. NextPart(t) = "whole"
    BY <2>1, <2>3 DEF NextPart
  <2> QED
    BY <2>2, <2>4 DEF Unpack
<1>7. ASSUME NEW u \in Things \ Versions
      PROVE  {place'[u], staged'[u]} \cap {"altered part", "altered", "mute"} = {}
  BY <1>1, <1>2, <1>6 DEF AlteredIsUnvouched, TypeOK, Unpack
<1> QED
  BY <1>5, <1>7 DEF AlteredIsUnvouched

LEMMA NextAltered ==
  TypeOK /\ Shape /\ AlteredIsUnvouched /\ [Next]_vars => AlteredIsUnvouched'
<1> SUFFICES ASSUME TypeOK, Shape, AlteredIsUnvouched, [Next]_vars PROVE AlteredIsUnvouched'
  OBVIOUS
<1>1. /\ at \in [Clients -> Steps] /\ call \in [Clients -> Calls]
      /\ place \in [Things -> Contents] /\ staged \in [Things -> Contents]
      /\ body \in [Clients -> {"none", "good", "garbled"}]
  BY DEF TypeOK
<1>2. CASE UNCHANGED vars
  BY <1>2 DEF vars, folderVars, AlteredIsUnvouched, BodyOf
<1>3. ASSUME NEW c \in Clients, NEW o \in Calls, Serve(c, o) PROVE AlteredIsUnvouched'
  <2>1. \A d \in Clients \ {c} : at'[d] = at[d] /\ call'[d] = call[d]
    BY <1>1, <1>3 DEF Serve
  <2>2. at[c] # "unpack" /\ UNCHANGED <<body, place, staged>>
    BY <1>3 DEF Serve, Is, folderVars
  <2> QED
    BY <2>1, <2>2, NothingAltered
<1>4. ASSUME NEW c \in Clients, Receive(c) PROVE AlteredIsUnvouched'
  <2>1. \A d \in Clients \ {c} : at'[d] = at[d] /\ call'[d] = call[d]
    BY <1>1, <1>4 DEF Receive, Go
  <2>2. place' = place /\ staged' = staged
    BY <1>4 DEF Receive, folderVars
  <2>3. at[c] = "receive" /\ call[c].thing \in Things
    BY <1>4, WhatIsThere DEF Receive, Is, Shape, Downloading
  <2>4. body[c] # "garbled"
    BY <2>3 DEF AlteredIsUnvouched, BodyOf
  <2>5. BodyOf(c)'
    BY <1>1, <1>4, <2>3, <2>4 DEF Receive, Go, BodyOf, Vouched
  <2>6. \A d \in Clients \ {c} : body'[d] = body[d]
    BY <1>1, <1>4 DEF Receive
  <2> QED
    BY <2>1, <2>2, <2>5, <2>6 DEF AlteredIsUnvouched, BodyOf
<1>5. ASSUME NEW c \in Clients, Unpack(c) PROVE AlteredIsUnvouched'
  BY <1>5, UnpackAltered
<1>6. ASSUME NEW c \in Clients,
             \/ (Download(c) /\ ~Receive(c) /\ ~Unpack(c)) \/ Registry(c) \/ PackageInstall(c)
      PROVE  AlteredIsUnvouched'
  <2>1. at[c] # "unpack" /\ body' = body
    BY <1>6 DEF Download, Registry, PackageInstall, Look, Begin, DownloadUpdate, Stage, Place,
         SaveRelease, Clean, End, Scan, Store, AddPHPVersion, RegisterFound, SetPHPVersion,
         ChooseDefault, UseVersion, RemovePHP, TakeAway, DeleteSome, Delete, SettlePHP, UnhidePHP,
         RegisterShown, Is
  <2>2. UNCHANGED <<at, call>> \/ \E step : Go(c, step)
    BY <1>6 DEF Download, Registry, PackageInstall, Look, Begin, DownloadUpdate, Stage, Place,
         SaveRelease, Clean, End, Scan, Store, AddPHPVersion, RegisterFound, SetPHPVersion,
         ChooseDefault, UseVersion, RemovePHP, TakeAway, Removes, DeleteSome, Delete, SettlePHP,
         UnhidePHP, RegisterShown
  <2>3. \A d \in Clients \ {c} : at'[d] = at[d] /\ call'[d] = call[d]
    BY <1>1, <2>2 DEF Go
  <2>4. ASSUME NEW t \in Things \ Versions
        PROVE  /\ place'[t] \in {place[t], staged[t]}
               /\ staged'[t] \in {staged[t], "none", "empty"}
    <3>1. CASE Stage(c) \/ Clean(c) \/ Place(c) \/ SaveRelease(c)
      BY <1>1, <3>1 DEF Stage, Clean, Place, SaveRelease
    <3>2. CASE DeleteSome(c) \/ Delete(c)
      <4>1. call[c].thing \in Versions
        BY <3>2, WhatIsThere DEF DeleteSome, Delete, Is, Shape
      <4> QED
        BY <1>1, <3>2, <4>1 DEF DeleteSome, Delete, RemoveAll
    <3>3. CASE UNCHANGED <<place, staged>>
      BY <3>3
    <3> QED
      BY <1>6, <3>1, <3>2, <3>3
        DEF Download, Registry, PackageInstall, Look, Begin, DownloadUpdate, End, Scan, Store,
         AddPHPVersion, RegisterFound, SetPHPVersion, ChooseDefault, UseVersion, RemovePHP,
         TakeAway, SettlePHP, UnhidePHP, RegisterShown, folderVars
  <2> QED
    BY <2>1, <2>3, <2>4, NothingAltered
<1>7. CASE Crash
  BY <1>7 DEF Crash, AlteredIsUnvouched, BodyOf
<1> QED
  BY <1>2, <1>3, <1>4, <1>5, <1>6, <1>7 DEF Next, Download

-----------------------------------------------------------------------------
(* What wharf.json says of PHP versions.  It is whole all the time, but    *)
(* for the version a removal has hidden and not settled yet: that one is   *)
(* not in use, for to choose it takes d.mu, which the removal holds.  What *)
(* a scan under d.mu saw of hidden folders stays so until d.mu is let go.  *)
Listed == {default, used} \ {None} \subseteq available /\ paths \subseteq available
HiddenSettled == paths \cap hidden \subseteq Known \cup BeingRemoved
HeldOf(c) ==
  LET v == call[c].thing
  IN mu = c => /\ call[c].does = "remove" => ~InUse(v)
               /\ at[c] # "scan" /\ scan[c][v] = "system" => v \notin hidden
               /\ at[c] = "delete" => paths \cap hidden \subseteq Known
Held == \A c \in Clients : HeldOf(c)
SettledInv == Listed /\ HiddenSettled /\ Held

(* With d.mu free nothing is being removed.                                *)
LEMMA FreeIsSettled ==
  ASSUME mu = Nobody, Listed, paths \cap hidden \subseteq Known
  PROVE  SettledInv
BY NamesAssumption DEF SettledInv, HiddenSettled, Held, HeldOf

LEMMA SettledWhenFree ==
  ASSUME SettledInv, mu = Nobody
  PROVE  Listed /\ paths \cap hidden \subseteq Known
BY NamesAssumption DEF SettledInv, HiddenSettled, BeingRemoved

LEMMA FreeAgain ==
  ASSUME mu' = Nobody, Listed', paths' \cap hidden' \subseteq Known'
  PROVE  SettledInv'
BY NamesAssumption DEF SettledInv, HiddenSettled, Held, HeldOf

(* A step of a call that has nothing to do with d.mu or wharf.json.        *)
LEMMA AsideKeeps ==
  ASSUME SettledInv, NEW c \in Clients, mu # c, mu' = mu, UNCHANGED configVars,
         Known \subseteq Known',
         \A d \in Clients \ {c} : at'[d] = at[d] /\ call'[d] = call[d] /\ scan'[d] = scan[d]
  PROVE  SettledInv'
<1>1. BeingRemoved \subseteq BeingRemoved'
  BY DEF BeingRemoved
<1>2. Listed' /\ HiddenSettled'
  BY <1>1 DEF SettledInv, Listed, HiddenSettled, configVars
<1>3. ASSUME NEW d \in Clients PROVE HeldOf(d)'
  <2>1. CASE d = c
    BY <2>1 DEF HeldOf
  <2>2. CASE d # c
    <3>1. HeldOf(d)
      BY DEF SettledInv, Held
    <3> QED
      BY <2>2, <3>1 DEF HeldOf, InUse, configVars
  <2> QED
    BY <2>1, <2>2
<1> QED
  BY <1>2, <1>3 DEF SettledInv, Held

(* Taking d.mu for a scan.                                                 *)
LEMMA LockKeeps ==
  ASSUME NEW c \in Clients, mu' = c, at'[c] = "scan", Listed',
         paths' \cap hidden' \subseteq Known' \/
           (/\ call'[c] = Ask("remove", call'[c].thing) /\ call'[c].thing \in Versions
            /\ paths' \cap hidden' \subseteq Known' \cup {call'[c].thing}),
         call'[c].does = "remove" => ~InUse(call[c].thing)'
  PROVE  SettledInv'
<1>1. HiddenSettled'
  BY DEF HiddenSettled, BeingRemoved
<1>2. HeldOf(c)'
  BY DEF HeldOf, InUse
<1>3. \A d \in Clients \ {c} : HeldOf(d)'
  BY DEF HeldOf
<1> QED
  BY <1>1, <1>2, <1>3 DEF SettledInv, Held

LEMMA HiddenIsNotDetected ==
  ASSUME NEW v \in Versions, Detected[v] = "system"
  PROVE  v \notin hidden
<1>1. Detected[v] = DetectsPHP(v)
  BY NamesAssumption DEF Detected, Found
<1>2. Vendored(v) # "system"
  BY DEF Vendored
<1> QED
  BY <1>1, <1>2 DEF DetectsPHP, OnMachine

LEMMA ScanSettled ==
  ASSUME TypeOK, Shape, SettledInv, NEW c \in Clients, Scan(c) \/ Store(c)
  PROVE  SettledInv'
<1>1. at \in [Clients -> Steps] /\ call \in [Clients -> Calls]
      /\ scan \in [Clients -> [Found -> Finds]]
  BY DEF TypeOK
<1>2. /\ UNCHANGED <<configVars, mu>> /\ Known' = Known
      /\ \A d \in Clients \ {c} : at'[d] = at[d] /\ call'[d] = call[d] /\ scan'[d] = scan[d]
  BY <1>1 DEF Scan, Store, Go, Known, owedVars
<1>3. CASE mu # c
  BY <1>2, <1>3, AsideKeeps
<1>4. CASE mu = c
  <2>1. at[c] \in {"scan", "store"} /\ call[c].thing \in Versions
    BY <1>4 DEF Scan, Store, Is, Shape, ShapeOf
  <2>2. call[c].does # "detect"
    BY <1>4, <2>1 DEF Shape, ShapeOf
  <2>3. call'[c] = call[c]
    BY <1>1, <1>4, <2>2 DEF Scan, Store, Go, AfterScan
  <2>4. BeingRemoved' = BeingRemoved
    BY <1>2, <2>3 DEF BeingRemoved
  <2>5. Listed' /\ HiddenSettled'
    BY <1>2, <2>4 DEF SettledInv, Listed, HiddenSettled, configVars
  <2>6. scan'[c][call[c].thing] = "system" => call[c].thing \notin hidden
    <3>1. CASE Scan(c)
      BY <1>1, <2>1, <3>1, HiddenIsNotDetected DEF Scan
    <3>2. CASE Store(c)
      BY <1>4, <3>2 DEF Store, Is, SettledInv, Held, HeldOf
    <3> QED
      BY <3>1, <3>2
  <2>9. at'[c] # "delete"
    BY <1>1, <1>4 DEF Scan, Store, Go, AfterScan
  <2>7. HeldOf(c)'
    BY <1>2, <1>4, <2>3, <2>6, <2>9 DEF SettledInv, Held, HeldOf, InUse, configVars
  <2>8. \A d \in Clients \ {c} : HeldOf(d)'
    BY <1>2, <1>4 DEF HeldOf
  <2> QED
    BY <2>5, <2>7, <2>8 DEF SettledInv, Held
<1> QED
  BY <1>3, <1>4

LEMMA RegisterListed ==
  ASSUME Listed, NEW v, NEW what, Register(v, what), UNCHANGED <<default, used>>
  PROVE  Listed'
BY DEF Listed, Register

(* Registering a folder that is not hidden hides none.                     *)
LEMMA RegisterSettled ==
  ASSUME NEW v, NEW what, Register(v, what), hidden' = hidden,
         what = "system" => v \notin hidden
  PROVE  paths' \cap hidden' \subseteq (paths \cap hidden) \ {v}
BY DEF Register

LEMMA AddSettled ==
  ASSUME TypeOK, Shape, SettledInv, NEW c \in Clients, AddPHPVersion(c)
  PROVE  SettledInv'
<1> DEFINE v == call[c].thing
<1>1. at \in [Clients -> Steps] /\ call \in [Clients -> Calls]
  BY DEF TypeOK
<1>2. call[c].does # "remove" /\ v \in Versions
  BY DEF AddPHPVersion, Is, Shape, ShapeOf
<1>3. mu = Nobody /\ UNCHANGED <<default, hidden, used>> /\ Known' = Known
  BY DEF AddPHPVersion, Passing, Lock, Known, owedVars
<1>4. Listed /\ paths \cap hidden \subseteq Known
  BY <1>3, SettledWhenFree
<1>5. CASE Passing /\ Register(v, "vendored")
  <2>1. Listed'
    BY <1>3, <1>4, <1>5, RegisterListed
  <2>2. paths' \cap hidden' \subseteq Known'
    BY <1>3, <1>4, <1>5, RegisterSettled
  <2> QED
    BY <1>5, <2>1, <2>2, FreeAgain DEF Passing
<1>6. CASE Passing /\ UNCHANGED <<available, paths>>
  BY <1>3, <1>4, <1>6, FreeAgain DEF Passing, Listed
<1>7. CASE Lock(c) /\ Go(c, "scan") /\ UNCHANGED <<available, paths>>
  BY <1>1, <1>2, <1>3, <1>4, <1>7, LockKeeps DEF Lock, Go, Listed
<1> QED
  BY <1>5, <1>6, <1>7 DEF AddPHPVersion

LEMMA RegisterFoundSettled ==
  ASSUME TypeOK, Shape, SettledInv, NEW c \in Clients, RegisterFound(c) \/ RegisterShown(c)
  PROVE  SettledInv'
<1> DEFINE v == call[c].thing
<1>1. /\ mu = c /\ mu' = Nobody /\ UNCHANGED <<default, hidden, used>> /\ Known' = Known
      /\ call[c].does # "remove" /\ at[c] # "scan"
  BY DEF RegisterFound, RegisterShown, Is, Unlock, Shape, ShapeOf, Known, owedVars
<1>2. scan[c][v] = "system" => v \notin hidden
  BY <1>1 DEF SettledInv, Held, HeldOf
<1>3. Listed /\ paths \cap hidden \subseteq Known
  <2>1. BeingRemoved = {}
    BY <1>1 DEF BeingRemoved, Ask
  <2> QED
    BY <2>1 DEF SettledInv, HiddenSettled
<1>4. CASE \E what : /\ Register(v, what) /\ (what = "system" => v \notin hidden)
  <2>1. PICK what : Register(v, what) /\ (what = "system" => v \notin hidden)
    BY <1>4
  <2>2. Listed'
    BY <1>1, <1>3, <2>1, RegisterListed
  <2>3. paths' \cap hidden' \subseteq Known'
    BY <1>1, <1>3, <2>1, RegisterSettled
  <2> QED
    BY <1>1, <2>2, <2>3, FreeAgain
<1>5. CASE UNCHANGED <<available, paths>>
  BY <1>1, <1>3, <1>5, FreeAgain DEF Listed
<1> QED
  BY <1>2, <1>4, <1>5 DEF RegisterFound, RegisterShown

(* A version is chosen, as the default or by a project, with d.mu free.    *)
LEMMA ChooseSettled ==
  ASSUME TypeOK, Shape, SettledInv, NEW c \in Clients, ChooseDefault(c) \/ UseVersion(c)
  PROVE  SettledInv'
<1>1. /\ mu = Nobody /\ mu' = Nobody /\ UNCHANGED <<paths, hidden>> /\ Known' = Known
      /\ available \subseteq available'
  BY DEF ChooseDefault, UseVersion, Passing, Known, owedVars
<1>2. Listed /\ paths \cap hidden \subseteq Known
  BY <1>1, SettledWhenFree
<1>3. {default', used'} \ {None} \subseteq available'
  BY <1>2 DEF ChooseDefault, UseVersion, Listed
<1> QED
  BY <1>1, <1>2, <1>3, FreeAgain DEF Listed

LEMMA TakeAwaySettled ==
  ASSUME TypeOK, Shape, SettledInv, NEW c \in Clients, TakeAway(c)
  PROVE  SettledInv'
<1> DEFINE v == call[c].thing
<1>1. /\ at \in [Clients -> Steps] /\ call \in [Clients -> Calls]
      /\ scan \in [Clients -> [Found -> Finds]]
  BY DEF TypeOK
<1>2. call[c] = Ask("remove", v) /\ v \in Versions
  BY <1>1, CallForms DEF TakeAway, Is, Shape, ShapeOf
<1>3. mu = Nobody /\ UNCHANGED <<default, available, paths, used>> /\ Known' = Known
  BY DEF TakeAway, Removes, Passing, Lock, Known, owedVars
<1>4. Listed /\ paths \cap hidden \subseteq Known
  BY <1>3, SettledWhenFree
<1>5. Listed'
  BY <1>3, <1>4 DEF Listed
<1>6. CASE Passing /\ hidden' = hidden
  BY <1>3, <1>4, <1>5, <1>6, FreeAgain DEF Passing
<1>7. CASE ~InUse(v) /\ Lock(c) /\ Go(c, "scan") /\ hidden' = hidden \cup {v}
  <2>1. mu' = c /\ at'[c] = "scan" /\ call'[c] = call[c] /\ ~InUse(v)'
    BY <1>1, <1>3, <1>7 DEF Lock, Go, InUse
  <2>2. paths' \cap hidden' \subseteq Known' \cup {v}
    BY <1>3, <1>4, <1>7
  <2>3. call'[c] = Ask("remove", call'[c].thing) /\ call'[c].thing = v
    BY <1>2, <2>1
  <2>4. paths' \cap hidden' \subseteq Known' \cup {call'[c].thing}
    BY <2>2, <2>3
  <2>5. ~InUse(call[c].thing)'
    BY <2>1
  <2> QED
    BY <1>2, <1>5, <2>1, <2>3, <2>4, <2>5, LockKeeps
<1>8. CASE /\ ~InUse(v) /\ Lock(c) /\ Go(c, "delete") /\ hidden' = hidden
           /\ found[v] # "system" /\ scan' = [scan EXCEPT ![c] = found]
  <2>1. mu' = c /\ at'[c] = "delete" /\ call'[c] = call[c] /\ ~InUse(v)' /\ scan'[c] = found
    BY <1>1, <1>3, <1>8 DEF Lock, Go, InUse
  <2>2. paths' \cap hidden' \subseteq Known'
    BY <1>3, <1>4, <1>8
  <2>3. HeldOf(c)'
    BY <1>8, <2>1, <2>2 DEF HeldOf, InUse
  <2>4. \A d \in Clients \ {c} : HeldOf(d)'
    BY <2>1 DEF HeldOf
  <2> QED
    BY <1>5, <2>2, <2>3, <2>4 DEF SettledInv, HiddenSettled, Held
<1> QED
  BY <1>6, <1>7, <1>8 DEF TakeAway, Removes

(* A deletion that goes on, ends or fails.                                 *)
LEMMA DeleteSettled ==
  ASSUME TypeOK, Shape, SettledInv, NEW c \in Clients, DeleteSome(c) \/ Delete(c)
  PROVE  SettledInv'
<1>1. at \in [Clients -> Steps] /\ call \in [Clients -> Calls]
  BY DEF TypeOK
<1>2. mu = c /\ at[c] = "delete" /\ UNCHANGED configVars /\ Known \subseteq Known'
  BY DEF DeleteSome, Delete, Is, Shape, ShapeOf, Known, owedVars
<1>3. Listed /\ paths \cap hidden \subseteq Known /\ ~InUse(call[c].thing)
  <2>1. HeldOf(c) /\ call[c].does = "remove"
    BY <1>2 DEF SettledInv, Held, Shape, ShapeOf
  <2> QED
    BY <1>2, <2>1 DEF SettledInv, HeldOf
<1>4. Listed' /\ paths' \cap hidden' \subseteq Known'
  BY <1>2, <1>3 DEF Listed, configVars
<1>5. CASE UNCHANGED <<at, call, scan, mu>>
  <2>1. HeldOf(c)'
    BY <1>2, <1>3, <1>4, <1>5 DEF SettledInv, Held, HeldOf, InUse, configVars
  <2>2. \A d \in Clients \ {c} : HeldOf(d)'
    BY <1>2, <1>5 DEF HeldOf
  <2> QED
    BY <1>4, <2>1, <2>2 DEF SettledInv, HiddenSettled, Held
<1>6. CASE Go(c, "scan") /\ mu' = mu
  <2>1. at'[c] = "scan" /\ call'[c] = call[c] /\ mu' = c
    BY <1>1, <1>2, <1>6 DEF Go
  <2>2. ~InUse(call[c].thing)'
    BY <1>2, <1>3, <2>1 DEF InUse, configVars
  <2> QED
    BY <1>4, <2>1, <2>2, LockKeeps
<1>7. CASE mu' = Nobody
  BY <1>4, <1>7, FreeAgain
<1> QED
  BY <1>5, <1>6, <1>7 DEF DeleteSome, Delete, Unlock, cacheVars

LEMMA SettleSettled ==
  ASSUME TypeOK, Shape, SettledInv, NEW c \in Clients, SettlePHP(c)
  PROVE  SettledInv'
<1> DEFINE v == call[c].thing
<1>1. /\ mu = c /\ mu' = Nobody /\ UNCHANGED <<default, hidden, used>>
      /\ call[c].does = "remove" /\ at[c] # "scan"
  BY DEF SettlePHP, Is, Unlock, Shape, ShapeOf
<1>2. ~InUse(v) /\ (scan[c][v] = "system" => v \notin hidden)
  BY <1>1 DEF SettledInv, Held, HeldOf
<1>3. Listed /\ paths \cap hidden \subseteq Known \cup {v}
  <2>1. BeingRemoved \subseteq {v}
    BY <1>1 DEF BeingRemoved, Ask
  <2> QED
    BY <2>1 DEF SettledInv, HiddenSettled
<1>4. CASE Known' = Known \cup {v} /\ UNCHANGED <<available, paths>>
  BY <1>1, <1>3, <1>4, FreeAgain DEF Listed
<1>5. CASE Known \ {v} \subseteq Known' /\ Register(v, scan[c][v])
  <2>1. Listed'
    BY <1>1, <1>3, <1>5, RegisterListed
  <2>2. paths' \cap hidden' \subseteq Known'
    BY <1>1, <1>2, <1>3, <1>5, RegisterSettled
  <2> QED
    BY <1>1, <2>1, <2>2, FreeAgain
<1>6. CASE /\ Known \ {v} \subseteq Known'
           /\ available' = available \ {v} /\ paths' = paths \ {v}
  <2>1. Listed'
    BY <1>1, <1>2, <1>3, <1>6 DEF Listed, InUse
  <2>2. paths' \cap hidden' \subseteq Known'
    BY <1>1, <1>3, <1>6
  <2> QED
    BY <1>1, <2>1, <2>2, FreeAgain
<1>7. \/ unsettled' = unsettled \cup {v} /\ cut' = cut
      \/ \E gone \in SUBSET {v} : unsettled' = unsettled \ gone /\ cut' = cut \ gone
  BY DEF SettlePHP
<1>8. Known' = Known \cup {v} \/ Known \ {v} \subseteq Known'
  BY <1>7 DEF Known
<1> QED
  BY <1>4, <1>5, <1>6, <1>8 DEF SettlePHP, Known

LEMMA UnhideSettled ==
  ASSUME TypeOK, Shape, SettledInv, NEW c \in Clients, UnhidePHP(c)
  PROVE  SettledInv'
<1>1. at \in [Clients -> Steps] /\ call \in [Clients -> Calls]
  BY DEF TypeOK
<1>2. /\ mu = Nobody /\ UNCHANGED <<default, available, paths, used>> /\ Known' = Known
      /\ hidden' \subseteq hidden /\ call[c].does # "remove"
  BY DEF UnhidePHP, Passing, Lock, Is, Shape, ShapeOf, Known, owedVars
<1>3. Listed' /\ paths' \cap hidden' \subseteq Known'
  BY <1>2, SettledWhenFree DEF Listed
<1>4. CASE Passing
  BY <1>2, <1>3, <1>4, FreeAgain DEF Passing
<1>5. CASE Lock(c) /\ Go(c, "scan")
  BY <1>1, <1>2, <1>3, <1>5, LockKeeps DEF Lock, Go
<1> QED
  BY <1>4, <1>5 DEF UnhidePHP

(* A crash cuts short what was being removed.                              *)
LEMMA CrashSettled ==
  ASSUME SettledInv, Crash
  PROVE  SettledInv'
<1>1. mu' = Nobody /\ UNCHANGED configVars
  BY DEF Crash
<1>2. Known' = Known \cup BeingRemoved
  BY DEF Crash, Known
<1> QED
  BY <1>1, <1>2, FreeAgain DEF SettledInv, Listed, HiddenSettled, configVars

LEMMA InitSettled == Init => SettledInv
<1> SUFFICES ASSUME Init PROVE SettledInv
  OBVIOUS
<1>1. Listed /\ paths \cap hidden \subseteq Known /\ mu = Nobody
  BY DEF Init, Listed
<1> QED
  BY <1>1, FreeIsSettled

LEMMA NextSettled == TypeOK /\ Shape /\ SettledInv /\ [Next]_vars => SettledInv'
<1> SUFFICES ASSUME TypeOK, Shape, SettledInv, [Next]_vars PROVE SettledInv'
  OBVIOUS
<1>1. at \in [Clients -> Steps] /\ call \in [Clients -> Calls]
  BY DEF TypeOK
<1>2. CASE UNCHANGED vars
  BY <1>2 DEF vars, cacheVars, configVars, owedVars, SettledInv, Listed, HiddenSettled,
       BeingRemoved, Held, HeldOf, InUse, Known
<1>3. ASSUME NEW c \in Clients, NEW o \in Calls, Serve(c, o) PROVE SettledInv'
  <2>1. mu # c
    BY <1>3 DEF Serve, Is, Shape, ShapeOf
  <2>2. /\ UNCHANGED <<configVars, mu, scan>> /\ Known' = Known
        /\ \A d \in Clients \ {c} : at'[d] = at[d] /\ call'[d] = call[d]
    BY <1>1, <1>3 DEF Serve, cacheVars, Known, owedVars
  <2> QED
    BY <2>1, <2>2, AsideKeeps
<1>4. ASSUME NEW c \in Clients,
             Download(c) \/ PackageInstall(c) \/ SetPHPVersion(c) \/ RemovePHP(c)
      PROVE  SettledInv'
  <2>1. mu # c
    BY <1>4 DEF Download, Look, Begin, DownloadUpdate, Stage, Receive, Unpack, Place, SaveRelease,
         Clean, End, PackageInstall, SetPHPVersion, RemovePHP, Is, Shape, ShapeOf
  <2>2. UNCHANGED <<configVars, mu, scan>> /\ Known \subseteq Known'
    BY <1>4 DEF Download, Look, Begin, DownloadUpdate, Stage, Receive, Unpack, Place, SaveRelease,
         Clean, End, PackageInstall, SetPHPVersion, RemovePHP, cacheVars, Known, owedVars
  <2>3. \E step : Go(c, step)
    BY <1>4 DEF Download, Look, Begin, DownloadUpdate, Stage, Receive, Unpack, Place, SaveRelease,
         Clean, End, PackageInstall, SetPHPVersion, RemovePHP
  <2>4. \A d \in Clients \ {c} : at'[d] = at[d] /\ call'[d] = call[d]
    BY <1>1, <2>3 DEF Go
  <2> QED
    BY <2>1, <2>2, <2>4, AsideKeeps
<1>5. ASSUME NEW c \in Clients, Registry(c), ~(SetPHPVersion(c) \/ RemovePHP(c))
      PROVE  SettledInv'
  BY <1>5, ScanSettled, AddSettled, RegisterFoundSettled, ChooseSettled, TakeAwaySettled,
     DeleteSettled, SettleSettled, UnhideSettled DEF Registry
<1>6. CASE Crash
  BY <1>6, CrashSettled
<1> QED
  BY <1>2, <1>3, <1>4, <1>5, <1>6 DEF Next, Registry

-----------------------------------------------------------------------------
(* The theorems                                                            *)
LEMMA InitIInv == Init => IInv
BY InitTypes, InitShape, InitApart, InitTorn DEF IInv

LEMMA NextIInv == IInv /\ [Next]_vars => IInv'
BY NextTypes, NextShape, NextApart, NextTorn, NextAltered DEF IInv

(* What is being deleted is not in use (Held).                             *)
LEMMA InUseKept ==
  ASSUME TypeOK, Shape, SettledInv, [Next]_vars, NEW v \in Versions, InUse(v)
  PROVE  (place[v] # "none" => place'[v] = place[v]) /\ v \notin hidden' \ hidden
<1>1. place \in [Things -> Contents] /\ v \in Things /\ v # Release
  BY NamesAssumption DEF TypeOK, Things
<1>2. CASE UNCHANGED <<place, hidden>>
  BY <1>2
<1>3. ASSUME NEW c \in Clients, Place(c) PROVE v \notin hidden' \ hidden /\
                                               (place[v] # "none" => place'[v] = place[v])
  BY <1>1, <1>3 DEF Place, configVars
<1>4. ASSUME NEW c \in Clients, SaveRelease(c) PROVE place'[v] = place[v] /\ hidden' = hidden
  BY <1>1, <1>4 DEF SaveRelease, configVars
<1>5. ASSUME NEW c \in Clients, TakeAway(c)
      PROVE  place'[v] = place[v] /\ v \notin hidden' \ hidden
  <2>1. place' = place
    BY <1>5 DEF TakeAway, folderVars
  <2>2. hidden' = hidden \/ (hidden' = hidden \cup {call[c].thing} /\ ~InUse(call[c].thing))
    BY <1>5 DEF TakeAway, Removes
  <2> QED
    BY <2>1, <2>2
<1>12. ASSUME NEW c \in Clients, DeleteSome(c) \/ Delete(c)
       PROVE  place'[v] = place[v] /\ v \notin hidden' \ hidden
  <2>1. mu = c /\ call[c].does = "remove"
    BY <1>12 DEF DeleteSome, Delete, Is, Shape, ShapeOf
  <2>2. call[c].thing # v
    BY <2>1 DEF SettledInv, Held, HeldOf
  <2>3. hidden' = hidden
    BY <1>12 DEF DeleteSome, Delete, configVars
  <2> QED
    BY <1>1, <1>12, <2>2, <2>3 DEF DeleteSome, Delete, RemoveAll
<1>6. ASSUME NEW c \in Clients, UnhidePHP(c)
      PROVE  place'[v] = place[v] /\ v \notin hidden' \ hidden
  BY <1>6 DEF UnhidePHP, folderVars
<1>7. ASSUME NEW c \in Clients,
             \/ Look(c) \/ Begin(c) \/ DownloadUpdate(c) \/ Stage(c) \/ Receive(c) \/ Unpack(c)
             \/ Clean(c) \/ End(c) \/ PackageInstall(c)
      PROVE  UNCHANGED <<place, hidden>>
  BY <1>7 DEF Look, Begin, DownloadUpdate, Stage, Receive, Unpack, Clean, End, PackageInstall,
       folderVars, configVars
<1>8. ASSUME NEW c \in Clients,
             \/ Scan(c) \/ Store(c) \/ AddPHPVersion(c) \/ RegisterFound(c)
             \/ SetPHPVersion(c) \/ ChooseDefault(c) \/ UseVersion(c)
             \/ RemovePHP(c) \/ SettlePHP(c) \/ RegisterShown(c)
      PROVE  UNCHANGED <<place, hidden>>
  BY <1>8 DEF Scan, Store, AddPHPVersion, RegisterFound, SetPHPVersion, ChooseDefault,
       UseVersion, RemovePHP, SettlePHP, RegisterShown, folderVars, configVars
<1>9. ASSUME NEW c \in Clients, NEW o \in Calls, Serve(c, o) PROVE UNCHANGED <<place, hidden>>
  BY <1>9 DEF Serve, folderVars, configVars
<1>10. CASE Crash
  BY <1>2, <1>10 DEF Crash, configVars
<1>11. CASE UNCHANGED vars
  BY <1>2, <1>11 DEF vars, folderVars, configVars
<1> QED
  BY <1>2, <1>3, <1>4, <1>5, <1>6, <1>7, <1>8, <1>9, <1>10, <1>11, <1>12
    DEF Next, Download, Registry

(* What is detected, cached and written to wharf.json stays what it is     *)
(* (core/php.go, core/webserver.go, core/update.go).                       *)
THEOREM TypeCorrect == Spec => []TypeOK
<1>1. IInv => TypeOK
  BY DEF IInv
<1> QED
  BY InitIInv, NextIInv, <1>1, PTL DEF Spec

(* Two calls never download the same thing, the flag the window shows is   *)
(* that of a call at it, and nothing stays behind when it has ended        *)
(* (core.begin and end, the deferred RemoveAll).                           *)
THEOREM DownloadsAreApart == Spec => []DownloadsApart
<1>1. IInv => DownloadsApart
  BY DEF IInv
<1> QED
  BY InitIInv, NextIInv, <1>1, PTL DEF Spec

(* What is in place has all its parts, and is as published where there is  *)
(* a checksum, whatever fails and whenever the daemon ends: but for what is*)
(* being deleted, what a removal that failed has left, which the user was  *)
(* told, and what one that was cut short has left, which nobody was        *)
(* (download.go, php.go).                                                  *)
THEOREM NothingTorn == Spec => []InPlaceIsWhole
<1>1. ASSUME IInv PROVE InPlaceIsWhole
  <2>1. ASSUME NEW t \in Things
        PROVE  \/ place[t] \in {"none", "whole"}
               \/ ~Vouched(t) /\ place[t] \in Complete
               \/ t \in unsettled \cup cut \cup Deleting
    <3>1. place[t] \in {"none"} \cup Complete \cup Torn
      BY <1>1 DEF IInv, TornIsKnown
    <3>2. CASE place[t] \in Torn
      <4>1. t \in Known \cup DeletingFrom(InPlace)
        BY <1>1, <3>2 DEF IInv, TornIsKnown
      <4> QED
        BY <4>1 DEF Known, DeletingFrom, Deleting, Is
    <3>3. CASE place[t] \in {"altered", "mute"}
      BY <1>1, <3>3 DEF IInv, AlteredIsUnvouched, Vouched, Complete
    <3> QED
      BY <3>1, <3>2, <3>3 DEF Complete
  <2> QED
    BY <2>1 DEF InPlaceIsWhole
<1>2. IInv => InPlaceIsWhole
  BY <1>1
<1> QED
  BY InitIInv, NextIInv, <1>2, PTL DEF Spec

(* A version in use is neither removed nor hidden, whatever was chosen     *)
(* while the removal waited for d.mu (RemovePHP, phpInUse).                *)
THEOREM InUseStays == Spec => NothingInUseTakenAway
<1>1. IInv /\ SettledInv /\ [Next]_vars =>
        [\A v \in Versions :
           InUse(v) => (place[v] # "none" => place'[v] = place[v]) /\
                       v \notin hidden' \ hidden]_vars
  BY InUseKept DEF IInv
<1>2. IInv /\ SettledInv /\ [Next]_vars => IInv' /\ SettledInv'
  BY NextIInv, NextSettled DEF IInv
<1> QED
  BY InitIInv, InitSettled, <1>1, <1>2, PTL DEF Spec, NothingInUseTakenAway

(* Between operations wharf.json lists the versions in use, and no folder  *)
(* it hides is served from, but of a version whose removal the user was    *)
(* told failed or whose removal the daemon's end cut short after it had    *)
(* hidden the folder, which nothing makes up for: whatever is scanned,     *)
(* registered, chosen, removed or shown again meanwhile (settlePHP,        *)
(* UnhidePHP, AddPHPVersion).                                              *)
THEOREM ConfigIsSettled == Spec => []ConfigSettled
<1>1. SettledInv => ConfigSettled
  BY SettledWhenFree DEF ConfigSettled, Listed, Known
<1>2. IInv /\ SettledInv /\ [Next]_vars => IInv' /\ SettledInv'
  BY NextIInv, NextSettled DEF IInv
<1> QED
  BY InitIInv, InitSettled, <1>1, <1>2, PTL DEF Spec
=============================================================================
