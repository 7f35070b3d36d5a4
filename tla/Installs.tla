------------------------------- MODULE Installs -------------------------------
(***************************************************************************)
(* What Wharf fetches and what it finds                                    *)
(* (daemon/internal/{download,update,php,webserver}, with core/{php,       *)
(* webserver,update,projects}.go): downloads staged and renamed into       *)
(* place, the scan of the machine and its cached result, and what          *)
(* wharf.json says of PHP versions.                                        *)
(*                                                                         *)
(* Downloads run outside d.mu, beside each other and beside everything     *)
(* that takes it; so does a re-scan.  An action is what one call does      *)
(* between two points at which another may act on the same folders, cache, *)
(* flags or config.                                                        *)
(***************************************************************************)
EXTENDS Integers

CONSTANTS
  Clients,    \* the calls that may be under way at once
  Nobody,
  Versions,   \* PHP minor versions
  Number,     \* what they are ordered by
  Releases,   \* when each known version was, or is, released and supported until
  Now,        \* the time of the first start
  None,       \* no PHP override
  Machines,   \* what a machine may have when Wharf comes to it
  MaxCalls,   \* bound: calls
  MaxTrouble  \* bound: failures and crashes

(* Besides PHP versions: a webserver, and a new release of Wharf.          *)
Webserver == "webserver"
Release == "release"
PHP == "php"          \* every version there is
Things == Versions \cup {Webserver, Release}
Found == Versions \cup {Webserver}    \* what detection looks for

(* A machine with it installs the webserver from its packages.             *)
PackageManager == "package manager"

ASSUME NamesAssumption ==
  /\ Nobody \notin Clients /\ None \notin Versions
  /\ Versions \cap {Webserver, Release, PHP, PackageManager} = {}
ASSUME MachinesAssumption == Machines \subseteq SUBSET (Found \cup {PackageManager})
ASSUME ReleasesAssumption ==
  /\ Number \in [Versions -> Nat] /\ \A v, w \in Versions : Number[v] = Number[w] => v = w
  /\ \A S \in SUBSET Versions : S # {} => \E v \in S : \A w \in S : Number[w] <= Number[v]
  /\ Now \in Nat
  /\ \E known \in SUBSET Versions :
       Releases \in [known -> [released : Nat, activeUntil : Nat, securityUntil : Nat]]
  /\ \E v \in DOMAIN Releases : Releases[v].released <= Now
ASSUME BoundsAssumption == MaxCalls \in Nat /\ MaxTrouble \in Nat

Ask(does, thing) == [does |-> does, thing |-> thing]
Calls ==
  {Ask("install", t) : t \in Things} \cup {Ask("detect", t) : t \in {PHP, Webserver}} \cup
  {Ask(does, v) : does \in {"add", "set", "use", "remove", "unhide"}, v \in Versions}

VARIABLES
  place,      \* what bin/php/<version>, bin/<webserver> and the chosen file hold
  staged,     \* what the folder or file holds in which a download is put together
  left,       \* versions of which a crash has left such a folder, with all in it
  system,     \* what the machine has
  found,      \* phpInstalls and webInstalls: the last scan that was stored
  scan,       \* each call's own last scan, or what it deletes
  flag,       \* downloading, installing and updates.downloading
  default, available, paths, hidden, used, \* services.php, the project's override
  mu,         \* who holds d.mu
  at, call,   \* where each call is, and what it does
  body,       \* what it received
  unsettled,  \* versions whose removal failed halfway, which the user was told
  cut,        \* versions whose removal was cut short, which nobody was told
  calls, trouble \* how many calls, and how many failures and crashes, so far

folderVars == <<place, staged, left, system>>
cacheVars == <<found, scan>>
configVars == <<default, available, paths, hidden, used>>
owedVars == <<unsettled, cut>>
vars ==
  <<folderVars, cacheVars, flag, configVars, mu, at, call, body, owedVars, calls, trouble>>

(***************************************************************************)
(* The first start                                                         *)
(***************************************************************************)
StatusAt(v) ==
  IF v \notin DOMAIN Releases THEN "unknown"
  ELSE LET r == Releases[v]
       IN CASE Now < r.released -> "unreleased"
            [] r.released <= Now /\ Now < r.activeUntil -> "active"
            [] r.released <= Now /\ r.activeUntil <= Now /\ Now < r.securityUntil -> "security"
            [] OTHER -> "eol"

With(S, status) == {v \in S : StatusAt(v) = status}
Newest(S) == CHOOSE v \in S : \A w \in S : Number[w] <= Number[v]

(* The newest in active support; with a table that has aged out, the       *)
(* newest ever released.                                                   *)
Recommended ==
  LET known == DOMAIN Releases
      active == With(known, "active")
  IN Newest(IF active # {} THEN active ELSE known \ With(known, "unreleased"))

(* Of what is installed: the newest of the best status there is.           *)
Preferred(S) ==
  CASE With(S, "active") # {} -> Newest(With(S, "active"))
    [] With(S, "active") = {} /\ With(S, "security") # {} -> Newest(With(S, "security"))
    [] With(S, "active") \cup With(S, "security") = {} /\ With(S, "unknown") # {} ->
         Newest(With(S, "unknown"))
    [] OTHER -> Newest(With(S, "eol"))

Idle == Ask("detect", Webserver)       \* what is kept of a call that has ended
Nothing == [t \in Found |-> "none"]

(* FirstRunSetup adopts the PHP versions the machine has; with none, the   *)
(* recommended version is the default all the same, and listed (normalise).*)
Init ==
  LET usable == system \cap Versions
  IN /\ system \in Machines
     /\ place = [t \in Things |-> "none"]
     /\ staged = [t \in Things |-> "none"] /\ left = {}
     /\ found = [t \in Found |-> IF t \in system THEN "system" ELSE "none"]
     /\ scan = [c \in Clients |-> Nothing]
     /\ flag = {}
     /\ default = IF usable = With(usable, "unreleased") THEN Recommended ELSE Preferred(usable)
     /\ available = usable \cup {default} /\ paths = usable
     /\ hidden = {} /\ used = None
     /\ mu = Nobody
     /\ at = [c \in Clients |-> "idle"] /\ call = [c \in Clients |-> Idle]
     /\ body = [c \in Clients |-> "none"]
     /\ unsettled = {} /\ cut = {} /\ calls = 0 /\ trouble = 0

Is(c, step) == at[c] = step
Go(c, step) ==
  /\ at' = [at EXCEPT ![c] = step]
  /\ call' = IF step = "idle" THEN [call EXCEPT ![c] = Idle] ELSE call
Fails == trouble < MaxTrouble /\ trouble' = trouble + 1
Works == trouble' = trouble
Lock(c) == mu = Nobody /\ mu' = c
Passing == mu = Nobody /\ mu' = mu
Unlock == mu' = Nobody

(***************************************************************************)
(* Downloads                                                               *)
(***************************************************************************)
FirstStep(o) ==
  CASE o.does = "detect" -> "scan"
    [] o.does = "install" /\ o.thing = Release -> "update"
    [] o.does = "install" -> "look"
    [] OTHER -> o.does

Serve(c, o) ==
  /\ Is(c, "idle") /\ calls < MaxCalls /\ calls' = calls + 1
  /\ call' = [call EXCEPT ![c] = o] /\ at' = [at EXCEPT ![c] = FirstStep(o)]
  /\ UNCHANGED <<folderVars, cacheVars, flag, configVars, mu, body, owedVars, trouble>>

(* InstallPHP and InstallWebserver begin by looking whether there is       *)
(* something already.                                                      *)
Refuses(t) ==
  \/ place[t] # "none"
  \/ t \in Versions \ DOMAIN Releases
  \/ t = Webserver /\ found[t] # "none"
Look(c) ==
  /\ Is(c, "look") /\ Go(c, IF Refuses(call[c].thing) THEN "idle" ELSE "begin")
  /\ UNCHANGED <<folderVars, cacheVars, flag, configVars, mu, body, owedVars, calls, trouble>>
(* Mutant: begin marks what is in progress and does not look whether it    *)
(* is.                                                                     *)
BeginAnyway(c) ==
  /\ Is(c, "begin") /\ Go(c, "stage")
  /\ flag' = flag \cup {call[c].thing}
  /\ UNCHANGED <<folderVars, cacheVars, configVars, mu, body, owedVars, calls, trouble>>

(* begin: one at a time.                                                   *)
Begin(c) ==
  /\ Is(c, "begin")
  /\ flag' = flag \cup {call[c].thing}
  /\ Go(c, IF call[c].thing \in flag THEN "idle" ELSE "stage")
  /\ UNCHANGED <<folderVars, cacheVars, configVars, mu, body, owedVars, calls, trouble>>

DownloadUpdate(c) ==
  /\ Is(c, "update")
  /\ flag' = flag \cup {Release}
  /\ Go(c, IF Release \in flag THEN "idle" ELSE "stage")
  /\ UNCHANGED <<folderVars, cacheVars, configVars, mu, body, owedVars, calls, trouble>>

(* What the plan for a webserver says; PHP and releases are downloaded.    *)
Plan(t) == IF t = Webserver /\ PackageManager \in system THEN "ask" ELSE "receive"

(* A folder beside the destination; a package manager leaves it empty.     *)
Stage(c) ==
  LET t == call[c].thing
  IN /\ Is(c, "stage")
     /\ \/ staged' = [staged EXCEPT ![t] = "empty"] /\ Works /\ Go(c, Plan(t))
        \/ Fails /\ Go(c, "end") /\ UNCHANGED staged
     /\ UNCHANGED <<place, left, system, cacheVars, flag, configVars, mu, body, owedVars, calls>>

(* packageInstall: the user answers a prompt, or never does.               *)
PackageInstall(c) ==
  /\ Is(c, "ask")
  /\ \/ system' = system \cup {Webserver} /\ Works /\ Go(c, "scan")
     \/ Fails /\ Go(c, "clean") /\ UNCHANGED system
  /\ UNCHANGED <<place, staged, left, cacheVars, flag, configVars, mu, body, owedVars, calls>>

(* A webserver's index and a release have checksums, or are refused; the   *)
(* index of PHP's static builds has none.                                  *)
Vouched(t) == t \notin Versions
(* Mutant: a build whose second part does not arrive is used all the same. *)
ReceiveBestEffort(c) ==
  /\ Is(c, "receive")
  /\ \/ body' = [body EXCEPT ![c] = "good"] /\ Works /\ Go(c, "unpack")
     \/ /\ Fails /\ UNCHANGED body
        /\ Go(c, IF staged[call[c].thing] = "part" THEN "place" ELSE "clean")
  /\ UNCHANGED <<folderVars, cacheVars, flag, configVars, mu, owedVars, calls>>

(* File, which compares the checksum; its client's timeout ends it.        *)
Receive(c) ==
  /\ Is(c, "receive")
  /\ \/ body' = [body EXCEPT ![c] = "good"] /\ Works /\ Go(c, "unpack")
     \/ /\ ~Vouched(call[c].thing) /\ Fails
        /\ body' = [body EXCEPT ![c] = "garbled"] /\ Go(c, "unpack")
     \/ Fails /\ Go(c, "clean") /\ UNCHANGED body
  /\ UNCHANGED <<folderVars, cacheVars, flag, configVars, mu, owedVars, calls>>

(* All the parts, of which a version's may not be what was published:      *)
(* "altered", or "mute" when its php does not say its version any more.    *)
Complete == {"whole", "altered", "mute"}
Parts == {"part", "altered part"}      \* the first of two
Torn == {"php-fpm", "php", "files"}    \* what may be left of a folder

(* Of a static build, php-fpm comes first and php second.                  *)
NextPart(t) ==
  CASE t \in Versions /\ staged[t] = "empty" -> "part"
    [] staged[t] = "altered part" -> "altered"
    [] OTHER -> "whole"
Altered(t) == IF staged[t] = "empty" THEN {"altered part"} ELSE {"altered", "mute"}

(* UntarGz fails over what does not decode, and stops at the end of the    *)
(* tar, before gzip's own checksum.                                        *)
Unpack(c) ==
  LET t == call[c].thing
  IN /\ Is(c, "unpack") /\ Works
     /\ \/ \E content \in IF body[c] = "garbled" THEN Altered(t) ELSE {NextPart(t)} :
             /\ staged' = [staged EXCEPT ![t] = content]
             /\ Go(c, IF content \in Parts THEN "receive" ELSE "place")
        \/ body[c] = "garbled" /\ Go(c, "clean") /\ UNCHANGED staged
     /\ body' = [body EXCEPT ![c] = "none"]
     /\ UNCHANGED <<place, left, system, cacheVars, flag, configVars, mu, owedVars, calls>>

(* A rename onto a folder that is there fails.  A folder that is being     *)
(* deleted is moved with what there is of it.                              *)
Place(c) ==
  LET t == call[c].thing
      free == staged[t] # "none" /\ place[t] = "none"
  IN /\ Is(c, "place") /\ t # Release
     /\ \/ /\ free /\ Works /\ Go(c, "scan")
           /\ place' = [place EXCEPT ![t] = staged[t]] /\ staged' = [staged EXCEPT ![t] = "none"]
           /\ cut' = IF staged[t] \in Torn THEN cut \cup {t} ELSE cut
        \/ /\ (~free /\ Works) \/ (free /\ Fails)
           /\ Go(c, "clean") /\ UNCHANGED <<place, staged, cut>>
     /\ UNCHANGED <<left, system, cacheVars, flag, configVars, mu, body, unsettled, calls>>

(* GitHub.Download: onto the file that was chosen, whatever it held.       *)
SaveRelease(c) ==
  /\ Is(c, "place") /\ call[c].thing = Release
  /\ \/ /\ Works /\ Go(c, "end")
        /\ place' = [place EXCEPT ![Release] = staged[Release]]
        /\ staged' = [staged EXCEPT ![Release] = "none"]
     \/ Fails /\ Go(c, "clean") /\ UNCHANGED <<place, staged>>
  /\ UNCHANGED <<left, system, cacheVars, flag, configVars, mu, body, owedVars, calls>>

(* The deferred RemoveAll, and then end.                                   *)
Clean(c) ==
  /\ Is(c, "clean") /\ Go(c, "end")
  /\ staged' = [staged EXCEPT ![call[c].thing] = "none"]
  /\ UNCHANGED <<place, left, system, cacheVars, flag, configVars, mu, body, owedVars,
                 calls, trouble>>

End(c) ==
  /\ Is(c, "end") /\ Go(c, "idle")
  /\ flag' = flag \ {call[c].thing}
  /\ UNCHANGED <<folderVars, cacheVars, configVars, mu, body, owedVars, calls, trouble>>

(***************************************************************************)
(* Detection                                                               *)
(***************************************************************************)
Servable(what) == what \in {"vendored", "staged", "system"}
Finds == {"none", "vendored", "staged", "system", "unservable"}

(* Folders in bin/php, in the order of their names: one a download has all *)
(* its parts in (what is left of one that is being deleted is passed over  *)
(* here), then <version>, of which a failed removal leaves some.           *)
Vendored(v) ==
  CASE v \in left \/ staged[v] \in {"whole", "altered"} -> "staged"
    [] place[v] \in Complete \cup {"php-fpm"} -> "vendored"
    [] place[v] = "php" -> "unservable"
    [] OTHER -> "none"

(* The machine's, of which hidden folders are passed over.                 *)
OnMachine(v) == IF v \in system \ hidden THEN "system" ELSE "none"

(* Wharf's own hides the machine's copy, without php-fpm too.              *)
DetectsPHP(v) == IF Vendored(v) = "none" THEN OnMachine(v) ELSE Vendored(v)

DetectsWebserver ==
  IF place[Webserver] # "none" THEN "vendored"
  ELSE IF Webserver \in system THEN "system" ELSE "none"

Detected == [t \in Found |-> IF t = Webserver THEN DetectsWebserver ELSE DetectsPHP(t)]

(* RefreshPHP and RefreshWebservers: a scan, which takes a while, and then *)
(* its result is stored.                                                   *)
Looked(o) == IF o.thing = Webserver THEN {Webserver} ELSE Versions
Scan(c) ==
  /\ Is(c, "scan") /\ Go(c, "store")
  /\ scan' = [scan EXCEPT ![c] = Detected]
  /\ UNCHANGED <<folderVars, found, flag, configVars, mu, body, owedVars, calls, trouble>>

AfterScan(c) ==
  LET o == call[c]
  IN IF mu = c
     THEN CASE o.does = "remove" -> "settle" [] o.does = "unhide" -> "shown" [] OTHER -> "register"
     ELSE IF o.does = "detect" THEN "idle" ELSE IF o.thing = Webserver THEN "clean" ELSE "add"
Store(c) ==
  LET o == call[c]
  IN /\ Is(c, "store")
     /\ found' = [t \in Found |-> IF t \in Looked(o) THEN scan[c][t] ELSE found[t]]
     /\ Go(c, AfterScan(c))
     /\ scan' = IF mu = c THEN scan ELSE [scan EXCEPT ![c] = Nothing]
     /\ UNCHANGED <<folderVars, flag, configVars, mu, body, owedVars, calls, trouble>>

(***************************************************************************)
(* PHP versions in wharf.json                                              *)
(***************************************************************************)
InUse(v) == v \in {default, used}
(* Mutant: the version and where it was found are swapped.                 *)
RegisterSwapped(v, what) ==
  /\ available' = available \cup {what}
  /\ paths' = IF what = "system" THEN paths \cup {v} ELSE paths \ {v}

Register(v, what) ==
  /\ available' = available \cup {v}
  /\ paths' = IF what = "system" THEN paths \cup {v} ELSE paths \ {v}

(* Where a call goes on after AddPHPVersion.                               *)
Added(c) == CASE call[c].does = "install" -> "clean"
              [] call[c].does = "set" -> "choose"
              [] OTHER -> "idle"
NotAdded(c) == IF call[c].does = "install" THEN "clean" ELSE "idle"

(* AddPHPVersion: php-fpm in bin/php/<version> is taken for the version;   *)
(* otherwise a scan says where one is.                                     *)
AddPHPVersion(c) ==
  LET v == call[c].thing
  IN /\ Is(c, "add")
     /\ \/ /\ place[v] \in Complete \cup {"php-fpm"} /\ Passing
           /\ \/ Register(v, "vendored") /\ Works /\ Go(c, Added(c))
              \/ Fails /\ Go(c, NotAdded(c)) /\ UNCHANGED <<available, paths>>
        \/ /\ place[v] \notin Complete \cup {"php-fpm"} /\ Lock(c) /\ Works /\ Go(c, "scan")
           /\ UNCHANGED <<available, paths>>
     /\ UNCHANGED <<folderVars, cacheVars, flag, default, hidden, used, body, owedVars, calls>>

RegisterFound(c) ==
  LET v == call[c].thing
  IN /\ Is(c, "register") /\ Unlock /\ scan' = [scan EXCEPT ![c] = Nothing]
     /\ \/ /\ Servable(scan[c][v]) /\ Works
           /\ Register(v, scan[c][v]) /\ Go(c, Added(c))
        \/ /\ (~Servable(scan[c][v]) /\ Works) \/ (Servable(scan[c][v]) /\ Fails)
           /\ Go(c, NotAdded(c)) /\ UNCHANGED <<available, paths>>
     /\ UNCHANGED <<folderVars, found, flag, default, hidden, used, body, owedVars, calls>>
(* Mutant: SetPHPVersion takes d.mu before AddPHPVersion, which takes it   *)
(* too.                                                                    *)
SetUnderLock(c) ==
  /\ Is(c, "set") /\ Lock(c)
  /\ Go(c, IF call[c].thing \in available THEN "choose" ELSE "add")
  /\ UNCHANGED <<folderVars, cacheVars, flag, configVars, body, owedVars, calls, trouble>>

(* SetPHPVersion looks whether the version is there without d.mu.          *)
SetPHPVersion(c) ==
  /\ Is(c, "set") /\ Go(c, IF call[c].thing \in available THEN "choose" ELSE "add")
  /\ UNCHANGED <<folderVars, cacheVars, flag, configVars, mu, body, owedVars, calls, trouble>>

(* normalise lists the default among the versions.                         *)
ChooseDefault(c) ==
  /\ Is(c, "choose") /\ Passing /\ Go(c, "idle")
  /\ \/ default' = call[c].thing /\ available' = available \cup {default'} /\ Works
     \/ Fails /\ UNCHANGED <<default, available>>
  /\ UNCHANGED <<folderVars, cacheVars, flag, paths, hidden, used, body, owedVars, calls>>

(* UpdateSettings: a project's override.                                   *)
UseVersion(c) ==
  /\ Is(c, "use") /\ Passing /\ Go(c, "idle")
  /\ used' = IF call[c].thing \in available THEN call[c].thing ELSE used
  /\ UNCHANGED <<folderVars, cacheVars, flag, default, available, paths, hidden, body,
                 owedVars, calls, trouble>>

(* RemovePHP looks at the flag without d.mu.                               *)
RemovePHP(c) ==
  /\ Is(c, "remove") /\ Go(c, IF call[c].thing \in flag THEN "idle" ELSE "take")
  /\ UNCHANGED <<folderVars, cacheVars, flag, configVars, mu, body, owedVars, calls, trouble>>

(* RemoveAll deletes the folder the picker showed, file by file.           *)
Deletes(c) == scan[c][call[c].thing]
Rests(content) ==
  CASE content \in Complete -> Torn
    [] content \in {"php-fpm", "php"} -> {"files"}
    [] OTHER -> {}
DeleteSome(c) ==
  LET v == call[c].thing
  IN /\ Is(c, "delete")
     /\ \/ /\ Deletes(c) \in {"vendored", "unservable"} /\ UNCHANGED staged
           /\ \E rest \in Rests(place[v]) : place' = [place EXCEPT ![v] = rest]
        \/ /\ Deletes(c) = "staged" /\ UNCHANGED place
           /\ \E rest \in Rests(staged[v]) : staged' = [staged EXCEPT ![v] = rest]
     /\ UNCHANGED <<left, system, cacheVars, flag, configVars, mu, at, call, body, owedVars,
                    calls, trouble>>

IsTorn(v) == place[v] \in Torn \/ staged[v] \in Torn
RemoveAll(v, dir) ==
  \/ /\ dir \in {"vendored", "unservable"}
     /\ place' = [place EXCEPT ![v] = "none"] /\ UNCHANGED <<left, staged>>
  \/ /\ dir = "staged" /\ staged[v] \in Complete \cup Torn
     /\ staged' = [staged EXCEPT ![v] = "none"] /\ UNCHANGED <<place, left>>
  \/ /\ dir = "staged" /\ staged[v] \notin Torn
     /\ left' = left \ {v} /\ UNCHANGED <<place, staged>>
Delete(c) ==
  LET v == call[c].thing
  IN /\ Is(c, "delete")
     /\ \/ RemoveAll(v, Deletes(c)) /\ Works /\ Go(c, "scan") /\ UNCHANGED <<scan, mu, unsettled>>
        \/ /\ Fails /\ Unlock /\ Go(c, "idle") /\ scan' = [scan EXCEPT ![c] = Nothing]
           /\ unsettled' = IF IsTorn(v) THEN unsettled \cup {v} ELSE unsettled
           /\ UNCHANGED <<place, left, staged>>
     /\ UNCHANGED <<system, found, flag, configVars, body, cut, calls>>

(* A folder of Wharf's own is deleted, one found on the machine is hidden. *)
Removes(c) ==
  LET v == call[c].thing
  IN /\ Lock(c) /\ Works
     /\ IF found[v] = "system"
        THEN hidden' = hidden \cup {v} /\ Go(c, "scan") /\ UNCHANGED scan
        ELSE scan' = [scan EXCEPT ![c] = found] /\ Go(c, "delete") /\ UNCHANGED hidden

(* Mutant: phpInUse looks at the default and not at the projects.          *)
TakeAwayOverride(c) ==
  LET v == call[c].thing
  IN /\ Is(c, "take")
     /\ IF found[v] = "none" \/ v = default
        THEN Passing /\ Works /\ Go(c, "idle") /\ UNCHANGED <<hidden, scan>>
        ELSE Removes(c)
     /\ UNCHANGED <<folderVars, found, flag, default, available, paths, used, body, owedVars,
                    calls>>

(* Stop, or the config, may fail before anything is taken away.            *)
TakeAway(c) ==
  LET v == call[c].thing
      refused == found[v] = "none" \/ InUse(v)
  IN /\ Is(c, "take")
     /\ \/ /\ (refused /\ Works) \/ (~refused /\ Fails)
           /\ Passing /\ Go(c, "idle") /\ UNCHANGED <<hidden, scan>>
        \/ ~refused /\ Removes(c)
     /\ UNCHANGED <<folderVars, found, flag, default, available, paths, used, body, owedVars,
                    calls>>
(* Mutant: settlePHP leaves the path of a version that is gone.            *)
SettleVersionOnly(c) ==
  LET v == call[c].thing
  IN /\ Is(c, "settle") /\ Unlock /\ scan' = [scan EXCEPT ![c] = Nothing] /\ Go(c, "idle")
     /\ unsettled' = unsettled \ {v} /\ cut' = cut \ {v} /\ Works
     /\ IF Servable(scan[c][v]) THEN Register(v, scan[c][v])
        ELSE available' = available \ {v} /\ paths' = paths
     /\ UNCHANGED <<folderVars, found, flag, default, hidden, used, body, calls>>

(* settlePHP: another copy takes its place, or the version leaves the      *)
(* picker.                                                                 *)
SettlePHP(c) ==
  LET v == call[c].thing
      settled == IF IsTorn(v) THEN {} ELSE {v}
  IN /\ Is(c, "settle") /\ Unlock /\ scan' = [scan EXCEPT ![c] = Nothing] /\ Go(c, "idle")
     /\ \/ /\ Works
           /\ unsettled' = unsettled \ settled /\ cut' = cut \ settled
           /\ IF Servable(scan[c][v]) THEN Register(v, scan[c][v])
              ELSE available' = available \ {v} /\ paths' = paths \ {v}
        \/ Fails /\ unsettled' = unsettled \cup {v} /\ UNCHANGED <<available, paths, cut>>
     /\ UNCHANGED <<folderVars, found, flag, default, hidden, used, body, calls>>

UnhidePHP(c) ==
  LET v == call[c].thing
  IN /\ Is(c, "unhide")
     /\ \/ v \in hidden /\ hidden' = hidden \ {v} /\ Lock(c) /\ Works /\ Go(c, "scan")
        \/ /\ (v \notin hidden /\ Works) \/ (v \in hidden /\ Fails)
           /\ hidden' = hidden /\ Passing /\ Go(c, "idle")
     /\ UNCHANGED <<folderVars, cacheVars, flag, default, available, paths, used, body,
                    owedVars, calls>>

(* The folder shown again is served from, if detection prefers it.         *)
RegisterShown(c) ==
  LET v == call[c].thing
  IN /\ Is(c, "shown") /\ Unlock /\ scan' = [scan EXCEPT ![c] = Nothing] /\ Go(c, "idle")
     /\ \/ Works /\ IF scan[c][v] = "system" THEN Register(v, "system")
                    ELSE UNCHANGED <<available, paths>>
        \/ scan[c][v] = "system" /\ Fails /\ UNCHANGED <<available, paths>>
     /\ UNCHANGED <<folderVars, found, flag, default, hidden, used, body, owedVars, calls>>

(***************************************************************************)
(* The specification                                                       *)
(***************************************************************************)

BeingRemoved == {v \in Versions : \E c \in Clients : mu = c /\ call[c] = Ask("remove", v)}

(* The daemon crashes and is started again, which scans.  What a download  *)
(* had put together stays, without its flag; so does what a removal had    *)
(* not deleted yet, or had hidden.                                         *)
Crash ==
  /\ Fails /\ UNCHANGED <<calls, place, system, configVars, unsettled>>
  /\ at' = [c \in Clients |-> "idle"] /\ mu' = Nobody /\ flag' = {}
  /\ left' = left \cup {v \in Versions : staged[v] \in {"whole", "altered"}}
  /\ staged' = [t \in Things |-> "none"]
  /\ cut' = cut \cup BeingRemoved
  /\ found' = Detected'
  /\ scan' = [c \in Clients |-> Nothing] /\ call' = [c \in Clients |-> Idle]
  /\ body' = [c \in Clients |-> "none"]

Download(c) ==
  \/ Look(c) \/ Begin(c) \/ DownloadUpdate(c) \/ Stage(c) \/ Receive(c) \/ Unpack(c)
  \/ Place(c) \/ SaveRelease(c) \/ Clean(c) \/ End(c)
Registry(c) ==
  \/ Scan(c) \/ Store(c) \/ AddPHPVersion(c) \/ RegisterFound(c)
  \/ SetPHPVersion(c) \/ ChooseDefault(c) \/ UseVersion(c)
  \/ RemovePHP(c) \/ TakeAway(c) \/ DeleteSome(c) \/ Delete(c) \/ SettlePHP(c)
  \/ UnhidePHP(c) \/ RegisterShown(c)

Next ==
  \/ \E c \in Clients : Download(c) \/ Registry(c) \/ PackageInstall(c)
  \/ \E c \in Clients, o \in Calls : Serve(c, o)
  \/ Crash

(* A call goes on; only the password prompt may stay unanswered.           *)
Fairness == \A c \in Clients : WF_vars(Download(c) \/ Registry(c))
Spec == Init /\ [][Next]_vars /\ Fairness

(***************************************************************************)
(* Properties                                                              *)
(***************************************************************************)
Downloading == {"stage", "ask", "receive", "unpack", "place", "clean", "end"}
Steps == Downloading \cup
  {"idle", "look", "begin", "update", "scan", "store", "add", "register", "set", "choose", "use",
   "remove", "take", "delete", "settle", "unhide", "shown"}

Contents == {"none", "empty"} \cup Parts \cup Complete \cup Torn

TypeOK ==
  /\ place \in [Things -> Contents] /\ staged \in [Things -> Contents]
  /\ left \subseteq Versions /\ system \subseteq Found \cup {PackageManager}
  /\ found \in [Found -> Finds] /\ scan \in [Clients -> [Found -> Finds]]
  /\ flag \subseteq Things
  /\ default \in Versions /\ used \in Versions \cup {None}
  /\ available \subseteq Versions /\ paths \subseteq Versions /\ hidden \subseteq Versions
  /\ mu \in Clients \cup {Nobody}
  /\ at \in [Clients -> Steps] /\ call \in [Clients -> Calls]
  /\ body \in [Clients -> {"none", "good", "garbled"}]
  /\ unsettled \subseteq Versions /\ cut \subseteq Versions
  /\ calls \in 0 .. MaxCalls /\ trouble \in 0 .. MaxTrouble

(* What is in place has all its parts after any failure or crash and       *)
(* beside any other call ("a failure leaves no half-installed folder"), and*)
(* is what was published where a checksum says what that is.  Only of a    *)
(* version that is being deleted, whose removal the user was told failed   *)
(* or whose removal was cut short, by the daemon's end or by the download  *)
(* of what it deletes, is there some.                                      *)
Deleting == {v \in Versions : \E c \in Clients : Is(c, "delete") /\ call[c].thing = v}
InPlaceIsWhole ==
  \A t \in Things :
    \/ place[t] \in {"none", "whole"}
    \/ ~Vouched(t) /\ place[t] \in Complete
    \/ t \in unsettled \cup cut \cup Deleting

(* The flag the window shows belongs to one call that is downloading: two  *)
(* never download the same thing, and nothing is being put together when   *)
(* no call is at it (begin, end, the deferred RemoveAll).                  *)
IsDownloading(c, t) ==
  /\ call[c] = Ask("install", t)
  /\ at[c] \in Downloading \cup {"scan", "store", "add", "register"}
DownloadsApart ==
  \A t \in Things :
    /\ \A c, d \in Clients : IsDownloading(c, t) /\ IsDownloading(d, t) => c = d
    /\ t \in flag <=> \E c \in Clients : IsDownloading(c, t)
    /\ staged[t] # "none" => t \in flag

(* Between operations, wharf.json lists the versions in use, and no folder *)
(* it hides is one that projects are served from, unless the user was told *)
(* that a removal failed or the daemon ended in the middle of one: after   *)
(* RemovePHP has hidden the folder and before settlePHP, which nothing     *)
(* makes up for at the next start (RemovePHP, UnhidePHP, settlePHP).       *)
ConfigSettled ==
  mu = Nobody => /\ {default, used} \ {None} \subseteq available
                 /\ paths \subseteq available
                 /\ paths \cap hidden \subseteq unsettled \cup cut

(* "A PHP version in use is neither removed nor hidden", whatever was      *)
(* chosen while the removal waited for d.mu.                               *)
NothingInUseTakenAway ==
  [][\A v \in Versions :
       InUse(v) => (place[v] # "none" => place'[v] = place[v]) /\ v \notin hidden' \ hidden]_vars

(* Every call comes to its end, so that no flag stays and nobody waits for *)
(* d.mu for ever, except while the user is asked for a password.           *)
CallsEnd == \A c \in Clients : []<>(Is(c, "idle") \/ Is(c, "ask"))
===============================================================================
