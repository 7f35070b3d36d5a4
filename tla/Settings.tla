------------------------------- MODULE Settings -------------------------------
(***************************************************************************)
(* What the user may edit by hand and Wharf writes too                     *)
(* (daemon/internal/{config,configtemplate,shellpath}, with core/{watch,   *)
(* userfiles,configtemplates,terminal,core}.go): wharf.json and its copy   *)
(* in memory, the rules a project is served with and php.ini, and the      *)
(* block in the shell's startup files.                                     *)
(*                                                                         *)
(* Actors: the daemon's own goroutine, which starts it and then is its     *)
(* watcher, and the clients' calls.  One project, which the front door     *)
(* serves; FrontDoor has the rest of it.  An action is what an actor does  *)
(* between two points at which others may act on the same files or locks.  *)
(***************************************************************************)
EXTENDS FiniteSets, Integers

CONSTANTS
  Clients,     \* who may have a call under way
  Watcher,     \* the goroutine of New and then of WatchConfig
  Nobody,
  StartupFiles,\* the shell's startup files that hold the block
  Calls,       \* what may be asked
  MaxEvents    \* bound: calls, hand-edits, failures and crashes

Servers == {"apache", "nginx"}
Rules == Servers \cup {"template"}   \* the custom config for each, the template
Files == Rules \cup {"php.ini"}
Configs == [terminal : BOOLEAN, dark : BOOLEAN, active : Servers]
Default == [terminal |-> FALSE, dark |-> FALSE, active |-> "nginx"]

(* What wharf.json may be that is no config.                               *)
Half == [Default EXCEPT !.active = "half saved"]
NoFile == [Default EXCEPT !.active = "no file"]
Valid(f) == f \in Configs

(* A call: what it does, and with which value.                             *)
Ask(does, what) == [does |-> does, what |-> what]
AllCalls ==
  {Ask("terminal", on) : on \in BOOLEAN} \cup {Ask("appearance", d) : d \in BOOLEAN} \cup
  {Ask("switch", s) : s \in Servers} \cup {Ask("save", f) : f \in Rules} \cup
  {Ask("delete", f) : f \in Rules} \cup
  {Ask(does, "") : does \in {"start", "stop", "php settings", "reset"}}

ASSUME ActorsAssumption == Watcher \notin Clients /\ Nobody \notin Clients \cup {Watcher}
ASSUME CallsAssumption == Calls \subseteq AllCalls
ASSUME BoundsAssumption == MaxEvents \in Nat

VARIABLES
  file, newer,  \* wharf.json; it changed since the watcher last noted its time
  early,        \* a hand-edit after Load and before the watcher's first look
  mem,          \* s.cfg
  mu,           \* who holds d.mu
  block,        \* what each startup file holds
  rules,        \* what the files hold
  unseen,       \* files whose time is not the one in customSeen or phpIniSeen
  unread,       \* files changed since what reads them was started with them
  started,      \* the project is in d.started
  front,        \* the webserver the front door runs, or none
  backend,      \* PHP runs
  adrift,       \* the front door was left as it was: its config could not be made,
                \* or a hand-edit has named the other webserver meanwhile
  at, call,     \* where each actor is, and the call it serves
  raw,          \* what the watcher read, and what the key was before
  events        \* how many so far

fileVars == <<file, newer, early>>
rulesVars == <<rules, unseen, unread>>
servedVars == <<started, front, backend, adrift>>
actorVars == <<at, call, raw>>
vars == <<fileVars, mem, mu, block, rulesVars, servedVars, actorVars, events>>

Actors == Clients \cup {Watcher}
Down == at[Watcher] = "down"
Listening == at[Watcher] \notin {"down", "set up", "repair"}

None == "none"

(* On a new machine; where the daemon ran before; or while it runs and     *)
(* serves the project.                                                     *)
Init ==
  LET serving == at[Watcher] = "apply"
  IN
  /\ at \in [Actors -> {"down", "apply", "idle"}] /\ \A c \in Clients : at[c] = "idle"
  /\ at[Watcher] # "idle"
  /\ file \in {NoFile, [Default EXCEPT !.terminal = TRUE]} /\ (serving => Valid(file))
  /\ newer = FALSE /\ early = FALSE /\ mu = Nobody
  /\ mem = IF serving THEN file ELSE Default
  /\ block = [f \in StartupFiles |-> IF file = NoFile THEN "theirs" ELSE "ours"]
  /\ rules = [f \in Files |-> "none"] /\ unseen = {} /\ unread = {}
  /\ started = serving /\ backend = serving /\ adrift = FALSE
  /\ front = IF serving THEN file.active ELSE None
  /\ call = [c \in Clients |-> Ask("stop", "")] /\ raw = [cfg |-> Default, was |-> FALSE]
  /\ events = 0

Is(a, step) == at[a] = step
Go(a, step) == at' = [at EXCEPT ![a] = step]
Happens == events < MaxEvents /\ events' = events + 1
Fails == Happens
Works == events' = events

(* The end of a call, and of what the watcher does in a tick.              *)
After(a) == IF a = Watcher THEN "php" ELSE "idle"
Lock(a) == mu = Nobody /\ mu' = a
Passing == mu = Nobody /\ mu' = mu
Unlock == mu' = Nobody

(***************************************************************************)
(* wharf.json                                                              *)
(***************************************************************************)
(* Mutant: normalise and validate are left out of Update.                  *)
UpdateUnchecked(cfg) ==
  /\ file' = [cfg EXCEPT !.active = IF cfg = Default THEN "" ELSE @] /\ newer' = TRUE
  /\ early' = FALSE
  /\ mem' = file'

(* Update: a copy is changed and written beside the file, renamed over it, *)
(* and then taken into memory; when writing fails nothing has changed.     *)
Update(cfg) ==
  /\ file' = cfg /\ newer' = TRUE /\ early' = FALSE
  /\ mem' = cfg
NoUpdate == UNCHANGED <<fileVars, mem>>

(* Load: a file that cannot be read ends the daemon; without a file it     *)
(* writes the defaults, and New goes on with FirstRunSetup.  What is there *)
(* now counts as seen.                                                     *)
Load ==
  /\ Down /\ file # Half
  /\ IF file = NoFile THEN Update(Default) /\ Go(Watcher, "set up")
     ELSE mem' = file /\ Go(Watcher, "repair") /\ UNCHANGED fileVars
  /\ unseen' = {}
  /\ UNCHANGED <<mu, block, rules, unread, servedVars, call, raw, events>>

(* FirstRunSetup's part in wharf.json; New goes on when it fails, Reset    *)
(* ends.                                                                   *)
FirstRunSetup(a) ==
  /\ Is(a, "set up")
  /\ \/ Update([mem EXCEPT !.terminal = TRUE]) /\ Works /\ Go(a, "repair") /\ UNCHANGED mu
     \/ NoUpdate /\ Fails /\ (IF a = Watcher THEN Go(a, "repair") /\ UNCHANGED mu
                              ELSE Go(a, "idle") /\ Unlock)
  /\ UNCHANGED <<block, rulesVars, servedVars, call, raw>>

(* WatchConfig begins with the time the file has by then.                  *)
Watch ==
  /\ Is(Watcher, "watch") /\ Go(Watcher, "apply")
  /\ newer' = FALSE
  /\ UNCHANGED <<file, early, mem, mu, block, rulesVars, servedVars, call, raw, events>>

(* The end of a tick: has the time of wharf.json moved on?                 *)
Look ==
  /\ Is(Watcher, "look")
  /\ IF file # NoFile /\ newer THEN newer' = FALSE /\ Go(Watcher, "reload")
     ELSE newer' = newer /\ Go(Watcher, "apply")
  /\ UNCHANGED <<file, early, mem, mu, block, rulesVars, servedVars, call, raw, events>>
(* Mutant: the watcher returns when a file cannot be read.                 *)
ReadFileOrGiveUp ==
  /\ Is(Watcher, "reload")
  /\ IF Valid(file)
     THEN Lock(Watcher) /\ Go(Watcher, "adopt") /\ raw' = [cfg |-> file, was |-> mem.terminal]
     ELSE Passing /\ Go(Watcher, "idle") /\ raw' = raw
  /\ UNCHANGED <<fileVars, mem, block, rulesVars, servedVars, call, events>>

(* Reload reads the file before it takes the store's lock; half a file is  *)
(* no config.                                                              *)
ReadFile ==
  /\ Is(Watcher, "reload")
  /\ IF Valid(file)
     THEN Lock(Watcher) /\ Go(Watcher, "adopt") /\ raw' = [cfg |-> file, was |-> mem.terminal]
     ELSE Passing /\ Go(Watcher, "apply") /\ raw' = raw
  /\ UNCHANGED <<fileVars, mem, block, rulesVars, servedVars, call, events>>
(* Mutant: the file's time is noted when it has been read, and not before. *)
AdoptAndNoteTime ==
  /\ Is(Watcher, "adopt") /\ Unlock
  /\ mem' = raw.cfg /\ newer' = FALSE
  /\ Go(Watcher, IF raw.was # raw.cfg.terminal THEN "terminal" ELSE "apply")
  /\ adrift' = (adrift \/ front \notin {None, raw.cfg.active})
  /\ UNCHANGED <<file, early, block, rulesVars, started, front, backend, call, raw, events>>

Adopt ==
  /\ Is(Watcher, "adopt") /\ Unlock
  /\ mem' = raw.cfg
  /\ Go(Watcher, IF raw.was # raw.cfg.terminal THEN "terminal" ELSE "apply")
  /\ adrift' = (adrift \/ front \notin {None, raw.cfg.active})
  /\ UNCHANGED <<fileVars, block, rulesVars, started, front, backend, call, raw, events>>

(* SetAppearance does not take d.mu.                                       *)
SetAppearance(c) ==
  /\ Is(c, "appearance") /\ Go(c, "idle")
  /\ \/ Update([mem EXCEPT !.dark = call[c].what]) /\ Works
     \/ NoUpdate /\ Fails
  /\ UNCHANGED <<mu, block, rulesVars, servedVars, call, raw>>

(***************************************************************************)
(* The terminal's PATH                                                     *)
(***************************************************************************)

(* Profiles.Add and Remove read every startup file before they write one:  *)
(* a block without its end line stops them.  Add takes out another Wharf   *)
(* folder's block, Remove only this one's.  A write that fails leaves the  *)
(* files written before it.  The files meant are the shells' own, which    *)
(* users write too; fish's wharf.fish is Wharf's alone, and Add writes it  *)
(* without a look at what it holds.                                        *)
Broken == \E f \in StartupFiles : block[f] = "broken"
With(S) == [f \in StartupFiles |-> IF f \in S THEN "ours" ELSE block[f]]
(* Mutant: Remove takes out every Wharf folder's block.                    *)
WithoutAny(S) == [f \in StartupFiles |-> IF f \in S THEN "none" ELSE block[f]]

Without(S) == [f \in StartupFiles |-> IF f \in S /\ block[f] = "ours" THEN "none" ELSE block[f]]
Blocks(on, S) == IF on THEN With(S) ELSE Without(S)
Set(on) == ~Broken /\ block' = Blocks(on, StartupFiles) /\ Works
NotSet(on) ==
  \/ Broken /\ block' = block /\ Works
  \/ ~Broken /\ Fails /\ \E S \in SUBSET StartupFiles : S # StartupFiles /\ block' = Blocks(on, S)

(* SetPHPTerminal: first the startup files, then the key.                  *)
SetPHPTerminal(c) ==
  /\ Is(c, "terminal") /\ c # Watcher
  /\ \/ Set(call[c].what) /\ Lock(c) /\ Go(c, "note")
     \/ NotSet(call[c].what) /\ Passing /\ Go(c, "idle")
  /\ UNCHANGED <<fileVars, mem, rulesVars, servedVars, call, raw>>

NoteTerminal(c) ==
  /\ Is(c, "note") /\ Go(c, "idle") /\ Unlock
  /\ \/ Update([mem EXCEPT !.terminal = call[c].what]) /\ Works
     \/ NoUpdate /\ Fails
  /\ UNCHANGED <<block, rulesVars, servedVars, call, raw>>
(* Mutant: applyTerminal is called without d.mu.                           *)
TerminalWithoutLock ==
  /\ Is(Watcher, "terminal") /\ Go(Watcher, "apply")
  /\ Set(raw.cfg.terminal) \/ NotSet(raw.cfg.terminal)
  /\ UNCHANGED <<fileVars, mem, mu, rulesVars, servedVars, call, raw>>

(* applyTerminal after a hand-edit of the key, with what it was then.      *)
TerminalByHand ==
  /\ Is(Watcher, "terminal") /\ Go(Watcher, "apply") /\ Passing
  /\ Set(raw.cfg.terminal) \/ NotSet(raw.cfg.terminal)
  /\ UNCHANGED <<fileVars, mem, rulesVars, servedVars, call, raw>>

(* applyTerminal at the end of New and of Reset: nothing is taken out.     *)
Repair(a) ==
  /\ Is(a, "repair")
  /\ IF mem.terminal THEN Set(TRUE) \/ NotSet(TRUE) ELSE UNCHANGED block /\ Works
  /\ IF a = Watcher THEN Go(a, "watch") /\ UNCHANGED mu ELSE Go(a, "idle") /\ Unlock
  /\ UNCHANGED <<fileVars, mem, rulesVars, servedVars, call, raw>>

(***************************************************************************)
(* The rules a project is served with, and php.ini                         *)
(***************************************************************************)
Used(server) == {server, "template"}
Usable(server) ==
  "bad" # IF rules[server] # "none" THEN rules[server] ELSE rules["template"]

Written(f, holds) ==
  /\ rules' = [rules EXCEPT ![f] = holds]
  /\ unseen' = unseen \cup {f} /\ unread' = unread \cup {f}

(* SaveCustomConfig and DeleteCustomConfig ask, without d.mu, whether the  *)
(* file is the serving webserver's; a template's saves do not.             *)
CheckServing(c) ==
  /\ Is(c, "check")
  /\ Go(c, IF call[c].what \in {mem.active, "template"} THEN "write" ELSE "idle")
  /\ UNCHANGED <<fileVars, mem, mu, block, rulesVars, servedVars, call, raw, events>>

(* SaveFile writes usable rules, whole; a deleted built-in template is     *)
(* Wharf's own again, and that one is deleted under d.mu.                  *)
WriteRules(c) ==
  /\ Is(c, "write")
  /\ call[c] = Ask("delete", "template") => mu = Nobody
  /\ \/ /\ Written(call[c].what, IF call[c].does = "save" THEN "good" ELSE "none")
        /\ Works /\ Go(c, "apply")
     \/ Fails /\ Go(c, "idle") /\ UNCHANGED rulesVars
  /\ UNCHANGED <<fileVars, mem, mu, block, servedVars, call, raw>>
(* Mutant: a change of the template is noted and not followed.             *)
ApplyOwnRulesOnly(a) ==
  /\ Is(a, "apply")
  /\ unseen' = unseen \ Rules
  /\ IF started /\ mem.active \in unseen THEN Lock(a) /\ Go(a, "judge")
     ELSE Passing /\ Go(a, After(a))
  /\ UNCHANGED <<fileVars, mem, block, rules, unread, servedVars, call, raw, events>>

(* ApplyCustomConfigs: what changed is noted as seen, and if the started   *)
(* project is served with it, what serves it follows.                      *)
ApplyCustomConfigs(a) ==
  /\ Is(a, "apply")
  /\ unseen' = unseen \ Rules
  /\ IF started /\ unseen \cap Used(mem.active) # {} THEN Lock(a) /\ Go(a, "judge")
     ELSE Passing /\ Go(a, After(a))
  /\ UNCHANGED <<fileVars, mem, block, rules, unread, servedVars, call, raw, events>>

(* checkRules: rules Wharf cannot use fail the project alone.              *)
CheckRules(a) ==
  /\ Is(a, "judge") /\ Go(a, "settle")
  /\ started' = Usable(mem.active)
  /\ UNCHANGED <<fileVars, mem, mu, block, rulesVars, front, backend, adrift, call, raw,
                 events>>

(* The front door starts with the rules as they are now; or it does not    *)
(* come up again; or its config cannot be made, and it stays as it is.     *)
Rendered == front' = mem.active /\ unread' = unread \ Rules /\ adrift' = FALSE /\ Works
NotStarted == front' = None /\ unread' = unread /\ adrift' = TRUE /\ Fails
NotRendered == UNCHANGED <<front, unread>> /\ adrift' = TRUE
Render ==
  \/ Usable(mem.active) /\ (Rendered \/ NotStarted \/ (NotRendered /\ Fails))
  \/ ~Usable(mem.active) /\ NotRendered /\ Works
StopFront == front' = None /\ Works /\ UNCHANGED <<unread, adrift>>

(* settleFrontDoor: a front door that runs follows, or stops.              *)
SettleFrontDoor(a) ==
  /\ Is(a, "settle") /\ Go(a, After(a)) /\ Unlock
  /\ \/ ~started /\ StopFront
     \/ started /\ front = None /\ Works /\ UNCHANGED <<front, unread, adrift>>
     \/ started /\ front # None /\ Render
  /\ UNCHANGED <<fileVars, mem, block, rules, unseen, started, backend, call, raw>>

(* StartProject, unless it runs: rules and PHP first.                      *)
StartProject(c) ==
  /\ Is(c, "start")
  /\ \/ /\ started /\ front # None
        /\ Passing /\ Works /\ Go(c, "idle") /\ UNCHANGED <<started, backend, unread>>
     \/ /\ ~(started /\ front # None) /\ Usable(mem.active)
        /\ Lock(c) /\ Works /\ Go(c, "front")
        /\ started' = TRUE /\ backend' = TRUE
        /\ unread' = IF backend THEN unread ELSE unread \ {"php.ini"}
     \/ /\ ~(started /\ front # None)
        /\ (~Usable(mem.active) /\ Works) \/ (~backend /\ Fails)
        /\ Passing /\ Go(c, "idle") /\ started' = FALSE /\ UNCHANGED <<backend, unread>>
  /\ UNCHANGED <<fileVars, mem, block, rules, unseen, front, adrift, call, raw>>

(* applyFrontDoor, for a start and for a switch; a failed start takes the  *)
(* project out.                                                            *)
ApplyFrontDoor(c) ==
  /\ Is(c, "front") /\ Go(c, "idle") /\ Unlock
  /\ (~started /\ StopFront) \/ (started /\ Render)
  /\ started' = (started /\ ~(call[c].does = "start" /\ adrift'))
  /\ UNCHANGED <<fileVars, mem, block, rules, unseen, backend, call, raw>>

StopProject(c) ==
  /\ Is(c, "stop") /\ Passing /\ Go(c, "idle")
  /\ started' = FALSE /\ front' = None
  /\ UNCHANGED <<fileVars, mem, block, rulesVars, backend, adrift, call, raw, events>>

(* SetWebserver: the key, and then the front door if anything runs.        *)
SetWebserver(c) ==
  /\ Is(c, "switch")
  /\ \/ call[c].what = mem.active /\ front # None /\ Works /\ NoUpdate /\ Passing /\ Go(c, "idle")
     \/ /\ ~(call[c].what = mem.active /\ front # None)
        /\ \/ /\ Update([mem EXCEPT !.active = call[c].what]) /\ Works
              /\ IF front # None \/ backend THEN Lock(c) /\ Go(c, "front")
                 ELSE Passing /\ Go(c, "idle")
           \/ NoUpdate /\ Fails /\ Passing /\ Go(c, "idle")
  /\ UNCHANGED <<block, rulesVars, servedVars, call, raw>>

(* PHPSettings creates php.ini where there is none.                        *)
PHPSettings(c) ==
  /\ Is(c, "php settings")
  /\ \/ rules["php.ini"] # "none" /\ Works /\ Go(c, "idle") /\ UNCHANGED rulesVars
     \/ rules["php.ini"] = "none" /\ Written("php.ini", "good") /\ Works /\ Go(c, "php")
     \/ rules["php.ini"] = "none" /\ Fails /\ Go(c, "idle") /\ UNCHANGED rulesVars
  /\ UNCHANGED <<fileVars, mem, mu, block, servedVars, call, raw>>

(* ApplyPHPSettings: a changed php.ini restarts the PHP that runs.         *)
ApplyPHPSettings(a) ==
  /\ Is(a, "php")
  /\ unseen' = unseen \ {"php.ini"}
  /\ IF "php.ini" \in unseen /\ backend THEN Lock(a) /\ Go(a, "restart php")
     ELSE Passing /\ Go(a, IF a = Watcher THEN "look" ELSE "idle")
  /\ UNCHANGED <<fileVars, mem, block, rules, unread, servedVars, call, raw, events>>

RestartPHP(a) ==
  /\ Is(a, "restart php") /\ Unlock /\ Go(a, IF a = Watcher THEN "look" ELSE "idle")
  /\ \/ Works /\ unread' = unread \ {"php.ini"} /\ UNCHANGED backend
     \/ Fails /\ backend' = FALSE /\ UNCHANGED unread
  /\ UNCHANGED <<fileVars, mem, block, rules, unseen, started, front, adrift, call, raw>>

(***************************************************************************)
(* Reset                                                                   *)
(***************************************************************************)
StopAll(c) ==
  /\ Is(c, "reset")
  /\ \/ /\ Lock(c) /\ Works /\ Go(c, "wipe")
        /\ started' = FALSE /\ front' = None /\ backend' = FALSE
     \/ Passing /\ Fails /\ Go(c, "idle") /\ UNCHANGED <<started, front, backend>>
  /\ UNCHANGED <<fileVars, mem, block, rulesVars, adrift, call, raw>>

(* config/ goes whole: wharf.json, the rules and php.ini.                  *)
Wipe(c) ==
  /\ Is(c, "wipe") /\ Go(c, "defaults")
  /\ file' = NoFile /\ early' = FALSE
  /\ rules' = [f \in Files |-> "none"]
  /\ unseen' = Files /\ unread' = Files
  /\ UNCHANGED <<newer, mem, mu, block, servedVars, call, raw, events>>

(* The defaults are written, and nothing counts as seen.                   *)
WriteDefaults(c) ==
  /\ Is(c, "defaults")
  /\ \/ /\ Update(Default) /\ Works /\ Go(c, "set up") /\ UNCHANGED mu
        /\ unseen' = {f \in Files : rules[f] # "none"}
     \/ NoUpdate /\ Fails /\ Go(c, "idle") /\ Unlock /\ UNCHANGED unseen
  /\ UNCHANGED <<block, rules, unread, servedVars, call, raw>>

(***************************************************************************)
(* What happens to the daemon                                              *)
(***************************************************************************)
FirstStep(does) == IF does \in {"save", "delete"} THEN "check" ELSE does

Serve(c, o) ==
  /\ Is(c, "idle") /\ Listening /\ Happens
  /\ call' = [call EXCEPT ![c] = o] /\ Go(c, FirstStep(o.does))
  /\ UNCHANGED <<fileVars, mem, mu, block, rulesVars, servedVars, raw>>

(* A hand-edit of wharf.json: one key, or an editor that has not finished. *)
Edited == {[mem EXCEPT !.terminal = ~@], [mem EXCEPT !.dark = ~@],
           [mem EXCEPT !.active = CHOOSE s \in Servers : s # @], Half}
EditConfig ==
  /\ Happens
  /\ \E v \in Edited : file' = v
  /\ newer' = TRUE
  /\ early' = (at[Watcher] \in {"set up", "repair", "watch"})
  /\ UNCHANGED <<mem, mu, block, rulesVars, servedVars, actorVars>>

(* The editor finishes its save.                                           *)
FinishEdit ==
  /\ file = Half
  /\ \E v \in Edited \ {Half} : file' = v
  /\ newer' = TRUE
  /\ early' = (at[Watcher] \in {"set up", "repair", "watch"})
  /\ UNCHANGED <<mem, mu, block, rulesVars, servedVars, actorVars, events>>

EditRules(f) ==
  /\ Happens
  /\ \E holds \in {"none", "good", "bad"} : Written(f, holds)
  /\ UNCHANGED <<fileVars, mem, mu, block, servedVars, actorVars>>

(* The user, or another Wharf folder, in a startup file.                   *)
EditStartup(f) ==
  /\ Happens
  /\ \E holds \in {"none", "broken", "theirs"} : block' = [block EXCEPT ![f] = holds]
  /\ UNCHANGED <<fileVars, mem, mu, rulesVars, servedVars, actorVars>>

(* It crashes, or is quit, with the processes it manages.                  *)
Crash ==
  /\ ~Down /\ Happens
  /\ at' = [a \in Actors |-> IF a = Watcher THEN "down" ELSE "idle"]
  /\ mem' = Default /\ mu' = Nobody /\ newer' = FALSE /\ early' = FALSE
  /\ started' = FALSE /\ front' = None /\ backend' = FALSE /\ adrift' = FALSE
  /\ unseen' = {} /\ unread' = {}
  /\ UNCHANGED <<file, block, rules, call, raw>>

(***************************************************************************)
(* The specification                                                       *)
(***************************************************************************)
Daemon ==
  \/ Load \/ Watch \/ Look \/ ReadFile \/ Adopt \/ TerminalByHand
  \/ FirstRunSetup(Watcher) \/ Repair(Watcher)
  \/ ApplyCustomConfigs(Watcher) \/ CheckRules(Watcher) \/ SettleFrontDoor(Watcher)
  \/ ApplyPHPSettings(Watcher) \/ RestartPHP(Watcher)

Handle(c) ==
  \/ SetAppearance(c) \/ SetPHPTerminal(c) \/ NoteTerminal(c)
  \/ CheckServing(c) \/ WriteRules(c)
  \/ ApplyCustomConfigs(c) \/ CheckRules(c) \/ SettleFrontDoor(c)
  \/ StartProject(c) \/ StopProject(c) \/ SetWebserver(c) \/ ApplyFrontDoor(c)
  \/ PHPSettings(c) \/ ApplyPHPSettings(c) \/ RestartPHP(c)
  \/ StopAll(c) \/ Wipe(c) \/ WriteDefaults(c) \/ FirstRunSetup(c) \/ Repair(c)

Outside ==
  \/ \E c \in Clients, o \in Calls : Serve(c, o)
  \/ EditConfig \/ FinishEdit
  \/ \E f \in Files : EditRules(f)
  \/ \E f \in StartupFiles : EditStartup(f)
  \/ Crash

Next == Daemon \/ (\E c \in Clients : Handle(c)) \/ Outside

(* Calls and the watcher go on; the daemon is started again.  Nobody has   *)
(* to edit, call or finish an edit.                                        *)
Fairness == WF_vars(Daemon) /\ \A c \in Clients : WF_vars(Handle(c))
Spec == Init /\ [][Next]_vars /\ Fairness

(***************************************************************************)
(* Properties                                                              *)
(***************************************************************************)
Steps == {"idle", "down", "set up", "repair", "watch", "apply", "judge", "settle", "php",
          "restart php", "look", "reload", "adopt", "terminal", "note", "check", "write", "front",
          "wipe", "defaults", "appearance", "switch", "start", "stop", "php settings", "reset"}

TypeOK ==
  /\ file \in Configs \cup {Half, NoFile} /\ mem \in Configs
  /\ {newer, early, started, backend, adrift} \subseteq BOOLEAN
  /\ mu \in Actors \cup {Nobody}
  /\ block \in [StartupFiles -> {"none", "ours", "theirs", "broken"}]
  /\ rules \in [Files -> {"none", "good", "bad"}]
  /\ unseen \subseteq Files /\ unread \subseteq Files
  /\ front \in Servers \cup {None}
  /\ at \in [Actors -> Steps] /\ call \in [Clients -> AllCalls]
  /\ raw \in [cfg : Configs, was : BOOLEAN]
  /\ events \in 0 .. MaxEvents

(* The copy in memory is the file, or the watcher has yet to read a newer  *)
(* file; except after a hand-edit so early that the watcher took its time  *)
(* for the one it began with (WatchConfig, Store.Reload, Store.Update).    *)
Reloading == at[Watcher] \in {"reload", "adopt"}
MemoryIsFile ==
  Listening /\ Valid(file) /\ ~newer /\ ~early /\ ~Reloading => mem = file

(* A finished hand-edit comes into force, also after the watcher has read  *)
(* half of it ("the next tick picks up the finished one", WatchConfig),    *)
(* unless a change made in Wharf replaces it.                              *)
EditsComeIn == []<>(Listening /\ Valid(file) => mem = file \/ early)

(* What serves runs with the files as they are, or the next tick sees that *)
(* one changed: a save while another is applied is never lost ("Saving a   *)
(* custom config applies it"), unless the front door was left as it was.   *)
SavedFilesApplied ==
  mu = Nobody =>
    /\ front # None /\ ~adrift => /\ started /\ front = mem.active
                                 /\ unread \cap Used(front) \subseteq unseen
    /\ backend => unread \cap {"php.ini"} \subseteq unseen

(* A block broken by hand is not guessed at: no startup file is changed    *)
(* until the user has seen to it.  And another Wharf folder's block is     *)
(* taken out only when this one is switched on (Profiles.Add, Remove).     *)
ByHand == \E f \in StartupFiles : EditStartup(f)
StartupFilesSafe ==
  [][block' # block =>
       ByHand \/ (~Broken /\ (\A f \in StartupFiles : block[f] = "theirs" /\ block'[f] # "theirs"
                                                      => block'[f] = "ours"))]_vars

(* When turning it off is noted in wharf.json, no startup file holds the   *)
(* block, whatever hand-edit the watcher was applying (SetPHPTerminal).    *)
OffLeavesNoBlock ==
  [][\A c \in Clients : NoteTerminal(c) /\ ~call[c].what
       => \A f \in StartupFiles : block[f] # "ours"]_vars
===============================================================================
