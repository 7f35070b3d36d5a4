---------------------------- MODULE SettingsProofs ----------------------------
(***************************************************************************)
(* Theorems about wharf.json, the files beside it and the startup files,   *)
(* for any number of clients with a call under way, any startup files and  *)
(* any number of calls, hand-edits, failures and crashes.                  *)
(***************************************************************************)
EXTENDS Settings, TLAPS

-----------------------------------------------------------------------------
(* The inductive invariant: the types, by what they are of, and what they  *)
(* do not say.                                                             *)
FileOK ==
  /\ file \in Configs \cup {Half, NoFile} /\ mem \in Configs
  /\ {newer, early} \subseteq BOOLEAN
  /\ raw \in [cfg : Configs, was : BOOLEAN]
WhereOK ==
  /\ mu \in Actors \cup {Nobody}
  /\ at \in [Actors -> Steps] /\ call \in [Clients -> AllCalls]
ServedOK ==
  /\ block \in [StartupFiles -> {"none", "ours", "theirs", "broken"}]
  /\ rules \in [Files -> {"none", "good", "bad"}]
  /\ unseen \subseteq Files /\ unread \subseteq Files
  /\ front \in Servers \cup {None}
  /\ {started, backend, adrift} \subseteq BOOLEAN

(* Where an actor has d.mu.                                                *)
UnderLock == {"adopt", "judge", "settle", "restart php", "note", "front", "wipe", "defaults"}
Holds(a, step) == step \in UnderLock \/ (a \in Clients /\ step \in {"set up", "repair"})
Held == \A a \in Actors : Holds(a, at[a]) => mu = a

(* Before it listens, the daemon serves nothing and nobody calls.          *)
NotYet ==
  ~Listening => front = None /\ ~backend /\ \A c \in Clients : at[c] = "idle"

(* Reset has stopped what it wipes the files of.                           *)
Emptied == \A c \in Clients : at[c] \in {"wipe", "defaults"} => front = None /\ ~backend

(* What a call carries fits where it is.                                   *)
CallFits ==
  \A c \in Clients :
    /\ at[c] \in {"terminal", "note", "appearance"} => call[c].what \in BOOLEAN
    /\ at[c] = "switch" => call[c].what \in Servers
    /\ at[c] \in {"check", "write"} => call[c].what \in Rules

(* What was read is what the file holds: until the watcher begins, and     *)
(* while it has a file in hand.                                            *)
Read ==
  /\ at[Watcher] \in {"set up", "repair", "watch"} /\ Valid(file) /\ ~early => mem = file
  /\ at[Watcher] = "adopt" /\ Valid(file) /\ ~newer => raw.cfg = file

(* SavedFilesApplied, but for the operation that is at it.                 *)
RulesServed ==
  \/ \E a \in Actors : at[a] \in {"judge", "settle", "front"}
  \/ front # None /\ ~adrift => started /\ front = mem.active
                                /\ unread \cap Used(front) \subseteq unseen
PHPServed ==
  \/ \E a \in Actors : at[a] = "restart php"
  \/ backend => unread \cap {"php.ini"} \subseteq unseen

(* Nobody puts the block back between its removal and the note of it.      *)
OffNoted ==
  \A c \in Clients :
    at[c] = "note" /\ ~call[c].what => \A f \in StartupFiles : block[f] # "ours"

IInv ==
  /\ TypeOK /\ Held /\ NotYet /\ Emptied /\ CallFits
  /\ Read /\ MemoryIsFile /\ RulesServed /\ PHPServed /\ OffNoted

-----------------------------------------------------------------------------
(* Types                                                                   *)
LEMMA Names ==
  /\ Servers \subseteq Rules /\ Rules \subseteq Files /\ "php.ini" \in Files \ Rules
  /\ "template" \in Rules /\ None \notin Servers
  /\ Default \in Configs /\ Half \notin Configs /\ NoFile \notin Configs /\ NoFile # Half
  /\ \A s \in Servers : Used(s) \subseteq Rules /\ s \in Used(s)
BY DEF Servers, Rules, Files, None, Default, Configs, Half, NoFile, Used

(* A config with one key changed.                                          *)
LEMMA Keys ==
  ASSUME NEW m \in Configs
  PROVE  /\ \A b \in BOOLEAN : /\ [m EXCEPT !.terminal = b] \in Configs
                               /\ [m EXCEPT !.terminal = b].active = m.active
                               /\ [m EXCEPT !.dark = b] \in Configs
                               /\ [m EXCEPT !.dark = b].active = m.active
         /\ \A s \in Servers : /\ [m EXCEPT !.active = s] \in Configs
                               /\ [m EXCEPT !.active = s].active = s
         /\ m.terminal \in BOOLEAN /\ m.dark \in BOOLEAN /\ m.active \in Servers
BY DEF Configs

(* A hand-edit leaves a config, or half of one.                            *)
LEMMA EditsFit ==
  ASSUME mem \in Configs
  PROVE  Edited \subseteq Configs \cup {Half}
<1>1. /\ [mem EXCEPT !.terminal = ~@] \in Configs /\ [mem EXCEPT !.dark = ~@] \in Configs
  BY DEF Configs
<1>2. (CHOOSE s \in Servers : s # mem.active) \in Servers
  BY DEF Servers
<1>3. [mem EXCEPT !.active = CHOOSE s \in Servers : s # @] \in Configs
  BY <1>2 DEF Configs
<1> QED
  BY <1>1, <1>3 DEF Edited

(* What a call is asked with.                                              *)
LEMMA AllCallsFit ==
  ASSUME NEW o \in Calls
  PROVE  /\ o \in AllCalls
         /\ o.does \in {"terminal", "appearance", "switch", "save", "delete", "start", "stop",
                       "php settings", "reset"}
         /\ o.does \in {"terminal", "appearance"} => o.what \in BOOLEAN
         /\ o.does = "switch" => o.what \in Servers
         /\ o.does \in {"save", "delete"} => o.what \in Rules
<1>1. o \in AllCalls
  BY CallsAssumption
<1>2. \/ \E on \in BOOLEAN : o = Ask("terminal", on) \/ o = Ask("appearance", on)
      \/ \E s \in Servers : o = Ask("switch", s)
      \/ \E f \in Rules : o = Ask("save", f) \/ o = Ask("delete", f)
      \/ \E does \in {"start", "stop", "php settings", "reset"} : o = Ask(does, "")
  BY <1>1 DEF AllCalls
<1>3. ASSUME NEW does, NEW what, o = Ask(does, what) PROVE o.does = does /\ o.what = what
  BY <1>3 DEF Ask
<1>4. ASSUME NEW on \in BOOLEAN, o = Ask("terminal", on) \/ o = Ask("appearance", on)
      PROVE  o.does \in {"terminal", "appearance"} /\ o.what \in BOOLEAN
  BY <1>3, <1>4
<1>5. ASSUME NEW s \in Servers, o = Ask("switch", s)
      PROVE  o.does = "switch" /\ o.what \in Servers
  BY <1>3, <1>5
<1>6. ASSUME NEW f \in Rules, o = Ask("save", f) \/ o = Ask("delete", f)
      PROVE  o.does \in {"save", "delete"} /\ o.what \in Rules
  BY <1>3, <1>6
<1>7. ASSUME NEW does \in {"start", "stop", "php settings", "reset"}, o = Ask(does, "")
      PROVE  o.does \in {"start", "stop", "php settings", "reset"}
  BY <1>3, <1>7
<1>8. \/ o.does \in {"terminal", "appearance"} /\ o.what \in BOOLEAN
      \/ o.does = "switch" /\ o.what \in Servers
      \/ o.does \in {"save", "delete"} /\ o.what \in Rules
      \/ o.does \in {"start", "stop", "php settings", "reset"}
  BY <1>2, <1>4, <1>5, <1>6, <1>7
<1> QED
  BY <1>1, <1>8

(* Where a call starts.                                                    *)
LEMMA Starts ==
  ASSUME NEW o \in Calls
  PROVE  /\ FirstStep(o.does) \in Steps \ (UnderLock \cup {"idle", "down", "set up", "repair"})
         /\ FirstStep(o.does) \in {"terminal", "appearance"} => o.what \in BOOLEAN
         /\ FirstStep(o.does) = "switch" => o.what \in Servers
         /\ FirstStep(o.does) = "check" => o.what \in Rules
         /\ FirstStep(o.does) # "write"
BY AllCallsFit DEF FirstStep, Steps, UnderLock

(* Every step keeps the types.                                             *)
LEMMA EventsCounted ==
  ASSUME Next \/ UNCHANGED vars
  PROVE  events' = events \/ Happens
<1> USE DEF Actors
<1>1. CASE Load \/ Watch \/ Look \/ ReadFile \/ Adopt
  BY <1>1 DEF Adopt, Load, Look, ReadFile, Watch, Down, Lock, Passing, Unlock, Update,
       actorVars
<1>2. CASE TerminalByHand
  <2>1. Set(raw.cfg.terminal) \/ NotSet(raw.cfg.terminal)
    BY <1>2, Zenon DEF TerminalByHand
  <2> QED
    BY <2>1 DEF Set, NotSet, Works, Fails
<1>3. CASE EditConfig \/ FinishEdit \/ Crash
  BY <1>3 DEF Crash, EditConfig, FinishEdit, Down, Happens, actorVars
<1>4. ASSUME NEW a \in Actors, FirstRunSetup(a) PROVE events' = events \/ Happens
  BY <1>4 DEF FirstRunSetup, Fails, Happens, NoUpdate, Unlock, Update, Works, actorVars
<1>5. ASSUME NEW a \in Actors, Repair(a) PROVE events' = events \/ Happens
  BY <1>5 DEF Repair, Fails, Happens, NotSet, Set, Unlock, Works, actorVars
<1>6. ASSUME NEW a \in Actors, ApplyCustomConfigs(a) PROVE events' = events \/ Happens
  BY <1>6 DEF ApplyCustomConfigs, After, Lock, Passing, actorVars
<1>7. ASSUME NEW a \in Actors, CheckRules(a) PROVE events' = events \/ Happens
  BY <1>7 DEF CheckRules, actorVars
<1>8. ASSUME NEW a \in Actors, SettleFrontDoor(a) PROVE events' = events \/ Happens
  BY <1>8 DEF SettleFrontDoor, After, Fails, Happens, NotRendered, NotStarted, Render,
       Rendered, StopFront, Unlock, Works, actorVars
<1>9. ASSUME NEW a \in Actors, ApplyPHPSettings(a) PROVE events' = events \/ Happens
  BY <1>9 DEF ApplyPHPSettings, Lock, Passing, actorVars
<1>10. ASSUME NEW a \in Actors, RestartPHP(a) PROVE events' = events \/ Happens
  BY <1>10 DEF RestartPHP, Fails, Happens, Unlock, Works, actorVars
<1>11. ASSUME NEW c \in Clients, SetAppearance(c) PROVE events' = events \/ Happens
  BY <1>11 DEF SetAppearance, Fails, Happens, NoUpdate, Update, Works, actorVars
<1>12. ASSUME NEW c \in Clients, SetPHPTerminal(c) PROVE events' = events \/ Happens
  BY <1>12 DEF SetPHPTerminal, Fails, Happens, Lock, NotSet, Passing, Set, Works, actorVars
<1>13. ASSUME NEW c \in Clients, NoteTerminal(c) PROVE events' = events \/ Happens
  BY <1>13 DEF NoteTerminal, Fails, Happens, NoUpdate, Unlock, Update, Works, actorVars
<1>14. ASSUME NEW c \in Clients, CheckServing(c) PROVE events' = events \/ Happens
  BY <1>14 DEF CheckServing, actorVars
<1>15. ASSUME NEW c \in Clients, WriteRules(c) PROVE events' = events \/ Happens
  BY <1>15 DEF WriteRules, Ask, Fails, Happens, Works, Written, actorVars
<1>16. ASSUME NEW c \in Clients, StartProject(c) PROVE events' = events \/ Happens
  BY <1>16 DEF StartProject, Fails, Happens, Lock, Passing, Works, actorVars
<1>17. ASSUME NEW c \in Clients, StopProject(c) PROVE events' = events \/ Happens
  BY <1>17 DEF StopProject, Passing, actorVars
<1>18. ASSUME NEW c \in Clients, SetWebserver(c) PROVE events' = events \/ Happens
  BY <1>18 DEF SetWebserver, Fails, Happens, Lock, NoUpdate, Passing, Update, Works,
       actorVars
<1>19. ASSUME NEW c \in Clients, ApplyFrontDoor(c) PROVE events' = events \/ Happens
  BY <1>19 DEF ApplyFrontDoor, Fails, Happens, NotRendered, NotStarted, Render, Rendered,
       StopFront, Unlock, Works, actorVars
<1>20. ASSUME NEW c \in Clients, PHPSettings(c) PROVE events' = events \/ Happens
  BY <1>20 DEF PHPSettings, Fails, Happens, Works, Written, actorVars
<1>21. ASSUME NEW c \in Clients, StopAll(c) PROVE events' = events \/ Happens
  BY <1>21 DEF StopAll, Fails, Happens, Lock, Passing, Works, actorVars
<1>22. ASSUME NEW c \in Clients, Wipe(c) PROVE events' = events \/ Happens
  BY <1>22 DEF Wipe, actorVars
<1>23. ASSUME NEW c \in Clients, WriteDefaults(c) PROVE events' = events \/ Happens
  BY <1>23 DEF WriteDefaults, Fails, Happens, NoUpdate, Unlock, Update, Works, actorVars
<1>24. ASSUME NEW c \in Clients, NEW o \in Calls, Serve(c, o) PROVE events' = events \/ Happens
  BY <1>24 DEF Serve, FirstStep, Happens, Listening, actorVars
<1>25. ASSUME NEW f \in Files, EditRules(f) PROVE events' = events \/ Happens
  BY <1>25 DEF EditRules, Happens, Written, actorVars
<1>26. ASSUME NEW f \in StartupFiles, EditStartup(f) PROVE events' = events \/ Happens
  BY <1>26 DEF EditStartup, Happens, actorVars
<1>27. CASE UNCHANGED vars
  BY <1>27 DEF vars, fileVars, rulesVars, servedVars, actorVars
<1> QED
  BY <1>1, <1>2, <1>3, <1>4, <1>5, <1>6, <1>7, <1>8, <1>9, <1>10, <1>11, <1>12, <1>13,
       <1>14, <1>15, <1>16, <1>17, <1>18, <1>19, <1>20, <1>21, <1>22, <1>23, <1>24, <1>25, <1>26,
       <1>27 DEF Next, Daemon, Handle, Outside, Actors

(* The count stays within its bound.                                       *)
LEMMA NextEvents ==
  ASSUME TypeOK, Next \/ UNCHANGED vars
  PROVE  events' \in 0 .. MaxEvents
<1>1. events' = events \/ Happens
  BY EventsCounted
<1>2. events \in 0 .. MaxEvents /\ MaxEvents \in Nat
  BY BoundsAssumption DEF TypeOK
<1> QED
  BY <1>1, <1>2 DEF Happens

-----------------------------------------------------------------------------
(* Where each actor goes from where it is, and whether it keeps d.mu as it *)
(* finds it, takes it or gives it up.                                      *)
Moved(a, from, to, lock) ==
  /\ at[a] = from /\ at' = [at EXCEPT ![a] = to] /\ call' = call
  /\ \/ lock = "keeps" /\ mu' = mu
     \/ lock = "takes" /\ mu = Nobody /\ mu' = a
     \/ lock = "gives" /\ mu' = Nobody

Sound(a, from, to, lock) ==
  /\ to \in Steps
  /\ lock = "keeps" /\ Holds(a, to) => Holds(a, from)
  /\ lock = "gives" => Holds(a, from) /\ ~Holds(a, to)
  /\ a \in Clients => /\ to \notin {"terminal", "appearance", "switch", "check"}
                      /\ to = "note" => from = "terminal"
                      /\ to = "write" => from = "check"

Placed == WhereOK /\ Held /\ CallFits

(* One such step.                                                          *)
LEMMA MoveOn ==
  ASSUME TypeOK, Held, CallFits, NEW a \in Actors, NEW from, NEW to, NEW lock,
         Moved(a, from, to, lock), Sound(a, from, to, lock)
  PROVE  Placed'
<1>1. at \in [Actors -> Steps] /\ mu \in Actors \cup {Nobody} /\ call \in [Clients -> AllCalls]
  BY DEF TypeOK
<1>2. /\ at[a] = from /\ at' = [at EXCEPT ![a] = to] /\ call' = call /\ to \in Steps
      /\ mu' \in {mu, a, Nobody}
  BY DEF Moved, Sound
<1>3. at'[a] = to /\ \A b \in Actors \ {a} : at'[b] = at[b]
  BY <1>1, <1>2
<1>4. WhereOK'
  <2>1. at' \in [Actors -> Steps]
    BY <1>1, <1>2
  <2> QED
    BY <1>1, <1>2, <2>1 DEF WhereOK
<1>5. Held'
  <2>1. a # Nobody /\ \A b \in Actors : b # Nobody
    BY ActorsAssumption DEF Actors
  <2>2. ASSUME NEW b \in Actors, Holds(b, at'[b]) PROVE mu' = b
    <3>1. \A d \in Actors : Holds(d, at[d]) => mu = d
      BY DEF Held
    <3>2. CASE b = a
      BY <1>2, <1>3, <2>2, <3>1, <3>2 DEF Moved, Sound
    <3>3. CASE b # a
      <4>1. mu = b
        BY <1>3, <2>2, <3>1, <3>3
      <4>2. mu # Nobody /\ ~Holds(a, from)
        BY <1>2, <2>1, <3>1, <3>3, <4>1
      <4> QED
        BY <4>1, <4>2 DEF Moved, Sound
    <3> QED
      BY <3>2, <3>3
  <2> QED
    BY <2>2 DEF Held, Holds
<1>6. CallFits'
  <2>1. ASSUME NEW c \in Clients
        PROVE  /\ at'[c] \in {"terminal", "note", "appearance"} => call[c].what \in BOOLEAN
               /\ at'[c] = "switch" => call[c].what \in Servers
               /\ at'[c] \in {"check", "write"} => call[c].what \in Rules
    <3>1. CASE c = a
      BY <1>2, <1>3, <3>1 DEF Sound, CallFits
    <3>2. CASE c # a
      BY <1>3, <3>2 DEF CallFits, Actors
    <3> QED
      BY <3>1, <3>2
  <2> QED
    BY <1>2, <2>1 DEF CallFits
<1> QED
  BY <1>4, <1>5, <1>6 DEF Placed

(* A step of nobody.                                                       *)
LEMMA StayPut ==
  ASSUME TypeOK, Held, CallFits, UNCHANGED <<at, mu, call>>
  PROVE  Placed'
<1>1. WhereOK'
  BY DEF TypeOK, WhereOK
<1>2. Held'
  BY DEF Held, Holds
<1>3. CallFits'
  BY DEF CallFits
<1> QED
  BY <1>1, <1>2, <1>3 DEF Placed

(* Who has d.mu, and what the calls carry.                                 *)
LEMMA NextPlaced ==
  ASSUME TypeOK, Held, CallFits, Next \/ UNCHANGED vars
  PROVE  Placed'
<1> USE ActorsAssumption DEF Is, Go, Actors
<1>1. CASE Load
  <2>1. \/ Moved(Watcher, "down", "set up", "keeps")
        \/ Moved(Watcher, "down", "repair", "keeps")
    BY <1>1 DEF Load, Down, Moved
  <2>2. /\ Sound(Watcher, "down", "set up", "keeps")
        /\ Sound(Watcher, "down", "repair", "keeps")
    BY DEF Sound, Holds, UnderLock, Steps
  <2> QED
    BY <2>1, <2>2, MoveOn
<1>2. CASE Watch
  <2>1. Moved(Watcher, "watch", "apply", "keeps")
    BY <1>2 DEF Watch, Moved
  <2>2. Sound(Watcher, "watch", "apply", "keeps")
    BY DEF Sound, Holds, UnderLock, Steps
  <2> QED
    BY <2>1, <2>2, MoveOn
<1>3. CASE Look
  <2>1. \/ Moved(Watcher, "look", "reload", "keeps")
        \/ Moved(Watcher, "look", "apply", "keeps")
    BY <1>3 DEF Look, Moved
  <2>2. /\ Sound(Watcher, "look", "reload", "keeps")
        /\ Sound(Watcher, "look", "apply", "keeps")
    BY DEF Sound, Holds, UnderLock, Steps
  <2> QED
    BY <2>1, <2>2, MoveOn
<1>4. CASE ReadFile
  <2>1. \/ Moved(Watcher, "reload", "adopt", "takes")
        \/ Moved(Watcher, "reload", "apply", "keeps")
    BY <1>4 DEF ReadFile, Lock, Passing, Moved
  <2>2. /\ Sound(Watcher, "reload", "adopt", "takes")
        /\ Sound(Watcher, "reload", "apply", "keeps")
    BY DEF Sound, Holds, UnderLock, Steps
  <2> QED
    BY <2>1, <2>2, MoveOn
<1>5. CASE Adopt
  <2>1. \/ Moved(Watcher, "adopt", "terminal", "gives")
        \/ Moved(Watcher, "adopt", "apply", "gives")
    BY <1>5 DEF Adopt, Unlock, Moved
  <2>2. /\ Sound(Watcher, "adopt", "terminal", "gives")
        /\ Sound(Watcher, "adopt", "apply", "gives")
    BY DEF Sound, Holds, UnderLock, Steps
  <2> QED
    BY <2>1, <2>2, MoveOn
<1>6. CASE TerminalByHand
  <2>1. Moved(Watcher, "terminal", "apply", "keeps")
    BY <1>6 DEF TerminalByHand, Passing, Moved
  <2>2. Sound(Watcher, "terminal", "apply", "keeps")
    BY DEF Sound, Holds, UnderLock, Steps
  <2> QED
    BY <2>1, <2>2, MoveOn
<1>7. ASSUME NEW a \in Actors, FirstRunSetup(a) PROVE Placed'
  <2>1. CASE a = Watcher
    <3>1. Moved(a, "set up", "repair", "keeps")
      BY <1>7, <2>1 DEF FirstRunSetup, Moved
    <3>2. Sound(a, "set up", "repair", "keeps")
      BY <2>1 DEF Sound, Holds, UnderLock, Steps
    <3> QED
      BY <3>1, <3>2, MoveOn
  <2>2. CASE a # Watcher
    <3>1. Moved(a, "set up", "idle", "gives") \/ Moved(a, "set up", "repair", "keeps")
      BY <1>7, <2>2 DEF FirstRunSetup, Unlock, Moved
    <3>2. Sound(a, "set up", "idle", "gives") /\ Sound(a, "set up", "repair", "keeps")
      BY <2>2 DEF Sound, Holds, UnderLock, Steps
    <3> QED
      BY <3>1, <3>2, MoveOn
  <2> QED
    BY <2>1, <2>2
<1>8. ASSUME NEW a \in Actors, Repair(a) PROVE Placed'
  <2>1. CASE a = Watcher
    <3>1. Moved(a, "repair", "watch", "keeps")
      BY <1>8, <2>1 DEF Repair, Moved
    <3>2. Sound(a, "repair", "watch", "keeps")
      BY <2>1 DEF Sound, Holds, UnderLock, Steps
    <3> QED
      BY <3>1, <3>2, MoveOn
  <2>2. CASE a # Watcher
    <3>1. Moved(a, "repair", "idle", "gives")
      BY <1>8, <2>2 DEF Repair, Unlock, Moved
    <3>2. Sound(a, "repair", "idle", "gives")
      BY <2>2 DEF Sound, Holds, UnderLock, Steps
    <3> QED
      BY <3>1, <3>2, MoveOn
  <2> QED
    BY <2>1, <2>2
<1>9. ASSUME NEW a \in Actors, ApplyCustomConfigs(a) PROVE Placed'
  <2>1. \/ Moved(a, "apply", "judge", "takes")
        \/ Moved(a, "apply", "php", "keeps")
        \/ Moved(a, "apply", "idle", "keeps")
    BY <1>9 DEF ApplyCustomConfigs, Lock, Passing, After, Moved
  <2>2. /\ Sound(a, "apply", "judge", "takes")
        /\ Sound(a, "apply", "php", "keeps")
        /\ Sound(a, "apply", "idle", "keeps")
    BY DEF Sound, Holds, UnderLock, Steps
  <2> QED
    BY <2>1, <2>2, MoveOn
<1>10. ASSUME NEW a \in Actors, CheckRules(a) PROVE Placed'
  <2>1. Moved(a, "judge", "settle", "keeps")
    BY <1>10 DEF CheckRules, Moved
  <2>2. Sound(a, "judge", "settle", "keeps")
    BY DEF Sound, Holds, UnderLock, Steps
  <2> QED
    BY <2>1, <2>2, MoveOn
<1>11. ASSUME NEW a \in Actors, SettleFrontDoor(a) PROVE Placed'
  <2>1. \/ Moved(a, "settle", "php", "gives")
        \/ Moved(a, "settle", "idle", "gives")
    BY <1>11 DEF SettleFrontDoor, After, Unlock, Moved
  <2>2. /\ Sound(a, "settle", "php", "gives")
        /\ Sound(a, "settle", "idle", "gives")
    BY DEF Sound, Holds, UnderLock, Steps
  <2> QED
    BY <2>1, <2>2, MoveOn
<1>12. ASSUME NEW a \in Actors, ApplyPHPSettings(a) PROVE Placed'
  <2>1. \/ Moved(a, "php", "restart php", "takes")
        \/ Moved(a, "php", "look", "keeps")
        \/ Moved(a, "php", "idle", "keeps")
    BY <1>12 DEF ApplyPHPSettings, Lock, Passing, Moved
  <2>2. /\ Sound(a, "php", "restart php", "takes")
        /\ Sound(a, "php", "look", "keeps")
        /\ Sound(a, "php", "idle", "keeps")
    BY DEF Sound, Holds, UnderLock, Steps
  <2> QED
    BY <2>1, <2>2, MoveOn
<1>13. ASSUME NEW a \in Actors, RestartPHP(a) PROVE Placed'
  <2>1. \/ Moved(a, "restart php", "look", "gives")
        \/ Moved(a, "restart php", "idle", "gives")
    BY <1>13 DEF RestartPHP, Unlock, Moved
  <2>2. /\ Sound(a, "restart php", "look", "gives")
        /\ Sound(a, "restart php", "idle", "gives")
    BY DEF Sound, Holds, UnderLock, Steps
  <2> QED
    BY <2>1, <2>2, MoveOn
<1>14. ASSUME NEW c \in Clients, SetAppearance(c) PROVE Placed'
  <2>1. Moved(c, "appearance", "idle", "keeps")
    BY <1>14 DEF SetAppearance, Moved
  <2>2. Sound(c, "appearance", "idle", "keeps")
    BY DEF Sound, Holds, UnderLock, Steps
  <2> QED
    BY <2>1, <2>2, MoveOn
<1>15. ASSUME NEW c \in Clients, SetPHPTerminal(c) PROVE Placed'
  <2>1. \/ Moved(c, "terminal", "note", "takes")
        \/ Moved(c, "terminal", "idle", "keeps")
    BY <1>15 DEF SetPHPTerminal, Lock, Passing, Moved
  <2>2. /\ Sound(c, "terminal", "note", "takes")
        /\ Sound(c, "terminal", "idle", "keeps")
    BY DEF Sound, Holds, UnderLock, Steps
  <2> QED
    BY <2>1, <2>2, MoveOn
<1>16. ASSUME NEW c \in Clients, NoteTerminal(c) PROVE Placed'
  <2>1. Moved(c, "note", "idle", "gives")
    BY <1>16 DEF NoteTerminal, Unlock, Moved
  <2>2. Sound(c, "note", "idle", "gives")
    BY DEF Sound, Holds, UnderLock, Steps
  <2> QED
    BY <2>1, <2>2, MoveOn
<1>17. ASSUME NEW c \in Clients, CheckServing(c) PROVE Placed'
  <2>1. \/ Moved(c, "check", "write", "keeps")
        \/ Moved(c, "check", "idle", "keeps")
    BY <1>17 DEF CheckServing, Moved
  <2>2. /\ Sound(c, "check", "write", "keeps")
        /\ Sound(c, "check", "idle", "keeps")
    BY DEF Sound, Holds, UnderLock, Steps
  <2> QED
    BY <2>1, <2>2, MoveOn
<1>18. ASSUME NEW c \in Clients, WriteRules(c) PROVE Placed'
  <2>1. \/ Moved(c, "write", "apply", "keeps")
        \/ Moved(c, "write", "idle", "keeps")
    BY <1>18 DEF WriteRules, Moved
  <2>2. /\ Sound(c, "write", "apply", "keeps")
        /\ Sound(c, "write", "idle", "keeps")
    BY DEF Sound, Holds, UnderLock, Steps
  <2> QED
    BY <2>1, <2>2, MoveOn
<1>19. ASSUME NEW c \in Clients, StartProject(c) PROVE Placed'
  <2>1. \/ Moved(c, "start", "front", "takes")
        \/ Moved(c, "start", "idle", "keeps")
    BY <1>19 DEF StartProject, Lock, Passing, Moved
  <2>2. /\ Sound(c, "start", "front", "takes")
        /\ Sound(c, "start", "idle", "keeps")
    BY DEF Sound, Holds, UnderLock, Steps
  <2> QED
    BY <2>1, <2>2, MoveOn
<1>20. ASSUME NEW c \in Clients, StopProject(c) PROVE Placed'
  <2>1. Moved(c, "stop", "idle", "keeps")
    BY <1>20 DEF StopProject, Passing, Moved
  <2>2. Sound(c, "stop", "idle", "keeps")
    BY DEF Sound, Holds, UnderLock, Steps
  <2> QED
    BY <2>1, <2>2, MoveOn
<1>21. ASSUME NEW c \in Clients, SetWebserver(c) PROVE Placed'
  <2>1. \/ Moved(c, "switch", "front", "takes")
        \/ Moved(c, "switch", "idle", "keeps")
    BY <1>21 DEF SetWebserver, Lock, Passing, Moved
  <2>2. /\ Sound(c, "switch", "front", "takes")
        /\ Sound(c, "switch", "idle", "keeps")
    BY DEF Sound, Holds, UnderLock, Steps
  <2> QED
    BY <2>1, <2>2, MoveOn
<1>22. ASSUME NEW c \in Clients, ApplyFrontDoor(c) PROVE Placed'
  <2>1. Moved(c, "front", "idle", "gives")
    BY <1>22 DEF ApplyFrontDoor, Unlock, Moved
  <2>2. Sound(c, "front", "idle", "gives")
    BY DEF Sound, Holds, UnderLock, Steps
  <2> QED
    BY <2>1, <2>2, MoveOn
<1>23. ASSUME NEW c \in Clients, PHPSettings(c) PROVE Placed'
  <2>1. \/ Moved(c, "php settings", "php", "keeps")
        \/ Moved(c, "php settings", "idle", "keeps")
    BY <1>23 DEF PHPSettings, Moved
  <2>2. /\ Sound(c, "php settings", "php", "keeps")
        /\ Sound(c, "php settings", "idle", "keeps")
    BY DEF Sound, Holds, UnderLock, Steps
  <2> QED
    BY <2>1, <2>2, MoveOn
<1>24. ASSUME NEW c \in Clients, StopAll(c) PROVE Placed'
  <2>1. \/ Moved(c, "reset", "wipe", "takes")
        \/ Moved(c, "reset", "idle", "keeps")
    BY <1>24 DEF StopAll, Lock, Passing, Moved
  <2>2. /\ Sound(c, "reset", "wipe", "takes")
        /\ Sound(c, "reset", "idle", "keeps")
    BY DEF Sound, Holds, UnderLock, Steps
  <2> QED
    BY <2>1, <2>2, MoveOn
<1>25. ASSUME NEW c \in Clients, Wipe(c) PROVE Placed'
  <2>1. Moved(c, "wipe", "defaults", "keeps")
    BY <1>25 DEF Wipe, Moved
  <2>2. Sound(c, "wipe", "defaults", "keeps")
    BY DEF Sound, Holds, UnderLock, Steps
  <2> QED
    BY <2>1, <2>2, MoveOn
<1>26. ASSUME NEW c \in Clients, WriteDefaults(c) PROVE Placed'
  <2>1. \/ Moved(c, "defaults", "set up", "keeps")
        \/ Moved(c, "defaults", "idle", "gives")
    BY <1>26 DEF WriteDefaults, Unlock, Moved
  <2>2. /\ Sound(c, "defaults", "set up", "keeps")
        /\ Sound(c, "defaults", "idle", "gives")
    BY DEF Sound, Holds, UnderLock, Steps
  <2> QED
    BY <2>1, <2>2, MoveOn
<1>27. ASSUME NEW c \in Clients, NEW o \in Calls, Serve(c, o) PROVE Placed'
  <2>1. /\ mu' = mu /\ at' = [at EXCEPT ![c] = FirstStep(o.does)]
        /\ call' = [call EXCEPT ![c] = o]
    BY <1>27 DEF Serve
  <2>2. FirstStep(o.does) \in Steps /\ o \in AllCalls
    BY Starts, AllCallsFit
  <2>3. /\ at \in [Actors -> Steps] /\ call \in [Clients -> AllCalls]
        /\ mu \in Actors \cup {Nobody}
    BY DEF TypeOK
  <2>4. /\ at'[c] = FirstStep(o.does) /\ call'[c] = o
        /\ \A b \in Actors \ {c} : at'[b] = at[b]
        /\ \A b \in Clients \ {c} : call'[b] = call[b]
    BY <2>1, <2>3
  <2>5. WhereOK'
    BY <2>1, <2>2, <2>3 DEF WhereOK
  <2>6. Held'
    <3>1. ~Holds(c, at'[c])
      BY <2>4, Starts DEF Holds
    <3> QED
      BY <2>1, <2>4, <3>1 DEF Held, Holds
  <2>7. CallFits'
    <3>1. ASSUME NEW d \in Clients
          PROVE  /\ at'[d] \in {"terminal", "note", "appearance"} => call'[d].what \in BOOLEAN
                 /\ at'[d] = "switch" => call'[d].what \in Servers
                 /\ at'[d] \in {"check", "write"} => call'[d].what \in Rules
      <4>1. CASE d = c
        BY <2>4, <4>1, Starts DEF UnderLock
      <4>2. CASE d # c
        BY <2>4, <4>2 DEF CallFits
      <4> QED
        BY <4>1, <4>2
    <3> QED
      BY <3>1 DEF CallFits
  <2> QED
    BY <2>5, <2>6, <2>7 DEF Placed
<1>28. CASE EditConfig
  <2>1. UNCHANGED <<at, mu, call>>
    BY <1>28 DEF EditConfig, actorVars
  <2> QED
    BY <2>1, StayPut
<1>29. CASE FinishEdit
  <2>1. UNCHANGED <<at, mu, call>>
    BY <1>29 DEF FinishEdit, actorVars
  <2> QED
    BY <2>1, StayPut
<1>30. ASSUME NEW f \in Files, EditRules(f) PROVE Placed'
  <2>1. UNCHANGED <<at, mu, call>>
    BY <1>30 DEF EditRules, actorVars
  <2> QED
    BY <2>1, StayPut
<1>31. ASSUME NEW f \in StartupFiles, EditStartup(f) PROVE Placed'
  <2>1. UNCHANGED <<at, mu, call>>
    BY <1>31 DEF EditStartup, actorVars
  <2> QED
    BY <2>1, StayPut
<1>32. CASE Crash
  <2>1. /\ at' = [a \in Actors |-> IF a = Watcher THEN "down" ELSE "idle"]
        /\ mu' = Nobody /\ call' = call
    BY <1>32 DEF Crash
  <2>2. \A a \in Actors : at'[a] \in {"down", "idle"}
    BY <2>1
  <2>3. WhereOK'
    BY <2>1 DEF WhereOK, TypeOK, Steps
  <2>4. Held'
    BY <2>2 DEF Held, Holds, UnderLock
  <2>5. CallFits'
    BY <2>2 DEF CallFits
  <2> QED
    BY <2>3, <2>4, <2>5 DEF Placed
<1>33. CASE UNCHANGED vars
  <2>1. UNCHANGED <<at, mu, call>>
    BY <1>33 DEF vars, actorVars
  <2> QED
    BY <2>1, StayPut
<1> QED
  BY <1>1, <1>2, <1>3, <1>4, <1>5, <1>6, <1>7, <1>8, <1>9, <1>10, <1>11, <1>12, <1>13,
       <1>14, <1>15, <1>16, <1>17, <1>18, <1>19, <1>20, <1>21, <1>22, <1>23, <1>24, <1>25, <1>26,
       <1>27, <1>28, <1>29, <1>30, <1>31, <1>32, <1>33 DEF Next, Daemon, Handle, Outside, Actors

(* What a step that starts nothing leaves.                                 *)
LEMMA EmptiedOn ==
  ASSUME TypeOK, Emptied, NEW a \in Actors, NEW step \in Steps \ {"wipe", "defaults"},
         at' = [at EXCEPT ![a] = step], UNCHANGED <<front, backend>>
  PROVE  Emptied'
<1>1. at \in [Actors -> Steps]
  BY DEF TypeOK
<1>2. at'[a] = step /\ \A b \in Actors \ {a} : at'[b] = at[b]
  BY <1>1
<1> QED
  BY <1>2 DEF Emptied, Actors

(* And one that leaves the startup files alone.                            *)
LEMMA OffNotedOn ==
  ASSUME TypeOK, OffNoted, NEW a \in Actors, NEW step \in Steps \ {"note"},
         at' = [at EXCEPT ![a] = step], UNCHANGED <<block, call>>
  PROVE  OffNoted'
<1>1. at \in [Actors -> Steps]
  BY DEF TypeOK
<1>2. at'[a] = step /\ \A b \in Actors \ {a} : at'[b] = at[b]
  BY <1>1
<1> QED
  BY <1>2 DEF OffNoted, Actors

(* A change of wharf.json made in Wharf.                                   *)
LEMMA UpdateFits ==
  ASSUME TypeOK, NEW cfg \in Configs, Update(cfg) \/ NoUpdate, raw' = raw
  PROVE  FileOK'
<1>1. CASE Update(cfg)
  BY <1>1 DEF Update, FileOK, TypeOK
<1>2. CASE NoUpdate
  BY <1>2 DEF NoUpdate, fileVars, FileOK, TypeOK
<1> QED
  BY <1>1, <1>2

(* wharf.json and what is read of it.                                      *)
LEMMA NextFile ==
  ASSUME TypeOK, CallFits, Next \/ UNCHANGED vars
  PROVE  FileOK'
<1> USE ActorsAssumption DEF Is, Go, Actors
<1> USE Names
<1>1. CASE TerminalByHand
  BY <1>1 DEF TerminalByHand, Fails, FileOK, Happens, NotSet, Passing, Set, TypeOK, Works,
       actorVars, fileVars
<1>2. ASSUME NEW a \in Actors, Repair(a) \/ ApplyCustomConfigs(a) \/ CheckRules(a) \/
             SettleFrontDoor(a) \/ ApplyPHPSettings(a) \/ RestartPHP(a)
      PROVE  FileOK'
  BY <1>2 DEF ApplyCustomConfigs, ApplyPHPSettings, CheckRules, Repair, RestartPHP,
       SettleFrontDoor, After, Fails, FileOK, Happens, Lock, NotRendered, NotSet, NotStarted,
       Passing, Render, Rendered, Set, StopFront, TypeOK, Unlock, Works, actorVars, fileVars
<1>3. ASSUME NEW c \in Clients, SetPHPTerminal(c) \/ CheckServing(c) \/ WriteRules(c) \/
             StartProject(c) \/ StopProject(c) \/ ApplyFrontDoor(c) \/ PHPSettings(c) \/ StopAll(c)
      PROVE  FileOK'
  BY <1>3 DEF ApplyFrontDoor, CheckServing, PHPSettings, SetPHPTerminal, StartProject,
       StopAll, StopProject, WriteRules, Ask, Fails, FileOK, Happens, Lock, NotRendered, NotSet,
       NotStarted, Passing, Render, Rendered, Set, StopFront, TypeOK, Unlock, Works, Written,
       actorVars, fileVars
<1>4. ASSUME NEW c \in Clients, NEW o \in Calls, Serve(c, o) PROVE FileOK'
  BY <1>4 DEF Serve, FileOK, FirstStep, Happens, Listening, TypeOK, actorVars, fileVars
<1>5. ASSUME NEW f \in Files, EditRules(f) PROVE FileOK'
  BY <1>5 DEF EditRules, FileOK, Happens, TypeOK, Written, actorVars, fileVars
<1>6. ASSUME NEW f \in StartupFiles, EditStartup(f) PROVE FileOK'
  BY <1>6 DEF EditStartup, FileOK, Happens, TypeOK, actorVars, fileVars
<1>7. CASE Load
  <2>1. file \in Configs \cup {NoFile} /\ (file # NoFile => file \in Configs)
    BY <1>7 DEF Load, TypeOK
  <2>2. CASE file = NoFile
    <3>1. file' = Default /\ mem' = Default /\ newer' = TRUE /\ early' = FALSE /\ raw' = raw
      BY <1>7, <2>2 DEF Load, Update
    <3> QED
      BY <3>1 DEF FileOK, TypeOK
  <2>3. CASE file # NoFile
    BY <1>7, <2>1, <2>3 DEF Load, FileOK, TypeOK, fileVars
  <2> QED
    BY <2>2, <2>3
<1>8. CASE Watch
  BY <1>8 DEF Watch, FileOK, TypeOK
<1>9. CASE Look
  BY <1>9 DEF Look, FileOK, TypeOK
<1>10. CASE ReadFile
  <2>1. mem.terminal \in BOOLEAN
    BY Keys DEF TypeOK
  <2> QED
    BY <1>10, <2>1 DEF ReadFile, Valid, FileOK, TypeOK, fileVars
<1>11. CASE Adopt
  <2>1. raw.cfg \in Configs
    BY DEF TypeOK
  <2> QED
    BY <1>11, <2>1 DEF Adopt, FileOK, TypeOK, fileVars
<1>12. ASSUME NEW a \in Actors, FirstRunSetup(a) PROVE FileOK'
  <2>1. [mem EXCEPT !.terminal = TRUE] \in Configs
    BY Keys DEF TypeOK
  <2>2. (Update([mem EXCEPT !.terminal = TRUE]) \/ NoUpdate) /\ raw' = raw
    BY <1>12 DEF FirstRunSetup
  <2> QED
    BY <2>1, <2>2, UpdateFits
<1>13. ASSUME NEW c \in Clients, SetAppearance(c) PROVE FileOK'
  <2>1. mem \in Configs
    BY DEF TypeOK
  <2>2. call[c].what \in BOOLEAN
    BY <1>13 DEF SetAppearance, CallFits
  <2>3. [mem EXCEPT !.dark = call[c].what] \in Configs
    BY <2>1, <2>2, Keys
  <2>4. (Update([mem EXCEPT !.dark = call[c].what]) \/ NoUpdate) /\ raw' = raw
    BY <1>13 DEF SetAppearance
  <2> QED
    BY <2>3, <2>4, UpdateFits
<1>14. ASSUME NEW c \in Clients, NoteTerminal(c) PROVE FileOK'
  <2>1. mem \in Configs
    BY DEF TypeOK
  <2>2. call[c].what \in BOOLEAN
    BY <1>14 DEF NoteTerminal, CallFits
  <2>3. [mem EXCEPT !.terminal = call[c].what] \in Configs
    BY <2>1, <2>2, Keys
  <2>4. (Update([mem EXCEPT !.terminal = call[c].what]) \/ NoUpdate) /\ raw' = raw
    BY <1>14 DEF NoteTerminal
  <2> QED
    BY <2>3, <2>4, UpdateFits
<1>15. ASSUME NEW c \in Clients, SetWebserver(c) PROVE FileOK'
  <2>1. mem \in Configs
    BY DEF TypeOK
  <2>2. call[c].what \in Servers
    BY <1>15 DEF SetWebserver, CallFits
  <2>3. [mem EXCEPT !.active = call[c].what] \in Configs
    BY <2>1, <2>2, Keys
  <2>4. (Update([mem EXCEPT !.active = call[c].what]) \/ NoUpdate) /\ raw' = raw
    BY <1>15 DEF SetWebserver
  <2> QED
    BY <2>3, <2>4, UpdateFits
<1>16. ASSUME NEW c \in Clients, Wipe(c) PROVE FileOK'
  BY <1>16 DEF Wipe, FileOK, TypeOK
<1>17. ASSUME NEW c \in Clients, WriteDefaults(c) PROVE FileOK'
  BY <1>17 DEF WriteDefaults, Update, Works, NoUpdate, Fails, Happens, Unlock, FileOK,
       TypeOK, fileVars
<1>18. CASE EditConfig
  <2>1. Edited \subseteq Configs \cup {Half}
    BY EditsFit DEF TypeOK
  <2>2. file' \in Configs \cup {Half} /\ newer' \in BOOLEAN
    BY <1>18, <2>1 DEF EditConfig
  <2>3. early' \in BOOLEAN
    <3>1. \A s, S : (s \in S) \in BOOLEAN
      OBVIOUS
    <3> QED
      BY <1>18, <3>1, Zenon DEF EditConfig
  <2> QED
    BY <1>18, <2>2, <2>3 DEF EditConfig, FileOK, TypeOK, actorVars
<1>19. CASE FinishEdit
  <2>1. Edited \subseteq Configs \cup {Half}
    BY EditsFit DEF TypeOK
  <2>2. file' \in Configs \cup {Half} /\ newer' \in BOOLEAN
    BY <1>19, <2>1 DEF FinishEdit
  <2>3. early' \in BOOLEAN
    <3>1. early' = (at[Watcher] \in {"set up", "repair", "watch"})
      BY <1>19, Zenon DEF FinishEdit
    <3>2. (at[Watcher] \in {"set up", "repair", "watch"}) \in BOOLEAN
      OBVIOUS
    <3> QED
      BY <3>1, <3>2, Zenon
  <2> QED
    BY <1>19, <2>2, <2>3 DEF FinishEdit, FileOK, TypeOK, actorVars
<1>20. CASE Crash
  BY <1>20 DEF Crash, Down, Happens, FileOK, TypeOK
<1>21. CASE UNCHANGED vars
  BY <1>21 DEF vars, fileVars, rulesVars, servedVars, actorVars, FileOK, TypeOK
<1> QED
  BY <1>1, <1>2, <1>3, <1>4, <1>5, <1>6, <1>7, <1>8, <1>9, <1>10, <1>11, <1>12, <1>13,
       <1>14, <1>15, <1>16, <1>17, <1>18, <1>19, <1>20, <1>21 DEF Next, Daemon, Handle, Outside,
       Actors

(* The files beside it and what runs with them.                            *)
LEMMA NextServed ==
  ASSUME TypeOK, CallFits, Next \/ UNCHANGED vars
  PROVE  ServedOK'
<1> USE ActorsAssumption DEF Is, Go, Actors
<1> USE Names
<1>1. CASE Watch \/ Look
  BY <1>1 DEF Look, Watch, ServedOK, TypeOK, rulesVars, servedVars
<1>2. CASE ReadFile
  BY <1>2 DEF ReadFile, Lock, Passing, ServedOK, TypeOK, rulesVars, servedVars
<1>3. CASE EditConfig
  BY <1>3 DEF EditConfig, Happens, ServedOK, TypeOK, rulesVars, servedVars
<1>4. CASE FinishEdit
  BY <1>4 DEF FinishEdit, ServedOK, TypeOK, rulesVars, servedVars
<1>5. ASSUME NEW a \in Actors, FirstRunSetup(a) PROVE ServedOK'
  BY <1>5 DEF FirstRunSetup, Fails, Happens, NoUpdate, ServedOK, TypeOK, Unlock, Update,
       Works, rulesVars, servedVars
<1>6. ASSUME NEW c \in Clients, SetAppearance(c) \/ NoteTerminal(c) \/ CheckServing(c) \/
             SetWebserver(c)
      PROVE  ServedOK'
  BY <1>6 DEF CheckServing, NoteTerminal, SetAppearance, SetWebserver, Fails, Happens, Lock,
       NoUpdate, Passing, ServedOK, TypeOK, Unlock, Update, Works, rulesVars, servedVars
<1>7. ASSUME NEW c \in Clients, NEW o \in Calls, Serve(c, o) PROVE ServedOK'
  BY <1>7 DEF Serve, FirstStep, Happens, Listening, ServedOK, TypeOK, rulesVars, servedVars
<1>8. CASE Load
  BY <1>8 DEF Load, Down, Update, ServedOK, TypeOK, fileVars, servedVars
<1>9. CASE Adopt
  BY <1>9 DEF Adopt, Unlock, ServedOK, TypeOK, fileVars, rulesVars
<1>10. CASE TerminalByHand
  <2>1. block' \in [StartupFiles -> {"none", "ours", "theirs", "broken"}]
    BY <1>10 DEF TerminalByHand, Passing, Set, NotSet, Works, Fails, Happens, Blocks,
         With, Without, TypeOK
  <2> QED
    BY <1>10, <2>1 DEF TerminalByHand, rulesVars, servedVars, ServedOK, TypeOK
<1>11. ASSUME NEW a \in Actors, Repair(a) PROVE ServedOK'
  <2>1. block' \in [StartupFiles -> {"none", "ours", "theirs", "broken"}]
    BY <1>11 DEF Repair, Set, NotSet, Works, Fails, Happens, Unlock, Blocks, With,
         Without, TypeOK
  <2> QED
    BY <1>11, <2>1 DEF Repair, rulesVars, servedVars, ServedOK, TypeOK
<1>12. ASSUME NEW a \in Actors, ApplyCustomConfigs(a) PROVE ServedOK'
  BY <1>12 DEF ApplyCustomConfigs, Lock, Passing, After, ServedOK, TypeOK, fileVars,
       servedVars
<1>13. ASSUME NEW a \in Actors, CheckRules(a) PROVE ServedOK'
  BY <1>13 DEF CheckRules, ServedOK, TypeOK, fileVars, rulesVars, Usable
<1>14. ASSUME NEW a \in Actors, SettleFrontDoor(a) PROVE ServedOK'
  <2>1. mem.active \in Servers
    BY Keys DEF TypeOK
  <2>2. StopFront \/ Render \/ UNCHANGED <<front, unread, adrift>>
    BY <1>14 DEF SettleFrontDoor
  <2>3. front' \in Servers \cup {None} /\ unread' \subseteq Files /\ adrift' \in BOOLEAN
    <3>1. CASE StopFront
      BY <3>1 DEF StopFront, TypeOK
    <3>2. CASE Rendered
      BY <2>1, <3>2 DEF Rendered, TypeOK
    <3>3. CASE NotStarted
      BY <3>3 DEF NotStarted, TypeOK
    <3>4. CASE NotRendered
      BY <3>4 DEF NotRendered, TypeOK
    <3>5. CASE UNCHANGED <<front, unread, adrift>>
      BY <3>5 DEF TypeOK
    <3> QED
      BY <2>2, <3>1, <3>2, <3>3, <3>4, <3>5 DEF Render
  <2>4. started' \in BOOLEAN /\ UNCHANGED <<block, rules, unseen, backend>>
    BY <1>14 DEF SettleFrontDoor, TypeOK
  <2> QED
    BY <2>3, <2>4 DEF ServedOK, TypeOK
<1>15. ASSUME NEW a \in Actors, ApplyPHPSettings(a) PROVE ServedOK'
  BY <1>15 DEF ApplyPHPSettings, Lock, Passing, ServedOK, TypeOK, fileVars, servedVars
<1>16. ASSUME NEW a \in Actors, RestartPHP(a) PROVE ServedOK'
  BY <1>16 DEF RestartPHP, Unlock, Works, Fails, Happens, ServedOK, TypeOK, fileVars
<1>17. ASSUME NEW c \in Clients, SetPHPTerminal(c) PROVE ServedOK'
  <2>1. block' \in [StartupFiles -> {"none", "ours", "theirs", "broken"}]
    BY <1>17 DEF SetPHPTerminal, Set, NotSet, Lock, Passing, Works, Fails, Happens,
         Blocks, With, Without, TypeOK
  <2> QED
    BY <1>17, <2>1 DEF SetPHPTerminal, rulesVars, servedVars, ServedOK, TypeOK
<1>18. ASSUME NEW c \in Clients, WriteRules(c) PROVE ServedOK'
  <2>1. call[c].what \in Files
    BY <1>18 DEF WriteRules, CallFits
  <2> QED
    BY <1>18, <2>1 DEF WriteRules, Written, rulesVars, servedVars, ServedOK, TypeOK
<1>19. ASSUME NEW c \in Clients, StartProject(c) PROVE ServedOK'
  BY <1>19 DEF StartProject, Passing, Works, Lock, Fails, Happens, ServedOK, TypeOK,
       fileVars
<1>20. ASSUME NEW c \in Clients, StopProject(c) PROVE ServedOK'
  BY <1>20 DEF StopProject, Passing, ServedOK, TypeOK, fileVars, rulesVars
<1>21. ASSUME NEW c \in Clients, ApplyFrontDoor(c) PROVE ServedOK'
  <2>1. mem.active \in Servers
    BY Keys DEF TypeOK
  <2>2. StopFront \/ Render \/ UNCHANGED <<front, unread, adrift>>
    BY <1>21 DEF ApplyFrontDoor
  <2>3. front' \in Servers \cup {None} /\ unread' \subseteq Files /\ adrift' \in BOOLEAN
    <3>1. CASE StopFront
      BY <3>1 DEF StopFront, TypeOK
    <3>2. CASE Rendered
      BY <2>1, <3>2 DEF Rendered, TypeOK
    <3>3. CASE NotStarted
      BY <3>3 DEF NotStarted, TypeOK
    <3>4. CASE NotRendered
      BY <3>4 DEF NotRendered, TypeOK
    <3>5. CASE UNCHANGED <<front, unread, adrift>>
      BY <3>5 DEF TypeOK
    <3> QED
      BY <2>2, <3>1, <3>2, <3>3, <3>4, <3>5 DEF Render
  <2>4. started' \in BOOLEAN /\ UNCHANGED <<block, rules, unseen, backend>>
    BY <1>21 DEF ApplyFrontDoor, TypeOK
  <2> QED
    BY <2>3, <2>4 DEF ServedOK, TypeOK
<1>22. ASSUME NEW c \in Clients, PHPSettings(c) PROVE ServedOK'
  BY <1>22 DEF PHPSettings, Written, Works, Fails, Happens, ServedOK, TypeOK, fileVars,
       rulesVars, servedVars
<1>23. ASSUME NEW c \in Clients, StopAll(c) PROVE ServedOK'
  BY <1>23 DEF StopAll, Lock, Passing, Works, Fails, Happens, ServedOK, TypeOK, fileVars,
       rulesVars
<1>24. ASSUME NEW c \in Clients, Wipe(c) PROVE ServedOK'
  BY <1>24 DEF Wipe, ServedOK, TypeOK, servedVars
<1>25. ASSUME NEW c \in Clients, WriteDefaults(c) PROVE ServedOK'
  BY <1>25 DEF WriteDefaults, Update, Works, NoUpdate, Fails, Happens, Unlock, ServedOK,
       TypeOK, fileVars, servedVars
<1>26. ASSUME NEW f \in Files, EditRules(f) PROVE ServedOK'
  BY <1>26 DEF EditRules, Happens, Written, ServedOK, TypeOK, fileVars, servedVars,
       actorVars
<1>27. ASSUME NEW f \in StartupFiles, EditStartup(f) PROVE ServedOK'
  BY <1>27 DEF EditStartup, Happens, ServedOK, TypeOK, fileVars, rulesVars, servedVars,
       actorVars
<1>28. CASE Crash
  BY <1>28 DEF Crash, Down, Happens, ServedOK, TypeOK
<1>29. CASE UNCHANGED vars
  BY <1>29 DEF vars, fileVars, rulesVars, servedVars, actorVars, ServedOK, TypeOK
<1> QED
  BY <1>1, <1>2, <1>3, <1>4, <1>5, <1>6, <1>7, <1>8, <1>9, <1>10, <1>11, <1>12, <1>13,
       <1>14, <1>15, <1>16, <1>17, <1>18, <1>19, <1>20, <1>21, <1>22, <1>23, <1>24, <1>25, <1>26,
       <1>27, <1>28, <1>29 DEF Next, Daemon, Handle, Outside, Actors

(* Until it listens it serves nothing.                                     *)
LEMMA NextNotYet ==
  ASSUME TypeOK, NotYet, Held, Next \/ UNCHANGED vars
  PROVE  NotYet'
<1> USE ActorsAssumption DEF Is, Go, Actors
<1>1. CASE Load
  <2>1. at[Watcher] = "down" /\ UNCHANGED <<front, backend>>
    BY <1>1 DEF Load, Down, servedVars
  <2>2. at' = [at EXCEPT ![Watcher] = "set up"] \/ at' = [at EXCEPT ![Watcher] = "repair"]
    BY <1>1 DEF Load
  <2>3. \A c \in Clients : at'[c] = at[c]
    <3>1. at \in [Actors -> Steps]
      BY DEF TypeOK
    <3> QED
      BY <2>2, <3>1
  <2> QED
    BY <2>1, <2>3 DEF NotYet, Listening
<1>2. CASE Watch
  BY <1>2 DEF Watch, TypeOK, NotYet, Listening, rulesVars, servedVars
<1>3. CASE Look
  BY <1>3 DEF Look, TypeOK, NotYet, Listening, rulesVars, servedVars
<1>4. CASE ReadFile
  BY <1>4 DEF ReadFile, Lock, Passing, TypeOK, NotYet, Listening, fileVars, rulesVars,
       servedVars
<1>5. CASE Adopt
  BY <1>5 DEF Adopt, Unlock, TypeOK, NotYet, Listening, fileVars, rulesVars
<1>6. CASE TerminalByHand
  BY <1>6 DEF TerminalByHand, Passing, Set, NotSet, Works, Fails, Happens, TypeOK, NotYet,
       Listening, fileVars, rulesVars, servedVars
<1>7. ASSUME NEW a \in Actors, FirstRunSetup(a) PROVE NotYet'
  <2>1. UNCHANGED <<front, backend>> /\ at[a] = "set up"
    BY <1>7 DEF FirstRunSetup, servedVars
  <2>2. /\ \A b \in Actors \ {a} : at'[b] = at[b]
        /\ a = Watcher => at'[a] = "repair"
    BY <1>7 DEF FirstRunSetup, TypeOK
  <2>3. CASE a = Watcher
    BY <2>1, <2>2, <2>3 DEF NotYet, Listening
  <2>4. CASE a # Watcher
    BY <2>1, <2>2, <2>4 DEF NotYet, Listening
  <2> QED
    BY <2>3, <2>4
<1>8. ASSUME NEW a \in Actors, Repair(a) PROVE NotYet'
  BY <1>8 DEF Repair, Set, NotSet, Works, Fails, Happens, Unlock, TypeOK, NotYet, Listening,
       fileVars, rulesVars, servedVars
<1>9. ASSUME NEW a \in Actors, ApplyCustomConfigs(a) PROVE NotYet'
  BY <1>9 DEF ApplyCustomConfigs, Lock, Passing, After, TypeOK, NotYet, Listening, fileVars,
       servedVars
<1>10. ASSUME NEW a \in Actors, CheckRules(a) PROVE NotYet'
  BY <1>10 DEF CheckRules, TypeOK, NotYet, Listening, fileVars, rulesVars
<1>11. ASSUME NEW a \in Actors, SettleFrontDoor(a) PROVE NotYet'
  BY <1>11 DEF SettleFrontDoor, After, Unlock, StopFront, Works, Render, Rendered,
       NotStarted, NotRendered, Fails, Happens, TypeOK, NotYet, Listening, fileVars
<1>12. ASSUME NEW a \in Actors, ApplyPHPSettings(a) PROVE NotYet'
  BY <1>12 DEF ApplyPHPSettings, Lock, Passing, TypeOK, NotYet, Listening, fileVars,
       servedVars
<1>13. ASSUME NEW a \in Actors, RestartPHP(a) PROVE NotYet'
  BY <1>13 DEF RestartPHP, Unlock, Works, Fails, Happens, TypeOK, NotYet, Listening,
       fileVars
<1>14. ASSUME NEW c \in Clients, SetAppearance(c) PROVE NotYet'
  BY <1>14 DEF SetAppearance, Update, NoUpdate, Works, Fails, Happens, TypeOK, NotYet,
       Listening, fileVars, rulesVars, servedVars
<1>15. ASSUME NEW c \in Clients, SetPHPTerminal(c) PROVE NotYet'
  BY <1>15 DEF SetPHPTerminal, Set, NotSet, Lock, Passing, Works, Fails, Happens, TypeOK,
       NotYet, Listening, fileVars, rulesVars, servedVars
<1>16. ASSUME NEW c \in Clients, NoteTerminal(c) PROVE NotYet'
  BY <1>16 DEF NoteTerminal, Unlock, Update, NoUpdate, Works, Fails, Happens, TypeOK,
       NotYet, Listening, fileVars, rulesVars, servedVars
<1>17. ASSUME NEW c \in Clients, CheckServing(c) PROVE NotYet'
  BY <1>17 DEF CheckServing, TypeOK, NotYet, Listening, fileVars, rulesVars, servedVars
<1>18. ASSUME NEW c \in Clients, WriteRules(c) PROVE NotYet'
  BY <1>18 DEF WriteRules, Written, Works, Fails, Happens, Ask, TypeOK, NotYet, Listening,
       fileVars, rulesVars, servedVars
<1>19. ASSUME NEW c \in Clients, StartProject(c) PROVE NotYet'
  BY <1>19 DEF StartProject, Passing, Works, Lock, Fails, Happens, TypeOK, NotYet,
       Listening, fileVars
<1>20. ASSUME NEW c \in Clients, StopProject(c) PROVE NotYet'
  BY <1>20 DEF StopProject, Passing, TypeOK, NotYet, Listening, fileVars, rulesVars
<1>21. ASSUME NEW c \in Clients, SetWebserver(c) PROVE NotYet'
  BY <1>21 DEF SetWebserver, Works, NoUpdate, Passing, Update, Lock, Fails, Happens, TypeOK,
       NotYet, Listening, fileVars, rulesVars, servedVars
<1>22. ASSUME NEW c \in Clients, ApplyFrontDoor(c) PROVE NotYet'
  BY <1>22 DEF ApplyFrontDoor, Unlock, StopFront, Works, Render, Rendered, NotStarted,
       NotRendered, Fails, Happens, TypeOK, NotYet, Listening, fileVars
<1>23. ASSUME NEW c \in Clients, PHPSettings(c) PROVE NotYet'
  BY <1>23 DEF PHPSettings, Written, Works, Fails, Happens, TypeOK, NotYet, Listening,
       fileVars, rulesVars, servedVars
<1>24. ASSUME NEW c \in Clients, StopAll(c) PROVE NotYet'
  BY <1>24 DEF StopAll, Lock, Passing, Works, Fails, Happens, TypeOK, NotYet, Listening,
       fileVars, rulesVars
<1>25. ASSUME NEW c \in Clients, Wipe(c) PROVE NotYet'
  BY <1>25 DEF Wipe, TypeOK, NotYet, Listening, servedVars
<1>26. ASSUME NEW c \in Clients, WriteDefaults(c) PROVE NotYet'
  BY <1>26 DEF WriteDefaults, Update, Works, NoUpdate, Fails, Happens, Unlock, TypeOK,
       NotYet, Listening, fileVars, servedVars
<1>27. ASSUME NEW c \in Clients, NEW o \in Calls, Serve(c, o) PROVE NotYet'
  BY <1>27 DEF Serve, Happens, FirstStep, Listening, TypeOK, NotYet, fileVars, rulesVars,
       servedVars
<1>28. CASE EditConfig
  BY <1>28 DEF EditConfig, Happens, TypeOK, NotYet, Listening, rulesVars, servedVars,
       actorVars
<1>29. CASE FinishEdit
  BY <1>29 DEF FinishEdit, TypeOK, NotYet, Listening, rulesVars, servedVars, actorVars
<1>30. ASSUME NEW f \in Files, EditRules(f) PROVE NotYet'
  BY <1>30 DEF EditRules, Happens, Written, TypeOK, NotYet, Listening, fileVars, servedVars,
       actorVars
<1>31. ASSUME NEW f \in StartupFiles, EditStartup(f) PROVE NotYet'
  BY <1>31 DEF EditStartup, Happens, TypeOK, NotYet, Listening, fileVars, rulesVars,
       servedVars, actorVars
<1>32. CASE Crash
  BY <1>32 DEF Crash, Down, Happens, TypeOK, NotYet, Listening
<1>33. CASE UNCHANGED vars
  BY <1>33 DEF vars, fileVars, rulesVars, servedVars, actorVars, TypeOK, NotYet, Listening
<1> QED
  BY <1>1, <1>2, <1>3, <1>4, <1>5, <1>6, <1>7, <1>8, <1>9, <1>10, <1>11, <1>12, <1>13,
       <1>14, <1>15, <1>16, <1>17, <1>18, <1>19, <1>20, <1>21, <1>22, <1>23, <1>24, <1>25, <1>26,
       <1>27, <1>28, <1>29, <1>30, <1>31, <1>32, <1>33 DEF Next, Daemon, Handle, Outside, Actors

(* From StopAll to WriteDefaults nothing is started.                       *)
LEMMA NextEmptied ==
  ASSUME TypeOK, Emptied, Held, Next \/ UNCHANGED vars
  PROVE  Emptied'
<1> USE ActorsAssumption DEF Is, Go, Actors
<1>1. CASE Load
  BY <1>1 DEF Load, Down, Update, TypeOK, Emptied, Held, Holds, UnderLock, fileVars,
       servedVars
<1>2. CASE Watch
  BY <1>2 DEF Watch, TypeOK, Emptied, Held, Holds, UnderLock, rulesVars, servedVars
<1>3. CASE Look
  BY <1>3 DEF Look, TypeOK, Emptied, Held, Holds, UnderLock, rulesVars, servedVars
<1>4. CASE ReadFile
  BY <1>4 DEF ReadFile, Lock, Passing, TypeOK, Emptied, Held, Holds, UnderLock, fileVars,
       rulesVars, servedVars
<1>5. CASE Adopt
  BY <1>5 DEF Adopt, Unlock, TypeOK, Emptied, Held, Holds, UnderLock, fileVars, rulesVars
<1>6. CASE TerminalByHand
  BY <1>6 DEF TerminalByHand, Passing, Set, NotSet, Works, Fails, Happens, TypeOK, Emptied,
       Held, Holds, UnderLock, fileVars, rulesVars, servedVars
<1>7. ASSUME NEW a \in Actors, FirstRunSetup(a) PROVE Emptied'
  <2>1. \/ at' = [at EXCEPT ![a] = "repair"]
        \/ at' = [at EXCEPT ![a] = "idle"]
    BY <1>7 DEF FirstRunSetup
  <2>2. UNCHANGED <<front, backend>>
    BY <1>7 DEF FirstRunSetup, fileVars, rulesVars, servedVars
  <2>3. {"repair", "idle"} \subseteq Steps
    BY DEF Steps
  <2> QED
    BY <2>1, <2>2, <2>3, EmptiedOn
<1>8. ASSUME NEW a \in Actors, Repair(a) PROVE Emptied'
  <2>1. \/ at' = [at EXCEPT ![a] = "watch"]
        \/ at' = [at EXCEPT ![a] = "idle"]
    BY <1>8 DEF Repair
  <2>2. UNCHANGED <<front, backend>>
    BY <1>8 DEF Repair, fileVars, rulesVars, servedVars
  <2>3. {"watch", "idle"} \subseteq Steps
    BY DEF Steps
  <2> QED
    BY <2>1, <2>2, <2>3, EmptiedOn
<1>9. ASSUME NEW a \in Actors, ApplyCustomConfigs(a) PROVE Emptied'
  <2>1. \/ at' = [at EXCEPT ![a] = "judge"]
        \/ at' = [at EXCEPT ![a] = "php"]
        \/ at' = [at EXCEPT ![a] = "idle"]
    BY <1>9 DEF ApplyCustomConfigs, After
  <2>2. UNCHANGED <<front, backend>>
    BY <1>9 DEF ApplyCustomConfigs, fileVars, servedVars
  <2>3. {"judge", "php", "idle"} \subseteq Steps
    BY DEF Steps
  <2> QED
    BY <2>1, <2>2, <2>3, EmptiedOn
<1>10. ASSUME NEW a \in Actors, CheckRules(a) PROVE Emptied'
  BY <1>10 DEF CheckRules, TypeOK, Emptied, Held, Holds, UnderLock, fileVars, rulesVars
<1>11. ASSUME NEW a \in Actors, SettleFrontDoor(a) PROVE Emptied'
  BY <1>11 DEF SettleFrontDoor, After, Unlock, StopFront, Works, Render, Rendered,
       NotStarted, NotRendered, Fails, Happens, TypeOK, Emptied, Held, Holds, UnderLock, fileVars
<1>12. ASSUME NEW a \in Actors, ApplyPHPSettings(a) PROVE Emptied'
  <2>1. \/ at' = [at EXCEPT ![a] = "restart php"]
        \/ at' = [at EXCEPT ![a] = "look"]
        \/ at' = [at EXCEPT ![a] = "idle"]
    BY <1>12 DEF ApplyPHPSettings
  <2>2. UNCHANGED <<front, backend>>
    BY <1>12 DEF ApplyPHPSettings, fileVars, servedVars
  <2>3. {"restart php", "look", "idle"} \subseteq Steps
    BY DEF Steps
  <2> QED
    BY <2>1, <2>2, <2>3, EmptiedOn
<1>13. ASSUME NEW a \in Actors, RestartPHP(a) PROVE Emptied'
  BY <1>13 DEF RestartPHP, Unlock, Works, Fails, Happens, TypeOK, Emptied, Held, Holds,
       UnderLock, fileVars
<1>14. ASSUME NEW c \in Clients, SetAppearance(c) PROVE Emptied'
  BY <1>14 DEF SetAppearance, Update, NoUpdate, Works, Fails, Happens, TypeOK, Emptied,
       Held, Holds, UnderLock, fileVars, rulesVars, servedVars
<1>15. ASSUME NEW c \in Clients, SetPHPTerminal(c) PROVE Emptied'
  BY <1>15 DEF SetPHPTerminal, Set, NotSet, Lock, Passing, Works, Fails, Happens, TypeOK,
       Emptied, Held, Holds, UnderLock, fileVars, rulesVars, servedVars
<1>16. ASSUME NEW c \in Clients, NoteTerminal(c) PROVE Emptied'
  BY <1>16 DEF NoteTerminal, Unlock, Update, NoUpdate, Works, Fails, Happens, TypeOK,
       Emptied, Held, Holds, UnderLock, fileVars, rulesVars, servedVars
<1>17. ASSUME NEW c \in Clients, CheckServing(c) PROVE Emptied'
  BY <1>17 DEF CheckServing, TypeOK, Emptied, Held, Holds, UnderLock, fileVars, rulesVars,
       servedVars
<1>18. ASSUME NEW c \in Clients, WriteRules(c) PROVE Emptied'
  BY <1>18 DEF WriteRules, Written, Works, Fails, Happens, Ask, TypeOK, Emptied, Held,
       Holds, UnderLock, fileVars, rulesVars, servedVars
<1>19. ASSUME NEW c \in Clients, StartProject(c) PROVE Emptied'
  <2>1. CASE mu = Nobody
    <3>1. \A d \in Clients : at[d] \notin {"wipe", "defaults"}
      BY <2>1 DEF Held, Holds, UnderLock
    <3>2. at' = [at EXCEPT ![c] = "front"] \/ at' = [at EXCEPT ![c] = "idle"]
      BY <1>19 DEF StartProject
    <3>3. at \in [Actors -> Steps]
      BY DEF TypeOK
    <3>4. \A d \in Clients : at'[d] \notin {"wipe", "defaults"}
      BY <3>1, <3>2, <3>3
    <3> QED
      BY <3>4 DEF Emptied
  <2>2. mu = Nobody
    BY <1>19 DEF StartProject, Lock, Passing
  <2> QED
    BY <2>1, <2>2
<1>20. ASSUME NEW c \in Clients, StopProject(c) PROVE Emptied'
  BY <1>20 DEF StopProject, Passing, TypeOK, Emptied, Held, Holds, UnderLock, fileVars,
       rulesVars
<1>21. ASSUME NEW c \in Clients, SetWebserver(c) PROVE Emptied'
  <2>1. \/ at' = [at EXCEPT ![c] = "front"]
        \/ at' = [at EXCEPT ![c] = "idle"]
    BY <1>21 DEF SetWebserver
  <2>2. UNCHANGED <<front, backend>>
    BY <1>21 DEF SetWebserver, fileVars, rulesVars, servedVars
  <2>3. {"front", "idle"} \subseteq Steps
    BY DEF Steps
  <2> QED
    BY <2>1, <2>2, <2>3, EmptiedOn
<1>22. ASSUME NEW c \in Clients, ApplyFrontDoor(c) PROVE Emptied'
  BY <1>22 DEF ApplyFrontDoor, Unlock, StopFront, Works, Render, Rendered, NotStarted,
       NotRendered, Fails, Happens, TypeOK, Emptied, Held, Holds, UnderLock, fileVars
<1>23. ASSUME NEW c \in Clients, PHPSettings(c) PROVE Emptied'
  BY <1>23 DEF PHPSettings, Written, Works, Fails, Happens, TypeOK, Emptied, Held, Holds,
       UnderLock, fileVars, rulesVars, servedVars
<1>24. ASSUME NEW c \in Clients, StopAll(c) PROVE Emptied'
  BY <1>24 DEF StopAll, Lock, Passing, Works, Fails, Happens, TypeOK, Emptied, Held, Holds,
       UnderLock, fileVars, rulesVars
<1>25. ASSUME NEW c \in Clients, Wipe(c) PROVE Emptied'
  BY <1>25 DEF Wipe, TypeOK, Emptied, Held, Holds, UnderLock, servedVars
<1>26. ASSUME NEW c \in Clients, WriteDefaults(c) PROVE Emptied'
  BY <1>26 DEF WriteDefaults, Update, Works, NoUpdate, Fails, Happens, Unlock, TypeOK,
       Emptied, Held, Holds, UnderLock, fileVars, servedVars
<1>27. ASSUME NEW c \in Clients, NEW o \in Calls, Serve(c, o) PROVE Emptied'
  BY <1>27, Starts DEF Serve, Happens, FirstStep, Listening, fileVars, rulesVars, servedVars,
       TypeOK, Emptied, UnderLock
<1>28. CASE EditConfig
  BY <1>28 DEF EditConfig, Happens, TypeOK, Emptied, Held, Holds, UnderLock, rulesVars,
       servedVars, actorVars
<1>29. CASE FinishEdit
  BY <1>29 DEF FinishEdit, TypeOK, Emptied, Held, Holds, UnderLock, rulesVars, servedVars,
       actorVars
<1>30. ASSUME NEW f \in Files, EditRules(f) PROVE Emptied'
  BY <1>30 DEF EditRules, Happens, Written, TypeOK, Emptied, Held, Holds, UnderLock,
       fileVars, servedVars, actorVars
<1>31. ASSUME NEW f \in StartupFiles, EditStartup(f) PROVE Emptied'
  BY <1>31 DEF EditStartup, Happens, TypeOK, Emptied, Held, Holds, UnderLock, fileVars,
       rulesVars, servedVars, actorVars
<1>32. CASE Crash
  BY <1>32 DEF Crash, Down, Happens, TypeOK, Emptied, Held, Holds, UnderLock
<1>33. CASE UNCHANGED vars
  BY <1>33 DEF vars, fileVars, rulesVars, servedVars, actorVars, TypeOK, Emptied, Held,
       Holds, UnderLock
<1> QED
  BY <1>1, <1>2, <1>3, <1>4, <1>5, <1>6, <1>7, <1>8, <1>9, <1>10, <1>11, <1>12, <1>13,
       <1>14, <1>15, <1>16, <1>17, <1>18, <1>19, <1>20, <1>21, <1>22, <1>23, <1>24, <1>25, <1>26,
       <1>27, <1>28, <1>29, <1>30, <1>31, <1>32, <1>33 DEF Next, Daemon, Handle, Outside, Actors

(* What the watcher has in hand, and what New has loaded.                  *)
LEMMA NextRead ==
  ASSUME TypeOK, Read, MemoryIsFile, Next \/ UNCHANGED vars
  PROVE  Read'
<1> USE ActorsAssumption DEF Is, Go, Actors
<1> USE Names
<1>1. CASE Load
  BY <1>1 DEF Load, Down, Update, TypeOK, Read, Valid, fileVars, servedVars
<1>2. CASE Watch
  BY <1>2 DEF Watch, TypeOK, Read, Valid, rulesVars, servedVars
<1>3. CASE Look
  BY <1>3 DEF Look, TypeOK, Read, Valid, rulesVars, servedVars
<1>4. CASE ReadFile
  <2>1. /\ at[Watcher] = "reload" /\ UNCHANGED <<file, newer>>
        /\ at'[Watcher] = "apply" \/ (at'[Watcher] = "adopt" /\ raw'.cfg = file)
    BY <1>4 DEF ReadFile, fileVars, TypeOK
  <2> QED
    BY <2>1 DEF Read, Valid
<1>5. CASE Adopt
  BY <1>5 DEF Adopt, Unlock, TypeOK, Read, Valid, fileVars, rulesVars
<1>6. CASE TerminalByHand
  BY <1>6 DEF TerminalByHand, Passing, Set, NotSet, Works, Fails, Happens, TypeOK, Read,
       Valid, fileVars, rulesVars, servedVars
<1>7. ASSUME NEW a \in Actors, FirstRunSetup(a) PROVE Read'
  BY <1>7 DEF FirstRunSetup, Update, NoUpdate, Fails, Works, Happens, Unlock, TypeOK, Read,
       Valid, fileVars, rulesVars, servedVars
<1>8. ASSUME NEW a \in Actors, Repair(a) PROVE Read'
  BY <1>8 DEF Repair, Set, NotSet, Works, Fails, Happens, Unlock, TypeOK, Read, Valid,
       fileVars, rulesVars, servedVars
<1>9. ASSUME NEW a \in Actors, ApplyCustomConfigs(a) PROVE Read'
  BY <1>9 DEF ApplyCustomConfigs, Lock, Passing, After, TypeOK, Read, Valid, fileVars,
       servedVars
<1>10. ASSUME NEW a \in Actors, CheckRules(a) PROVE Read'
  BY <1>10 DEF CheckRules, TypeOK, Read, Valid, fileVars, rulesVars
<1>11. ASSUME NEW a \in Actors, SettleFrontDoor(a) PROVE Read'
  BY <1>11 DEF SettleFrontDoor, After, Unlock, StopFront, Works, Render, Rendered,
       NotStarted, NotRendered, Fails, Happens, TypeOK, Read, Valid, fileVars
<1>12. ASSUME NEW a \in Actors, ApplyPHPSettings(a) PROVE Read'
  BY <1>12 DEF ApplyPHPSettings, Lock, Passing, TypeOK, Read, Valid, fileVars, servedVars
<1>13. ASSUME NEW a \in Actors, RestartPHP(a) PROVE Read'
  BY <1>13 DEF RestartPHP, Unlock, Works, Fails, Happens, TypeOK, Read, Valid, fileVars
<1>14. ASSUME NEW c \in Clients, SetAppearance(c) PROVE Read'
  BY <1>14 DEF SetAppearance, Update, NoUpdate, Works, Fails, Happens, TypeOK, Read, Valid,
       fileVars, rulesVars, servedVars
<1>15. ASSUME NEW c \in Clients, SetPHPTerminal(c) PROVE Read'
  BY <1>15 DEF SetPHPTerminal, Set, NotSet, Lock, Passing, Works, Fails, Happens, TypeOK,
       Read, Valid, fileVars, rulesVars, servedVars
<1>16. ASSUME NEW c \in Clients, NoteTerminal(c) PROVE Read'
  BY <1>16 DEF NoteTerminal, Unlock, Update, NoUpdate, Works, Fails, Happens, TypeOK, Read,
       Valid, fileVars, rulesVars, servedVars
<1>17. ASSUME NEW c \in Clients, CheckServing(c) PROVE Read'
  BY <1>17 DEF CheckServing, TypeOK, Read, Valid, fileVars, rulesVars, servedVars
<1>18. ASSUME NEW c \in Clients, WriteRules(c) PROVE Read'
  BY <1>18 DEF WriteRules, Written, Works, Fails, Happens, Ask, TypeOK, Read, Valid,
       fileVars, rulesVars, servedVars
<1>19. ASSUME NEW c \in Clients, StartProject(c) PROVE Read'
  BY <1>19 DEF StartProject, Passing, Works, Lock, Fails, Happens, TypeOK, Read, Valid,
       fileVars
<1>20. ASSUME NEW c \in Clients, StopProject(c) PROVE Read'
  BY <1>20 DEF StopProject, Passing, TypeOK, Read, Valid, fileVars, rulesVars
<1>21. ASSUME NEW c \in Clients, SetWebserver(c) PROVE Read'
  BY <1>21 DEF SetWebserver, Works, NoUpdate, Passing, Update, Lock, Fails, Happens, TypeOK,
       Read, Valid, fileVars, rulesVars, servedVars
<1>22. ASSUME NEW c \in Clients, ApplyFrontDoor(c) PROVE Read'
  BY <1>22 DEF ApplyFrontDoor, Unlock, StopFront, Works, Render, Rendered, NotStarted,
       NotRendered, Fails, Happens, TypeOK, Read, Valid, fileVars
<1>23. ASSUME NEW c \in Clients, PHPSettings(c) PROVE Read'
  BY <1>23 DEF PHPSettings, Written, Works, Fails, Happens, TypeOK, Read, Valid, fileVars,
       rulesVars, servedVars
<1>24. ASSUME NEW c \in Clients, StopAll(c) PROVE Read'
  BY <1>24 DEF StopAll, Lock, Passing, Works, Fails, Happens, TypeOK, Read, Valid, fileVars,
       rulesVars
<1>25. ASSUME NEW c \in Clients, Wipe(c) PROVE Read'
  BY <1>25 DEF Wipe, TypeOK, Read, Valid, servedVars
<1>26. ASSUME NEW c \in Clients, WriteDefaults(c) PROVE Read'
  BY <1>26 DEF WriteDefaults, Update, Works, NoUpdate, Fails, Happens, Unlock, TypeOK, Read,
       Valid, fileVars, servedVars
<1>27. ASSUME NEW c \in Clients, NEW o \in Calls, Serve(c, o) PROVE Read'
  BY <1>27 DEF Serve, Happens, FirstStep, Listening, TypeOK, Read, Valid, fileVars,
       rulesVars, servedVars
<1>28. CASE EditConfig
  BY <1>28 DEF EditConfig, Happens, TypeOK, Read, Valid, rulesVars, servedVars, actorVars
<1>29. CASE FinishEdit
  BY <1>29 DEF FinishEdit, TypeOK, Read, Valid, rulesVars, servedVars, actorVars
<1>30. ASSUME NEW f \in Files, EditRules(f) PROVE Read'
  BY <1>30 DEF EditRules, Happens, Written, TypeOK, Read, Valid, fileVars, servedVars,
       actorVars
<1>31. ASSUME NEW f \in StartupFiles, EditStartup(f) PROVE Read'
  BY <1>31 DEF EditStartup, Happens, TypeOK, Read, Valid, fileVars, rulesVars, servedVars,
       actorVars
<1>32. CASE Crash
  BY <1>32 DEF Crash, Down, Happens, TypeOK, Read, Valid
<1>33. CASE UNCHANGED vars
  BY <1>33 DEF vars, fileVars, rulesVars, servedVars, actorVars, TypeOK, Read, Valid
<1> QED
  BY <1>1, <1>2, <1>3, <1>4, <1>5, <1>6, <1>7, <1>8, <1>9, <1>10, <1>11, <1>12, <1>13,
       <1>14, <1>15, <1>16, <1>17, <1>18, <1>19, <1>20, <1>21, <1>22, <1>23, <1>24, <1>25, <1>26,
       <1>27, <1>28, <1>29, <1>30, <1>31, <1>32, <1>33 DEF Next, Daemon, Handle, Outside, Actors

(* Each writer of wharf.json takes into memory what it wrote.              *)
LEMMA NextMemory ==
  ASSUME TypeOK, Read, MemoryIsFile, Next \/ UNCHANGED vars
  PROVE  MemoryIsFile'
<1> USE ActorsAssumption DEF Is, Go, Actors
<1> USE Names
<1>1. CASE Load
  BY <1>1 DEF Load, Down, Update, TypeOK, Read, MemoryIsFile, Listening, Reloading, Valid,
       fileVars, servedVars
<1>2. CASE Watch
  BY <1>2 DEF Watch, TypeOK, Read, MemoryIsFile, Listening, Reloading, Valid, rulesVars,
       servedVars
<1>3. CASE Look
  BY <1>3 DEF Look, TypeOK, Read, MemoryIsFile, Listening, Reloading, Valid, rulesVars,
       servedVars
<1>4. CASE ReadFile
  BY <1>4 DEF ReadFile, Lock, Passing, TypeOK, Read, MemoryIsFile, Listening, Reloading,
       Valid, fileVars, rulesVars, servedVars
<1>5. CASE Adopt
  BY <1>5 DEF Adopt, Unlock, TypeOK, Read, MemoryIsFile, Listening, Reloading, Valid,
       fileVars, rulesVars
<1>6. CASE TerminalByHand
  BY <1>6 DEF TerminalByHand, Passing, Set, NotSet, Works, Fails, Happens, TypeOK, Read,
       MemoryIsFile, Listening, Reloading, Valid, fileVars, rulesVars, servedVars
<1>7. ASSUME NEW a \in Actors, FirstRunSetup(a) PROVE MemoryIsFile'
  BY <1>7 DEF FirstRunSetup, Update, NoUpdate, Fails, Works, Happens, Unlock, TypeOK, Read,
       MemoryIsFile, Listening, Reloading, Valid, fileVars, rulesVars, servedVars
<1>8. ASSUME NEW a \in Actors, Repair(a) PROVE MemoryIsFile'
  BY <1>8 DEF Repair, Set, NotSet, Works, Fails, Happens, Unlock, TypeOK, Read,
       MemoryIsFile, Listening, Reloading, Valid, fileVars, rulesVars, servedVars
<1>9. ASSUME NEW a \in Actors, ApplyCustomConfigs(a) PROVE MemoryIsFile'
  BY <1>9 DEF ApplyCustomConfigs, Lock, Passing, After, TypeOK, Read, MemoryIsFile,
       Listening, Reloading, Valid, fileVars, servedVars
<1>10. ASSUME NEW a \in Actors, CheckRules(a) PROVE MemoryIsFile'
  BY <1>10 DEF CheckRules, TypeOK, Read, MemoryIsFile, Listening, Reloading, Valid,
       fileVars, rulesVars
<1>11. ASSUME NEW a \in Actors, SettleFrontDoor(a) PROVE MemoryIsFile'
  BY <1>11 DEF SettleFrontDoor, After, Unlock, StopFront, Works, Render, Rendered,
       NotStarted, NotRendered, Fails, Happens, TypeOK, Read, MemoryIsFile, Listening, Reloading,
       Valid, fileVars
<1>12. ASSUME NEW a \in Actors, ApplyPHPSettings(a) PROVE MemoryIsFile'
  BY <1>12 DEF ApplyPHPSettings, Lock, Passing, TypeOK, Read, MemoryIsFile, Listening,
       Reloading, Valid, fileVars, servedVars
<1>13. ASSUME NEW a \in Actors, RestartPHP(a) PROVE MemoryIsFile'
  BY <1>13 DEF RestartPHP, Unlock, Works, Fails, Happens, TypeOK, Read, MemoryIsFile,
       Listening, Reloading, Valid, fileVars
<1>14. ASSUME NEW c \in Clients, SetAppearance(c) PROVE MemoryIsFile'
  BY <1>14 DEF SetAppearance, Update, NoUpdate, Works, Fails, Happens, TypeOK, Read,
       MemoryIsFile, Listening, Reloading, Valid, fileVars, rulesVars, servedVars
<1>15. ASSUME NEW c \in Clients, SetPHPTerminal(c) PROVE MemoryIsFile'
  BY <1>15 DEF SetPHPTerminal, Set, NotSet, Lock, Passing, Works, Fails, Happens, TypeOK,
       Read, MemoryIsFile, Listening, Reloading, Valid, fileVars, rulesVars, servedVars
<1>16. ASSUME NEW c \in Clients, NoteTerminal(c) PROVE MemoryIsFile'
  BY <1>16 DEF NoteTerminal, Unlock, Update, NoUpdate, Works, Fails, Happens, TypeOK, Read,
       MemoryIsFile, Listening, Reloading, Valid, fileVars, rulesVars, servedVars
<1>17. ASSUME NEW c \in Clients, CheckServing(c) PROVE MemoryIsFile'
  BY <1>17 DEF CheckServing, TypeOK, Read, MemoryIsFile, Listening, Reloading, Valid,
       fileVars, rulesVars, servedVars
<1>18. ASSUME NEW c \in Clients, WriteRules(c) PROVE MemoryIsFile'
  BY <1>18 DEF WriteRules, Written, Works, Fails, Happens, Ask, TypeOK, Read, MemoryIsFile,
       Listening, Reloading, Valid, fileVars, rulesVars, servedVars
<1>19. ASSUME NEW c \in Clients, StartProject(c) PROVE MemoryIsFile'
  BY <1>19 DEF StartProject, Passing, Works, Lock, Fails, Happens, TypeOK, Read,
       MemoryIsFile, Listening, Reloading, Valid, fileVars
<1>20. ASSUME NEW c \in Clients, StopProject(c) PROVE MemoryIsFile'
  BY <1>20 DEF StopProject, Passing, TypeOK, Read, MemoryIsFile, Listening, Reloading,
       Valid, fileVars, rulesVars
<1>21. ASSUME NEW c \in Clients, SetWebserver(c) PROVE MemoryIsFile'
  BY <1>21 DEF SetWebserver, Works, NoUpdate, Passing, Update, Lock, Fails, Happens, TypeOK,
       Read, MemoryIsFile, Listening, Reloading, Valid, fileVars, rulesVars, servedVars
<1>22. ASSUME NEW c \in Clients, ApplyFrontDoor(c) PROVE MemoryIsFile'
  BY <1>22 DEF ApplyFrontDoor, Unlock, StopFront, Works, Render, Rendered, NotStarted,
       NotRendered, Fails, Happens, TypeOK, Read, MemoryIsFile, Listening, Reloading, Valid,
       fileVars
<1>23. ASSUME NEW c \in Clients, PHPSettings(c) PROVE MemoryIsFile'
  BY <1>23 DEF PHPSettings, Written, Works, Fails, Happens, TypeOK, Read, MemoryIsFile,
       Listening, Reloading, Valid, fileVars, rulesVars, servedVars
<1>24. ASSUME NEW c \in Clients, StopAll(c) PROVE MemoryIsFile'
  BY <1>24 DEF StopAll, Lock, Passing, Works, Fails, Happens, TypeOK, Read, MemoryIsFile,
       Listening, Reloading, Valid, fileVars, rulesVars
<1>25. ASSUME NEW c \in Clients, Wipe(c) PROVE MemoryIsFile'
  BY <1>25 DEF Wipe, TypeOK, Read, MemoryIsFile, Listening, Reloading, Valid, servedVars
<1>26. ASSUME NEW c \in Clients, WriteDefaults(c) PROVE MemoryIsFile'
  BY <1>26 DEF WriteDefaults, Update, Works, NoUpdate, Fails, Happens, Unlock, TypeOK, Read,
       MemoryIsFile, Listening, Reloading, Valid, fileVars, servedVars
<1>27. ASSUME NEW c \in Clients, NEW o \in Calls, Serve(c, o) PROVE MemoryIsFile'
  BY <1>27 DEF Serve, Happens, FirstStep, Listening, TypeOK, Read, MemoryIsFile, Reloading,
       Valid, fileVars, rulesVars, servedVars
<1>28. CASE EditConfig
  BY <1>28 DEF EditConfig, Happens, TypeOK, Read, MemoryIsFile, Listening, Reloading, Valid,
       rulesVars, servedVars, actorVars
<1>29. CASE FinishEdit
  BY <1>29 DEF FinishEdit, TypeOK, Read, MemoryIsFile, Listening, Reloading, Valid,
       rulesVars, servedVars, actorVars
<1>30. ASSUME NEW f \in Files, EditRules(f) PROVE MemoryIsFile'
  BY <1>30 DEF EditRules, Happens, Written, TypeOK, Read, MemoryIsFile, Listening,
       Reloading, Valid, fileVars, servedVars, actorVars
<1>31. ASSUME NEW f \in StartupFiles, EditStartup(f) PROVE MemoryIsFile'
  BY <1>31 DEF EditStartup, Happens, TypeOK, Read, MemoryIsFile, Listening, Reloading,
       Valid, fileVars, rulesVars, servedVars, actorVars
<1>32. CASE Crash
  BY <1>32 DEF Crash, Down, Happens, TypeOK, Read, MemoryIsFile, Listening, Reloading, Valid
<1>33. CASE UNCHANGED vars
  BY <1>33 DEF vars, fileVars, rulesVars, servedVars, actorVars, TypeOK, Read, MemoryIsFile,
       Listening, Reloading, Valid
<1> QED
  BY <1>1, <1>2, <1>3, <1>4, <1>5, <1>6, <1>7, <1>8, <1>9, <1>10, <1>11, <1>12, <1>13,
       <1>14, <1>15, <1>16, <1>17, <1>18, <1>19, <1>20, <1>21, <1>22, <1>23, <1>24, <1>25, <1>26,
       <1>27, <1>28, <1>29, <1>30, <1>31, <1>32, <1>33 DEF Next, Daemon, Handle, Outside, Actors

(* A front door that runs is changed under d.mu only.                      *)
LEMMA NextRulesServed ==
  ASSUME TypeOK, CallFits, Held, Emptied, NotYet, RulesServed, Next \/ UNCHANGED vars
  PROVE  RulesServed'
<1> USE ActorsAssumption DEF Is, Go, Actors
<1> USE Names
<1>1. CASE Load
  <2>1. front' = None
    BY <1>1 DEF Load, Down, servedVars, NotYet, Listening
  <2> QED
    BY <2>1 DEF RulesServed
<1>2. CASE Watch
  BY <1>2 DEF Watch, TypeOK, Held, Holds, UnderLock, RulesServed, rulesVars, servedVars
<1>3. CASE Look
  BY <1>3 DEF Look, TypeOK, Held, Holds, UnderLock, RulesServed, rulesVars, servedVars
<1>4. CASE ReadFile
  BY <1>4 DEF ReadFile, Lock, Passing, TypeOK, Held, Holds, UnderLock, RulesServed,
       fileVars, rulesVars, servedVars
<1>5. CASE Adopt
  BY <1>5 DEF Adopt, Unlock, TypeOK, Held, Holds, UnderLock, RulesServed, fileVars,
       rulesVars
<1>6. CASE TerminalByHand
  BY <1>6 DEF TerminalByHand, Passing, Set, NotSet, Works, Fails, Happens, TypeOK, Held,
       Holds, UnderLock, RulesServed, fileVars, rulesVars, servedVars
<1>7. ASSUME NEW a \in Actors, FirstRunSetup(a) PROVE RulesServed'
  <2>1. UNCHANGED <<started, front, adrift, unread, unseen>>
    BY <1>7 DEF FirstRunSetup, Update, NoUpdate, Fails, Works, Happens, Unlock, fileVars,
         rulesVars, servedVars
  <2>2. mem'.active = mem.active
    <3>1. mem \in Configs
      BY DEF TypeOK
    <3>2. TRUE \in BOOLEAN
      BY <1>7 DEF FirstRunSetup, CallFits
    <3>3. [mem EXCEPT !.terminal = TRUE].active = mem.active
      BY <3>1, <3>2, Keys
    <3> QED
      BY <1>7, <3>3 DEF FirstRunSetup, Update, NoUpdate
  <2>3. \A b \in Actors : at[b] \in {"judge", "settle", "front"} => at'[b] = at[b]
    BY <1>7 DEF FirstRunSetup, Update, NoUpdate, Fails, Works, Happens, Unlock, fileVars,
         rulesVars, servedVars, TypeOK
  <2> QED
    BY <2>1, <2>2, <2>3 DEF RulesServed
<1>8. ASSUME NEW a \in Actors, Repair(a) PROVE RulesServed'
  BY <1>8 DEF Repair, Set, NotSet, Works, Fails, Happens, Unlock, TypeOK, Held, Holds,
       UnderLock, RulesServed, fileVars, rulesVars, servedVars
<1>9. ASSUME NEW a \in Actors, ApplyCustomConfigs(a) PROVE RulesServed'
  <2>1. /\ UNCHANGED <<mem, started, front, adrift, unread>>
        /\ unseen' = unseen \ Rules
    BY <1>9 DEF ApplyCustomConfigs, fileVars, servedVars
  <2>2. at \in [Actors -> Steps]
    BY DEF TypeOK
  <2>3. \A b \in Actors : at[b] \in {"judge", "settle", "front"} => at'[b] = at[b]
    BY <1>9, <2>2 DEF ApplyCustomConfigs
  <2>4. started /\ unseen \cap Used(mem.active) # {} => at'[a] = "judge"
    BY <1>9, <2>2 DEF ApplyCustomConfigs
  <2>5. CASE started /\ unseen \cap Used(mem.active) # {}
    BY <2>4, <2>5 DEF RulesServed
  <2>6. CASE ~started
    BY <2>1, <2>3, <2>6 DEF RulesServed
  <2>7. CASE unseen \cap Used(mem.active) = {}
    <3>1. front = mem.active => \A f \in Used(front) : f \in unseen => f \in unseen'
      BY <2>7
    <3> QED
      BY <2>1, <2>3, <3>1 DEF RulesServed
  <2> QED
    BY <2>5, <2>6, <2>7
<1>10. ASSUME NEW a \in Actors, CheckRules(a) PROVE RulesServed'
  BY <1>10 DEF CheckRules, TypeOK, Held, Holds, UnderLock, RulesServed, fileVars, rulesVars
<1>11. ASSUME NEW a \in Actors, SettleFrontDoor(a) PROVE RulesServed'
  <2>1. \/ front' = None \/ adrift'
        \/ front' = mem.active /\ unread' = unread \ Rules /\ started'
    BY <1>11 DEF SettleFrontDoor, StopFront, Render, Rendered, NotStarted, NotRendered
  <2>2. mem.active \in Servers
    BY Keys DEF TypeOK
  <2>3. CASE front' = None \/ adrift'
    BY <2>3 DEF RulesServed
  <2>4. CASE front' = mem.active /\ unread' = unread \ Rules /\ started'
    <3>1. unread' \cap Used(front') = {} /\ mem' = mem
      BY <1>11, <2>2, <2>4 DEF SettleFrontDoor, fileVars
    <3> QED
      BY <2>4, <3>1 DEF RulesServed
  <2> QED
    BY <2>1, <2>3, <2>4
<1>12. ASSUME NEW a \in Actors, ApplyPHPSettings(a) PROVE RulesServed'
  <2>1. /\ UNCHANGED <<mem, started, front, adrift, unread>>
        /\ unseen' = unseen \ {"php.ini"}
    BY <1>12 DEF ApplyPHPSettings, fileVars, servedVars
  <2>2. \A b \in Actors : at[b] \in {"judge", "settle", "front"} => at'[b] = at[b]
    BY <1>12 DEF ApplyPHPSettings, TypeOK
  <2>3. mem.active \in Servers
    BY Keys DEF TypeOK
  <2>4. front = mem.active => "php.ini" \notin Used(front)
    BY <2>3
  <2> QED
    BY <2>1, <2>2, <2>4 DEF RulesServed
<1>13. ASSUME NEW a \in Actors, RestartPHP(a) PROVE RulesServed'
  BY <1>13 DEF RestartPHP, Unlock, Works, Fails, Happens, TypeOK, Held, Holds, UnderLock,
       RulesServed, fileVars
<1>14. ASSUME NEW c \in Clients, SetAppearance(c) PROVE RulesServed'
  <2>1. UNCHANGED <<started, front, adrift, unread, unseen>>
    BY <1>14 DEF SetAppearance, Update, NoUpdate, Works, Fails, Happens, fileVars,
         rulesVars, servedVars
  <2>2. mem'.active = mem.active
    <3>1. mem \in Configs
      BY DEF TypeOK
    <3>2. call[c].what \in BOOLEAN
      BY <1>14 DEF SetAppearance, CallFits
    <3>3. [mem EXCEPT !.dark = call[c].what].active = mem.active
      BY <3>1, <3>2, Keys
    <3> QED
      BY <1>14, <3>3 DEF SetAppearance, Update, NoUpdate
  <2>3. \A b \in Actors : at[b] \in {"judge", "settle", "front"} => at'[b] = at[b]
    BY <1>14 DEF SetAppearance, Update, NoUpdate, Works, Fails, Happens, fileVars,
         rulesVars, servedVars, TypeOK
  <2> QED
    BY <2>1, <2>2, <2>3 DEF RulesServed
<1>15. ASSUME NEW c \in Clients, SetPHPTerminal(c) PROVE RulesServed'
  BY <1>15 DEF SetPHPTerminal, Set, NotSet, Lock, Passing, Works, Fails, Happens, TypeOK,
       Held, Holds, UnderLock, RulesServed, fileVars, rulesVars, servedVars
<1>16. ASSUME NEW c \in Clients, NoteTerminal(c) PROVE RulesServed'
  <2>1. UNCHANGED <<started, front, adrift, unread, unseen>>
    BY <1>16 DEF NoteTerminal, Unlock, Update, NoUpdate, Works, Fails, Happens, fileVars,
         rulesVars, servedVars
  <2>2. mem'.active = mem.active
    <3>1. mem \in Configs
      BY DEF TypeOK
    <3>2. call[c].what \in BOOLEAN
      BY <1>16 DEF NoteTerminal, CallFits
    <3>3. [mem EXCEPT !.terminal = call[c].what].active = mem.active
      BY <3>1, <3>2, Keys
    <3> QED
      BY <1>16, <3>3 DEF NoteTerminal, Update, NoUpdate
  <2>3. \A b \in Actors : at[b] \in {"judge", "settle", "front"} => at'[b] = at[b]
    BY <1>16 DEF NoteTerminal, Unlock, Update, NoUpdate, Works, Fails, Happens, fileVars,
         rulesVars, servedVars, TypeOK
  <2> QED
    BY <2>1, <2>2, <2>3 DEF RulesServed
<1>17. ASSUME NEW c \in Clients, CheckServing(c) PROVE RulesServed'
  BY <1>17 DEF CheckServing, TypeOK, Held, Holds, UnderLock, RulesServed, fileVars,
       rulesVars, servedVars
<1>18. ASSUME NEW c \in Clients, WriteRules(c) PROVE RulesServed'
  BY <1>18 DEF WriteRules, Written, Works, Fails, Happens, Ask, TypeOK, Held, Holds,
       UnderLock, RulesServed, fileVars, rulesVars, servedVars
<1>19. ASSUME NEW c \in Clients, StartProject(c) PROVE RulesServed'
  BY <1>19 DEF StartProject, Passing, Works, Lock, Fails, Happens, TypeOK, Held, Holds,
       UnderLock, RulesServed, fileVars
<1>20. ASSUME NEW c \in Clients, StopProject(c) PROVE RulesServed'
  BY <1>20 DEF StopProject, Passing, TypeOK, Held, Holds, UnderLock, RulesServed, fileVars,
       rulesVars
<1>21. ASSUME NEW c \in Clients, SetWebserver(c) PROVE RulesServed'
  <2>1. /\ UNCHANGED <<started, front, adrift, unread, unseen>>
        /\ \/ at' = [at EXCEPT ![c] = "front"]
           \/ at' = [at EXCEPT ![c] = "idle"] /\ (front = None \/ mem' = mem)
    BY <1>21 DEF SetWebserver, NoUpdate, rulesVars, servedVars
  <2>2. at \in [Actors -> Steps] /\ at[c] = "switch"
    BY <1>21 DEF SetWebserver, TypeOK
  <2>3. CASE at' = [at EXCEPT ![c] = "front"]
    <3>1. at'[c] = "front"
      BY <2>2, <2>3
    <3> QED
      BY <3>1 DEF RulesServed
  <2>4. CASE at' = [at EXCEPT ![c] = "idle"] /\ (front = None \/ mem' = mem)
    <3>1. \A b \in Actors : at[b] \in {"judge", "settle", "front"} => at'[b] = at[b]
      BY <2>2, <2>4
    <3> QED
      BY <2>1, <2>4, <3>1 DEF RulesServed
  <2> QED
    BY <2>1, <2>3, <2>4
<1>22. ASSUME NEW c \in Clients, ApplyFrontDoor(c) PROVE RulesServed'
  <2>1. \/ front' = None \/ adrift'
        \/ front' = mem.active /\ unread' = unread \ Rules /\ started'
    BY <1>22 DEF ApplyFrontDoor, StopFront, Render, Rendered, NotStarted, NotRendered
  <2>2. mem.active \in Servers
    BY Keys DEF TypeOK
  <2>3. CASE front' = None \/ adrift'
    BY <2>3 DEF RulesServed
  <2>4. CASE front' = mem.active /\ unread' = unread \ Rules /\ started'
    <3>1. unread' \cap Used(front') = {} /\ mem' = mem
      BY <1>22, <2>2, <2>4 DEF ApplyFrontDoor, fileVars
    <3> QED
      BY <2>4, <3>1 DEF RulesServed
  <2> QED
    BY <2>1, <2>3, <2>4
<1>23. ASSUME NEW c \in Clients, PHPSettings(c) PROVE RulesServed'
  BY <1>23 DEF PHPSettings, Written, Works, Fails, Happens, TypeOK, Held, Holds, UnderLock,
       RulesServed, fileVars, rulesVars, servedVars
<1>24. ASSUME NEW c \in Clients, StopAll(c) PROVE RulesServed'
  BY <1>24 DEF StopAll, Lock, Passing, Works, Fails, Happens, TypeOK, Held, Holds,
       UnderLock, RulesServed, fileVars, rulesVars
<1>25. ASSUME NEW c \in Clients, Wipe(c) PROVE RulesServed'
  BY <1>25 DEF Wipe, TypeOK, Held, Holds, UnderLock, RulesServed, servedVars
<1>26. ASSUME NEW c \in Clients, WriteDefaults(c) PROVE RulesServed'
  <2>1. front' = None
    BY <1>26 DEF WriteDefaults, servedVars, Emptied
  <2> QED
    BY <2>1 DEF RulesServed
<1>27. ASSUME NEW c \in Clients, NEW o \in Calls, Serve(c, o) PROVE RulesServed'
  BY <1>27 DEF Serve, Happens, FirstStep, Listening, TypeOK, Held, Holds, UnderLock,
       RulesServed, fileVars, rulesVars, servedVars
<1>28. CASE EditConfig
  BY <1>28 DEF EditConfig, Happens, TypeOK, Held, Holds, UnderLock, RulesServed, rulesVars,
       servedVars, actorVars
<1>29. CASE FinishEdit
  BY <1>29 DEF FinishEdit, TypeOK, Held, Holds, UnderLock, RulesServed, rulesVars,
       servedVars, actorVars
<1>30. ASSUME NEW f \in Files, EditRules(f) PROVE RulesServed'
  BY <1>30 DEF EditRules, Happens, Written, TypeOK, Held, Holds, UnderLock, RulesServed,
       fileVars, servedVars, actorVars
<1>31. ASSUME NEW f \in StartupFiles, EditStartup(f) PROVE RulesServed'
  BY <1>31 DEF EditStartup, Happens, TypeOK, Held, Holds, UnderLock, RulesServed, fileVars,
       rulesVars, servedVars, actorVars
<1>32. CASE Crash
  BY <1>32 DEF Crash, Down, Happens, TypeOK, Held, Holds, UnderLock, RulesServed
<1>33. CASE UNCHANGED vars
  BY <1>33 DEF vars, fileVars, rulesVars, servedVars, actorVars, TypeOK, Held, Holds,
       UnderLock, RulesServed
<1> QED
  BY <1>1, <1>2, <1>3, <1>4, <1>5, <1>6, <1>7, <1>8, <1>9, <1>10, <1>11, <1>12, <1>13,
       <1>14, <1>15, <1>16, <1>17, <1>18, <1>19, <1>20, <1>21, <1>22, <1>23, <1>24, <1>25, <1>26,
       <1>27, <1>28, <1>29, <1>30, <1>31, <1>32, <1>33 DEF Next, Daemon, Handle, Outside, Actors

(* PHP too.                                                                *)
LEMMA NextPHPServed ==
  ASSUME TypeOK, Held, Emptied, NotYet, PHPServed, Next \/ UNCHANGED vars
  PROVE  PHPServed'
<1> USE ActorsAssumption DEF Is, Go, Actors
<1> USE Names
<1>1. CASE Load
  <2>1. ~backend'
    BY <1>1 DEF Load, Down, servedVars, NotYet, Listening
  <2> QED
    BY <2>1 DEF PHPServed
<1>2. CASE Watch
  BY <1>2 DEF Watch, TypeOK, Held, Holds, UnderLock, PHPServed, rulesVars, servedVars
<1>3. CASE Look
  BY <1>3 DEF Look, TypeOK, Held, Holds, UnderLock, PHPServed, rulesVars, servedVars
<1>4. CASE ReadFile
  BY <1>4 DEF ReadFile, Lock, Passing, TypeOK, Held, Holds, UnderLock, PHPServed, fileVars,
       rulesVars, servedVars
<1>5. CASE Adopt
  BY <1>5 DEF Adopt, Unlock, TypeOK, Held, Holds, UnderLock, PHPServed, fileVars, rulesVars
<1>6. CASE TerminalByHand
  BY <1>6 DEF TerminalByHand, Passing, Set, NotSet, Works, Fails, Happens, TypeOK, Held,
       Holds, UnderLock, PHPServed, fileVars, rulesVars, servedVars
<1>7. ASSUME NEW a \in Actors, FirstRunSetup(a) PROVE PHPServed'
  BY <1>7 DEF FirstRunSetup, Update, NoUpdate, Fails, Works, Happens, Unlock, TypeOK, Held,
       Holds, UnderLock, PHPServed, fileVars, rulesVars, servedVars
<1>8. ASSUME NEW a \in Actors, Repair(a) PROVE PHPServed'
  BY <1>8 DEF Repair, Set, NotSet, Works, Fails, Happens, Unlock, TypeOK, Held, Holds,
       UnderLock, PHPServed, fileVars, rulesVars, servedVars
<1>9. ASSUME NEW a \in Actors, ApplyCustomConfigs(a) PROVE PHPServed'
  <2>1. UNCHANGED <<backend, unread>> /\ unseen' = unseen \ Rules
    BY <1>9 DEF ApplyCustomConfigs, servedVars
  <2>2. at \in [Actors -> Steps]
    BY DEF TypeOK
  <2>3. \A b \in Actors : at[b] = "restart php" => at'[b] = "restart php"
    BY <1>9, <2>2 DEF ApplyCustomConfigs
  <2>4. "php.ini" \in unseen => "php.ini" \in unseen'
    BY <2>1
  <2> QED
    BY <2>1, <2>3, <2>4 DEF PHPServed
<1>10. ASSUME NEW a \in Actors, CheckRules(a) PROVE PHPServed'
  BY <1>10 DEF CheckRules, TypeOK, Held, Holds, UnderLock, PHPServed, fileVars, rulesVars
<1>11. ASSUME NEW a \in Actors, SettleFrontDoor(a) PROVE PHPServed'
  BY <1>11 DEF SettleFrontDoor, After, Unlock, StopFront, Works, Render, Rendered,
       NotStarted, NotRendered, Fails, Happens, TypeOK, Held, Holds, UnderLock, PHPServed,
       fileVars
<1>12. ASSUME NEW a \in Actors, ApplyPHPSettings(a) PROVE PHPServed'
  <2>0. UNCHANGED <<backend, unread>> /\ unseen' = unseen \ {"php.ini"}
    BY <1>12 DEF ApplyPHPSettings, servedVars
  <2>1. "php.ini" \in unseen /\ backend => at'[a] = "restart php"
    <3>1. at \in [Actors -> Steps]
      BY DEF TypeOK
    <3> QED
      BY <1>12, <3>1 DEF ApplyPHPSettings
  <2>2. \A b \in Actors : at[b] = "restart php" => at'[b] = "restart php"
    BY <1>12 DEF ApplyPHPSettings, TypeOK
  <2> QED
    BY <2>0, <2>1, <2>2 DEF PHPServed
<1>13. ASSUME NEW a \in Actors, RestartPHP(a) PROVE PHPServed'
  BY <1>13 DEF RestartPHP, Unlock, Works, Fails, Happens, TypeOK, Held, Holds, UnderLock,
       PHPServed, fileVars
<1>14. ASSUME NEW c \in Clients, SetAppearance(c) PROVE PHPServed'
  BY <1>14 DEF SetAppearance, Update, NoUpdate, Works, Fails, Happens, TypeOK, Held, Holds,
       UnderLock, PHPServed, fileVars, rulesVars, servedVars
<1>15. ASSUME NEW c \in Clients, SetPHPTerminal(c) PROVE PHPServed'
  BY <1>15 DEF SetPHPTerminal, Set, NotSet, Lock, Passing, Works, Fails, Happens, TypeOK,
       Held, Holds, UnderLock, PHPServed, fileVars, rulesVars, servedVars
<1>16. ASSUME NEW c \in Clients, NoteTerminal(c) PROVE PHPServed'
  BY <1>16 DEF NoteTerminal, Unlock, Update, NoUpdate, Works, Fails, Happens, TypeOK, Held,
       Holds, UnderLock, PHPServed, fileVars, rulesVars, servedVars
<1>17. ASSUME NEW c \in Clients, CheckServing(c) PROVE PHPServed'
  BY <1>17 DEF CheckServing, TypeOK, Held, Holds, UnderLock, PHPServed, fileVars, rulesVars,
       servedVars
<1>18. ASSUME NEW c \in Clients, WriteRules(c) PROVE PHPServed'
  BY <1>18 DEF WriteRules, Written, Works, Fails, Happens, Ask, TypeOK, Held, Holds,
       UnderLock, PHPServed, fileVars, rulesVars, servedVars
<1>19. ASSUME NEW c \in Clients, StartProject(c) PROVE PHPServed'
  BY <1>19 DEF StartProject, Passing, Works, Lock, Fails, Happens, TypeOK, Held, Holds,
       UnderLock, PHPServed, fileVars
<1>20. ASSUME NEW c \in Clients, StopProject(c) PROVE PHPServed'
  BY <1>20 DEF StopProject, Passing, TypeOK, Held, Holds, UnderLock, PHPServed, fileVars,
       rulesVars
<1>21. ASSUME NEW c \in Clients, SetWebserver(c) PROVE PHPServed'
  BY <1>21 DEF SetWebserver, Works, NoUpdate, Passing, Update, Lock, Fails, Happens, TypeOK,
       Held, Holds, UnderLock, PHPServed, fileVars, rulesVars, servedVars
<1>22. ASSUME NEW c \in Clients, ApplyFrontDoor(c) PROVE PHPServed'
  BY <1>22 DEF ApplyFrontDoor, Unlock, StopFront, Works, Render, Rendered, NotStarted,
       NotRendered, Fails, Happens, TypeOK, Held, Holds, UnderLock, PHPServed, fileVars
<1>23. ASSUME NEW c \in Clients, PHPSettings(c) PROVE PHPServed'
  BY <1>23 DEF PHPSettings, Written, Works, Fails, Happens, TypeOK, Held, Holds, UnderLock,
       PHPServed, fileVars, rulesVars, servedVars
<1>24. ASSUME NEW c \in Clients, StopAll(c) PROVE PHPServed'
  BY <1>24 DEF StopAll, Lock, Passing, Works, Fails, Happens, TypeOK, Held, Holds,
       UnderLock, PHPServed, fileVars, rulesVars
<1>25. ASSUME NEW c \in Clients, Wipe(c) PROVE PHPServed'
  BY <1>25 DEF Wipe, TypeOK, Held, Holds, UnderLock, PHPServed, servedVars
<1>26. ASSUME NEW c \in Clients, WriteDefaults(c) PROVE PHPServed'
  <2>1. ~backend'
    BY <1>26 DEF WriteDefaults, servedVars, Emptied
  <2> QED
    BY <2>1 DEF PHPServed
<1>27. ASSUME NEW c \in Clients, NEW o \in Calls, Serve(c, o) PROVE PHPServed'
  BY <1>27 DEF Serve, Happens, FirstStep, Listening, TypeOK, Held, Holds, UnderLock,
       PHPServed, fileVars, rulesVars, servedVars
<1>28. CASE EditConfig
  BY <1>28 DEF EditConfig, Happens, TypeOK, Held, Holds, UnderLock, PHPServed, rulesVars,
       servedVars, actorVars
<1>29. CASE FinishEdit
  BY <1>29 DEF FinishEdit, TypeOK, Held, Holds, UnderLock, PHPServed, rulesVars, servedVars,
       actorVars
<1>30. ASSUME NEW f \in Files, EditRules(f) PROVE PHPServed'
  BY <1>30 DEF EditRules, Happens, Written, TypeOK, Held, Holds, UnderLock, PHPServed,
       fileVars, servedVars, actorVars
<1>31. ASSUME NEW f \in StartupFiles, EditStartup(f) PROVE PHPServed'
  BY <1>31 DEF EditStartup, Happens, TypeOK, Held, Holds, UnderLock, PHPServed, fileVars,
       rulesVars, servedVars, actorVars
<1>32. CASE Crash
  BY <1>32 DEF Crash, Down, Happens, TypeOK, Held, Holds, UnderLock, PHPServed
<1>33. CASE UNCHANGED vars
  BY <1>33 DEF vars, fileVars, rulesVars, servedVars, actorVars, TypeOK, Held, Holds,
       UnderLock, PHPServed
<1> QED
  BY <1>1, <1>2, <1>3, <1>4, <1>5, <1>6, <1>7, <1>8, <1>9, <1>10, <1>11, <1>12, <1>13,
       <1>14, <1>15, <1>16, <1>17, <1>18, <1>19, <1>20, <1>21, <1>22, <1>23, <1>24, <1>25, <1>26,
       <1>27, <1>28, <1>29, <1>30, <1>31, <1>32, <1>33 DEF Next, Daemon, Handle, Outside, Actors

(* The startup files are changed under d.mu, but by the call that notes it.*)
LEMMA NextOffNoted ==
  ASSUME TypeOK, Held, NotYet, OffNoted, Next \/ UNCHANGED vars
  PROVE  OffNoted'
<1> USE ActorsAssumption DEF Is, Go, Actors
<1>1. CASE Load
  BY <1>1 DEF Load, Down, Update, TypeOK, Held, Holds, UnderLock, OffNoted, fileVars,
       servedVars
<1>2. CASE Watch
  BY <1>2 DEF Watch, TypeOK, Held, Holds, UnderLock, OffNoted, rulesVars, servedVars
<1>3. CASE Look
  BY <1>3 DEF Look, TypeOK, Held, Holds, UnderLock, OffNoted, rulesVars, servedVars
<1>4. CASE ReadFile
  <2>1. \/ at' = [at EXCEPT ![Watcher] = "adopt"]
        \/ at' = [at EXCEPT ![Watcher] = "apply"]
    BY <1>4 DEF ReadFile
  <2>2. UNCHANGED <<block, call>>
    BY <1>4 DEF ReadFile, fileVars, rulesVars, servedVars
  <2>3. {"adopt", "apply"} \subseteq Steps
    BY DEF Steps
  <2> QED
    BY <2>1, <2>2, <2>3, OffNotedOn
<1>5. CASE Adopt
  BY <1>5 DEF Adopt, Unlock, TypeOK, Held, Holds, UnderLock, OffNoted, fileVars, rulesVars
<1>6. CASE TerminalByHand
  BY <1>6 DEF TerminalByHand, Passing, Set, NotSet, Works, Fails, Happens, TypeOK, Held,
       Holds, UnderLock, OffNoted, fileVars, rulesVars, servedVars
<1>7. ASSUME NEW a \in Actors, FirstRunSetup(a) PROVE OffNoted'
  <2>1. \/ at' = [at EXCEPT ![a] = "repair"]
        \/ at' = [at EXCEPT ![a] = "idle"]
    BY <1>7 DEF FirstRunSetup
  <2>2. UNCHANGED <<block, call>>
    BY <1>7 DEF FirstRunSetup, fileVars, rulesVars, servedVars
  <2>3. {"repair", "idle"} \subseteq Steps
    BY DEF Steps
  <2> QED
    BY <2>1, <2>2, <2>3, OffNotedOn
<1>8. ASSUME NEW a \in Actors, Repair(a) PROVE OffNoted'
  <2>1. \A c \in Clients : at'[c] # "note"
    <3>1. CASE a = Watcher
      BY <1>8, <3>1 DEF Repair, NotYet, Listening, TypeOK
    <3>2. CASE a \in Clients
      BY <1>8, <3>2 DEF Repair, Held, Holds, UnderLock, TypeOK
    <3> QED
      BY <3>1, <3>2
  <2> QED
    BY <2>1 DEF OffNoted
<1>9. ASSUME NEW a \in Actors, ApplyCustomConfigs(a) PROVE OffNoted'
  <2>1. \/ at' = [at EXCEPT ![a] = "judge"]
        \/ at' = [at EXCEPT ![a] = "php"]
        \/ at' = [at EXCEPT ![a] = "idle"]
    BY <1>9 DEF ApplyCustomConfigs, After
  <2>2. UNCHANGED <<block, call>>
    BY <1>9 DEF ApplyCustomConfigs, fileVars, servedVars
  <2>3. {"judge", "php", "idle"} \subseteq Steps
    BY DEF Steps
  <2> QED
    BY <2>1, <2>2, <2>3, OffNotedOn
<1>10. ASSUME NEW a \in Actors, CheckRules(a) PROVE OffNoted'
  BY <1>10 DEF CheckRules, TypeOK, Held, Holds, UnderLock, OffNoted, fileVars, rulesVars
<1>11. ASSUME NEW a \in Actors, SettleFrontDoor(a) PROVE OffNoted'
  BY <1>11 DEF SettleFrontDoor, After, Unlock, StopFront, Works, Render, Rendered,
       NotStarted, NotRendered, Fails, Happens, TypeOK, Held, Holds, UnderLock, OffNoted,
       fileVars
<1>12. ASSUME NEW a \in Actors, ApplyPHPSettings(a) PROVE OffNoted'
  <2>1. \/ at' = [at EXCEPT ![a] = "restart php"]
        \/ at' = [at EXCEPT ![a] = "look"]
        \/ at' = [at EXCEPT ![a] = "idle"]
    BY <1>12 DEF ApplyPHPSettings
  <2>2. UNCHANGED <<block, call>>
    BY <1>12 DEF ApplyPHPSettings, fileVars, servedVars
  <2>3. {"restart php", "look", "idle"} \subseteq Steps
    BY DEF Steps
  <2> QED
    BY <2>1, <2>2, <2>3, OffNotedOn
<1>13. ASSUME NEW a \in Actors, RestartPHP(a) PROVE OffNoted'
  BY <1>13 DEF RestartPHP, Unlock, Works, Fails, Happens, TypeOK, Held, Holds, UnderLock,
       OffNoted, fileVars
<1>14. ASSUME NEW c \in Clients, SetAppearance(c) PROVE OffNoted'
  BY <1>14 DEF SetAppearance, Update, NoUpdate, Works, Fails, Happens, TypeOK, Held, Holds,
       UnderLock, OffNoted, fileVars, rulesVars, servedVars
<1>15. ASSUME NEW c \in Clients, SetPHPTerminal(c) PROVE OffNoted'
  <2>1. mu = Nobody /\ call' = call
    BY <1>15 DEF SetPHPTerminal, Lock, Passing
  <2>2. \A d \in Clients : at[d] # "note"
    BY <2>1 DEF Held, Holds, UnderLock
  <2>3. \A d \in Clients \ {c} : at'[d] # "note"
    BY <1>15, <2>2 DEF SetPHPTerminal, TypeOK
  <2>4. CASE Set(call[c].what)
    <3>1. ~call[c].what => \A f \in StartupFiles : block'[f] # "ours"
      BY <2>4 DEF Set, Blocks, Without
    <3> QED
      BY <2>1, <2>3, <3>1 DEF OffNoted
  <2>5. CASE at'[c] = "idle"
    BY <2>3, <2>5 DEF OffNoted
  <2> QED
    BY <1>15, <2>4, <2>5 DEF SetPHPTerminal, TypeOK
<1>16. ASSUME NEW c \in Clients, NoteTerminal(c) PROVE OffNoted'
  BY <1>16 DEF NoteTerminal, Unlock, Update, NoUpdate, Works, Fails, Happens, TypeOK, Held,
       Holds, UnderLock, OffNoted, fileVars, rulesVars, servedVars
<1>17. ASSUME NEW c \in Clients, CheckServing(c) PROVE OffNoted'
  BY <1>17 DEF CheckServing, TypeOK, Held, Holds, UnderLock, OffNoted, fileVars, rulesVars,
       servedVars
<1>18. ASSUME NEW c \in Clients, WriteRules(c) PROVE OffNoted'
  BY <1>18 DEF WriteRules, Written, Works, Fails, Happens, Ask, TypeOK, Held, Holds,
       UnderLock, OffNoted, fileVars, rulesVars, servedVars
<1>19. ASSUME NEW c \in Clients, StartProject(c) PROVE OffNoted'
  BY <1>19 DEF StartProject, Passing, Works, Lock, Fails, Happens, TypeOK, Held, Holds,
       UnderLock, OffNoted, fileVars
<1>20. ASSUME NEW c \in Clients, StopProject(c) PROVE OffNoted'
  BY <1>20 DEF StopProject, Passing, TypeOK, Held, Holds, UnderLock, OffNoted, fileVars,
       rulesVars
<1>21. ASSUME NEW c \in Clients, SetWebserver(c) PROVE OffNoted'
  BY <1>21 DEF SetWebserver, Works, NoUpdate, Passing, Update, Lock, Fails, Happens, TypeOK,
       Held, Holds, UnderLock, OffNoted, fileVars, rulesVars, servedVars
<1>22. ASSUME NEW c \in Clients, ApplyFrontDoor(c) PROVE OffNoted'
  BY <1>22 DEF ApplyFrontDoor, Unlock, StopFront, Works, Render, Rendered, NotStarted,
       NotRendered, Fails, Happens, TypeOK, Held, Holds, UnderLock, OffNoted, fileVars
<1>23. ASSUME NEW c \in Clients, PHPSettings(c) PROVE OffNoted'
  BY <1>23 DEF PHPSettings, Written, Works, Fails, Happens, TypeOK, Held, Holds, UnderLock,
       OffNoted, fileVars, rulesVars, servedVars
<1>24. ASSUME NEW c \in Clients, StopAll(c) PROVE OffNoted'
  BY <1>24 DEF StopAll, Lock, Passing, Works, Fails, Happens, TypeOK, Held, Holds,
       UnderLock, OffNoted, fileVars, rulesVars
<1>25. ASSUME NEW c \in Clients, Wipe(c) PROVE OffNoted'
  BY <1>25 DEF Wipe, TypeOK, Held, Holds, UnderLock, OffNoted, servedVars
<1>26. ASSUME NEW c \in Clients, WriteDefaults(c) PROVE OffNoted'
  BY <1>26 DEF WriteDefaults, Update, Works, NoUpdate, Fails, Happens, Unlock, TypeOK, Held,
       Holds, UnderLock, OffNoted, fileVars, servedVars
<1>27. ASSUME NEW c \in Clients, NEW o \in Calls, Serve(c, o) PROVE OffNoted'
  <2>1. /\ at'[c] # "note" /\ block' = block
        /\ \A d \in Clients \ {c} : at'[d] = at[d] /\ call'[d] = call[d]
    BY <1>27, Starts DEF Serve, TypeOK, UnderLock
  <2> QED
    BY <2>1 DEF OffNoted
<1>28. CASE EditConfig
  BY <1>28 DEF EditConfig, Happens, TypeOK, Held, Holds, UnderLock, OffNoted, rulesVars,
       servedVars, actorVars
<1>29. CASE FinishEdit
  BY <1>29 DEF FinishEdit, TypeOK, Held, Holds, UnderLock, OffNoted, rulesVars, servedVars,
       actorVars
<1>30. ASSUME NEW f \in Files, EditRules(f) PROVE OffNoted'
  BY <1>30 DEF EditRules, Happens, Written, TypeOK, Held, Holds, UnderLock, OffNoted,
       fileVars, servedVars, actorVars
<1>31. ASSUME NEW f \in StartupFiles, EditStartup(f) PROVE OffNoted'
  BY <1>31 DEF EditStartup, Happens, TypeOK, Held, Holds, UnderLock, OffNoted, fileVars,
       rulesVars, servedVars, actorVars
<1>32. CASE Crash
  BY <1>32 DEF Crash, Down, Happens, TypeOK, Held, Holds, UnderLock, OffNoted
<1>33. CASE UNCHANGED vars
  BY <1>33 DEF vars, fileVars, rulesVars, servedVars, actorVars, TypeOK, Held, Holds,
       UnderLock, OffNoted
<1> QED
  BY <1>1, <1>2, <1>3, <1>4, <1>5, <1>6, <1>7, <1>8, <1>9, <1>10, <1>11, <1>12, <1>13,
       <1>14, <1>15, <1>16, <1>17, <1>18, <1>19, <1>20, <1>21, <1>22, <1>23, <1>24, <1>25, <1>26,
       <1>27, <1>28, <1>29, <1>30, <1>31, <1>32, <1>33 DEF Next, Daemon, Handle, Outside, Actors

(* The types once more, as one.                                            *)
LEMMA NextTypeOK ==
  ASSUME TypeOK, Held, CallFits, Next \/ UNCHANGED vars
  PROVE  TypeOK'
<1>1. FileOK' /\ WhereOK' /\ ServedOK' /\ events' \in 0 .. MaxEvents
  BY NextFile, NextPlaced, NextServed, NextEvents DEF Placed
<1> QED
  BY <1>1 DEF FileOK, WhereOK, ServedOK, TypeOK

(* The daemon is down, or it runs and serves the project.                  *)
LEMMA InitIInv ==
  ASSUME Init
  PROVE  IInv
<1> USE ActorsAssumption, BoundsAssumption, Names DEF Actors
<1>1. Default \in Configs /\ [Default EXCEPT !.terminal = TRUE] \in Configs
  BY Keys
<1>2. file \in Configs \cup {NoFile} /\ mem \in Configs
  BY <1>1 DEF Init, Valid
<1>3. at[Watcher] \in {"down", "apply"} /\ \A c \in Clients : at[c] = "idle"
  BY DEF Init
<1>4. /\ at[Watcher] = "apply" => Valid(file) /\ mem = file /\ front = mem.active
      /\ started = (at[Watcher] = "apply") /\ backend = (at[Watcher] = "apply")
      /\ at[Watcher] # "apply" => front = None
  BY DEF Init
<1>5. front \in Servers \cup {None}
  BY <1>2, <1>4, Keys
<1>6. started \in BOOLEAN /\ backend \in BOOLEAN
  <2>1. (at[Watcher] = "apply") \in BOOLEAN
    OBVIOUS
  <2> QED
    BY <1>4, <2>1, Zenon
<1>7. TypeOK
  <2>1. file \in Configs \cup {Half, NoFile} /\ mem \in Configs
    BY <1>2
  <2>2. {newer, early, started, backend, adrift} \subseteq BOOLEAN
    BY <1>6 DEF Init
  <2>3. /\ mu \in Actors \cup {Nobody}
        /\ block \in [StartupFiles -> {"none", "ours", "theirs", "broken"}]
        /\ rules \in [Files -> {"none", "good", "bad"}]
        /\ unseen \subseteq Files /\ unread \subseteq Files
    BY DEF Init
  <2>4. at \in [Actors -> Steps]
    BY DEF Init, Steps
  <2>5. call \in [Clients -> AllCalls]
    <3>1. Ask("stop", "") \in AllCalls
      BY DEF AllCalls
    <3> QED
      BY <3>1 DEF Init
  <2>6. raw \in [cfg : Configs, was : BOOLEAN]
    BY <1>1 DEF Init
  <2>7. events \in 0 .. MaxEvents
    <3>1. events = 0
      BY DEF Init
    <3> QED
      BY <3>1
  <2> QED
    BY <1>5, <2>1, <2>2, <2>3, <2>4, <2>5, <2>6, <2>7 DEF TypeOK
<1>8. Held
  BY <1>3 DEF Held, Holds, UnderLock
<1>9. NotYet /\ Emptied /\ CallFits /\ OffNoted
  BY <1>3, <1>4 DEF NotYet, Emptied, CallFits, OffNoted, Listening
<1>10. Read /\ MemoryIsFile
  BY <1>3, <1>4 DEF Read, MemoryIsFile, Listening
<1>11. unread = {}
  BY DEF Init
<1>12. RulesServed
  BY <1>4, <1>11 DEF RulesServed
<1>13. PHPServed
  BY <1>11 DEF PHPServed
<1> QED
  BY <1>7, <1>8, <1>9, <1>10, <1>12, <1>13 DEF IInv

(* The inductive step.                                                     *)
LEMMA NextIInv ==
  ASSUME IInv, Next \/ UNCHANGED vars
  PROVE  IInv'
<1>1. TypeOK'
  BY NextTypeOK DEF IInv
<1>2. Held' /\ CallFits'
  BY NextPlaced DEF IInv, Placed
<1>3. NotYet' /\ Emptied'
  BY NextNotYet, NextEmptied DEF IInv
<1>4. Read' /\ MemoryIsFile'
  BY NextRead, NextMemory DEF IInv
<1>5. RulesServed' /\ PHPServed'
  BY NextRulesServed, NextPHPServed DEF IInv
<1>6. OffNoted'
  BY NextOffNoted DEF IInv
<1> QED
  BY <1>1, <1>2, <1>3, <1>4, <1>5, <1>6 DEF IInv

(* The inductive invariant holds of the specification.                     *)
LEMMA SettingsInvariant == Spec => []IInv
<1>1. Init => IInv
  BY InitIInv
<1>2. IInv /\ [Next]_vars => IInv'
  BY NextIInv
<1> QED
  BY <1>1, <1>2, PTL DEF Spec

-----------------------------------------------------------------------------
(* The states have the types of the code's: whatever is edited by hand,    *)
(* what Wharf keeps in memory is a config.                                 *)
THEOREM TypeCorrect == Spec => []TypeOK
<1>1. IInv => TypeOK
  BY DEF IInv
<1> QED
  BY <1>1, SettingsInvariant, PTL

(* Store.Load, Store.Update and Store.Reload keep the copy in memory equal *)
(* to the file, but for a hand-edit the watcher has yet to read, or has    *)
(* taken for the file it began with (WatchConfig).                         *)
THEOREM MemoryFollowsFile == Spec => []MemoryIsFile
<1>1. IInv => MemoryIsFile
  BY DEF IInv
<1> QED
  BY <1>1, SettingsInvariant, PTL

(* ApplyCustomConfigs, applyFrontDoor and ApplyPHPSettings lose no save:   *)
(* what runs was started with the files as they are, or they are still to  *)
(* be seen.                                                                *)
THEOREM SavesAreApplied == Spec => []SavedFilesApplied
<1>1. ASSUME IInv PROVE SavedFilesApplied
  <2>1. SUFFICES ASSUME mu = Nobody
                 PROVE  /\ front # None /\ ~adrift =>
                              /\ started /\ front = mem.active
                              /\ unread \cap Used(front) \subseteq unseen
                        /\ backend => unread \cap {"php.ini"} \subseteq unseen
    BY DEF SavedFilesApplied
  <2>2. \A a \in Actors : at[a] \notin {"judge", "settle", "front", "restart php"}
    <3>1. \A a \in Actors : a # Nobody
      BY ActorsAssumption DEF Actors
    <3> QED
      BY <1>1, <2>1, <3>1 DEF IInv, Held, Holds, UnderLock
  <2> QED
    BY <1>1, <2>2 DEF IInv, RulesServed, PHPServed
<1>2. IInv => SavedFilesApplied
  BY <1>1
<1> QED
  BY <1>2, SettingsInvariant, PTL

(* What Profiles.Add and Profiles.Remove may do to a startup file.         *)
LEMMA BlocksKept ==
  ASSUME NEW on, Set(on) \/ NotSet(on), block' # block,
         block \in [StartupFiles -> {"none", "ours", "theirs", "broken"}]
  PROVE  ~Broken /\ \A f \in StartupFiles : block[f] = "theirs" /\ block'[f] # "theirs"
                                             => block'[f] = "ours"
<1>1. ~Broken
  BY DEF Set, NotSet
<1>2. PICK S \in SUBSET StartupFiles : block' = Blocks(on, S)
  BY <1>1 DEF Set, NotSet
<1>3. CASE block' = With(S)
  BY <1>1, <1>3 DEF With
<1>4. CASE block' = Without(S)
  BY <1>1, <1>4 DEF Without
<1> QED
  BY <1>2, <1>3, <1>4 DEF Blocks

(* The other actions leave the startup files alone.                        *)
LEMMA OnlyTheseChangeBlocks ==
  ASSUME Next \/ UNCHANGED vars
  PROVE  block' = block \/ ByHand \/ \E on : Set(on) \/ NotSet(on)
<1> USE DEF Actors
<1>1. CASE Load \/ Watch \/ Look \/ ReadFile \/ Adopt \/ EditConfig \/ FinishEdit \/ Crash
  BY <1>1 DEF Adopt, Crash, EditConfig, FinishEdit, Load, Look, ReadFile, Watch
<1>2. ASSUME NEW a \in Actors, FirstRunSetup(a) \/ ApplyCustomConfigs(a) \/ CheckRules(a) \/
             SettleFrontDoor(a) \/ ApplyPHPSettings(a) \/ RestartPHP(a)
      PROVE  block' = block \/ ByHand \/ \E on : Set(on) \/ NotSet(on)
  BY <1>2 DEF ApplyCustomConfigs, ApplyPHPSettings, CheckRules, FirstRunSetup, RestartPHP,
       SettleFrontDoor
<1>3. ASSUME NEW c \in Clients, SetAppearance(c) \/ NoteTerminal(c) \/ CheckServing(c) \/
             WriteRules(c) \/ StartProject(c) \/ StopProject(c) \/ SetWebserver(c) \/
             ApplyFrontDoor(c)
             \/ PHPSettings(c) \/ StopAll(c) \/ Wipe(c) \/ WriteDefaults(c)
      PROVE  block' = block \/ ByHand \/ \E on : Set(on) \/ NotSet(on)
  BY <1>3 DEF ApplyFrontDoor, CheckServing, NoteTerminal, PHPSettings, SetAppearance,
       SetWebserver, StartProject, StopAll, StopProject, Wipe, WriteDefaults, WriteRules
<1>4. ASSUME NEW c \in Clients, NEW o \in Calls, Serve(c, o)
      PROVE  block' = block \/ ByHand \/ \E on : Set(on) \/ NotSet(on)
  BY <1>4 DEF Serve
<1>5. ASSUME NEW f \in Files, EditRules(f)
      PROVE  block' = block \/ ByHand \/ \E on : Set(on) \/ NotSet(on)
  BY <1>5 DEF EditRules
<1>6. CASE TerminalByHand
  BY <1>6 DEF TerminalByHand
<1>7. ASSUME NEW a \in Actors, Repair(a)
      PROVE  block' = block \/ ByHand \/ \E on : Set(on) \/ NotSet(on)
  BY <1>7 DEF Repair
<1>8. ASSUME NEW c \in Clients, SetPHPTerminal(c)
      PROVE  block' = block \/ ByHand \/ \E on : Set(on) \/ NotSet(on)
  BY <1>8 DEF SetPHPTerminal
<1>9. ASSUME NEW f \in StartupFiles, EditStartup(f)
      PROVE  block' = block \/ ByHand \/ \E on : Set(on) \/ NotSet(on)
  BY <1>9 DEF ByHand
<1>10. CASE UNCHANGED vars
  BY <1>10 DEF vars, fileVars, rulesVars, servedVars, actorVars
<1> QED
  BY <1>1, <1>2, <1>3, <1>4, <1>5, <1>6, <1>7, <1>8, <1>9, <1>10 DEF Next, Daemon, Handle,
       Outside, Actors

(* Profiles.Add and Profiles.Remove read every startup file before they    *)
(* write one: a block broken by hand is left, and another Wharf folder's   *)
(* block makes way for this one's only.                                    *)
THEOREM StartupFilesKept == Spec => StartupFilesSafe
<1>1. ASSUME TypeOK, Next \/ UNCHANGED vars, block' # block
      PROVE  ByHand \/ (~Broken /\ (\A f \in StartupFiles :
                                       block[f] = "theirs" /\ block'[f] # "theirs"
                                         => block'[f] = "ours"))
  <2>1. ByHand \/ \E on : Set(on) \/ NotSet(on)
    BY <1>1, OnlyTheseChangeBlocks
  <2>2. block \in [StartupFiles -> {"none", "ours", "theirs", "broken"}]
    BY <1>1 DEF TypeOK
  <2> QED
    BY <1>1, <2>1, <2>2, BlocksKept
<1>2. IInv /\ [Next]_vars =>
        [block' # block =>
           ByHand \/ (~Broken /\ (\A f \in StartupFiles :
                                      block[f] = "theirs" /\ block'[f] # "theirs"
                                        => block'[f] = "ours"))]_vars
  BY <1>1 DEF IInv
<1> QED
  BY <1>2, SettingsInvariant, PTL DEF Spec, StartupFilesSafe

(* SetPHPTerminal notes that the terminal is off only when no startup file *)
(* holds the block, whatever hand-edit the watcher applies meanwhile.      *)
THEOREM OffIsOff == Spec => OffLeavesNoBlock
<1>1. IInv /\ [Next]_vars =>
        [\A c \in Clients : NoteTerminal(c) /\ ~call[c].what
           => \A f \in StartupFiles : block[f] # "ours"]_vars
  BY DEF IInv, OffNoted, NoteTerminal, Is
<1> QED
  BY <1>1, SettingsInvariant, PTL DEF Spec, OffLeavesNoBlock
=============================================================================
