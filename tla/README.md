# A verification of Wharf

Wharf is a tray application that runs PHP projects on the user's own machine:
a GUI (Dart) talks over a socket to a daemon (Go), and the daemon starts
webservers and PHP, keeps `wharf.json`, and serves every started project as
`<name>.localhost`. This directory holds TLA+ modules translated from the
daemon's source, the TLC configurations that check them on small instances,
and proofs, checked by TLAPS, of what they are for.

    tlc -config <run>.cfg MC<Module>.tla      # the runs: table in section 4
    tlapm <Module>Proofs.tla                  # the proofs: section 6

Source paths below are relative to `src/daemon/internal/`. `PROJECT.json`
names the lines every definition stands for, and for each property a small
change of the code (a "mutant", written beside the definition it changes)
that breaks it.

## 1. Inventory

| Component | State it keeps | Operations | Interacts with |
|---|---|---|---|
| **Process supervisor** (`supervisor/`) | per service ID: status, handle, generation, stopped-on-purpose flag; `closing` | Start, Stop, Restart, StopAll, Shutdown; one watcher goroutine per process; port prober; output capture | called by the core; its change callback publishes a snapshot |
| **Core: projects, front door, webserver** (`core/projects.go`, `frontdoor.go`, `webserver.go`, `core.go`) | `started`, `failed`, `shared` | AddFolder, Start/Stop/Restart/Remove/UpdateSettings, SetWebserver, StopAll, Reset, Shutdown | holds `d.mu` for a whole operation; calls supervisor, config store, renderer, certificates |
| **Sharing** (`core/sharing.go`, `lan/`) | `shared`, `address`, the network certificate authority | Share, Unshare, CheckNetwork, ReplaceNetworkCertificate, a ticker | front door, supervisor, config (`lan_port`) |
| **PHP** (`core/php.go`, `php/`) | adopted/hidden versions, `downloading`, `phpLatest` | SetPHPVersion, Install, Remove, Adopt, Hide, rescans | outside `d.mu` for downloads, inside it for the registry |
| **Configuration file** (`config/`, `core/watch.go`) | config in memory, file on disk, its modification time | Get, Update, Reload, SetAppearance; the ticker that reads hand-edits | everything |
| **Runtime resolver** (`runtime/`) | none | service specs, `nextPort`, rendering | core |
| **Custom configs and templates** (`core/userfiles.go`, `configtemplates.go`, `configtemplate/`) | files in `config/`, `customSeen`, `phpIniSeen` | Read/SaveCustomConfig, ApplyCustomConfigs (ticker) | renderer, front door |
| **Snapshots and busy flags** (`core/state.go`, `core.go`, `api.go`) | `busy`, atomics for detected installs, `updates` | State, publish | read without `d.mu`; sent by the IPC server |
| **IPC** (`ipc/`) | connections, a bounded queue per client, the endpoint file | requests in order or in the background, Broadcast, Close | core API, GUI, command line |
| **Daemon process** (`cmd/wharfd`, `watchdog/`, `proctree/`) | endpoint lock, the GUI's process ID | start, quit, parent gone | all of the above |
| **Terminal PATH** (`core/terminal.go`, `shellpath/`) | marked block in startup files, the link in `bin/path` | on, off, Reset, follow the default PHP | publish, config |
| **Updates, downloads, webserver installs** (`update/`, `download/`, `webserver/`) | `updates`, `installing`, staged files | Check, Download, Install | run outside `d.mu` |
| **Certificates, names, layout, elevation** (`certs/`, `project/`, `layout/`, `elevate/`) | none in the daemon | mkcert, slugs, detection, password prompts | core |
| **GUI** (`src/gui/lib`) | connection, last snapshot | connect, launch, reconnect, quit | IPC |
| **Command line** (`cmd/wharfctl`), **doc checks** (`specsync/`, `docsync/`) | none | one request; repository tests | IPC |

What is hard in this code, and what makes each part correct:

* **Supervisor.** `s.mu` is held only in short sections. Between them a start
  waits for its port, spawns, waits for the port to be bound; a stop signals,
  waits, kills, waits for the port to be free; a watcher waits for the exit.
  Anything may come in between: another Start or Stop of the same service,
  Shutdown, a crash, another program on the port. Generations tell a late
  goroutine that it has been overtaken. Correct means that no process is lost
  or doubled, nothing survives Shutdown, a crash shows, an error is not
  overwritten, and every call returns.
* **Core.** `d.mu` serialises the operations, so the difficulty is not
  interleaving but *partial failure*: an operation is five to ten calls that
  may each fail, over state in four places (`wharf.json`, the ledgers in
  memory, the front door's rendered config, the processes). Crashes, other
  programs' ports and hand-edits of `wharf.json` come in between the calls.
  Correct means that these four agree again, and that what the GUI shows as
  running is served.
* **Snapshots and IPC.** Snapshots are taken and sent without one lock around
  both; queues are bounded and drop events; background handlers outlive
  connections. Correct means that a client ends up with the last state and
  every request is answered once.
* **Config file.** Two writers in the daemon and a user with an editor.
  Correct means that no change is lost and a half-saved file is read again.
* **PHP, installs, updates, custom configs, terminal.** Checks made before a
  lock is taken and used after it; staged files and renames; tickers that mark
  a change as seen before it is applied.
* **GUI.** Reconnecting, requests that outlive a connection, one daemon per
  root.

`PROJECT.json` lists 40 places where these bite, each at its line, with the
properties that cover it or the reason why none does.

## 2. Plan

The most important behaviour first: what starts and stops processes, then what
decides which processes there should be, then what users and other programs
see and touch.

| # | Module | Status |
|---|---|---|
| 1 | `ServiceLifecycle`: what the supervisor promises one caller (abstract) | done |
| 2 | `Supervisor`: every section under `s.mu` and every wait; refines 1 | done; all safety properties and the safety part of the refinement proved |
| 3 | `FrontDoor`: projects, front door, own instances, sharing; uses the supervisor as 1 describes it | done; all properties proved |
| 4 | `Server`: connections, requests, answers, broadcasts and snapshots | done; all safety properties proved |
| 5 | `Installs`: PHP versions, webservers and updates: downloads, detection, the registry, crashes | done; all safety properties proved |
| 6 | `Settings`: `wharf.json` and its copy in memory, rules and `php.ini`, the block in the startup files | done; all safety properties proved |

Each module is about another set of locks and files, and they meet in few
places: operations of 3 appear in 4 as "act", in 5 and 6 as what holds `d.mu`;
a crash of the daemon is in 5 and 6, which are about what is on disk, and not
in 2 to 4, whose state dies with it.

What could follow: the daemon's own life (one daemon per root, the endpoint
file, the launcher); network addresses and certificates; a front door with one
PHP backend per version. Every safety property of section 4 has a theorem;
what is left to TLC is named at the end of section 6.

## 3. The modules

### Supervisor

`Supervisor` models `supervisor.go`, `port.go` and the parts of `runner.go`
that it calls. `Callers` are goroutines that use it at the same time, `Ids`
the service IDs. One action is one section under `s.mu` or one wait between
two sections, so every interleaving the mutex allows is a behaviour.

| State | In the code |
|---|---|
| `procs[id]` (`state`, `handle`, `run`, `gen`, `err`) | `s.procs[id]`: status, whether it holds a process, which one, its generation, which kind of error it shows |
| `gen`, `closing` | the generation counter; `s.closing` |
| `pc[c]`, `op[c]`, `target[c]`, `mine[c]`, `seen[c]`, `todo[c]`, `ret[c]` | where a goroutine is in Start, Stop or StopAll, its locals and its result |
| `proc[g]`, `home[g]`, `watching` | the operating system's side of run `g`: none, up, listening, closing (dead, socket not yet released), gone; whose it is; the watcher goroutines |
| `taken` | services whose port another program holds |
| `starts`, `down` | how many starts were asked for (bound `MaxStarts`); Shutdown has returned |

Start is `StartRefused` (closing), `StartAlready` (running or starting: nil),
`StartNew`, then `PortWaitDone`, `NotCalledOff` or `CalledOff`, `Spawn` or
`SpawnFails`, `Adopt` or `AdoptCalledOff`, `BindWaitDone` or `GaveUp`,
`Confirm` or `ConfirmTooLate`, and `Fail` on each error path. Stop is
`NothingToStop`, `CallOff` (a start that has no process yet: the generation
moves on and the start finds out) or `BeginStop`, then `Kill` or `Terminated`,
`ReleaseWaitDone`, `EndStop`. StopAll and Shutdown are `Close`, `Snapshot`,
`StopNext`, `StoppedAll`. `Watch` is the goroutine that waits for the exit.
The environment is `ProcessListens`, `ProcessExits`, `SocketReleased` and, if
`Foreign`, `OtherProgram`. A wait with a timeout may end either way at any
time, except where what it waits for decides it.

`ServiceLifecycle` is the abstract specification: the states a service is
shown in and the process behind it. It allows no start of a service that has a
process, no "running" that is not preceded by a start, no "stopped" or
"failed" while the process is alive, and no start once closing; it demands
that no service stays between two states (`Safety` is the first part, `Spec`
both). `Supervisor` with one caller implements it under the mapping `state <-
procs[id].state`, `live <- the services with a live run`, `quitting <-
closing`.

Left out: capture of a process's output, which only feeds the error text, and
the commands and environment of a spec.

### FrontDoor

`FrontDoor` models the daemon's operations on projects. Operations do not
overlap (`d.mu`), so the module has one `job`: the operation that holds the
lock and `todo`, the calls it has still to make. Each item is one supervisor
call or config write; it succeeds, or fails and leaves what the code leaves.
Crashes and other programs come between any two.

| State | In the code |
|---|---|
| `registered`, `active`, `pin`, `port`, `lan` | `wharf.json`: the projects, the active webserver, `webserver_override`, `port`, `lan_port` |
| `started`, `failed`, `shared` | `d.started`, the keys of `d.failed`, `d.shared` |
| `front`, `own[p]`, `php` | the front door's process, a project's own instance, PHP: state, and the config each runs *with* |
| `front.conf` | the rendered front door: which server, what it does with each name (refuse, serve, forward to a port), what it shares on which port |
| `closing`, `job`, `pending` | the supervisor's `closing`; the holder of `d.mu`; goroutines of AddFolder waiting for it |
| `byHand` | which of those ports were last written by hand |
| `phpLost` | bookkeeping: PHP crashed, or a reset stopped it, and nothing has started it since |
| `held` | ports other programs hold |
| `stale`, `edited`, `trouble` | bookkeeping of the model: something failed since the front door was last brought in line; `wharf.json` was edited by hand since nothing ran; the bound on what may go wrong |

The operations are named as in the code (`StartProject`, `StopProject`,
`RestartProject`, `RemoveProject`, `AddProject` and the `StartAdded` of its
goroutine, `UpdateSettings`, `SetWebserver`, `Share`, `Unshare`,
`SetPHPVersion`, `StopAll`, `Reset`, `Shutdown`); `FollowNetwork` stands for
the two operations that render the front door again because the address or
certificate changed. Their steps are `CheckRules` (a custom config may be
unusable), `EnsurePHP`, `OwnPort` (choose and record a port), `StartOwn`,
`RestartOwn`, `StopOwn`, `TryStopOwn`, `Evict`, `Apply` (bring the front door
in line with the started projects, stopping it if there are none), `Serve`,
`Settle`, `Reload`, `SharePort`, `TakeBack`, `Reapply`, `Unregister`,
`StopEverything`, `Clear`, `Wipe` and `Return`. A call to the supervisor is
`StartOf`, `StopOf` or `RestartOf`: the process it leaves, whether it failed,
and whether that failure was the environment's (which costs `trouble`) or
forced by the state (a port that is taken, a supervisor that is closing).

A start that finds its project shown as running returns at once: it is the job
`already`, without a step. `HandEdit` is a `wharf.json` that was written by
hand and read again: an entry goes, or one is written, new or not, with any
override and any ports, another project's, taken ones and none included, for
`validate` (`config/config.go`) looks at none of them; or the active webserver
is another.

Abstracted: one PHP backend instead of one per version; the network address
and certificates; snapshots and progress flags. Errors the code swallows
(`RemoveProject`) are swallowed.

### Server

`Server` models the daemon's end of a connection (`ipc/server.go`), the
client's (`ipc/client.go`), and what is sent over it: answers, and the
snapshots that `publish` broadcasts (`core/core.go`, `state.go`, `api.go`,
`update.go`).

| State | In the code |
|---|---|
| `serves[c]` | where `serveClient` is: accepted, reading, busy with a request it answers in order, refused, flushing, over |
| `out[c]`, `outClosed[c]`, `gone[c]` | `c.out` with what the writer and the sockets hold, `c.closed`, `c.gone` |
| `listed`, `closed`, `hungUp[c]` | `s.clients`, `s.closed`, whether the server has closed the connection |
| `conn`, `kind`, `plan[j]`, `snap[j]` | the jobs: on which connection a request came, what it asks, the steps its handler has still to take, the snapshot it has in hand |
| `mu`, `checking` | `d.mu` and `d.updates.checking` |
| `untold`, `behind` | bookkeeping: a change no broadcast shows yet; the windows that show an old snapshot |

A snapshot is "new" while it shows the present state and "old" from the next
change on, wherever it is: in a handler's hand, in a queue, on a screen. Jobs
are requests and the supervisor's crash callbacks. An action changes the state
under `d.mu`, then takes a snapshot and broadcasts it, then lets go, then
takes another for its answer; lookups do the same without `d.mu`, in the
background. `Dispatch`, `CloseOut`, `End`, `Write` and `WriterEnds` are the two
goroutines of a connection; an answer waits for room, an event does not.

### Installs

`Installs` models everything that is downloaded, detected and registered:
`core/php.go`, `webserver.go`, `update.go` with `php/`, `webserver/`,
`download/` and `update/`. Things are PHP versions, one webserver and the
release of Wharf.

| State | In the code |
|---|---|
| `place[t]`, `staged[t]`, `left` | what is in the folder of `t`, in its staging folder, and staging folders a crash has left behind |
| `system`, `hidden`, `found`, `scan[c]` | what the machine has, the hidden folders, `phpInstalls` and `webInstalls`, the scan a call has in hand or the folder it deletes |
| `flag` | `downloading`, `installing` and `updates.downloading`, under `dlMu` |
| `default`, `available`, `paths`, `used` | `wharf.json`: the default version, those listed, those with a path of their own, a project's override |
| `mu`, `at[c]`, `call[c]`, `body[c]` | `d.mu`; where each call is and what it does; what it has received |
| `unsettled` | bookkeeping: versions whose removal failed halfway, which the user was told |
| `cut` | bookkeeping: versions whose removal was cut short, which nobody was told |

A call is a chain of the code's sections: look, begin (the flag), stage,
receive, unpack, place (the rename), clean, scan and store, register, end.
Checks without a lock (`inProgress`, whether the folder exists, whether the
version is listed) are steps of their own, so that anything may come between
them and their use. The daemon may crash at any step and is started again,
which scans.

A folder holds a whole build, an *altered* one (all its parts, not as
published), or what is left of one: `os.RemoveAll` deletes file by file
(`DeleteSome`), other calls and the daemon's end come between two files, and
then `Delete` is the end of it or its error. A body whose checksum is compared
is good or refused; that of a static PHP build, which has none, may arrive
altered and still decode (`Receive`, `Unpack`).

### Settings

`Settings` models what users edit by hand and Wharf writes too: `wharf.json`
and its copy in memory (`config/`, `core/watch.go`), the rules a project is
served with and `php.ini` (`core/userfiles.go`, `configtemplate/`), and the
block in the shell's startup files (`core/terminal.go`, `shellpath/`).

| State | In the code |
|---|---|
| `file`, `newer`, `mem` | `wharf.json`, whether its time is later than the one the watcher noted, `s.cfg` |
| `early` | bookkeeping: a hand-edit after Load and before the watcher's first look at the file's time |
| `block[f]` | what a startup file holds: nothing, this Wharf's block, another folder's, one without its end line |
| `rules[f]`, `unseen`, `unread` | the files; those whose time is not in `customSeen` or `phpIniSeen`; those that what runs was not started with |
| `started`, `front`, `backend`, `adrift` | one project, the webserver that serves it, PHP, and whether the front door was left as it was |
| `at[a]`, `call[c]`, `raw`, `mu` | where the watcher and each call are; what the watcher has read; `d.mu` |

The watcher's tick is `ApplyCustomConfigs`, `ApplyPHPSettings`, `Look`,
`ReadFile`, `Adopt`, `TerminalByHand`, in the code's order and with its locks;
`New` is `Load`, `FirstRunSetup`, `Repair` and `Watch`. Calls of clients and
hand-edits of every file come in between, and the daemon may crash anywhere.

### Companions

`MCSupervisor`, `MCFrontDoor`, `MCServer`, `MCInstalls`, `MCSettings`: the
instances. `SupervisorInv`: the inductive invariant of the supervisor.
Section 6 is about the others:

| Module | Proves |
|---|---|
| `SupervisorProofs` | the types of `Supervisor` |
| `SupervisorOwnershipProofs` | what holds for any callers: processes, crashes, errors, Shutdown |
| `SupervisorLifecycleProofs` | what holds for one caller, and the refinement |
| `FrontDoorProofs` | the types of `FrontDoor` |
| `FrontDoorSafetyProofs` | its ports, ledgers and shutdown, and that what is shown is served |
| `ServerProofs`, `InstallsProofs`, `SettingsProofs` | the safety properties of their modules |

## 4. What the runs check

| Run | Instance | Distinct states | Checks |
|---|---|---|---|
| `supervisor_daemon` | 1 caller, 2 services, 2 starts, other programs | 69,882 | `StopLeavesNothing`, `StartOkMeansRunning`, `ListensUnlessPortTaken`, `LifecycleSpec` |
| `supervisor_concurrent` | 2 callers, 2 services, 2 starts | 1,141,110 | `TypeOK`, `NoUntrackedProcess`, `OneProcessPerService`, `NothingSurvivesShutdown`, `CrashNoticed`, `StartErrorKept`, `ShutdownInv` |
| `supervisor_liveness` | 2 callers, 1 service, 2 starts | 205,792 | `CallsReturn`, `TransitionsEnd` |
| `supervisor_port_taken` | 1 caller, 1 service, 1 start, other programs | violation | `RunningHasListened` |
| `frontdoor_projects` | 2 projects, 2 servers, 2 own ports, one of them written by hand, no network port, 1 trouble | 2,079,266 | `PortsDistinct`, `ServesWhatItShows` |
| `frontdoor_trouble` | 1 project, 2 servers, 2 own ports, the second also a network port and written by hand as one, 3 troubles | 3,090,904 | `TypeOK`, `LedgersAgree`, `PortsDistinct`, `ServesWhatItShows`, `StartedIsServed`, `NothingAfterShutdown` |
| `frontdoor_restart_failed` | 1 project, 1 trouble | violation | `OnlyStartedServed` |
| `frontdoor_settings_failed` | 1 project, 1 trouble | violation | `RunningIsAnswered` |
| `server` | a window and another client, queues of 1, the token asked for, 2 jobs | 211,546 | `TypeOK`, `NoSendOnClosedQueue`, `OneLookupAtATime`, `AnswersInOrder`, `EveryChangePublished`, `EveryCallAnswered`, `ConnectionsEnd` |
| `server_stale_window` | a window and another client, queues of 2, 2 jobs | violation | `QuietWindowCurrent` |
| `installs` | 2 calls under way, 2 PHP versions, a webserver, a release; 3 machines; 3 calls, 1 trouble | 691,601 | `TypeOK`, `DownloadsApart`, `InPlaceIsWhole`, `ConfigSettled`, `NothingInUseTakenAway`, `CallsEnd` |
| `settings` | 1 client, 2 startup files, 3 calls, edits, failures or crashes | 739,731 | `TypeOK`, `MemoryIsFile`, `SavedFilesApplied`, `StartupFilesSafe`, `OffLeavesNoBlock`, `EditsComeIn` |

All passing runs visit every reachable state of their instance.

**Supervisor, any callers.**
`NoUntrackedProcess`: a live process is in its service's record, or a goroutine
that will hand it over or end it has it.
`OneProcessPerService`: of two live processes of a service, one is being
terminated.
`NothingSurvivesShutdown`: once Shutdown has returned, what is alive is about to
be ended by the goroutine that has it, and nothing new is spawned for good.
`CrashNoticed`: a service shown as running without a live process has a watcher
or a stop that has yet to act.
`StartErrorKept`: a watcher never replaces the error of a failed start.

**Supervisor, one caller** (which is how the daemon calls it, under `d.mu`).
`StopLeavesNothing`: a Stop that returns, with or without an error, leaves no
live process of its service.
`StartOkMeansRunning`: a start that returns nil returns with its service
running.
`LifecycleSpec`: the refinement.
`ListensUnlessPortTaken`: as long as no other program takes a port, a service
shown as running has listened on its own (`RunningHasListened`), through
replacements, stops that time out and crashes while the port is awaited.

With two callers some answers say less, and no property claims otherwise: a
second Start returns nil while the first still waits for the port
(`supervisor.go:119`), a second Stop while the first is still terminating, and
the process of a start that was called off may be terminating after Shutdown
has returned.

**Front door.**
`PortsDistinct`: of the ports that the daemon chose, for own instances and for
the network, no two of registered projects are the same, however ports were
moved, released, recorded again or written by hand meanwhile. A port written by
hand may be any other's; the daemon takes it as it is.
`LedgersAgree`: shared projects are started, none is both started and failed,
and unless `wharf.json` was edited by hand every started project is in it.
`ServesWhatItShows`: between operations, unless a failure or a hand-edit is
still to be made up for, the front door serves started projects only and a
project shown as running is answered, by the front door or by its own instance
at the port the front door forwards to.
`StartedIsServed`: a start or restart that does its steps and returns nil,
nothing having crashed meanwhile, has its project answered with PHP behind it.
A start that finds its row shown as running returns nil at once
(`projects.go:293`): then the project is answered, unless a failure is still to
be made up for, and PHP is behind it unless PHP crashed, or a failed reset
stopped it, and nothing has started it since. The first half is judged in
whatever state earlier failures left; neither while processes run that were
started before a hand-edit.
`NothingAfterShutdown`: once Shutdown has stopped what ran, nothing comes up
again.

**Server.**
`NoSendOnClosedQueue`: no handler has an answer left for a queue that was
closed; a send on it would end the daemon and everything it manages.
`AnswersInOrder`: on one connection, a request handled in order is answered
after all that were sent before it.
`OneLookupAtATime`: the checking flag is up exactly while one lookup runs.
`EveryChangePublished`: every change is broadcast, by itself or in a later
snapshot, whatever clients do.
`EveryCallAnswered`: a window's request is answered unless its connection ends,
also beside a client that has stopped reading.
`ConnectionsEnd`: a connection whose client left, or which was closed, is given
up, also with an answer still waiting for room.

**Installs.**
`DownloadsApart`: two calls never download the same thing, a flag is up exactly
while one call is at it, and nothing is being put together without it.
`InPlaceIsWhole`: what is in place has all its parts after any failure or
crash, and is what was published where a checksum says what that is. Excepted
are versions that are being deleted, whose removal the user was told failed
(`unsettled`), or whose removal was cut short (`cut`) by the daemon's end or by
the download of what it deletes, of which nobody was told.
`ConfigSettled`: between operations `wharf.json` lists the versions in use, and
hides no folder that projects are served from, with the last two exceptions: a
daemon that ends after RemovePHP has hidden the folder and before settlePHP
leaves one, and no later start makes up for it.
`NothingInUseTakenAway`: no step removes or hides a version in use.
`CallsEnd`: every call ends, except while the user is asked for a password.

**Settings.**
`MemoryIsFile`: the copy in memory is the file, or the watcher has yet to read
a newer one, whoever wrote in between.
`EditsComeIn`: a finished hand-edit comes into force, also after the watcher
has read half of it.
`SavedFilesApplied`: what serves runs with the rules and the `php.ini` there
are, or the next tick sees that one changed: a save beside another's
application is never lost.
`StartupFilesSafe`: no startup file is changed while one has a block broken by
hand, and another folder's block is only ever replaced.
`OffLeavesNoBlock`: when turning it off is noted in `wharf.json`, no startup
file holds the block.

### Bounds, and why they are enough

* `MaxStarts` counts Start and Restart calls; Stop, StopAll, Shutdown and
  crashes are not bounded. Two starts are what one service needs for every
  race of two generations (a start overtaken by a stop and by another start;
  a late watcher of the first run meeting the second). Two services are what
  StopAll's loop needs to be overtaken between two of them. The proofs of
  section 6 hold for any number of both.
* `MaxTrouble` counts crashes, failures of calls, ports taken and hand-edits
  together. Failures the state forces (full ports, a closing supervisor)
  cost nothing. Three
  are enough for a failure, a failure while making up for it, and a crash in
  the middle; with one project the state space is still complete. With two
  projects one trouble shows whether a failure of one disturbs the other.
* Two own ports for two projects: both free, one held, none left all occur.
  The run with two projects has no network port, so that its state space stays
  small; what sharing adds for several projects (`LedgersAgree`,
  `PortsDistinct`) is proved for any number of them. In the run with one, its
  own second port is also a network port: the code's two ranges, of a thousand
  from 8080 and from 8800, overlap.
* `HandPorts` and `HandLans` are what a hand-edit writes as a port and as a
  network port, besides none and what is there: a port in `frontdoor_projects`,
  so that two projects may come to record the same one, a network port in
  `frontdoor_trouble`. A file with several changes is several edits. Not
  written by hand are an unknown webserver, two entries of one name and the
  ports Wharf itself listens on (80, 443, PHP's).
* `server`: two jobs are what it takes for two publishes or two lookups to
  overtake each other, for two requests on one connection, and for a request
  beside a crash. A queue of one line is full at once; of 32, later. In
  `server_stale_window` it has two, so that both snapshots fit and nothing is
  dropped. The theorems of section 6 hold for any number of each.
* `installs`: two calls under way at once and three in all meet every pair of
  operations on one version, with a third that finds what they left; one
  failure or crash at any step. The three machines have nothing, a package
  manager, and everything. Two releases: one supported, one newest.
* `settings`: `MaxEvents` counts calls, hand-edits, failures and crashes
  together. Three are what a save, another save while the first is applied, and
  a failure or crash take, or a call beside two hand-edits. Two clients' calls
  were tried too (2,324,253 states, no error), but take too long to repeat.
  One project and two startup files: a write may fail between them.
* `SYMMETRY` (callers and services; projects and webservers) is used only
  where invariants and action properties are checked: no action compares them.
  `supervisor_daemon` and `supervisor_liveness`, which check a temporal
  formula, do without.

### Fairness

`Supervisor`'s `Fairness` is weak fairness of each goroutine: the next step of
a caller that is inside a call, and each watcher's step once its process is
gone. The Go scheduler gives that, and every wait in the code has a timeout
(`port.go`, the stop timeout and the kill behind it), so a goroutine's next
step stays enabled until it is taken. Nothing is assumed of processes, other
programs or users: a process may never listen, never exit on a signal, and
never release its socket. The fairness of the abstract `ServiceLifecycle` (no
service stays between two states) follows and is part of what
`supervisor_daemon` checks. `FrontDoor` claims no liveness: each job is a
finite list.

`Server` has weak fairness of every handler, of both goroutines of every
connection, and of the writer of a *window*: the GUI's loop reads on. No other
client has to read, which is what `EveryChangePublished` and `EveryCallAnswered`
are about. That a lookup ends is the code's ten seconds. Nobody has to
connect, ask or leave. `Installs` has weak fairness of every call's steps but
for the package manager's, which waits for a password; downloads end because
the HTTP client has timeouts. `Settings` has weak fairness of the watcher, with
the start of the daemon after a crash, and of every call; nobody has to finish
an edit. A lock is a guard (`mu = Nobody`), and weak fairness of an actor that
waits for it suffices because no actor holds it forever and, in a bounded
instance, others take it only so often.

## 5. Findings

Each is a place where the code does something else than a comment or document
of the repository says, shown by the run of that name.

* **`supervisor_port_taken`.** Start waits until its port is free, spawns, and
  waits until *something* listens on it (`supervisor.go:180`, `port.go:70`).
  Another program that binds the port in between ends the wait, and Start
  reports as running a process that does not listen. The comment on Start
  promises that a spec with a port "must be listening on it, which is what
  distinguishes spawned from serving".
* **`frontdoor_restart_failed`.** RestartProject of the only started project
  fails in `ensurePHP` or `checkRules`, before it comes to the front door
  (`core/frontdoor.go:112`). The project is taken out of the started ones, and
  the front door goes on serving it; the row shows it as failed.
  `dev/architecture.md` (4c): "It serves the *started* projects only. ... the
  front door stops once none is left".
* **`frontdoor_settings_failed`.** UpdateSettings writes `wharf.json` and then
  applies the change (`core/projects.go:505`). If that fails once the
  project's own instance is stopped, the row shows the project as running
  while the front door forwards its name to nobody; StartProject returns at
  once. The comment on `projectStatus`: "derives a project's status from the
  process actually serving it".
* **`server_stale_window`.** `publish` takes a snapshot and hands it to the
  broadcast with no lock around both (`core/core.go:386`), and watchers and
  background handlers publish beside operations, so the older of two snapshots
  may be broadcast last. `core/api.go:70` says that Register "arranges for
  every state change to be broadcast, so a connected GUI never has to poll",
  and `ipc/server.go:188` that "the next event carries a full snapshot
  anyway". The run ends with nothing under way and the window showing the
  older one.

`ServesWhatItShows` is the property with the front door's two
failures, and others like them, taken into account by `stale`: it says that the
next operation that brings the front door in line repairs them.

## 6. What is proved

| Theorem | Module | Says |
|---|---|---|
| `TypeCorrect` | `SupervisorProofs` | `Spec => []TypeOK` |
| `ProcessesTracked` | `SupervisorOwnershipProofs` | `Spec => []NoUntrackedProcess` |
| `OneProcess` | `SupervisorOwnershipProofs` | `Spec => []OneProcessPerService` |
| `CrashesNoticed` | `SupervisorOwnershipProofs` | `Spec => []CrashNoticed` |
| `StartErrorsKept` | `SupervisorOwnershipProofs` | `Spec => StartErrorKept`, an action property |
| `ShutdownInvariant` | `SupervisorOwnershipProofs` | `Spec => []ShutdownInv`, the whole inductive invariant |
| `NothingSurvives` | `SupervisorOwnershipProofs` | `Spec => []NothingSurvivesShutdown` |
| `StopsLeaveNothing` | `SupervisorLifecycleProofs` | one caller: `Spec => StopLeavesNothing`, an action property |
| `StartsMeanRunning` | `SupervisorLifecycleProofs` | one caller: `Spec => StartOkMeansRunning`, an action property |
| `RunningMeansListening` | `SupervisorLifecycleProofs` | one caller: `Spec => ListensUnlessPortTaken` |
| `ImplementsLifecycle` | `SupervisorLifecycleProofs` | one caller: `Spec => Lifecycle!Safety` |
| `TypeCorrect` | `FrontDoorProofs` | `Spec => []TypeOK` |
| `PortsAlwaysDistinct` | `FrontDoorSafetyProofs` | `Spec => []PortsDistinct` |
| `LedgersAlwaysAgree` | `FrontDoorSafetyProofs` | `Spec => []LedgersAgree` |
| `QuitForGood` | `FrontDoorSafetyProofs` | `Spec => []NothingAfterShutdown` |
| `ShownIsServed` | `FrontDoorSafetyProofs` | `Spec => []ServesWhatItShows` |
| `StartedAnswers` | `FrontDoorSafetyProofs` | `Spec => []StartedIsServed` |
| `TypeCorrect` | `ServerProofs` | `Spec => []TypeOK` |
| `ClosedForGood` | `ServerProofs` | `Spec => []NoSendOnClosedQueue` |
| `InOrderAnswered` | `ServerProofs` | `Spec => AnswersInOrder`, an action property |
| `LookupsAreOne` | `ServerProofs` | `Spec => []OneLookupAtATime` |
| `TypeCorrect` | `InstallsProofs` | `Spec => []TypeOK` |
| `DownloadsAreApart` | `InstallsProofs` | `Spec => []DownloadsApart` |
| `NothingTorn` | `InstallsProofs` | `Spec => []InPlaceIsWhole` |
| `InUseStays` | `InstallsProofs` | `Spec => NothingInUseTakenAway`, an action property |
| `ConfigIsSettled` | `InstallsProofs` | `Spec => []ConfigSettled` |
| `TypeCorrect` | `SettingsProofs` | `Spec => []TypeOK` |
| `MemoryFollowsFile` | `SettingsProofs` | `Spec => []MemoryIsFile` |
| `SavesAreApplied` | `SettingsProofs` | `Spec => []SavedFilesApplied` |
| `StartupFilesKept` | `SettingsProofs` | `Spec => StartupFilesSafe`, an action property |
| `OffIsOff` | `SettingsProofs` | `Spec => OffLeavesNoBlock`, an action property |

The assumptions on the constants are those the modules name: `NoId` is not a
service ID and `MaxStarts` a natural number; `NoProject` is not a project,
`NoServer` not a webserver, ports are naturals above 1 (0 and 1 stand for "not
served" and "served directly"), and the projects are finitely many; windows
are connections, and queues have room for one line at least; versions are
numbered, and one release is out; the watcher is no client. Callers, services,
webservers, ranges of ports, connections, clients, versions and startup files
are arbitrary sets. The four theorems of `SupervisorLifecycleProofs` assume
besides that there is one caller (`Callers = {d}`): every call the daemon makes
is made under `d.mu`, and section 4 names the answers that say less without it.

**Supervisor.** None of the three invariants is inductive alone: that a
process is tracked depends on the generation its goroutine holds still being
its own. The strengthening (`SupervisorInv`) is what the code relies on
between two sections:

* `TargetOK`: a goroutine in a call has a service, and past Start's first
  section a run;
* `RecordsOK`: a record that holds a process holds the run it was born as;
* `FreshOK`: generations not given out yet have left no trace;
* `OwnRunOK`: what a goroutine knows of its own run at each point (before
  Adopt nobody watches it; after Terminated it is dead; if its generation is
  still the record's, the record is its own);
* `DistinctOK`: a run is started by one goroutine, and none stops it before it
  was handed over;
* `StoppingOK`: a record is "stopping" only while a Stop is at work on it;
* `ExitsOK`: a recorded process has a watcher or a Stop.

`OwnershipInv` is their conjunction with `NoUntrackedProcess`. The proof has
one lemma per group of actions and, under it, one step per conjunct. From it
`OneProcess` and `CrashesNoticed` follow state by state; `StartErrorsKept`
follows step by step, since only `Watch` could replace an error and
`RecordsOK` has no handle beside one.

*Shutdown.* `ShutdownOK` says what the loop of Shutdown still owes: every
process that lives and that nobody is terminating (`Uncondemned`) belongs to a
service it has in `todo` or is at work on. What makes it inductive is that
after `Close` this set only shrinks: a start that had not spawned finds its
generation moved on or the supervisor closing, and one that had is in the
record by `NoUntrackedProcess`, so the snapshot of the records misses nothing.
`ShutdownInvariant` proves the conjunction of all of this, `ShutdownInv`.

*One caller.* `OneCallerInv` adds to it that nobody replaces the run of a
start, calls it off or closes the supervisor under it (`Undisturbed`), that a
record a Stop is at work on stays "stopping" until that Stop ends it, and that
no other service is starting (`SettledOK`). Crashes stay possible at every
step. `StopsLeaveNothing` and `StartsMeanRunning` are about the step that
returns. For `ImplementsLifecycle` every action is shown to be one of
`ServiceLifecycle`'s, or a stutter, under its mapping: `StartNew` begins a
start, `Spawn` launches, `Confirm` confirms, `Fail` and `Watch` fail,
`BeginStop` and `EndStop` stop, `ProcessExits` and `Kill` end a process; the
guards on `live` are where the invariant is needed. `ListenOK` says that once a
start has found its port free no other process of the service can have it, so
that only this start's own process can answer the wait for the port.

**Front door.** `TypeOK` is inductive: the work is that every plan of an
operation is a sequence of known steps and that a call to the supervisor
leaves a process of the right shape. `PortsInv` (the types of ports and
`PortsDistinct`) is inductive alone: a place for a port in `wharf.json` that
the daemon wrote keeps what it holds, or comes to hold one from `nextPort`,
which looks at the ports all projects record, whoever wrote them, and not only
at what is free; one that is written by hand is no longer the daemon's choice
(`Chosen`, `StillChosen`). `LedgersInv` adds `TodoAgrees`,
what the rest of an operation takes for granted: a project about to be shared
is started, one about to be removed from `wharf.json` is not, and the file is
wiped only when nothing is started. `ShutdownInv` adds that Shutdown's job is
to stop everything or is done.

`ServesWhatItShows` speaks of the moments between operations, and nothing about
the front door holds in the middle of all of them: what does depends on the
steps still to be done. `ServesInv` therefore relates the front door to the
ledgers by what the operation `Awaits`:

* `FrontLast`: after the last step that brings the front door in line only own
  instances are started, or what is left is wiped;
* `DownForReset`, `DownForRemoval`: when the projects are wiped nothing runs,
  and when one is removed its own instance does not, or the step that sees to
  it is still the next one;
* `Pinned`, `OwnFits`: only a registered project is pinned, and an instance
  that runs is a registered project's, on its recorded port;
* `FrontFits`: unless something failed or a step that brings it in line is to
  come, the front door serves what it would serve if it started now;
* `StartPlanned`, `StartServes`: which steps a start or restart has, and for
  each that is done, what it did still stands.

It rests on `LedgersInv`. Each step is shown to keep it from four facts: how it
leaves the plan (`Moves`), which steps may follow it, what it changed, and
whether it failed, in which case `job.err`, `job.calm` or `stale` says so and
`FrontFits` claims nothing until the next operation that repairs it. With no
step left, `ServesInv` says what `ServesWhatItShows` does, and what
`StartedIsServed` says of a start that did its steps. Of one that returned at
once two more invariants do: `AlreadyServed`, because a row shown as running
was served the moment before, and `PHPBehind`: unless it was lost, PHP is up
whenever a project is started, but for the first that starts, whose PHP is
still to come or has failed.

**Server.** `ServerInv` says what each goroutine relies on. `JobTypes` and
`WiresInOrder`: what is sent and not yet read is on its own connection, in the
order it was sent, and its handler has not begun. `FreshIdle`: a request
nobody sent has no plan. `OneInFront`: a connection has at most one unfinished
request that is handled in order, and only while its goroutine is busy with
it; this is what makes answers come in order, since everything sent before has
been read and finished by then. `ClosedAtEnd`: a queue is closed only by the
connection's goroutine at its end, after which nothing is read any more, so no
handler can begin. `LookupFlagged` ties the flag to the plan of the one job
that set it. `Types` is inductive alone: plans are the suffixes of those a
request may have (`Plans`); an event that finds its queue full is dropped, and
an answer waits for room. That what waits on a connection was sent there, the
last part of `TypeOK`, is from `WiresInOrder`.

**Installs.** `Shape` says at which step which kind of call may be, and that
`d.mu` is held from a scan to what is done with it; `StagedFits` what the
staging folder holds at each step of a download, which is why the rename puts
no half-downloaded folder in place; `TornIsKnown` that only a removal leaves
less than a whole one, and which: one that is at it, one that the user was told
failed, or one that was cut short; `AlteredIsUnvouched` that nothing with a
checksum is altered, in a call's hand, staged or in place. `DownloadsApart` is
inductive beside them. That a version in use stays follows step by step:
`TakeAway` asks under `d.mu`, and what it removes is what it asked about.
Between operations `ConfigSettled` holds because of `SettledInv`: `Listed`
holds always; of the folders with a path the hidden ones are `unsettled`, `cut`
or being removed by the call that holds `d.mu` (`HiddenSettled`); and whoever
holds it has found the version it removes not in use, and nothing hidden in the
scan it is about to store (`Held`).

**Settings.** `Held` says at which steps an actor has `d.mu`; each action is a
move of one actor in a table of moves (`Moved`, `Sound`), which keeps it and
what a call carries (`CallFits`). `NotYet` says that before the daemon listens
it serves nothing, `Emptied` that Reset wipes the files of what it has stopped.
`Read` is what makes `MemoryIsFile` inductive: until the watcher has noted its
first time, and while it has a file in hand, what was read is what the file
holds, or its time has moved on. `RulesServed` and `PHPServed` are the two
halves of `SavedFilesApplied`, but for the operation that is at it; whoever
takes a file off the list of changed ones either applies it under the `d.mu` it
then holds or has found that nothing which runs reads it. `OffNoted` says that
the block is gone from its removal to the note of it, because everything that
puts it back needs `d.mu`.

Only model-checked, on the instances of section 4, is liveness: `CallsReturn`,
`TransitionsEnd`, `EveryChangePublished`, `EveryCallAnswered`,
`ConnectionsEnd`, `CallsEnd`, `EditsComeIn`, and of `LifecycleSpec` the
fairness that `Lifecycle!Safety` leaves out. The installed provers do not
reason about `ENABLED`, on which weak fairness rests. What a recursive
definition computes for every input cannot be proved either (induction takes
an operator as a parameter): recursion over data stays with TLC, and the
modules that are proved about declare no RECURSIVE operator.

## 7. What is not modelled

* **Sharing's addresses and certificates** (`core/sharing.go:90-170`, `lan/`).
  The front door has them as one more render that may fail.
* **The daemon's own life** (`cmd/wharfd`, `watchdog/`, `proctree/`, the
  endpoint file) and the GUI's launcher and reconnecting: one daemon per root
  rests on the operating system, and the GUI's side is another program in
  another language.
* **Text**: rendered configs, placeholders, slugs, version strings, what
  programs print and detection parses, messages, output capture.
* **Calls to the machine** as more than a call that may fail: mkcert, the trust
  store, elevation, package managers, opening folders.
* **The command line client, the GUI's widgets, and the repository's own
  documentation checks**, which keep no state the daemon depends on.
* In `Installs`: the lookup of the releases php.net names, the folders
  `downloadApache` moves within its staging folder, and the order in which a
  scan reads folders (a scan is one look at all of them). A live or left-over
  staging folder in `bin/php` is detected as an install of Wharf's own
  (`php/detect.go:120`): the model has it, as "staged", and no property says
  that it should not be.
* In `FrontDoor`, what the code allows and no property forbids: a start of a
  project that is shown as running does nothing while PHP is down after a crash
  (`projects.go:293`, where the comment at line 277 promises "everything the
  project needs: its PHP backend and the webserver that serves it"); two
  projects with one port written by hand keep it, for `ownPort` compares a
  recorded port with no other.
* In `Installs`, what the code allows and no property forbids: a removed
  version may become the default (`php.go:249`), and the older of two scans
  may be stored last (`php.go:22`). After a daemon that ended within RemovePHP
  `wharf.json` lists a version whose folder it hides, until that is shown
  again; and a folder of Wharf's own that has lost its binaries is found by no
  scan, so that it can neither be removed nor, being there, be downloaded again
  (`php.go:313`). A static PHP build that was altered on the way and still
  unpacks is accepted (`download/download.go:134`). A removal that deletes a
  build still being put together may leave part of it to be moved into place.
* In `Installs`: a half-deleted staging folder is passed over by detection, and
  one a crash has left is deleted in one step.
* In `Settings`: fish's `wharf.fish`, which is Wharf's own file and is written
  without a look at what it holds (`shellpath/shellpath_unix.go:102`). The
  startup files meant are the shells' own.
* In `Settings`: the granularity of modification times, the option that keeps
  Wharf off the terminal PATH, Windows' user environment and the link in
  `bin/path`. What the code allows and no property forbids: a hand-edit between
  Load and the watcher's first look is missed until the next one (`early`); a
  daemon that ends between Load's first write and the first-run setup never
  makes up for it; the watcher may apply a hand-edit of `terminal` after a
  click has set it the other way, so that the startup files and the key differ
  until the next start; the failure of an application is only logged; a save
  checked before a switch of webservers lands in the file of the other one.
* Not claimed: what a hand-edit of the projects should do to processes that
  run. The properties of `FrontDoor` hold again once everything was stopped
  after one.
