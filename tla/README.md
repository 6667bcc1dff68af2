# A verification of openclaw-multi in TLA+

openclaw-multi puts several OpenClaw tenants on one Linux server. An
administrator works in a terminal program (the TUI); a root daemon,
`openclaw-overlay-api`, owns the public routes and publishes them to
cloudflared; every tenant runs a gateway and an `openclaw-overlay-watcher` that
asks the daemon to publish the callbacks of its plugins; a systemd timer, where one
is installed, makes backups. This directory holds TLA+ models of those programs, translated from
the Go source, the TLC configurations that check them, and proofs of what holds
for every size of the system.

Run a check with `tlc -config X.cfg M` and a proof with `tlapm M.tla`.
`PROJECT.json` lists the runs, the source lines that each definition models, the
hazards the properties are for, the findings and the theorems.

## 1. The system

| component | state | operations | talks to |
|---|---|---|---|
| state store (`internal/state`) | SQLite tables users, routes, backups, admin, meta | one SQL statement each: upsert / delete / enable | opened by the TUI and by the daemon, two processes, WAL, no transactions across statements |
| overlay API daemon (`internal/api`) | none of its own: routes table | upsert gateway, upsert plugin, delete, enable, disable, reload | one goroutine per request; store, then publication |
| cloudflared publication (`internal/cloudflared`) | `/etc/cloudflared/config.yml`, its `.tmp`, snapshots; what cloudflared has loaded | render, back up, write, validate, SIGHUP, roll back | called at the end of every route operation |
| user lifecycle (`internal/users`) | users table, Linux account, linger, systemd user units | Add, Activate, Deactivate, Remove | sudo commands, store, the daemon over its socket, backup manager before a removal |
| watcher (`internal/watcher`) | `openclaw.json`, snapshot of what it published | sync: delete, upsert, write callback URL, save snapshot; debounce; restart by systemd | the daemon |
| backup manager (`internal/backup`) | master key, encrypted archives, backups table | Create, Restore, InstallTimer, BeforeRemove | tenant's home directory, gateway unit |
| TUI screens (`internal/tui`) | current screen, lists, confirmations | user screen, terminal, wizard, network, doctor | start operations in goroutines and receive their messages |
| terminal and events (`internal/shell`) | PTY session, bounded event channel | start, read, wait, drop | TUI |
| network manager and doctor | plans shown to the administrator | plan, confirm, apply | ufw, Cloudflare API, systemd |
| provisioning (`deps`, `hardening`, `systemprep`, `preflight`, wizard) | host configuration | idempotent ensure-steps | apt, systemd, cloudflared login |

### What is hard in it

* **Nothing is locked.** Handlers of the daemon run concurrently and each lists
  the table, then writes the file much later. The user screen has no busy flag, so
  operations on users run concurrently, each reading rows it relies on later.
* **Operations are long sequences of fallible commands.** Add has about
  twenty; when one fails the rest is left undone, and nothing is undone except the row.
* **Three things must agree** about a route (row, file, running cloudflared) and
  four about a user (row, account, running services, routes), and no transaction
  spans any two of them.
* **Answers get lost.** A route call may be executed although the caller sees an error.
* **Processes restart**: the daemon loses its handlers and publishes nothing at
  start; the watcher starts with its snapshot of an earlier life.

### What makes each component correct

* store: unique ports and hostnames, no route without its user.
* daemon and publication: cloudflared serves what the table says and what was
  answered; a failure leaves everything as it was; never two rules for one
  hostname; a tenant changes its own routes only; every request is answered.
* lifecycle: a reported success holds; a paused user is quiet; a removal loses
  nothing that is not in a backup; a hostname leads to its owner's gateway;
  repeating Add repairs.
* watcher: eventually published what `openclaw.json` says; no route orphaned by a crash.
* backup: what was archived can be restored; no archive deleted by the failure of another.
* screens: a message acts on the thing it was started for; no session wedges.

## 2. The modules

| module | contents | status |
|---|---|---|
| `StateStore` | users and routes, one action per statement, the schema's constraints as guards | done, proved |
| `OverlayAPI` | daemon handlers and publication, step by step, crash and restart | done; all properties but liveness proved |
| `AtomicPublication` | abstract: file and served rules move together or not at all | done; `OverlayAPI` implements it, checked and proved for one handler |
| `UserLifecycle` | the four operations of `users.Manager` as interleaving jobs, the machine as environment | done; all properties but liveness proved |
| `Watcher` | sync, snapshot, events and debounce, restarts by systemd, edits by the tenant at any moment | done; all properties but liveness proved |
| `Backup` | Create, Restore and the backup of Remove as interleaving jobs; key, archives, rows, staging directory | done; all properties proved |
| `Provisioning` | what the ensure-steps of `deps`, `hardening` and `preflight` look at, run and leave behind, as operators | done |
| `Install` | the wizard: steps in goroutines, results matched by index, retry, skip, leave, quit; EXTENDS `Provisioning` | done; all properties but liveness proved |
| `Console` | root screen, user management, network and doctor screens, what their orders do to fleet and host; EXTENDS `Provisioning` for the firewall | done; all properties proved |
| `*_proofs` | the theorems about the module of that name (section 5) | |

`Console` and `Install` compose a program with the host that `Provisioning`
describes; `UserLifecycle` composes the manager with the machine, the tenant and a
route call of one step; `OverlayAPI` implements `AtomicPublication` and `StateStore`.
Not composed: a lifecycle job with the daemon's handlers in between their
steps, and the watcher of a user with a Deactivate or a Remove of that user. What
the separate modules say of these seams is in section 6.

Modules are written to be proved about: no recursive operators, constants with
named assumptions, one action per operation. The operators whose comment begins
with `Mutant:` are used by no specification. They are broken variants of the
definition that follows them, and each shows that one property fails when the
code has that bug.

## 3. Correspondence with the code

### StateStore

`users[u]` and `routes[id]` are the rows. Route ids are values; `Owner` and
`Host` give what the code puts in them (`plugin:<user>:<plugin>:<hint>`, and the
hostname derived from hint and slug, which different ids may share). Every
statement is an action whose guard is what SQLite checks: `users.port` and
`routes.hostname` are UNIQUE, the owner must exist, deleting a user cascades.
The uid is in the row, since Add takes it from there. Timestamps, URLs and the other tables are left out. The manager never
writes a row without a port, so rows always have one.

### OverlayAPI

A request is a slot with a pc and the local variables of its handler. The steps
are: `Lookup` (authorize, GetUser, the checks of arguments), `WriteRow` (the statement),
`List` (ListRoutes and RenderConfig), `ReadOriginal`, then the three steps of
`RealFS.WriteFile` through the one path `config.yml.tmp`: `OpenTmp` (which truncates),
`FillTmp` and `Rename`; then `Validate` and `Sighup`; and a rollback with `OpenRestore`,
`FillRestore`, `RestoreRename` and its SIGHUP. Each has its error branch. `Restart` is
a crash of the daemon at any point. `TuiUpsertUser` and `TuiDeleteUser` stand for the
TUI's connection.

A descriptor (`fd`) goes with the file and not with the path: when another handler renames what
this one has opened, the write goes into `config.yml` itself. A file is absent, `Empty`, `Torn` (a
part of a text, or one text over another) or a rendering. The validation refuses a file that
is no whole rendering; after a SIGHUP on such a file cloudflared keeps what it had or
serves nothing (`Reloaded`).

A rendering is the set of its rules, since the code sorts them: the set
determines the text. Authorization and `GetUser` read the same row and write
nothing, so they are one step. The failures before anything is written
(credentials missing, listing fails) are one branch of `List`. The copy of the
old file to the snapshots directory matters only as a place to fail. The peer is
an administrator (root or the configured one) or a tenant; a reload is root's.

### UserLifecycle

A job is an operation with its pc and locals. `host[u]` is the machine as far as
the code looks at it. A command that fails has changed nothing. The commands
that prepare the home directory are one step, and so are the writing of the units and
the daemon-reload. A route call is one step with four outcomes: refused, failed
before it changed anything, row changed but not published, done but reported as
failed. `Budget` bounds the failures that have no visible cause; failures with
a cause (no account, user manager down, unit not active, constraint violated)
are never bounded. The uid is part of row and machine: an Add that finds a row takes the uid
from it and does not ask `id -u` (`KnownUid`), and the commands of the user manager
succeed only when that is the account's (`UidFits`); `NewUid` is what `useradd` may hand out.
The token, the audit log and a reboot are left out.
`removeCmd` of the screen deactivates before it calls Remove, which the model shows
as a deactivate job followed by a remove job.

Of `UserLifecycle`, what is external is modelled from its use: a gateway binds a port that is free,
keeps it as long as it runs (`systemctl enable --now` does not restart), and is
restarted until it gets it (`GatewayRetries`, from the unit's `Restart=on-failure`);
`is-active` may find a gateway active that is about to exit; `onboard
--install-daemon` may or may not restart it and `uninstall` may or may not stop it;
`userdel` refuses while the user manager runs; logind stops the manager some time
after linger is disabled; enabled units come back with the manager. A running
gateway writes to its home directory. The watcher publishes a callback that is
new, or whose port changed, against its snapshot.

### Watcher

`proc` is the process with the locals of `Sync`; `entry` and `readable` are
`openclaw.json`, `snapshot` is `watcher.state`, `row` the plugin routes of the user.
`Read` is everything up to the diff (load, callbackRoute, the range of ports,
LoadSnapshot), `Retire` and `Publish` are calls to the daemon, `TellUrl` and
`TellPort` the two halves of `SetCallback`, `Save` is `SaveSnapshot`. `SyncFails` is
every error return: the process ends on its first sync and waits for the next event
on a later one. `Notice` takes an event and arms the debounce timer,
`TimerFires` starts a sync. `Kill` and `Boot` are the restart, `RecordAccount`
the row that Add writes after it started the watcher. The tenant may declare any port at any time,
also one it declared before. The hostname comes from the hint and the user alone, so two callbacks
may have the same: the daemon then refuses the second (`Refused`). A call reported as
failed may have been done (`LostAnswers`). The URL is not kept. The watcher's own writes to the
file raise events like those of the tenant.

`unread` and `unsaved` are history variables; `unsaved` holds the callbacks whose row the watcher has changed
since a snapshot took up a change of theirs. `calm` chooses at the start whether anything fails, since
`Converges` needs less of the tenant when nothing does.

### Backup

`job[j]` is a call of Create, Restore or Remove with its locals. `archive` and
`recorded` are the files and the rows; `home` and `staged` are the two directories of
a tenant as sets of pieces of data. The steps are the commands in the order of the code;
`Fail` is the error return with the deletion of the file that Create does, `Die`
the end of the process, which cleans up nothing. `Console` are the jobs of the user screen,
the only one that runs Restore and Remove; `KeyReaders` those whose process can read the key, which
is root's. `Overlaps` names three coincidences, so that each can be let in by itself: two
backups of a user in one second, two jobs that find no key at once, and a
restore beside a restore or a removal of the same tenant. When the row of a backup cannot be written
its file is always removed, though a screen that is not root might fail at that in a
directory of root's.

### Provisioning and Install

The host is a set of facts. A step is a list of commands; a command that looks at
the host puts what it asks for in front of the rest (`Asks`, `FirewallCommands`), or is
refused (`Refused`), or establishes a fact (`After`). Some looks are `Lenient`: when they fail or
cannot be understood the code goes on as if it had seen a certain answer (`Mistaken`), such as a login
when the status of tailscale does not parse. `Misread` is such a look, `Fail` any
other failure, and the history variable `missed` holds the facts a step took for granted that
way, or because a file of its own was there (`Assumed`). `Install` runs the lists in
goroutines, one command per step, so that two runs of one step interleave.
`Advance`, `Prompt` and `Drop` are `Model.Update` on a result, `Launch`, `Retry`,
`Skip`, `Close`, `Leave` and `Quit` the keys and messages.

### Console

`screen` is the screen that is shown, `flight` the goroutines, `inbox` the
messages on their way to `Update`. A key either changes the screen (`Becomes`), or gives an
order (`Gives`), which records in `asked` what the administrator asked for. An order on
a user does what it does to the row, step by step: Add and Activate read the row
(`ReadUser`), record it active (`RecordActive`), ask for the route, and when that fails put the row they
found back, or delete it when they found none. The commands behind it are in
`UserLifecycle` and `Backup`. Results are delivered in any order. The plan of the firewall runs through the same
`FirewallCommands` as the installation. `asked`, `reported`, `unread`,
`latest` (the last list read) and `overtaken` (an older list was shown after a newer one) are history variables.

## 4. What the runs show

| run | instance | result |
|---|---|---|
| `OverlayAPI_serial` | 1 handler, 2 tenants, 4 routes of which 2 share a hostname, 2 ports; statements, checks, writes, validation and SIGHUP may fail; the write of the rollback may not, and there is no crash | `TypeOK`, `IdleInSync`, `Published`, `PublishesAtomically`, `RollsBackOnFailure`, `TenantsTouchOwnRoutes`, `Answered` hold (606k states) |
| `OverlayAPI_concurrent` | 2 handlers (symmetric), 1 user with 2 plugins on one hostname; overlapping truncations, writes and renames, failed rollbacks and crashes | `OneRulePerHost` holds (3.0M states) |
| `OverlayAPI_race` | 2 handlers, no failures | `Published` **violated** |
| `UserLifecycle_serial` | 1 job, 2 users, one with a plugin, 3 ports; one failure of a step of Deactivate or Remove, or of Add before it starts anything | `TypeOK`, `SuccessHolds`, `PausedIsQuiet`, `RoutedToOwner`, `NothingLost` hold (714k states) |
| `UserLifecycle_repair` | 1 job, 2 users, one failure of any step, accounts created anew under another uid | `OnlyRemoveDeletes`, `AddRepairs` hold (792k states) |
| `UserLifecycle_paused` | 1 job, 1 user, one failure of any step | `PausedIsQuiet` **violated** |
| `UserLifecycle_activate` | 1 job, 1 user with a plugin, no failures | `ActivateResumesRoutes` **violated** |
| `Watcher` | 3 callbacks, two of which share a hostname, 2 ports, 3 edits, two failures or kills, or none in a calm behaviour | `TypeOK`, `SettledInSync`, `NoMissedEdit`, `Converges` hold (721k states) |
| `Backup` | 2 tenants, 2 jobs at a time of 3, one of which cannot read the key, 2 seconds, first keys made at once, one failure or kill | `TypeOK`, `BackupsKept`, `DataKept`, `OwnDataOnly`, `RestoredWhole` hold (1.4M states up to symmetry) |
| `Backup_key` | root's timer and a screen that may not read root's key, no coincidences | `RecordedRestorable` **violated** |
| `Install` | 2 goroutines, 2 wizards, 3 hosts, one retry, two failures, misread looks or quits | `TypeOK`, `InstalledMeansDone`, `AccessKept`, `WizardEnds` hold (1.9M states) |
| `Console` | 2 users, all screens, 2 orders, 2 openings of a screen, results in any order, one failure, quit or change by others | `TypeOK`, `ListCurrent`, `BusyIsTrue`, `NothingUnasked`, `PlannedPortsOpen`, `RepairsReported` hold (1.3M states) |

The passing runs delimit where the code keeps its promises and the violated ones
show which step outside breaks them. The daemon is right when it serves one
request at a time; with two, a publication that listed early may install its
file late, and both clients were told ok. An operation on a user is right until
an Add fails after it started the services: that leaves a gateway running which
no row accounts for. Then a paused user is not quiet, and Deactivate, which
trusts the status column, will not stop it; or, for a new user, its port is
handed out again (`RoutedToOwner` fails when `Faults` is any step). PROJECT.json quotes for each violated run the
sentence it contradicts.

### Further instances

Eight more configurations stand beside the runs. They belong to exceptions that
the properties above make, or to assumptions of the theorems, and show that these are needed.
Seven end with a counterexample, `OverlayAPI_recovery.cfg` passes.

| configuration | question | result |
|---|---|---|
| `OverlayAPI_recovery.cfg` | one handler, no `config.yml` at first, any step may fail, the daemon may die: does a success publish all enabled routes, those of requests that failed or died included? | `Published` holds (124k states) |
| `OverlayAPI_torn.cfg` | two handlers, no failures: is `config.yml` always a text that was rendered (`docs/phases/phase-6-overlay-api-daemon.md:37`, "atomic write")? | `WrittenAtomically` violated: one truncates `config.yml.tmp` (`shell/fs.go:34`), the other renames it |
| `UserLifecycle_uid.cfg` | can every interruption be repaired by adding the user again (`docs/users.md:20`)? | `AddRepairsAlways` violated: a removal that fails between `userdel` and `DeleteUser` leaves the row with its uid, and Add does not look at the uid of the new account (`users/manager.go:140`) |
| `UserLifecycle_overlap.cfg` | two Adds of one user, one failure | `OnlyRemoveDeletes` violated: the one that fails found no row, so its rollback deletes the other's (`users/manager.go:221`) |
| `Watcher_unsaved.cfg` | does the watcher at rest serve the declared port? | `DeclaredPortServed` violated: a sync publishes a new port and ends before the save, the tenant goes back to the port in the snapshot, and the next sync sees no change (`watcher/snapshot.go:83`) |
| `Watcher_clash.cfg` | does every declared callback get a route? | `DiscoveredPublished` violated: two plugins without a hint share a hostname (`watcher/config.go:98`, `api/service.go:131`), which the table refuses |
| `Install_access.cfg` | does the firewall close only after a login? | `AccessAlwaysKept` violated: a status that does not parse passes for a login (`deps/tailscale.go:44`) |
| `Install_hardening.cfg` | is the hardening of a completed installation in effect? | `HardeningInEffect` violated: the retry of a failed `sysctl` finds the file and skips the command (`hardening/hardening.go:46`) |

### Other deviations

The models also show, or are written around, the following behaviour.

* Daemon. The first publication is not rolled back when it fails
  (`RollsBackOnFailure` with `InitialFile` absent): there is nothing to restore.
* Lifecycle. The allocation of ports looks at rows only (`users/ports.go:27`),
  not at what listens. An Add that repairs may report success while the
  gateway of the interrupted one still listens on another port: `AddRepairs`
  assumes that no other gateway is in the way (`Alone`), and that the uid in the row is the
  account's (`Recorded`). The backup of a removal holds `~/.openclaw`, while `userdel -r` deletes the
  whole home directory: `NothingLost` is about the former.
* Watcher. A failure between a delete and the save strands an entry of the
  snapshot: every later delete of it is answered 404 and ends the sync
  (`watcher/service.go:79`, `:106`; `Stranded`). `SetCallback` can bring back an entry the tenant has
  removed meanwhile. A failed sync at run time is not tried again before the next
  event (`fsnotify.go:96`), and events that never pause keep resetting the timer (`:87`).
* Backup. Any error of reading the key makes a new one (`backup/manager.go:295`,
  run `Backup_key`), and the key is root's with mode 0600, while the screen refuses to run as root
  (`tui/app.go:256`): unless the administrator is given the key, no restore from the screen
  succeeds. Two backups of a user in one second share id and path (`:122`): with `sameSecond` in
  `Overlaps`, `BackupsKept` and `RecordedRestorable` fail. Two first backups may each make a
  key, which only `BackupsKept`, with its condition on the number of keys, survives; two restores of a
  tenant interleave (`beside`), which `RestoredWhole` does not. A failed restore leaves the gateway
  stopped, a successful one starts it for a paused user too (`:233`). The tenant runs
  `verify` (`:209`) on a file in a directory it cannot enter by default. The checksum is never
  compared. The plain dump in `~/.openclaw-backup-tmp` stays.
* Installation. A prompt that outlives the success of its step answers for the next
  one, and past the last step indexes out of range (`wizard.go:106`), which the model folds into
  `Quit`. An error of reading `/etc/fstab` passes for an empty file, and the file is
  written with one line (`hardening.go:66`). The ingress of a
  running daemon is overwritten when the installation is repeated (`cloudflared.go:170`). A command that
  never returns, such as `tailscale up` waiting for its login, holds the wizard for ever.
* Console. A plan that arrives while another is reviewed replaces what Enter applies
  (`network.go:91`; `docs/network.md:5` says plans are shown before they are applied). Plans are applied
  however old they are. After an operation that failed the list is not read again
  (`users.go:91`), although the row may have been changed and rolled back meanwhile (`unread` in
  `ListCurrent`), and an older list that arrives last stays (`overtaken`). An Add or Activate that
  fails puts back the row it found, which need not be what another order has left there
  (`GivesUp` in `NothingUnasked`): of two Adds of one user the failing one deletes the row, and a
  Deactivate that read its row before a Remove brings it back. Results reset the mode, so keys
  typed into a prompt may act on the list; `NothingUnasked` says that they still only do what
  those keys ask. Ports of paused and removed users are never closed.

### Bounds and why they are enough

* Two handlers suffice for every conflict over a listing, the file, or its
  temporary path, each of which is between a reader and a writer. Two jobs
  likewise. Proofs cover any number where listed below.
* Two users, since the constraints relate two rows; three ports, so that a free one exists
  beside two held ones (`LifecycleAssumption`: the code's range has no end).
* Plugins share a hostname in the daemon's instances, where that conflict
  happens, and ports differ, so that a mixed-up rule shows.
* `Budget` 1 is a failure followed by operations that succeed.
* Watcher: two callbacks that share a hostname and one that does not, since a sync treats them in
  turn and a failure falls between them; three edits, so that one may fall before, during and after
  a sync, or go back to an earlier port; two failures, so that a sync that did not save is followed by
  another.
* Backup: two seconds and three jobs, so that a backup, a removal and a
  restore of the same tenant follow or overlap each other. One job cannot read the key, the
  other can: with real permissions only the timer could, and no restore would get as far as the home directory.
* Install: two wizards and two goroutines, so that an old result meets a new
  wizard and a step runs beside itself; the three hosts are a bare one, one with an open
  firewall, and one where an installation broke off late; two failures, so that a misread look
  may meet a failed command.
* Console: two orders in flight are the smallest overlap.
* The requests of an instance are `Traffic`, which leaves out only what repeats
  another request with a different name.

### Fairness

`OverlayAPI!FairSpec`: a handler that runs is scheduled again; the Go runtime
does that and each command has a timeout of ten seconds, after which it is the
failure branch. Clients and systemd are under no fairness.

`UserLifecycle!FairSpec`: a job that is not in a command goes on. Commands have no timeout and may never
return, so that they do (`AllReturn`) is an antecedent of `AddRepairs`, beside the administrator's patience.
The administrator, the tenants and the machine are under no fairness.

`Watcher!FairSpec`: the process is scheduled, its commands have a timeout of ten seconds (`main.go:61`),
the daemon answers its calls (`Answered`),
and it is restarted by systemd
(`Restart=on-failure`, or started again by whoever stopped it); the file rests for the debounce time now and then, so that the
timer fires; Add writes its row. The tenant is under no fairness: that the
edits end, and the touches that a failed sync needs, are antecedents of `Converges`.

`Install!Fairness`: results are delivered, and a step whose commands have returned returns. Commands are
under no fairness, as they have no timeout: `WizardEnds` says that a wizard ends or waits for ever for a
command of the step it shows. An administrator who is asked skips in the end, and closes the
summary; the number of retries is bounded. `Console` and `Backup` state safety only, without fairness.

## 5. What is proved

Every property of a passing run is a theorem except the four about liveness; `RecordedRestorable`,
`ActivateResumesRoutes` and the properties of the counterexamples are false in general.

| theorem | statement | assumptions |
|---|---|---|
| `StoreIntegrity` | `StoreSpec => [](StoreTypeOK /\ Integrity)` | `StoreAssumption` |
| `TypeCorrect` | `Spec => []TypeOK` for the daemon: files may be empty or torn, what cloudflared serves is a whole rendering | plus `APIAssumption`; any number of users, routes, handlers, any faults |
| `ImplementsStore` | `Spec => StoreSpec`: the daemon and the TUI use the tables by statements only | same |
| `HostnamesUnambiguous` | `Spec => []OneRulePerHost` | same |
| `TenantIsolation` | `Spec => TenantsTouchOwnRoutes` | same |
| `SerialInSync` | `Spec => []IdleInSync` | and `Serial`: one handler, the write of a rollback does not fail, no crash, config.yml exists at first |
| `SinglePublished` | `Spec => []Published` | `Single`: one handler; any faults, crashes and failed rollbacks, any initial file |
| `SerialRollsBack` | `Spec => RollsBackOnFailure` | `Serial` |
| `SerialRefinement` | `Spec => PublishesAtomically` | `Serial` |
| `MissesNoEdit` | `Spec => []NoMissedEdit` for the watcher | any callbacks, any number of edits and failures |
| `WatcherTypes` | `Spec => []TypeOK` | same |
| `RestsInSync` | `Spec => []SettledInSync`: a callback is served as declared unless a sync changed its row and did not save | same; any hostnames, any port declared at any time |
| `BackupTypes` | `Spec => []TypeOK` for the backups | `BackupAssumption`; any jobs, failures, kills and coincidences |
| `TenantsGetTheirOwn` | `Spec => []OwnDataOnly` | same |
| `ListedBackupsKept` | `Spec => []BackupsKept` | plus `Distinct`: no two backups of a user in one second; whoever reads the key, any overlap of first keys and restores |
| `DataSurvives` | `Spec => []DataKept` | plus `Distinct` |
| `RestoresAreWhole` | `Spec => RestoredWhole` | plus `Apart`: no two backups of a user in one second, no restore beside a restore or removal of the same tenant; any keys |
| `OnlyWhatWasAsked` | `Spec => NothingUnasked` for the console: a row becomes what was asked, or what an Add or Activate that gives up had found | `ConsoleAssumption`; any users and bounds, results in any order |
| `OnlyReportedRepairs` | `Spec => RepairsReported` | same |
| `ConsoleTypes` | `Spec => []TypeOK` | same |
| `TrueIndicator` | `Spec => []BusyIsTrue` | same |
| `PlannedPortsAreOpen` | `Spec => PlannedPortsOpen` | same |
| `ShownListIsTheFleet` | `Spec => []ListCurrent` | same |
| `InstallTypes` | `Spec => []TypeOK` for the wizard | `InstallAssumption`; any number of goroutines, wizards, retries and failures |
| `AccessIsKept` | `Spec => AccessKept` | same; any hosts, any command may fail or be misread |
| `InstalledIsDone` | `Spec => []InstalledMeansDone`: each promise holds, or its step was skipped or took it for granted | same; a host marked as installed has all promises at first |
| `LifecycleTypes` | `Spec => []TypeOK` for the user manager | `StoreAssumption`, `LifecycleAssumption` (more ports than users); any number of jobs, any failures |
| `LifecycleUsesStore` | `Spec => StoreSpec`: the manager uses the tables by statements only | same |
| `SuccessStands` | `Spec => []SuccessHolds` | plus `Serial`: one operation at a time, no fault in an Add once it works on the account's runtime, one uid per user, plugin hostnames that differ from those of users; any users, ports, routes and number of failures |
| `PausedStaysQuiet` | `Spec => []PausedIsQuiet` | same |
| `HostnamesReachOwners` | `Spec => []RoutedToOwner` | same |
| `RemovalsAreBackedUp` | `Spec => NothingLost` | same |
| `AddNeverDeletes` | `Spec => OnlyRemoveDeletes` | `OneAtATime`; failures of any steps |

`TypeOK` is not inductive: `WriteRow` stores `req[r].target`, which is a port
only because `Lookup` of an upsert set it. `Coherent` says that (a running handler
has a request, one about to upsert has a port), and `APIInv` is the two together.
Every step is then shown to be a statement of the store or to leave it alone
(`NextIsStoreNext`), so `StoreIntegrity` carries over by refinement.
`OneRulePerHost` follows from unique hostnames in the table at the moment of `List`
and from the fact that only whole texts are renderings: of two handlers that truncate, write and rename the same
file, each leaves in it one of their texts, or a torn file, of which nothing is claimed
(`WrittenUnambiguous`). `TenantsTouchOwnRoutes` needs `Permitted`: a handler about to write passed the
authorization and the prefix check before.

The serial theorems rest on `SerialInv`, which says for each pc of the one handler
what file, temporary file, running configuration and rollback target are to each
other; without it, that the rollback restores what cloudflared serves is not
visible from one step. The refinement takes the rollback target for the abstract
file while a publication is under way, so the intermediate states of the real
file are stutters.

`SerialRollsBack` follows from the same invariant: there is always an original to
roll back to, and the temporary file holds it at the rename. `SinglePublished` needs less:
`PublishedInv` says that a single handler writes into the file it has itself truncated, whatever an
earlier one left there, and that the listing still covers every enabled route when the publication
answers; the latter holds because the TUI, which may write meanwhile, can only take routes
away (`TuiShrinks`).

`NoMissedEdit` is inductive by itself: a sync reads the file in the step that
clears `unread`, and every write after that finds the watch established.

`SettledInSync` is about the end of a sync, so `SyncInv` follows one callback through it.
`Planned` says what the sync has read, has done and has still to do; what is done
is in its copy of the snapshot and in the row. Between syncs `Saved` says that snapshot and row agree on
every callback that is not `unsaved`, and `Rested` that the row of such a callback is what the file declares when
the last sync succeeded and no edit came since. A sync that ends without saving makes
what it has done `unsaved`; a later one that deals with the callback and saves takes it out.

For the backups, `OwnInv` follows the data of a tenant through archives
(`Archived`), jobs (`Carried`) and staging directories; it needs `Checked`, that a job
past the check of the user restores an id of that user. `VaultInv` adds what
the table promises: the key on disk is the last one made (`NewestKey`), every listed backup has its file
(`FilesKept`) and was encrypted with a key that was made (`KeysKnown`), and an empty home
directory has a listed backup (`EmptyHasBackup`), also when a restore breaks off after it has
cleared the directory. It is inductive only with what the jobs hold: an archive that is not in the table yet
(`InHand`), and ids that no other job is about to record (`DistinctStamps`), which is
where `Distinct` is needed. It does not matter who can read the key: with one key ever made, the newest is
the one of every backup. The types need a count: every
key was made by a job that is no longer preparing one, so there are no more keys
than jobs (`Bounded`). `WholeInv` says where the data of an archive is while a job
restores it, in the job, in the staging directory, then in the home (`Underway`). What
holds that together is that recorded archives are never overwritten
(`FilesKept`, `DistinctStamps`), and that no other job of the tenant clears either
directory (`Alone`). It does not depend on the key: an archive that cannot be decrypted
fails the restore before anything moves.

For the console, `FlightsAsked` says that every order under way which can change a
row carries a request of the administrator for that user, and an Add or Activate that has recorded its
row holds the row it had found; `Reports` says that plans
and reports, on the screen, in flight or in a message, hold only what doctor has
reported. Both are about orders, not about the screen, which is why no message that
arrives late, and no list that has moved meanwhile, can break them.

The other theorems about the console share `ScreensInv`. `Openings` says of a firewall order
that has asked for its commands that each port of its plan is open or still to be opened, and that
the firewall is not turned on before the last command; it holds whatever other orders do, since
no command closes a port. `Indicated` is `BusyIsTrue` with the screens it applies to.
`Fresh` is about the list (`ListComing`): the last list read is the fleet, and it is shown, on its way, or
overtaken; or a message is coming, or an order is under way, after which it is read again. An Add that has
recorded its row counts among the latter until its route call has answered, and so does a removal
half done, which is two changes and one reading.

For the wizard, `InstallInv` says of every goroutine, whichever wizard started it, that
each fact its step promises holds, or is yielded by a command it has still to
run (`Promising`), and that the steps before its own are done or skipped (`Before`). So it does not
matter whose result moves a wizard on: the step with that index is done. `Before` also gives
`AccessKept`: only a goroutine of the fourth step closes the firewall (`Allowed`), the
second step is done or skipped then, and no step takes a login back. "Done" is the delicate
word, since a step may go past a fact it has not checked: the invariant is about the facts that are `Settled`,
those of the host and those in `missed`. A fact is only added to `missed` by a look that took it for
granted, and leaves it when it comes to hold, so `Settled` only grows, also when two
goroutines of the hardening run at once and the second finds the file that the first has
written and not made effective.

For the user manager, `LifeInv` joins the types with the integrity of the tables and
`Coherent`, as above; that `AllocateGatewayPort` always finds a lowest free port
(`PortLeft`) takes a count of the ports and the well-founded order of the naturals.

The serial theorems of the manager rest on their own `SerialInv`. For every user it
says what row, machine and routes are to each other at any time (`Agrees`), that the
unit file and the gateway know no port but the one in the row or, late in an Add, the one the
Add reserved (`PortsKept`), and, for a user no operation works on, that one who is not
active is quiet (`Resting`) and that the last success still stands (`Succeeded`).
For the operation it says what it has achieved when it comes to a step
(`AddInv`, `DownInv`): that linger is on from `install` on, that the unit holds the
port before the gateway starts, that the services are down before the row is paused. From
`AddInv` follows that no command and no call of a late Add can be refused
(`CommandFailsKeeps`, `RouteCallFailsKeeps`), so nothing but a fault can leave an Add half
done; `UserLifecycle_paused` shows what such a fault does. From `Agrees`, `PortsKept`
and the unique ports of the table follows `RoutedToOwner`; none of the three is
inductive without the others, since a gateway binds its port long before
the row and the rule say so. In the environment, a tenant writes only while the gateway
runs, and a paused user's gateway does not (`MachineKeeps`), so an archive stays
complete until userdel.

`AddNeverDeletes` needs none of that. An Add reads the user's row first and its
rollback writes that row back; `AddedInv` says that an Add that found no row
is for a user no Add has reported since, and that a reported user has a row unless a
Remove is under way.

Only model-checked: the liveness properties `Answered`, `AddRepairs`, `Converges` and
`WizardEnds`. Liveness under fairness, ENABLED, and induction over data structures are out
of reach of the prover and stay with TLC. The violated runs and the counterexamples are outside the
assumptions of the theorems about the same properties, or violate a property without an exception that
the theorem makes: `OverlayAPI_race` and `OverlayAPI_torn` have two handlers,
`UserLifecycle_overlap` two jobs, `UserLifecycle_paused` a fault in an Add,
`UserLifecycle_uid` a second uid, `Backup_key` a process that cannot read the key, while
`BackupsKept` promises decryption only with a single key; `Watcher_unsaved`, `Watcher_clash`, `Install_access` and
`Install_hardening` drop the exceptions `unsaved`, `Clashing` and `missed`.

## 6. What is not modelled

* **Terminal and events** (`internal/shell`, `tui/terminal.go`): the session and the
  bounded channel only feed the display and nothing in the other components depends
  on them. Their two hazards (an `EventDone` of an earlier process ends the
  session shown; events dropped when the channel is full) are listed in
  PROJECT.json without a property.
* **Composition** of the lifecycle with the handlers of the daemon and with the watcher:
  a route call is one step in `UserLifecycle`, and the watcher is alone with its
  rows in `Watcher`. `UpsertPlugin` does not look at the user's status, so a watcher request in
  flight while Deactivate disables the routes leaves one enabled: a hazard
  without a property.
* **API socket, administrator and first run**: done once, before the rest can start.
* **Execution and privileged file access**: their failures appear as failures of the
  steps that use them.
* **Audit log, configuration, parsers, statistics, probes**: text in, text out, with
  no state the other components rely on. Plans and reports appear in `Console` as
  what they list.
* `InstallTimer` and `UpdateLastSeenFromLogs` have no caller outside the tests; quick
  tunnels, `node.go`, `systemprep` and most checks of `preflight` are single
  commands without a decision.
* Wording, JSON, HTTP status codes, logging, the YAML and the archive formats.
