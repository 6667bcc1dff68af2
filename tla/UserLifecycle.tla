---------------------------- MODULE UserLifecycle ----------------------------
(***************************************************************************)
(* users.Manager (internal/users/manager.go, ports.go): Add, Deactivate,   *)
(* Activate and Remove as the user screen of the TUI issues them.          *)
(*                                                                         *)
(* An operation is a job: a sequence of commands against the host, rows of *)
(* state.db and calls to openclaw-overlay-api, each of which may fail and  *)
(* leave the rest undone.  The screen starts every operation in a          *)
(* goroutine and has no busy flag, so several jobs may run at a time;      *)
(* Cardinality(Job) bounds them.                                           *)
(*                                                                         *)
(* Abstractions.  A command that fails has changed nothing.  Consecutive   *)
(* commands that prepare the home directory (uid lookup, user manager,     *)
(* runtime, wrappers) are one step, and so are the two unit files, the     *)
(* chmods and the daemon-reload.  A route call is one step, which is what  *)
(* OverlayAPI promises with one handler at a time, and may end with its    *)
(* row changed and not published, or done and the answer lost.  The token  *)
(* and the audit log are left out.  What useradd, userdel, loginctl,       *)
(* systemctl and the openclaw CLI do is external.  useradd never gives one *)
(* user a uid that another one had: the Add that relies on the old uid     *)
(* would fail a command or two later than it does here.                    *)
(***************************************************************************)
EXTENDS StateStore, FiniteSets

CONSTANTS
    NewUid,       \* NewUid[u]: what useradd may choose as the uid of u
    Job,          \* slots of concurrently running operations
    Commands,     \* the operations issued in this instance
    Faults,       \* the steps that may fail though nothing prevents them
    Budget        \* how many such failures a behaviour has at most

VARIABLES
    host,         \* host[u]: what the machine has of user u, see Machines
    served,       \* the rules of the published configuration, see Rendering
    known,        \* plugin ids in the snapshots of the watchers
    job,          \* job[j]: the operation in slot j and its local variables
    last,         \* last[u]: the operation on u that finished last
    budget        \* failures left

vars == <<users, routes, host, served, known, job, last, budget>>

Operations == {"add", "activate", "deactivate", "remove"}

Steps ==
    {"idle",
     "add", "port", "useradd", "linger", "install", "onboard", "units",
     "startGateway", "startWatcher", "ready", "record", "route", "undo",
     "activate",
     "deactivate", "stop", "unlinger", "disable", "pause",
     "remove", "backup", "unroute", "uninstall", "dropLinger", "userdel", "deleteRow"}

ASSUME LifecycleAssumption ==
    /\ NewUid \in [User -> (SUBSET Uid) \ {{}}]
    /\ \A u, v \in User : u # v => NewUid[u] \cap NewUid[v] = {}
    /\ Commands \subseteq Operations
    /\ Faults \subseteq Steps \ {"idle"}
    /\ Budget \in Nat
    /\ IsFiniteSet(Port) /\ IsFiniteSet(User) /\ "none" \notin User
    /\ Cardinality(Port) > Cardinality(User)   \* the code's range has no end

-----------------------------------------------------------------------------
(* The machine.  unit is the port in the gateway unit file, started says   *)
(* that systemd keeps the gateway up, gateway is the port it listens on    *)
(* (0: none), enabled are the units that start with the systemd user       *)
(* manager, archived says whether a backup holds what the home directory   *)
(* holds.                                                                  *)

Homes == {"none", "empty", "runtime", "onboarded"}

Machines == [home : Homes, uid : Uid \cup {0}, linger : BOOLEAN, manager : BOOLEAN, unit : Port \cup {0},
             enabled : SUBSET {"gateway", "watcher"}, started : BOOLEAN, gateway : Port \cup {0},
             watcher : BOOLEAN, archived : BOOLEAN]

NoAccount == [home |-> "none", uid |-> 0, linger |-> FALSE, manager |-> FALSE, unit |-> 0,
              enabled |-> {}, started |-> FALSE, gateway |-> 0, watcher |-> FALSE,
              archived |-> FALSE]

HasAccount(u) == host[u].home # "none"
HasRuntime(u) == host[u].home \in {"runtime", "onboarded"}

\* verifyActiveReadiness passes.  is-active may say so of a gateway that could
\* not bind its port and has not exited yet: the unit is Type=simple.
Ready(u) ==
    /\ host[u].home = "onboarded"
    /\ host[u].unit # 0
    /\ host[u].started
    /\ host[u].watcher

\* Only one gateway can bind a port.
Bound(port) == IF \E v \in User : host[v].gateway = port THEN 0 ELSE port

\* systemctl start: a gateway that runs keeps its port, whatever the unit says.
GatewayUp(h) ==
    [h EXCEPT !.started = TRUE,
              !.gateway = IF h.gateway # 0 THEN h.gateway ELSE Bound(h.unit)]

GatewayDown(h) == [h EXCEPT !.started = FALSE, !.gateway = 0]

\* The user manager comes up, with the services enabled by an earlier Add.
ManagerUp(h) ==
    IF h.manager THEN h
    ELSE LET up == [h EXCEPT !.manager = TRUE, !.watcher = "watcher" \in h.enabled]
         IN IF "gateway" \in h.enabled THEN GatewayUp(up) ELSE up

\* What cloudflared serves once the table has been published.
Rendering(table) ==
    {[id |-> id, port |-> table[id].port] : id \in {i \in RouteId : table[i].state = "enabled"}}

-----------------------------------------------------------------------------
(* Jobs.                                                                   *)

\* row: previous in Add, user in Deactivate; port: the port of Add; uid: the
\* one the user's manager is addressed by.
JobRecord == [pc : Steps, op : Operations \cup {"none"}, user : User \cup {"none"},
              row : UserRow \cup {NoUser}, port : Port \cup {0}, uid : Uid \cup {0}]

Free == [pc |-> "idle", op |-> "none", user |-> "none", row |-> NoUser, port |-> 0, uid |-> 0]

At(j, step) == job[j].pc = step
Target(j) == job[j].user
Machine(j) == host[Target(j)]
Goto(j, step) == job' = [job EXCEPT ![j].pc = step] /\ UNCHANGED last
Finish(j, ok) ==
    /\ job' = [job EXCEPT ![j] = Free]
    /\ last' = [last EXCEPT ![Target(j)] = [op |-> job[j].op, ok |-> ok]]

Busy(u) == \E j \in Job : Target(j) = u

\* A failure that the state of the machine does not explain.
Fault(j) == job[j].pc \in Faults /\ budget > 0 /\ budget' = budget - 1

Init ==
    /\ StoreInit
    /\ host = [u \in User |-> NoAccount]
    /\ served = {}
    /\ known = {}
    /\ job = [j \in Job |-> Free]
    /\ last = [u \in User |-> [op |-> "none", ok |-> TRUE]]
    /\ budget = Budget

\* addCmd, toggleCmd and removeCmd.  The list the administrator picks u from
\* may be stale, so u need not have a row.
Start(j, op, u) ==
    /\ At(j, "idle")
    /\ op \in Commands
    /\ job' = [job EXCEPT ![j] = [Free EXCEPT !.pc = op, !.op = op, !.user = u]]
    /\ UNCHANGED <<storeVars, host, served, known, last, budget>>

-----------------------------------------------------------------------------
(* Reads of state.db.  Each is a statement of its own, so the row may      *)
(* change between a read and the write that relies on it.                  *)

ReadPrevious(j) ==
    /\ At(j, "add")
    /\ job' = [job EXCEPT ![j].pc = "port", ![j].row = users[Target(j)]]
    /\ UNCHANGED <<storeVars, host, served, known, last, budget>>

\* AllocateGatewayPort: the lowest port that no row holds.
LowestFreePort ==
    LET free == {p \in Port : \A u \in User : users[u].port # p}
    IN CHOOSE p \in free : \A q \in free : p <= q

AllocatePort(j) ==
    /\ At(j, "port")
    /\ job' = [job EXCEPT
                ![j].pc = "useradd",
                ![j].port = IF job[j].row.port # 0 THEN job[j].row.port ELSE LowestFreePort]
    /\ UNCHANGED <<storeVars, host, served, known, last, budget>>

ReadUser(j) ==
    LET u == Target(j) IN
    /\ job[j].pc \in {"activate", "deactivate", "remove"}
    /\ \/ /\ ~UserExists(u)
          /\ Finish(j, FALSE)
       \/ /\ At(j, "activate") /\ UserExists(u)
          /\ Goto(j, "add")
       \/ /\ At(j, "deactivate") /\ users[u].status = "active"
          /\ job' = [job EXCEPT ![j].pc = "stop", ![j].row = users[u], ![j].uid = users[u].uid]
          /\ UNCHANGED last
       \/ /\ At(j, "deactivate") /\ users[u].status = "paused"
          /\ IF job[j].op = "remove" THEN Goto(j, "backup") ELSE Finish(j, TRUE)
       \/ /\ At(j, "remove") /\ UserExists(u)
          /\ Goto(j, IF users[u].status = "active" THEN "deactivate" ELSE "backup")
    /\ UNCHANGED <<storeVars, host, served, known, budget>>

-----------------------------------------------------------------------------
(* Commands.                                                               *)

TenantSteps == {"linger", "install", "onboard", "units", "startGateway", "startWatcher",
                "stop", "unlinger", "dropLinger"}
CommandSteps == TenantSteps \cup {"useradd", "ready", "backup", "uninstall", "userdel"}
UidSteps == {"onboard", "units", "startGateway", "startWatcher", "ready", "stop"}

\* Add asks for the uid (id -u) only when it has found no row.
KnownUid(j) == IF job[j].row # NoUser THEN job[j].row.uid ELSE Machine(j).uid

\* user@<uid>.service and /run/user/<uid> are the user's.
UidFits(j) ==
    /\ At(j, "install") => KnownUid(j) = Machine(j).uid
    /\ job[j].pc \in UidSteps => job[j].uid = Machine(j).uid

\* Mutant: useradd of an existing account is an error.
FeasibleOnce(j) ==
    LET u == Target(j) IN
    /\ At(j, "useradd") => ~HasAccount(u)
    /\ job[j].pc \in TenantSteps => HasAccount(u)
    /\ UidFits(j)
    /\ job[j].pc \in {"startGateway", "startWatcher", "stop"} => host[u].manager
    /\ At(j, "ready") => Ready(u)
    /\ job[j].pc \in {"backup", "uninstall"} => HasRuntime(u)
    /\ At(j, "userdel") => HasAccount(u) /\ ~host[u].manager

\* What the command of a step needs to succeed.  systemctl --user needs the
\* user manager; userdel refuses a user that has a process.
Feasible(j) ==
    LET u == Target(j) IN
    /\ job[j].pc \in TenantSteps => HasAccount(u)
    /\ UidFits(j)
    /\ job[j].pc \in {"startGateway", "startWatcher", "stop"} => host[u].manager
    /\ At(j, "ready") => Ready(u)
    /\ job[j].pc \in {"backup", "uninstall"} => HasRuntime(u)
    /\ At(j, "userdel") => HasAccount(u) /\ ~host[u].manager

\* is-active finds a gateway that is not listening between two restarts.
NotActive(j) == At(j, "ready") /\ Machine(j).gateway = 0

\* The command of step from succeeds, leaves the machine of the user as new
\* says, and the job goes on with step to.
Run(j, from, new, to) ==
    /\ At(j, from)
    /\ Feasible(j)
    /\ host' = [host EXCEPT ![Target(j)] = new]
    /\ Goto(j, to)
    /\ UNCHANGED <<storeVars, served, budget>>

\* useradd -m; "already exists" is success.
CreateAccount(j) ==
    /\ At(j, "useradd")
    /\ IF HasAccount(Target(j))
       THEN Run(j, "useradd", Machine(j), "linger")
       ELSE \E id \in NewUid[Target(j)] :
               Run(j, "useradd", [Machine(j) EXCEPT !.home = "empty", !.uid = id], "linger")
    /\ UNCHANGED known

EnableLinger(j) ==
    /\ Run(j, "linger", [ManagerUp(Machine(j)) EXCEPT !.linger = TRUE], "install")
    /\ UNCHANGED known

\* lookupUID, ensureUserManager, bootstrapTenantRuntime, writeOpenClawWrappers.
InstallRuntime(j) ==
    /\ At(j, "install")
    /\ Feasible(j)
    /\ host' = [host EXCEPT ![Target(j)] =
                  [ManagerUp(Machine(j)) EXCEPT
                     !.archived = FALSE,
                     !.home = IF @ = "empty" THEN "runtime" ELSE @]]
    /\ job' = [job EXCEPT ![j].pc = "onboard", ![j].uid = KnownUid(j)]
    /\ UNCHANGED <<storeVars, served, known, last, budget>>

\* openclaw onboard --install-daemon: whether it restarts the gateway with the
\* port it is given is its own affair.
RunOnboarding(j) ==
    LET files == [Machine(j) EXCEPT !.home = "onboarded", !.archived = FALSE]
        daemon == [files EXCEPT !.unit = job[j].port, !.enabled = @ \cup {"gateway"}]
        Restarted == IF files.gateway = job[j].port THEN daemon ELSE GatewayUp(GatewayDown(daemon))
    IN
    /\ At(j, "onboard")
    /\ \E after \in {files, Restarted} : Run(j, "onboard", after, "units")
    /\ UNCHANGED known

\* writeGatewayUnit, writeWatcherUnit, the chmods and the daemon-reload.
WriteUnits(j) ==
    /\ Run(j, "units",
           [Machine(j) EXCEPT !.unit = job[j].port, !.archived = FALSE], "startGateway")
    /\ UNCHANGED known

\* enable --now.
StartGateway(j) ==
    /\ Run(j, "startGateway",
           [GatewayUp(Machine(j)) EXCEPT !.enabled = @ \cup {"gateway"}], "startWatcher")
    /\ UNCHANGED known

StartWatcher(j) ==
    /\ Run(j, "startWatcher",
           [Machine(j) EXCEPT !.watcher = TRUE, !.enabled = @ \cup {"watcher"}], "ready")
    /\ UNCHANGED known

VerifyReadiness(j) == Run(j, "ready", Machine(j), "record") /\ UNCHANGED known

StopServices(j) ==
    /\ Run(j, "stop", [GatewayDown(Machine(j)) EXCEPT !.watcher = FALSE], "unlinger")
    /\ UNCHANGED known

\* Deactivate disables linger, and Remove once more before userdel.
DisableLinger(j) ==
    /\ \/ Run(j, "unlinger", [Machine(j) EXCEPT !.linger = FALSE], "disable")
       \/ Run(j, "dropLinger", [Machine(j) EXCEPT !.linger = FALSE], "userdel")
    /\ UNCHANGED known

\* Mutant: a removal goes on without its backup.
BackUpOptional(j) ==
    \E done \in BOOLEAN :
        /\ Run(j, "backup", [Machine(j) EXCEPT !.archived = @ \/ done], "unroute")
        /\ UNCHANGED known

\* BeforeRemove: the backup manager archives the home directory.
BackUp(j) ==
    /\ Run(j, "backup", [Machine(j) EXCEPT !.archived = TRUE], "unroute")
    /\ UNCHANGED known

\* openclaw uninstall --all: whether it stops the gateway is its own affair.
Uninstall(j) ==
    /\ At(j, "uninstall")
    /\ \E after \in {Machine(j), GatewayDown(Machine(j))} :
          Run(j, "uninstall", [after EXCEPT !.home = "runtime"], "dropLinger")
    /\ UNCHANGED known

\* userdel -r: the home directory goes, and with it the watcher's snapshot.
DeleteAccount(j) ==
    /\ Run(j, "userdel", NoAccount, "deleteRow")
    /\ known' = known \ RoutesOf(Target(j))

\* Mutant: an error of systemctl stop is ignored.
StopErrorIgnored(j) ==
    /\ job[j].pc \in CommandSteps
    /\ \/ (~Feasible(j) \/ NotActive(j)) /\ UNCHANGED budget
       \/ Fault(j)
    /\ IF At(j, "stop") THEN Goto(j, "unlinger") ELSE Finish(j, FALSE)
    /\ UNCHANGED <<storeVars, host, served, known>>

\* A command fails: every caller returns the error and undoes nothing.
CommandFails(j) ==
    /\ job[j].pc \in CommandSteps
    /\ \/ (~Feasible(j) \/ NotActive(j)) /\ UNCHANGED budget
       \/ Fault(j)
    /\ Finish(j, FALSE)
    /\ UNCHANGED <<storeVars, host, served, known>>

-----------------------------------------------------------------------------
(* Rows of state.db.                                                       *)

ActiveRow(port, uid) == [status |-> "active", port |-> port, linger |-> TRUE, uid |-> uid]

RecordActive(j) ==
    /\ At(j, "record")
    /\ UpsertUser(Target(j), ActiveRow(job[j].port, job[j].uid))
    /\ Goto(j, "route")
    /\ UNCHANGED <<host, served, known, budget>>

\* Mutant: the row written is a new one, with nothing but the status.
PauseBareRow(j) ==
    /\ At(j, "pause")
    /\ users' = [users EXCEPT ![Target(j)] = [NoUser EXCEPT !.status = "paused"]]
    /\ Finish(j, TRUE)
    /\ UNCHANGED <<routes, host, served, known, budget>>

\* The row written is the copy read before the services were stopped.
RecordPaused(j) ==
    /\ At(j, "pause")
    /\ UpsertUser(Target(j), [job[j].row EXCEPT !.status = "paused", !.linger = FALSE])
    /\ IF job[j].op = "remove" THEN Goto(j, "backup") ELSE Finish(j, TRUE)
    /\ UNCHANGED <<host, served, known, budget>>

DeleteUserRow(j) ==
    /\ At(j, "deleteRow")
    /\ DeleteUser(Target(j))
    /\ Finish(j, TRUE)
    /\ UNCHANGED <<host, served, known, budget>>

StatementFails(j) ==
    /\ \/ /\ \/ At(j, "record") /\ ~PortFree(Target(j), job[j].port)
             \/ At(j, "pause") /\ ~PortFree(Target(j), job[j].row.port)
             \/ At(j, "deleteRow") /\ ~UserExists(Target(j))
          /\ UNCHANGED budget
       \/ job[j].pc \in {"record", "pause", "deleteRow"} /\ Fault(j)
    /\ Finish(j, FALSE)
    /\ UNCHANGED <<storeVars, host, served, known>>

\* Mutant: the rollback forgets that the user had a row.
UndoByDelete(j) ==
    /\ At(j, "undo")
    /\ IF UserExists(Target(j)) THEN DeleteUser(Target(j)) ELSE UNCHANGED storeVars
    /\ Finish(j, FALSE)
    /\ UNCHANGED <<host, served, known, budget>>

\* The rollback of Add: back to the row it found, or none.  Its own error is
\* ignored, and the route the daemon may have enabled meanwhile stays.
UndoAdd(j) ==
    LET u == Target(j)
        previous == job[j].row
        Restores == IF previous # NoUser THEN PortFree(u, previous.port) ELSE UserExists(u)
    IN
    /\ At(j, "undo")
    /\ \/ /\ Restores
          /\ IF previous # NoUser THEN UpsertUser(u, previous) ELSE DeleteUser(u)
          /\ UNCHANGED budget
       \/ ~Restores /\ UNCHANGED <<storeVars, budget>>
       \/ Fault(j) /\ UNCHANGED storeVars
    /\ Finish(j, FALSE)
    /\ UNCHANGED <<host, served, known>>

-----------------------------------------------------------------------------
(* Calls of the daemon: EnableUserGateway, DisableUserRoutes,              *)
(* DeleteUserRoutes of api.Client.                                         *)

\* The statement the daemon's handler executes.  DeleteUserRoutes deletes the
\* gateway route only, and takes a missing one for deleted.
RouteStatement(j) ==
    LET u == Target(j) IN
    \/ At(j, "route") /\ UpsertRoute(GatewayId[u], job[j].port)
    \/ At(j, "disable") /\ UserExists(u) /\ SetRoutesEnabled(u, FALSE)
    \/ At(j, "unroute") /\ DeleteRoute(GatewayId[u])
    \/ At(j, "unroute") /\ ~RouteExists(GatewayId[u]) /\ UNCHANGED storeVars

RouteRefused(j) ==
    LET u == Target(j) IN
    \/ At(j, "route") /\ ~(UserExists(u) /\ HostFree(GatewayId[u]))
    \/ At(j, "disable") /\ ~UserExists(u)

\* Mutant: only upserts are published.
CallUnpublished(j) ==
    /\ RouteStatement(j)
    /\ served' = IF At(j, "route") THEN Rendering(routes') ELSE served
    /\ \/ At(j, "route") /\ Finish(j, TRUE)
       \/ At(j, "disable") /\ Goto(j, "pause")
       \/ At(j, "unroute") /\ Goto(j, "uninstall")
    /\ UNCHANGED <<host, known, budget>>

RouteCall(j) ==
    /\ RouteStatement(j)
    /\ served' = Rendering(routes')
    /\ \/ At(j, "route") /\ Finish(j, TRUE)
       \/ At(j, "disable") /\ Goto(j, "pause")
       \/ At(j, "unroute") /\ Goto(j, "uninstall")
    /\ UNCHANGED <<host, known, budget>>

\* The call returns an error: refused, or failed before its statement, between
\* statement and publication, or after both on the way back.
RouteCallFails(j) ==
    /\ \/ RouteRefused(j) /\ UNCHANGED <<storeVars, served, budget>>
       \/ /\ job[j].pc \in {"route", "disable", "unroute"}
          /\ Fault(j)
          /\ \/ UNCHANGED <<storeVars, served>>
             \/ RouteStatement(j) /\ served' \in {served, Rendering(routes')}
    /\ IF At(j, "route") THEN Goto(j, "undo") ELSE Finish(j, FALSE)
    /\ UNCHANGED <<host, known>>

-----------------------------------------------------------------------------
(* What else changes the machine and the routes.                           *)

\* A running gateway writes to its home directory.
TenantWrites(u) ==
    /\ host[u].gateway # 0
    /\ host' = [host EXCEPT ![u].archived = FALSE]
    /\ UNCHANGED <<storeVars, served, known, job, last, budget>>

\* systemd restarts a gateway that exited (Restart=on-failure).
GatewayRetries(u) ==
    /\ host[u].started /\ host[u].gateway = 0
    /\ host' = [host EXCEPT ![u].gateway = Bound(host[u].unit)]
    /\ UNCHANGED <<storeVars, served, known, job, last, budget>>

\* logind stops the manager of a user without linger, and its services.
ManagerStops(u) ==
    /\ host[u].manager /\ ~host[u].linger
    /\ host' = [host EXCEPT ![u] = [GatewayDown(@) EXCEPT !.manager = FALSE, !.watcher = FALSE]]
    /\ UNCHANGED <<storeVars, served, known, job, last, budget>>

\* The watcher publishes a callback that is new or has another port than its
\* snapshot says, and retires one that is gone from openclaw.json.
WatcherPublishes(id, port) ==
    /\ host[Owner[id]].watcher
    /\ id \notin known \/ routes[id].port # port
    /\ UpsertRoute(id, port)
    /\ served' = Rendering(routes')
    /\ known' = known \cup {id}
    /\ UNCHANGED <<host, job, last, budget>>

WatcherRetires(id) ==
    /\ host[Owner[id]].watcher
    /\ id \in known
    /\ DeleteRoute(id)
    /\ served' = Rendering(routes')
    /\ known' = known \ {id}
    /\ UNCHANGED <<host, job, last, budget>>

-----------------------------------------------------------------------------
AddStep(j) ==
    \/ ReadPrevious(j) \/ AllocatePort(j)
    \/ CreateAccount(j) \/ EnableLinger(j) \/ InstallRuntime(j) \/ RunOnboarding(j)
    \/ WriteUnits(j) \/ StartGateway(j) \/ StartWatcher(j) \/ VerifyReadiness(j)
    \/ RecordActive(j) \/ UndoAdd(j)

DownStep(j) ==
    \/ ReadUser(j) \/ StopServices(j) \/ DisableLinger(j) \/ RecordPaused(j)
    \/ BackUp(j) \/ Uninstall(j) \/ DeleteAccount(j) \/ DeleteUserRow(j)

JobStep(j) ==
    \/ AddStep(j) \/ DownStep(j)
    \/ RouteCall(j) \/ RouteCallFails(j) \/ CommandFails(j) \/ StatementFails(j)

Environment ==
    \/ \E u \in User : TenantWrites(u) \/ GatewayRetries(u) \/ ManagerStops(u)
    \/ \E id \in PluginId, port \in Port : WatcherPublishes(id, port)
    \/ \E id \in PluginId : WatcherRetires(id)

Next ==
    \/ \E j \in Job, op \in Operations, u \in User : Start(j, op, u)
    \/ \E j \in Job : JobStep(j)
    \/ Environment

Spec == Init /\ [][Next]_vars

\* A job runs on its own goroutine.  Nothing bounds the commands: one that waits
\* may wait for ever.
FairSpec == Spec /\ \A j \in Job : WF_vars(job[j].pc \notin CommandSteps /\ JobStep(j))

-----------------------------------------------------------------------------
(* Properties.                                                             *)

TypeOK ==
    /\ StoreTypeOK
    /\ host \in [User -> Machines]
    /\ served \subseteq [id : RouteId, port : Port]
    /\ known \subseteq PluginId
    /\ job \in [Job -> JobRecord]
    /\ last \in [User -> [op : Operations \cup {"none"}, ok : BOOLEAN]]
    /\ budget \in 0 .. Budget

Unserved(u) == \A rule \in served : Owner[rule.id] # u

Running(u) ==
    /\ users[u].status = "active"
    /\ Ready(u) /\ host[u].linger
    /\ host[u].gateway = users[u].port
    /\ [id |-> GatewayId[u], port |-> users[u].port] \in served

Quiet(u) ==
    /\ ~host[u].started /\ ~host[u].watcher
    /\ \A id \in RoutesOf(u) : ~Enabled(id)
    /\ Unserved(u)

Gone(u) == ~UserExists(u) /\ ~HasAccount(u) /\ Quiet(u)

\* One operation at a time: an operation that reported success left the row, the
\* machine and the published routes in the state it stands for, whatever failed
\* before it and whatever operations on other users did since.
SuccessHolds ==
    \A u \in User : last[u].ok /\ ~Busy(u) =>
        CASE last[u].op \in {"add", "activate"} -> Running(u)
          [] last[u].op = "deactivate" -> users[u].status = "paused" /\ Quiet(u) /\ ~host[u].linger
          [] last[u].op \in {"remove", "none"} -> Gone(u)

\* One operation at a time: the user exists but services and routes are disabled
\* (UserStatusPaused).
PausedIsQuiet == \A u \in User : users[u].status = "paused" /\ ~Busy(u) => Quiet(u)

\* When userdel deletes an account, what the backup is about (~/.openclaw) is in
\* one as it was; the rest of the home directory is in none.
NothingLost ==
    [][\A u \in User : HasAccount(u) /\ ~HasAccount(u)' => host[u].archived]_vars

\* Add is idempotent: it never deletes a user for whom an Add reported success,
\* neither on a failure of its own nor when another Add of the user runs.
OnlyRemoveDeletes ==
    [][\A u \in User :
          UserExists(u) /\ ~UserExists(u)' /\ last[u] = [op |-> "add", ok |-> TRUE]
              => \E j \in Job : Target(j) = u /\ job[j].op = "remove"]_vars

\* A user that is active again has its routes back (Activate resumes services
\* and routes for a managed user).
ActivateResumesRoutes ==
    \A u \in User : last[u] = [op |-> "activate", ok |-> TRUE] /\ ~Busy(u)
        => \A id \in RoutesOf(u) : RouteExists(id) => Enabled(id)

\* The hostname of a user is never published to the gateway of another one:
\* ports are handed out by rows, bound by processes and served by rules, and the
\* three must not fall apart.
RoutedToOwner ==
    \A rule \in served, u \in User :
        rule.id = GatewayId[Owner[rule.id]] /\ host[u].gateway = rule.port => u = Owner[rule.id]

Adding(u) == \E j \in Job : Target(j) = u /\ job[j].op = "add"
Withdrawing(u) == \E j \in Job : Target(j) = u /\ job[j].op # "add"

\* Every operation returns.
AllReturn == \A j \in Job : []<>At(j, "idle")

Alone(u) == \A v \in User \ {u} : ~host[v].started

\* The uid in the row, which Add takes from it, is the account's.
Recorded(u) == UserExists(u) /\ HasAccount(u) => users[u].uid = host[u].uid

\* Add repairs what was interrupted before: an administrator who keeps adding a
\* user, with commands that return, ends up with that user running, for good,
\* where no other user's gateway comes in its way and the row never tells another
\* uid than the account's.
AddRepairs ==
    \A u \in User :
        AllReturn /\ []<>Adding(u) /\ <>[]~Withdrawing(u) /\ []Alone(u) /\ []Recorded(u)
            => <>[]Running(u)

\* Add can be run again after any interruption (docs/users.md), also when the
\* account has been deleted under its row and is created anew.
AddRepairsAlways ==
    \A u \in User :
        AllReturn /\ []<>Adding(u) /\ <>[]~Withdrawing(u) /\ []Alone(u) => <>[]Running(u)
=============================================================================
