---------------------- MODULE UserLifecycle_serial_proofs ---------------------
(***************************************************************************)
(* Proofs about UserLifecycle for one operation at a time, and failures    *)
(* that leave no services behind: what an operation that succeeded stands  *)
(* for, the quiet of a paused user, backups before a removal, and whom     *)
(* a hostname leads to, for any users, ports, routes and failures.         *)
(***************************************************************************)
EXTENDS UserLifecycle_proofs

LateSteps == {"install", "onboard", "units", "startGateway", "startWatcher", "ready", "record",
              "route", "undo"}

\* One operation at a time; no failure of an Add once it starts services, no
\* plugin with the hostname of a user, and useradd gives a user who comes back the
\* uid that it had.
Serial ==
    /\ \A j, k \in Job : j = k
    /\ Faults \cap LateSteps = {}
    /\ \A i, k \in RouteId : Host[i] = Host[k] => i = k
    /\ \A u \in User : \A x, y \in NewUid[u] : x = y

-----------------------------------------------------------------------------
(* What a user's row, machine and routes are to each other, at any time.   *)

Late == {"units", "startGateway", "startWatcher", "ready", "record"}

Ports(u) == {host[u].unit, host[u].gateway} \ {0}

PortsKept(u) ==
    \/ Ports(u) \subseteq {users[u].port}
    \/ \E j \in Job : Target(j) = u /\ job[j].pc \in Late /\ Ports(u) \subseteq {job[j].port}

Agrees(u) ==
    /\ host[u].started <=> host[u].gateway # 0
    /\ "gateway" \in host[u].enabled => host[u].unit # 0
    /\ RouteExists(GatewayId[u]) => routes[GatewayId[u]].port = users[u].port
    /\ \A rule \in served : rule.id = GatewayId[u] => UserExists(u) /\ rule.port = users[u].port

\* Between operations.
Resting(u) ==
    /\ users[u].status # "active" => Quiet(u)
    /\ users[u].status = "paused" => ~host[u].linger

Succeeded(u) ==
    last[u].ok =>
        /\ last[u].op \in {"add", "activate"} =>
             /\ Running(u)
             /\ routes[GatewayId[u]] = [state |-> "enabled", port |-> users[u].port]
        /\ last[u].op = "deactivate" => users[u].status = "paused"
        /\ last[u].op \in {"remove", "none"} => ~UserExists(u) /\ ~HasAccount(u)

UserInv(u) == Agrees(u) /\ PortsKept(u) /\ (~Busy(u) => Resting(u) /\ Succeeded(u))

-----------------------------------------------------------------------------
(* What an operation has achieved when it comes to a step.                 *)

Before == {"activate", "add", "port", "useradd", "linger", "deactivate", "remove"}
FromReady == {"ready", "record", "route"}
FromWatcher == {"startWatcher"} \cup FromReady
FromGateway == {"startGateway"} \cup FromWatcher
FromUnits == {"units"} \cup FromGateway
FromInstall == {"install", "onboard"} \cup FromUnits
Removing == {"backup", "unroute", "uninstall", "dropLinger", "userdel", "deleteRow"}

Purpose(j) ==
    /\ job[j].pc # "undo"
    /\ job[j].pc = "idle" => job[j].user = "none"
    /\ job[j].pc \in {"activate", "add", "port"} \cup WithPort => job[j].op \in {"add", "activate"}
    /\ job[j].pc \in {"deactivate"} \cup WithRow => job[j].op \in {"deactivate", "remove"}
    /\ job[j].pc \in {"remove"} \cup Removing => job[j].op = "remove"

AddInv(j) ==
    LET u == Target(j) IN
    /\ job[j].pc = "port" => job[j].row = users[u]
    /\ job[j].pc \in WithPort =>
         /\ PortFree(u, job[j].port)
         /\ UserExists(u) => users[u].port = job[j].port
    /\ job[j].pc \in {"linger"} \cup FromInstall => HasAccount(u)
    /\ job[j].pc \in FromInstall => host[u].linger /\ host[u].manager
    /\ job[j].pc \in FromUnits => host[u].home = "onboarded"
    /\ job[j].pc \in FromGateway => host[u].unit = job[j].port
    /\ job[j].pc \in FromWatcher => host[u].started
    /\ job[j].pc \in FromReady => host[u].watcher
    /\ job[j].pc = "route" => users[u] = ActiveRow(job[j].port, job[j].uid)

DownInv(j) ==
    LET u == Target(j) IN
    /\ job[j].pc \in WithRow => users[u] = job[j].row /\ users[u].status = "active"
    /\ job[j].pc \in WithRow \ {"stop"} => ~host[u].started /\ ~host[u].watcher
    /\ job[j].pc \in {"disable", "pause"} => ~host[u].linger
    /\ job[j].pc = "pause" => Unserved(u) /\ \A id \in RoutesOf(u) : ~Enabled(id)
    /\ job[j].pc \in Removing => users[u].status = "paused"
    /\ job[j].pc \in {"unroute", "uninstall", "dropLinger", "userdel"} => host[u].archived
    /\ job[j].pc = "deleteRow" => ~HasAccount(u) /\ host[u].unit = 0

JobInv(j) ==
    /\ job[j].pc \in Before \cup Removing => Resting(Target(j))
    /\ Purpose(j) /\ AddInv(j) /\ DownInv(j)

SerialInv ==
    /\ LifeInv
    /\ \A u \in User : UserInv(u)
    /\ \A j \in Job : JobInv(j)

-----------------------------------------------------------------------------
(* What a step leaves alone.                                               *)

\* A publication adds no rule for a route that is not enabled.
LEMMA Rendered ==
    ASSUME NEW table, NEW rule \in Rendering(table)
    PROVE  \E id \in RouteId : table[id].state = "enabled" /\ rule = [id |-> id, port |-> table[id].port]
BY DEF Rendering

LEMMA QuietKept ==
    ASSUME NEW u \in User, Quiet(u),
           host'[u].started => host[u].started, host'[u].watcher => host[u].watcher,
           \A id \in RoutesOf(u) : Enabled(id)' => Enabled(id),
           served' \in {served, Rendering(routes')}
    PROVE  Quiet(u)'
<1>1. \A id \in RoutesOf(u) : ~Enabled(id)'
  BY DEF Quiet
<1>2. ASSUME NEW rule \in served' PROVE Owner[rule.id] # u
  <2>1. CASE rule \in served
    BY <2>1 DEF Quiet, Unserved
  <2>2. CASE rule \in Rendering(routes')
    <3>1. PICK id \in RouteId : routes'[id].state = "enabled" /\ rule = [id |-> id, port |-> routes'[id].port]
      BY <2>2, Rendered
    <3>. QED
      BY <1>1, <3>1 DEF Enabled, RoutesOf
  <2>. QED
    BY <2>1, <2>2
<1>. QED
  BY <1>1, <1>2 DEF Quiet, Unserved, RoutesOf

LEMMA RestingKept ==
    ASSUME NEW u \in User, Resting(u), users'[u].status = users[u].status,
           host'[u].started => host[u].started, host'[u].watcher => host[u].watcher,
           host'[u].linger => host[u].linger,
           \A id \in RoutesOf(u) : Enabled(id)' => Enabled(id),
           served' \in {served, Rendering(routes')}
    PROVE  Resting(u)'
BY QuietKept DEF Resting

LEMMA AgreesKept ==
    ASSUME SerialInv, NEW v \in User, users'[v] = users[v], host'[v] = host[v],
           routes'[GatewayId[v]] = routes[GatewayId[v]],
           served' \in {served, Rendering(routes')}
    PROVE  Agrees(v)'
<1>1. Agrees(v) /\ GatewayId[v] \in RouteId
  BY StoreAssumption DEF SerialInv, UserInv
<1>2. ASSUME NEW rule \in served', rule.id = GatewayId[v]
      PROVE  UserExists(v) /\ rule.port = users[v].port
  <2>1. CASE rule \in served
    BY <1>1, <1>2, <2>1 DEF Agrees
  <2>2. CASE rule \in Rendering(routes')
    <3>1. PICK id \in RouteId : routes'[id].state = "enabled" /\ rule = [id |-> id, port |-> routes'[id].port]
      BY <2>2, Rendered
    <3>2. id = GatewayId[v] /\ routes[id].state = "enabled" /\ rule.port = routes[id].port
      BY <1>2, <3>1
    <3>. QED
      BY <1>1, <3>2, StoreAssumption
         DEF Agrees, RouteExists, SerialInv, LifeInv, Integrity, OwnersExist
  <2>. QED
    BY <2>1, <2>2
<1>. QED
  BY <1>1, <1>2 DEF Agrees, RouteExists, UserExists

LEMMA SucceededKept ==
    ASSUME NEW v \in User, Succeeded(v),
           users'[v] = users[v], host'[v] = host[v], last'[v] = last[v],
           routes'[GatewayId[v]] = routes[GatewayId[v]],
           served' \in {served, Rendering(routes')}
    PROVE  Succeeded(v)'
<1>1. ASSUME [id |-> GatewayId[v], port |-> users[v].port] \in served,
             routes[GatewayId[v]] = [state |-> "enabled", port |-> users[v].port]
      PROVE  [id |-> GatewayId[v], port |-> users[v].port] \in served'
  BY <1>1, StoreAssumption DEF Rendering
<1>. QED
  BY <1>1 DEF Succeeded, Running, Ready, UserExists, HasAccount

\* A user whose row, machine and routes are as before is as before.
LEMMA OtherKept ==
    ASSUME SerialInv, NEW v \in User,
           users'[v] = users[v], host'[v] = host[v], last'[v] = last[v],
           \A id \in RoutesOf(v) : routes'[id] = routes[id],
           served' \in {served, Rendering(routes')},
           \A k \in Job : Target(k) # v /\ Target(k)' # v
    PROVE  UserInv(v)'
<1>1. GatewayId[v] \in RoutesOf(v)
  BY StoreAssumption DEF RoutesOf
<1>2. UserInv(v) /\ ~Busy(v)
  BY DEF SerialInv, Busy
<1>3. Agrees(v)'
  BY <1>1, AgreesKept
<1>4. PortsKept(v)'
  BY <1>2 DEF UserInv, PortsKept, Ports
<1>5. Resting(v)'
  BY <1>2, RestingKept DEF UserInv, Enabled
<1>6. Succeeded(v)'
  BY <1>1, <1>2, SucceededKept DEF UserInv
<1>. QED
  BY <1>3, <1>4, <1>5, <1>6 DEF UserInv

\* A step of the one operation, on user u.
LEMMA OneUser ==
    ASSUME Serial, SerialInv, LifeInv', NEW j \in Job, NEW u \in User,
           Target(j) \in {u, "none"}, Target(j)' \in {u, "none"},
           \A v \in User \ {u} : users'[v] = users[v] /\ host'[v] = host[v] /\ last'[v] = last[v],
           \A id \in RouteId \ RoutesOf(u) : routes'[id] = routes[id],
           served' \in {served, Rendering(routes')},
           UserInv(u)', JobInv(j)'
    PROVE  SerialInv'
<1>1. \A k \in Job : k = j
  BY DEF Serial
<1>2. "none" \notin User
  BY LifecycleAssumption
<1>3. ASSUME NEW v \in User \ {u} PROVE UserInv(v)'
  <2>1. \A id \in RoutesOf(v) : routes'[id] = routes[id]
    BY DEF RoutesOf
  <2>2. \A k \in Job : Target(k) # v /\ Target(k)' # v
    BY <1>1, <1>2 DEF Target
  <2>. QED
    BY <2>1, <2>2, OtherKept
<1>. QED
  BY <1>1, <1>3 DEF SerialInv

\* An idle slot has nothing to say.
LEMMA FreeSlotInv ==
    ASSUME NEW j \in Job, job'[j] = Free
    PROVE  JobInv(j)' /\ Target(j)' = "none"
BY DEF JobInv, Purpose, AddInv, DownInv, Free, Target, Before, Removing, WithPort, WithRow,
       FromInstall, FromUnits, FromGateway, FromWatcher, FromReady

LEMMA GotoFields ==
    ASSUME LifeInv, NEW j \in Job, NEW step, Goto(j, step)
    PROVE  /\ job'[j].pc = step /\ job'[j].op = job[j].op /\ job'[j].user = job[j].user
           /\ job'[j].port = job[j].port /\ job'[j].row = job[j].row
           /\ job'[j].uid = job[j].uid
           /\ Target(j)' = Target(j) /\ UNCHANGED last
BY DEF Goto, LifeInv, JobsOK, JobRecord, Target

LEMMA InstallFields ==
    ASSUME LifeInv, NEW j \in Job, InstallRuntime(j)
    PROVE  /\ job[j].pc = "install" /\ Feasible(j)
           /\ job'[j].pc = "onboard" /\ job'[j].op = job[j].op /\ job'[j].user = job[j].user
           /\ job'[j].port = job[j].port /\ job'[j].row = job[j].row
           /\ Target(j)' = Target(j) /\ UNCHANGED <<last, users, routes, served>>
BY DEF InstallRuntime, At, LifeInv, JobsOK, JobRecord, Target, storeVars

LEMMA FinishFields ==
    ASSUME LifeInv, NEW j \in Job, NEW ok, job[j].pc # "idle", Finish(j, ok)
    PROVE  /\ job'[j] = Free /\ Target(j) \in User
           /\ last'[Target(j)] = [op |-> job[j].op, ok |-> ok]
           /\ \A v \in User \ {Target(j)} : last'[v] = last[v]
BY DEF Finish, LifeInv, JobsOK, Coherent, Target

LEMMA FinishedOp ==
    ASSUME SerialInv, NEW j \in Job, job[j].pc # "idle", Finish(j, TRUE)
    PROVE  last'[Target(j)].op = job[j].op
<1>1. Target(j) \in User /\ last \in [User -> [op : Operations \cup {"none"}, ok : BOOLEAN]]
  BY DEF SerialInv, LifeInv, JobsOK, Coherent, Target
<1>. QED
  BY <1>1 DEF Finish

\* An operation ends.
LEMMA EndStep ==
    ASSUME Serial, SerialInv, LifeInv', NEW j \in Job, job[j].pc # "idle",
           NEW u \in User, u = Target(j),
           NEW ok \in BOOLEAN, Finish(j, ok), UNCHANGED host,
           \A v \in User \ {u} : users'[v] = users[v],
           \A id \in RouteId \ RoutesOf(u) : routes'[id] = routes[id],
           served' \in {served, Rendering(routes')},
           Agrees(u)', Ports(u) \subseteq {users'[u].port}, Resting(u)',
           ok => Succeeded(u)'
    PROVE  SerialInv'
<1>1. /\ job'[j] = Free /\ last'[u].ok = ok
      /\ \A v \in User \ {u} : last'[v] = last[v]
  <2>1. /\ job'[j] = Free /\ last'[u] = [op |-> job[j].op, ok |-> ok]
        /\ \A v \in User \ {u} : last'[v] = last[v]
    BY FinishFields DEF SerialInv
  <2>2. CASE ok = TRUE
    BY <2>1, <2>2
  <2>3. CASE ok = FALSE
    BY <2>1, <2>3
  <2>. QED
    BY <2>2, <2>3
<1>2. JobInv(j)' /\ Target(j)' = "none"
  BY <1>1, FreeSlotInv
<1>3. UserInv(u)'
  <2>1. PortsKept(u)'
    BY DEF PortsKept, Ports
  <2>2. Succeeded(u)'
    BY <1>1 DEF Succeeded
  <2>. QED
    BY <2>1, <2>2 DEF UserInv
<1>4. \A v \in User \ {u} : users'[v] = users[v] /\ host'[v] = host[v] /\ last'[v] = last[v]
  BY <1>1
<1>. QED
  BY <1>2, <1>3, <1>4, OneUser

\* A step that fails, and what was there before is as good as after.
LEMMA FailStep ==
    ASSUME Serial, SerialInv, LifeInv', NEW j \in Job,
           job[j].pc \in Before \cup WithRow \cup Removing, Finish(j, FALSE),
           UNCHANGED <<users, routes, host, served>>
    PROVE  SerialInv'
<1>1. PICK u \in User : u = Target(j)
  BY DEF SerialInv, LifeInv, JobsOK, Coherent, Target, Before, WithRow, Removing
<1>2. JobInv(j) /\ UserInv(u) /\ job[j].pc # "idle"
  BY DEF SerialInv, Before, WithRow, Removing
<1>3. Resting(u)
  BY <1>1, <1>2 DEF JobInv, DownInv, Resting
<1>4. Resting(u)' /\ Agrees(u)'
  BY <1>2, <1>3 DEF Resting, Quiet, Unserved, RoutesOf, Enabled, UserInv, Agrees, RouteExists,
                    UserExists
<1>5. Ports(u) \subseteq {users[u].port}
  BY <1>1, <1>2 DEF UserInv, PortsKept, Serial, Before, WithRow, Removing, Late
<1>. QED
  BY <1>1, <1>2, <1>4, <1>5, EndStep

\* A machine changes under an operation that goes on.
LEMMA OperationStep ==
    ASSUME Serial, SerialInv, LifeInv', NEW j \in Job, NEW u \in User, u = Target(j),
           NEW new, host' = [host EXCEPT ![u] = new],
           Target(j)' = u, UNCHANGED <<last, users, routes, served>>,
           new.started <=> new.gateway # 0, "gateway" \in new.enabled => new.unit # 0,
           PortsKept(u)', JobInv(j)'
    PROVE  SerialInv'
<1>2. host'[u] = new /\ \A v \in User \ {u} : host'[v] = host[v]
  BY DEF SerialInv, LifeInv, WorldOK
<1>3. Agrees(u)'
  BY <1>2 DEF SerialInv, UserInv, Agrees, RouteExists, UserExists
<1>4. UserInv(u)'
  BY <1>3 DEF UserInv, Busy
<1>. QED
  BY <1>2, <1>4, OneUser

\* A command that succeeds.
LEMMA CommandStep ==
    ASSUME Serial, SerialInv, LifeInv', NEW j \in Job, NEW u \in User, u = Target(j),
           NEW from, NEW to, NEW new, Run(j, from, new, to),
           new.started <=> new.gateway # 0, "gateway" \in new.enabled => new.unit # 0,
           PortsKept(u)', JobInv(j)'
    PROVE  SerialInv'
<1>1. /\ Target(j)' = u /\ UNCHANGED <<last, users, routes, served>>
      /\ host' = [host EXCEPT ![u] = new]
  BY GotoFields DEF Run, storeVars, SerialInv
<1>. QED
  BY <1>1, OperationStep

\* A port that is reserved for a user can be bound for it.
LEMMA CanBind ==
    ASSUME Serial, SerialInv, NEW j \in Job, NEW u \in User, u = Target(j), NEW p \in Port,
           PortFree(u, p), host[u].gateway # p
    PROVE  Bound(p) = p
<1>1. ASSUME NEW v \in User \ {u} PROVE host[v].gateway # p
  <2>1. Ports(v) \subseteq {users[v].port}
    BY DEF SerialInv, UserInv, PortsKept, Serial
  <2>. QED
    BY <2>1, StoreAssumption DEF Ports, PortFree
<1>. QED
  BY <1>1 DEF Bound

-----------------------------------------------------------------------------
(* Commands of Add.                                                        *)

LEMMA UpFields ==
    ASSUME NEW h \in Machines, NEW g, g = GatewayUp(h)
    PROVE  /\ g.started /\ g.gateway = IF h.gateway # 0 THEN h.gateway ELSE Bound(h.unit)
           /\ g.home = h.home /\ g.linger = h.linger /\ g.manager = h.manager
           /\ g.unit = h.unit /\ g.enabled = h.enabled /\ g.watcher = h.watcher
           /\ g.archived = h.archived
BY DEF GatewayUp, Machines

LEMMA DownFields ==
    ASSUME NEW h \in Machines, NEW g, g = GatewayDown(h)
    PROVE  /\ ~g.started /\ g.gateway = 0
           /\ g.home = h.home /\ g.linger = h.linger /\ g.manager = h.manager
           /\ g.unit = h.unit /\ g.enabled = h.enabled /\ g.watcher = h.watcher
           /\ g.archived = h.archived
BY DEF GatewayDown, Machines

\* The user manager brings a gateway up on the port of its unit.
LEMMA ManagerUpFields ==
    ASSUME Serial, SerialInv, NEW j \in Job, NEW u \in User, u = Target(j),
           job[j].pc \in {"linger", "install"}, NEW g, g = ManagerUp(host[u])
    PROVE  /\ g \in Machines /\ g.manager /\ g.home = host[u].home /\ g.unit = host[u].unit
           /\ g.linger = host[u].linger
           /\ g.started <=> g.gateway # 0
           /\ "gateway" \in g.enabled => g.unit # 0
           /\ {g.gateway, g.unit} \ {0} \subseteq {users[u].port}
<1>. DEFINE h == host[u]
<1>1. h \in Machines /\ UserInv(u) /\ AddInv(j)
  BY DEF SerialInv, LifeInv, WorldOK, JobInv
<1>2. Ports(u) \subseteq {users[u].port}
  BY <1>1 DEF UserInv, PortsKept, Serial, Late
<1>3. CASE h.manager
  BY <1>1, <1>2, <1>3 DEF ManagerUp, UserInv, Agrees, Ports
<1>4. CASE ~h.manager
  <2>. DEFINE w == "watcher" \in h.enabled
              up == [h EXCEPT !.manager = TRUE, !.watcher = w]
  <2>1. w \in BOOLEAN
    OBVIOUS
  <2>2. g = IF "gateway" \in h.enabled THEN GatewayUp(up) ELSE up
    BY <1>4 DEF ManagerUp
  <2>. HIDE DEF w
  <2>3. /\ up \in Machines /\ up.manager /\ up.home = h.home /\ up.unit = h.unit
        /\ up.linger = h.linger /\ up.enabled = h.enabled /\ up.gateway = h.gateway
        /\ up.started = h.started
    BY <1>1, <2>1 DEF Machines
  <2>. HIDE DEF up
  <2>4. CASE "gateway" \notin h.enabled
    BY <1>1, <1>2, <2>2, <2>3, <2>4 DEF UserInv, Agrees, Ports
  <2>5. CASE "gateway" \in h.enabled
    <3>1. /\ g.started /\ g.gateway = IF up.gateway # 0 THEN up.gateway ELSE Bound(up.unit)
          /\ g.home = up.home /\ g.linger = up.linger /\ g.manager = up.manager
          /\ g.unit = up.unit /\ g.enabled = up.enabled /\ g \in Machines
      BY <2>2, <2>3, <2>5, UpFields, MachineType
    <3>2. h.unit # 0 /\ h.unit \in Port /\ h.unit = users[u].port
      BY <1>1, <1>2, <2>5 DEF UserInv, Agrees, Ports, Machines
    <3>3. h.gateway = 0 => Bound(h.unit) = h.unit
      <4>1. PortFree(u, h.unit)
        <5>1. UserExists(u)
          BY <3>2, StoreAssumption DEF SerialInv, LifeInv, StoreTypeOK, UserExists, UserRow, NoUser
        <5>. QED
          BY <3>2, <5>1 DEF SerialInv, LifeInv, Integrity, PortsDistinct, PortFree
      <4>. QED
        BY <3>2, <4>1, CanBind
    <3>. QED
      BY <1>2, <2>3, <3>1, <3>2, <3>3 DEF Ports
  <2>. QED
    BY <2>4, <2>5
<1>. QED
  BY <1>3, <1>4

\* What is known of the operation at a command, and what becomes of it.
LEMMA AtCommand ==
    ASSUME SerialInv, LifeInv', NEW j \in Job, NEW u \in User, u = Target(j),
           NEW from, NEW to, NEW new, Run(j, from, new, to)
    PROVE  /\ job[j].pc = from /\ Feasible(j)
           /\ Target(j)' = u /\ job'[j].pc = to /\ job'[j].op = job[j].op
           /\ job'[j].port = job[j].port /\ job'[j].row = job[j].row
           /\ job'[j].user = job[j].user
           /\ host'[u] = new /\ host[u] \in Machines
           /\ UNCHANGED <<users, routes, served>>
           /\ UserInv(u) /\ JobInv(j) /\ Purpose(j) /\ AddInv(j) /\ DownInv(j)
BY GotoFields DEF Run, At, storeVars, SerialInv, LifeInv, WorldOK, JobInv

LEMMA CreateAccountKeeps ==
    ASSUME Serial, SerialInv, LifeInv', NEW j \in Job, NEW u \in User, u = Target(j),
           CreateAccount(j)
    PROVE  SerialInv'
<1>. DEFINE h == host[u]
<1>2. h \in Machines
  BY DEF SerialInv, LifeInv, WorldOK
<1>3. PICK new :
          /\ Run(j, "useradd", new, "linger")
          /\ new.home # "none" /\ new.started = h.started /\ new.gateway = h.gateway
          /\ new.unit = h.unit /\ new.enabled = h.enabled /\ new.watcher = h.watcher
          /\ new.linger = h.linger
  <2>1. CASE HasAccount(u)
    BY <2>1 DEF CreateAccount, Machine, HasAccount
  <2>2. CASE ~HasAccount(u)
    <3>1. PICK id \in NewUid[u] :
              Run(j, "useradd", [h EXCEPT !.home = "empty", !.uid = id], "linger")
      BY <2>2 DEF CreateAccount, Machine
    <3>. DEFINE m == [h EXCEPT !.home = "empty", !.uid = id]
    <3>2. /\ m.home # "none" /\ m.started = h.started /\ m.gateway = h.gateway
          /\ m.unit = h.unit /\ m.enabled = h.enabled /\ m.watcher = h.watcher
          /\ m.linger = h.linger
      BY <1>2 DEF Machines
    <3>. HIDE DEF m
    <3>. QED
      BY <3>1, <3>2 DEF m
  <2>. QED
    BY <2>1, <2>2
<1>1. Run(j, "useradd", new, "linger")
  BY <1>3
<1>4. Resting(u)'
  BY <1>1, <1>3, AtCommand, RestingKept DEF JobInv, Before, Enabled
<1>5. PortsKept(u)'
  BY <1>1, <1>3, AtCommand DEF UserInv, PortsKept, Ports, Serial, Late
<1>6. JobInv(j)'
  BY <1>1, <1>3, <1>4, AtCommand DEF JobInv, Purpose, AddInv, DownInv, WithPort, WithRow, Removing,
     FromInstall, FromUnits, FromGateway, FromWatcher, FromReady, HasAccount, PortFree, UserExists
<1>7. UserInv(u)
  BY DEF SerialInv
<1>. QED
  BY <1>1, <1>3, <1>5, <1>6, <1>7, CommandStep DEF UserInv, Agrees

\* While a user is added, its machine knows no port but the one it was given.
LEMMA OwnPort ==
    ASSUME Serial, SerialInv, NEW j \in Job, NEW u \in User, u = Target(j), job[j].pc \in WithPort
    PROVE  /\ Ports(u) \subseteq {job[j].port} /\ job[j].port \in Port /\ job[j].port # 0
           /\ PortFree(u, job[j].port)
<1>1. UserInv(u) /\ AddInv(j) /\ Coherent(j) /\ users[u] \in UserRow \cup {NoUser}
  BY DEF SerialInv, JobInv, LifeInv, JobsOK, StoreTypeOK
<1>2. job[j].port \in Port /\ job[j].port # 0 /\ PortFree(u, job[j].port)
  BY <1>1, StoreAssumption DEF Coherent, AddInv
<1>3. Ports(u) \subseteq {users[u].port} \/ Ports(u) \subseteq {job[j].port}
  BY <1>1 DEF UserInv, PortsKept, Serial
<1>4. users[u].port = 0 \/ users[u].port = job[j].port
  BY <1>1 DEF AddInv, UserExists, UserRow, NoUser
<1>. QED
  BY <1>2, <1>3, <1>4 DEF Ports

LEMMA EnableLingerKeeps ==
    ASSUME Serial, SerialInv, LifeInv', NEW j \in Job, NEW u \in User, u = Target(j),
           EnableLinger(j)
    PROVE  SerialInv'
<1>. DEFINE g == ManagerUp(host[u])
            new == [g EXCEPT !.linger = TRUE]
<1>1. Run(j, "linger", new, "install")
  BY DEF EnableLinger, Machine
<1>2. /\ g \in Machines /\ g.manager /\ g.home = host[u].home /\ g.unit = host[u].unit
      /\ g.started <=> g.gateway # 0
      /\ "gateway" \in g.enabled => g.unit # 0
      /\ {g.gateway, g.unit} \ {0} \subseteq {users[u].port}
  BY <1>1, ManagerUpFields DEF Run, At
<1>. HIDE DEF g
<1>3. /\ new.manager /\ new.linger /\ new.home = host[u].home
      /\ new.started = g.started /\ new.gateway = g.gateway /\ new.enabled = g.enabled
      /\ new.unit = g.unit
  BY <1>2 DEF Machines
<1>. HIDE DEF new
<1>4. PortsKept(u)'
  BY <1>1, <1>2, <1>3, AtCommand DEF PortsKept, Ports
<1>5. JobInv(j)'
  BY <1>1, <1>3, AtCommand DEF JobInv, Purpose, AddInv, DownInv, WithPort, WithRow, Removing,
     Before, FromInstall, FromUnits, FromGateway, FromWatcher, FromReady, HasAccount, PortFree,
     UserExists
<1>. QED
  BY <1>1, <1>2, <1>3, <1>4, <1>5, CommandStep

LEMMA InstallRuntimeKeeps ==
    ASSUME Serial, SerialInv, LifeInv', NEW j \in Job, NEW u \in User, u = Target(j),
           InstallRuntime(j)
    PROVE  SerialInv'
<1>. DEFINE g == ManagerUp(host[u])
            new == [g EXCEPT !.archived = FALSE, !.home = IF @ = "empty" THEN "runtime" ELSE @]
<1>1. /\ job[j].pc = "install" /\ host' = [host EXCEPT ![u] = new]
      /\ host \in [User -> Machines] /\ JobInv(j)
      /\ job'[j].pc = "onboard" /\ job'[j].op = job[j].op /\ job'[j].port = job[j].port
      /\ job'[j].row = job[j].row /\ job'[j].user = job[j].user
      /\ Target(j)' = u /\ UNCHANGED <<last, users, routes, served>>
  BY InstallFields DEF InstallRuntime, Machine, SerialInv, LifeInv, WorldOK
<1>2. /\ g \in Machines /\ g.manager /\ g.home = host[u].home /\ g.unit = host[u].unit
      /\ g.linger = host[u].linger
      /\ g.started <=> g.gateway # 0
      /\ "gateway" \in g.enabled => g.unit # 0
      /\ {g.gateway, g.unit} \ {0} \subseteq {users[u].port}
  BY <1>1, ManagerUpFields
<1>. HIDE DEF g
<1>3. /\ new.manager /\ new.linger = g.linger /\ (g.home # "none" => new.home # "none")
      /\ new.started = g.started /\ new.gateway = g.gateway /\ new.enabled = g.enabled
      /\ new.unit = g.unit
  BY <1>2 DEF Machines
<1>. HIDE DEF new
<1>4. PortsKept(u)'
  BY <1>1, <1>2, <1>3 DEF PortsKept, Ports
<1>5. JobInv(j)'
  BY <1>1, <1>2, <1>3 DEF JobInv, Purpose, AddInv, DownInv, WithPort, WithRow, Removing,
     Before, FromInstall, FromUnits, FromGateway, FromWatcher, FromReady, HasAccount, PortFree,
     UserExists
<1>. QED
  BY <1>1, <1>2, <1>3, <1>4, <1>5, OperationStep

\* The gateway comes up on the port of the operation, also when onboarding
\* restarts it.
LEMMA RunOnboardingKeeps ==
    ASSUME Serial, SerialInv, LifeInv', NEW j \in Job, NEW u \in User, u = Target(j),
           RunOnboarding(j)
    PROVE  SerialInv'
<1>. DEFINE h == host[u]
            p == job[j].port
            files == [h EXCEPT !.home = "onboarded", !.archived = FALSE]
            daemon == [files EXCEPT !.unit = p, !.enabled = @ \cup {"gateway"}]
            Restarted == IF files.gateway = p THEN daemon ELSE GatewayUp(GatewayDown(daemon))
<1>1. PICK new \in {files, Restarted} : Run(j, "onboard", new, "units") /\ job[j].pc = "onboard"
  BY DEF RunOnboarding, Machine, At
<1>2. h \in Machines /\ UserInv(u) /\ AddInv(j)
  BY DEF SerialInv, LifeInv, WorldOK, JobInv
<1>3. Ports(u) \subseteq {p} /\ p \in Port /\ p # 0 /\ PortFree(u, p)
  BY <1>1, OwnPort DEF WithPort
<1>4. /\ files \in Machines /\ files.home = "onboarded" /\ files.linger = h.linger
      /\ files.manager = h.manager /\ files.started = h.started /\ files.gateway = h.gateway
      /\ files.unit = h.unit /\ files.enabled = h.enabled
  BY <1>2 DEF Machines, Homes
<1>. HIDE DEF files
<1>5. /\ daemon \in Machines /\ daemon.home = "onboarded" /\ daemon.linger = h.linger
      /\ daemon.manager = h.manager /\ daemon.started = h.started /\ daemon.gateway = h.gateway
      /\ daemon.unit = p
  BY <1>3, <1>4 DEF Machines
<1>. HIDE DEF daemon, p
<1>6. /\ new.home = "onboarded" /\ new.linger = h.linger /\ new.manager = h.manager
      /\ (new.started <=> new.gateway # 0)
      /\ "gateway" \in new.enabled => new.unit # 0
      /\ {new.gateway, new.unit} \ {0} \subseteq {p}
  <2>1. CASE new = files
    BY <1>2, <1>3, <1>4, <2>1 DEF UserInv, Agrees, Ports
  <2>2. CASE new = daemon /\ files.gateway = p
    BY <1>2, <1>3, <1>4, <1>5, <2>2 DEF UserInv, Agrees
  <2>3. CASE new = GatewayUp(GatewayDown(daemon)) /\ files.gateway # p
    <3>. DEFINE down == GatewayDown(daemon)
    <3>1. /\ down \in Machines /\ down.gateway = 0 /\ down.unit = p /\ down.home = "onboarded"
          /\ down.linger = h.linger /\ down.manager = h.manager
      BY <1>5, DownFields, MachineType
    <3>. HIDE DEF down
    <3>2. /\ new.started /\ new.gateway = Bound(p) /\ new.unit = p /\ new.home = "onboarded"
          /\ new.linger = h.linger /\ new.manager = h.manager
      BY <2>3, <3>1, UpFields DEF down
    <3>3. Bound(p) = p
      BY <1>3, <1>4, <2>3, CanBind
    <3>. QED
      BY <1>3, <3>2, <3>3
  <2>. QED
    BY <1>1, <2>1, <2>2, <2>3
<1>7. PortsKept(u)'
  <2>1. Target(j)' = u /\ job'[j].pc \in Late /\ Ports(u)' \subseteq {job'[j].port}
    BY <1>1, <1>6, AtCommand DEF Ports, Late, p
  <2>. QED
    BY <2>1 DEF PortsKept
<1>8. JobInv(j)'
  BY <1>1, <1>6, AtCommand DEF JobInv, Purpose, AddInv, DownInv, WithPort, WithRow, Removing,
     Before, FromInstall, FromUnits, FromGateway, FromWatcher, FromReady, HasAccount, PortFree,
     UserExists
<1>. QED
  BY <1>1, <1>6, <1>7, <1>8, CommandStep

LEMMA WriteUnitsKeeps ==
    ASSUME Serial, SerialInv, LifeInv', NEW j \in Job, NEW u \in User, u = Target(j),
           WriteUnits(j)
    PROVE  SerialInv'
<1>. DEFINE h == host[u]
            p == job[j].port
            new == [h EXCEPT !.unit = p, !.archived = FALSE]
<1>1. Run(j, "units", new, "startGateway") /\ job[j].pc = "units"
  BY DEF WriteUnits, Machine, Run, At
<1>2. h \in Machines /\ UserInv(u)
  BY DEF SerialInv, LifeInv, WorldOK
<1>3. Ports(u) \subseteq {p} /\ p \in Port /\ p # 0
  BY <1>1, OwnPort DEF WithPort
<1>4. /\ new.unit = p /\ new.home = h.home /\ new.linger = h.linger /\ new.manager = h.manager
      /\ new.started = h.started /\ new.gateway = h.gateway
  BY <1>2, <1>3 DEF Machines
<1>. HIDE DEF new, p
<1>5. PortsKept(u)'
  <2>1. Target(j)' = u /\ job'[j].pc \in Late /\ Ports(u)' \subseteq {job'[j].port}
    BY <1>1, <1>3, <1>4, AtCommand DEF Ports, Late, p
  <2>. QED
    BY <2>1 DEF PortsKept
<1>6. JobInv(j)'
  BY <1>1, <1>4, AtCommand DEF JobInv, Purpose, AddInv, DownInv, WithPort, WithRow, Removing,
     Before, FromInstall, FromUnits, FromGateway, FromWatcher, FromReady, HasAccount, PortFree,
     UserExists, p
<1>. QED
  BY <1>1, <1>2, <1>3, <1>4, <1>5, <1>6, CommandStep DEF UserInv, Agrees

LEMMA StartGatewayKeeps ==
    ASSUME Serial, SerialInv, LifeInv', NEW j \in Job, NEW u \in User, u = Target(j),
           StartGateway(j)
    PROVE  SerialInv'
<1>. DEFINE h == host[u]
            p == job[j].port
            g == GatewayUp(h)
            new == [g EXCEPT !.enabled = @ \cup {"gateway"}]
<1>1. Run(j, "startGateway", new, "startWatcher") /\ job[j].pc = "startGateway"
  BY DEF StartGateway, Machine, Run, At
<1>2. h \in Machines /\ h.unit = p
  BY <1>1 DEF SerialInv, LifeInv, WorldOK, JobInv, AddInv, FromGateway
<1>3. Ports(u) \subseteq {p} /\ p \in Port /\ p # 0 /\ PortFree(u, p)
  BY <1>1, OwnPort DEF WithPort
<1>4. h.gateway = 0 => Bound(p) = p
  BY <1>3, CanBind
<1>5. /\ g \in Machines /\ g.started /\ g.gateway = p /\ g.unit = p
      /\ g.home = h.home /\ g.linger = h.linger /\ g.manager = h.manager
  <2>1. g.gateway = IF h.gateway # 0 THEN h.gateway ELSE Bound(h.unit)
    BY <1>2, UpFields
  <2>2. /\ g.started /\ g.home = h.home /\ g.linger = h.linger /\ g.manager = h.manager
        /\ g.unit = h.unit /\ g \in Machines
    BY <1>2, UpFields, MachineType
  <2>. HIDE DEF g
  <2>. QED
    BY <1>2, <1>3, <1>4, <2>1, <2>2 DEF Ports
<1>. HIDE DEF g
<1>6. /\ new.started /\ new.gateway = p /\ new.unit = p
      /\ new.home = h.home /\ new.linger = h.linger /\ new.manager = h.manager
  BY <1>5 DEF Machines
<1>. HIDE DEF new, p
<1>7. PortsKept(u)'
  <2>1. Target(j)' = u /\ job'[j].pc \in Late /\ Ports(u)' \subseteq {job'[j].port}
    BY <1>1, <1>6, AtCommand DEF Ports, Late, p
  <2>. QED
    BY <2>1 DEF PortsKept
<1>8. JobInv(j)'
  BY <1>1, <1>6, AtCommand DEF JobInv, Purpose, AddInv, DownInv, WithPort, WithRow, Removing,
     Before, FromInstall, FromUnits, FromGateway, FromWatcher, FromReady, HasAccount, PortFree,
     UserExists, p
<1>. QED
  BY <1>1, <1>3, <1>6, <1>7, <1>8, CommandStep

LEMMA StartWatcherKeeps ==
    ASSUME Serial, SerialInv, LifeInv', NEW j \in Job, NEW u \in User, u = Target(j),
           StartWatcher(j) \/ VerifyReadiness(j)
    PROVE  SerialInv'
<1>. DEFINE h == host[u]
<1>1. h \in Machines /\ UserInv(u)
  BY DEF SerialInv, LifeInv, WorldOK
<1>2. ASSUME NEW new, NEW from \in {"startWatcher", "ready"}, NEW to \in {"ready", "record"},
             Run(j, from, new, to), job[j].pc = from,
             /\ new.watcher /\ new.started = h.started /\ new.gateway = h.gateway
             /\ new.unit = h.unit /\ new.home = h.home /\ new.linger = h.linger
             /\ new.manager = h.manager
             /\ "gateway" \in new.enabled => "gateway" \in h.enabled
      PROVE  SerialInv'
  <2>1. Ports(u) \subseteq {job[j].port}
    BY <1>2, OwnPort DEF WithPort
  <2>2. PortsKept(u)'
    <3>1. Target(j)' = u /\ job'[j].pc \in Late /\ Ports(u)' \subseteq {job'[j].port}
      BY <1>2, <2>1, AtCommand DEF Ports, Late
    <3>. QED
      BY <3>1 DEF PortsKept
  <2>3. JobInv(j)'
    BY <1>2, AtCommand DEF JobInv, Purpose, AddInv, DownInv, WithPort, WithRow, Removing,
       Before, FromInstall, FromUnits, FromGateway, FromWatcher, FromReady, HasAccount, PortFree,
       UserExists
  <2>. QED
    BY <1>1, <1>2, <2>2, <2>3, CommandStep DEF UserInv, Agrees
<1>3. CASE StartWatcher(j)
  <2>. DEFINE w == [h EXCEPT !.watcher = TRUE, !.enabled = @ \cup {"watcher"}]
  <2>1. /\ w.watcher /\ w.started = h.started /\ w.gateway = h.gateway
        /\ w.unit = h.unit /\ w.home = h.home /\ w.linger = h.linger
        /\ w.manager = h.manager /\ w.enabled = h.enabled \cup {"watcher"}
    BY <1>1 DEF Machines
  <2>2. Run(j, "startWatcher", w, "ready") /\ job[j].pc = "startWatcher"
    BY <1>3 DEF StartWatcher, Machine, Run, At
  <2>. HIDE DEF w
  <2>. QED
    BY <1>2, <2>1, <2>2
<1>4. CASE VerifyReadiness(j)
  <2>1. Run(j, "ready", h, "record") /\ job[j].pc = "ready" /\ h.watcher
    BY <1>4 DEF VerifyReadiness, Machine, Run, At, SerialInv, JobInv, AddInv, FromReady
  <2>. QED
    BY <1>2, <2>1
<1>. QED
  BY <1>3, <1>4

-----------------------------------------------------------------------------
(* Commands of Deactivate and Remove, and commands that fail.              *)

\* A command that starts nothing.
LEMMA DownCommand ==
    ASSUME Serial, SerialInv, LifeInv', NEW j \in Job, NEW u \in User, u = Target(j),
           NEW from \in {"stop", "unlinger", "backup", "uninstall", "dropLinger", "userdel"},
           NEW to, NEW new, Run(j, from, new, to),
           new.started <=> new.gateway # 0, "gateway" \in new.enabled => new.unit # 0,
           new.started => host[u].started, new.watcher => host[u].watcher,
           new.linger => host[u].linger,
           {new.unit, new.gateway} \ {0} \subseteq Ports(u),
           Resting(u)' => JobInv(j)'
    PROVE  SerialInv'
<1>1. job[j].pc = from /\ UserInv(u) /\ JobInv(j)
  BY DEF Run, At, SerialInv
<1>2. Resting(u)
  BY <1>1 DEF JobInv, DownInv, Removing, WithRow, Resting
<1>3. Resting(u)'
  BY <1>2, AtCommand, RestingKept DEF Enabled
<1>4. PortsKept(u)'
  <2>1. Ports(u) \subseteq {users[u].port}
    BY <1>1 DEF UserInv, PortsKept, Serial, Late
  <2>2. UNCHANGED users /\ host'[u] = new
    BY AtCommand
  <2>. QED
    BY <2>1, <2>2 DEF PortsKept, Ports
<1>. QED
  BY <1>3, <1>4, CommandStep

LEMMA DownCommandsKeep ==
    ASSUME Serial, SerialInv, LifeInv', NEW j \in Job, NEW u \in User, u = Target(j),
           \/ StopServices(j) \/ DisableLinger(j) \/ BackUp(j) \/ Uninstall(j) \/ DeleteAccount(j)
    PROVE  SerialInv'
<1>. DEFINE h == host[u]
<1>1. /\ h \in Machines /\ (h.started <=> h.gateway # 0)
      /\ "gateway" \in h.enabled => h.unit # 0
  BY DEF SerialInv, LifeInv, WorldOK, UserInv, Agrees
<1>2. CASE StopServices(j)
  <2>. DEFINE down == GatewayDown(h)
              new == [down EXCEPT !.watcher = FALSE]
  <2>1. Run(j, "stop", new, "unlinger")
    BY <1>2 DEF StopServices, Machine
  <2>2. /\ down \in Machines /\ ~down.started /\ down.gateway = 0 /\ down.unit = h.unit
        /\ down.linger = h.linger /\ down.enabled = h.enabled
    BY <1>1, DownFields, MachineType
  <2>. HIDE DEF down
  <2>3. /\ ~new.started /\ new.gateway = 0 /\ new.unit = h.unit /\ ~new.watcher
        /\ new.linger = h.linger /\ new.enabled = h.enabled
    BY <2>2 DEF Machines
  <2>. HIDE DEF new
  <2>4. JobInv(j)'
    BY <2>1, <2>3, AtCommand DEF JobInv, Purpose, AddInv, DownInv, WithPort, WithRow, Removing,
       Before, FromInstall, FromUnits, FromGateway, FromWatcher, FromReady
  <2>. QED
    BY <1>1, <2>1, <2>3, <2>4, DownCommand DEF Ports
<1>3. CASE DisableLinger(j)
  <2>. DEFINE new == [h EXCEPT !.linger = FALSE]
  <2>1. /\ new.started = h.started /\ new.gateway = h.gateway /\ new.unit = h.unit
        /\ new.watcher = h.watcher /\ ~new.linger /\ new.enabled = h.enabled
        /\ new.archived = h.archived
    BY <1>1 DEF Machines
  <2>2. Run(j, "unlinger", new, "disable") \/ Run(j, "dropLinger", new, "userdel")
    BY <1>3 DEF DisableLinger, Machine
  <2>. HIDE DEF new
  <2>3. Resting(u)' => JobInv(j)'
    BY <2>1, <2>2, AtCommand DEF JobInv, Purpose, AddInv, DownInv, WithPort, WithRow, Removing,
       Before, FromInstall, FromUnits, FromGateway, FromWatcher, FromReady
  <2>. QED
    BY <1>1, <2>1, <2>2, <2>3, DownCommand DEF Ports
<1>4. CASE BackUp(j)
  <2>. DEFINE new == [h EXCEPT !.archived = TRUE]
  <2>1. /\ new.started = h.started /\ new.gateway = h.gateway /\ new.unit = h.unit
        /\ new.watcher = h.watcher /\ new.linger = h.linger /\ new.enabled = h.enabled
        /\ new.archived
    BY <1>1 DEF Machines
  <2>2. Run(j, "backup", new, "unroute")
    BY <1>4 DEF BackUp, Machine
  <2>. HIDE DEF new
  <2>3. Resting(u)' => JobInv(j)'
    BY <2>1, <2>2, AtCommand DEF JobInv, Purpose, AddInv, DownInv, WithPort, WithRow, Removing,
       Before, FromInstall, FromUnits, FromGateway, FromWatcher, FromReady
  <2>. QED
    BY <1>1, <2>1, <2>2, <2>3, DownCommand DEF Ports
<1>5. CASE Uninstall(j)
  <2>1. PICK after \in {h, GatewayDown(h)} :
            Run(j, "uninstall", [after EXCEPT !.home = "runtime"], "dropLinger")
    BY <1>5 DEF Uninstall, Machine
  <2>2. /\ after \in Machines /\ (after.started => h.started) /\ after.watcher = h.watcher
        /\ after.linger = h.linger /\ after.enabled = h.enabled /\ after.unit = h.unit
        /\ after.archived = h.archived /\ (after.started <=> after.gateway # 0)
        /\ after.gateway \in {0, h.gateway}
    BY <1>1, DownFields, MachineType
  <2>. DEFINE new == [after EXCEPT !.home = "runtime"]
  <2>3. /\ new.started = after.started /\ new.gateway = after.gateway /\ new.unit = h.unit
        /\ new.watcher = h.watcher /\ new.linger = h.linger /\ new.enabled = h.enabled
        /\ new.archived = h.archived
    BY <2>2 DEF Machines
  <2>. HIDE DEF new
  <2>4. Run(j, "uninstall", new, "dropLinger")
    BY <2>1 DEF new
  <2>5. Resting(u)' => JobInv(j)'
    BY <2>3, <2>4, AtCommand DEF JobInv, Purpose, AddInv, DownInv, WithPort, WithRow, Removing,
       Before, FromInstall, FromUnits, FromGateway, FromWatcher, FromReady
  <2>. QED
    BY <1>1, <2>2, <2>3, <2>4, <2>5, DownCommand DEF Ports
<1>6. CASE DeleteAccount(j)
  <2>1. Run(j, "userdel", NoAccount, "deleteRow")
    BY <1>6 DEF DeleteAccount
  <2>2. /\ NoAccount.home = "none" /\ ~NoAccount.started /\ NoAccount.gateway = 0
        /\ NoAccount.unit = 0 /\ ~NoAccount.watcher /\ ~NoAccount.linger
        /\ NoAccount.enabled = {}
    BY DEF NoAccount
  <2>3. Resting(u)' => JobInv(j)'
    BY <2>1, <2>2, AtCommand DEF JobInv, Purpose, AddInv, DownInv, WithPort, WithRow, Removing,
       Before, FromInstall, FromUnits, FromGateway, FromWatcher, FromReady, HasAccount
  <2>. QED
    BY <2>1, <2>2, <2>3, DownCommand DEF Ports
<1>. QED
  BY <1>2, <1>3, <1>4, <1>5, <1>6

\* Nothing but an allowed fault stops an Add that has started services.
LEMMA CommandFailsKeeps ==
    ASSUME Serial, SerialInv, LifeInv', NEW j \in Job, CommandFails(j)
    PROVE  SerialInv'
<1>1. /\ Finish(j, FALSE) /\ UNCHANGED <<users, routes, host, served>>
      /\ ~Feasible(j) \/ NotActive(j) \/ job[j].pc \in Faults
      /\ job[j].pc \in CommandSteps
  BY DEF CommandFails, Fault, storeVars
<1>2. PICK u \in User : u = Target(j)
  BY <1>1 DEF SerialInv, LifeInv, JobsOK, Coherent, Target, CommandSteps, TenantSteps
<1>3. UserInv(u) /\ AddInv(j)
  BY DEF SerialInv, JobInv
<1>4. job[j].pc \notin LateSteps
  <2>. SUFFICES ASSUME job[j].pc \in LateSteps PROVE FALSE
    OBVIOUS
  <2>1. job[j].pc \in FromInstall
    BY <1>1 DEF LateSteps, CommandSteps, TenantSteps, FromInstall, FromUnits, FromGateway,
                FromWatcher, FromReady
  <2>2. HasAccount(u) /\ host[u].manager
    BY <1>2, <1>3, <2>1 DEF AddInv
  <2>3. job[j].pc = "ready" => Ready(u) /\ host[u].gateway # 0
    <3>. SUFFICES ASSUME job[j].pc = "ready" PROVE Ready(u) /\ host[u].gateway # 0
      OBVIOUS
    <3>1. job[j].port # 0
      BY OwnPort, <1>2 DEF WithPort
    <3>. QED
      BY <1>2, <1>3, <3>1 DEF AddInv, Ready, FromUnits, FromGateway, FromWatcher, FromReady, UserInv,
         Agrees
  <2>4. UidFits(j)
    <3>1. /\ job[j].pc # "idle" /\ u = job[j].user
          /\ job[j].pc \in UidSteps => job[j].pc \in WithUid
      BY <1>2, <2>1 DEF FromInstall, FromUnits, FromGateway, FromWatcher, FromReady, UidSteps,
         WithUid, Target
    <3>2. /\ job[j].pc \in UidSteps => job[j].uid \in NewUid[u]
          /\ job[j].row # NoUser => job[j].row.uid \in NewUid[u]
          /\ Machine(j).uid \in NewUid[u]
      BY <1>2, <2>2, <3>1 DEF SerialInv, LifeInv, UidsOK, Machine
    <3>. QED
      BY <3>2 DEF UidFits, KnownUid, Serial
  <2>6. Feasible(j)
    BY <1>2, <2>2, <2>3, <2>1, <2>4 DEF Feasible, At, FromInstall, FromUnits, FromGateway,
       FromWatcher, FromReady
  <2>5. ~NotActive(j)
    BY <1>2, <2>3 DEF NotActive, At, Machine
  <2>. QED
    BY <1>1, <2>5, <2>6 DEF Serial
<1>5. job[j].pc \in Before \cup WithRow \cup Removing
  BY <1>1, <1>4 DEF CommandSteps, TenantSteps, LateSteps, Before, WithRow, Removing
<1>. QED
  BY <1>1, <1>5, FailStep

-----------------------------------------------------------------------------
(* Reads of state.db.                                                      *)

\* A step that changes nothing but where the operation stands.
LEMMA MoveOn ==
    ASSUME Serial, SerialInv, LifeInv', NEW j \in Job, NEW u \in User, u = Target(j),
           job[j].pc \in Before \cup Removing, Target(j)' = u,
           UNCHANGED <<users, routes, host, served, last>>,
           Resting(u)' => JobInv(j)'
    PROVE  SerialInv'
<1>1. UserInv(u) /\ Resting(u)
  BY DEF SerialInv, JobInv
<1>2. Resting(u)' /\ Agrees(u)'
  BY <1>1 DEF Resting, Quiet, Unserved, RoutesOf, Enabled, UserInv, Agrees, RouteExists,
              UserExists
<1>3. PortsKept(u)'
  BY <1>1 DEF UserInv, PortsKept, Ports, Serial, Before, Removing, Late
<1>4. UserInv(u)'
  BY <1>2, <1>3 DEF UserInv, Busy
<1>. QED
  BY <1>2, <1>4, OneUser

LEMMA ReadPreviousKeeps ==
    ASSUME Serial, SerialInv, LifeInv', NEW j \in Job, NEW u \in User, u = Target(j),
           ReadPrevious(j)
    PROVE  SerialInv'
<1>1. job[j].pc = "add" /\ Purpose(j)
  BY DEF ReadPrevious, At, SerialInv, JobInv
<1>2. /\ job'[j].pc = "port" /\ job'[j].row = users[u] /\ job'[j].op = job[j].op
      /\ job'[j].user = job[j].user
  BY DEF ReadPrevious, SerialInv, LifeInv, JobsOK, JobRecord
<1>3. UNCHANGED <<users, routes, host, served, last>>
  BY DEF ReadPrevious, storeVars
<1>4. Resting(u)' => JobInv(j)'
  BY <1>1, <1>2, <1>3 DEF JobInv, Purpose, AddInv, DownInv, WithPort, WithRow, Removing,
     FromInstall, FromUnits, FromGateway, FromWatcher, FromReady, Target
<1>. QED
  BY <1>1, <1>2, <1>3, <1>4, MoveOn DEF Target, Before

\* The port is the user's own, or one that no row holds.
LEMMA AllocatePortKeeps ==
    ASSUME Serial, SerialInv, LifeInv', NEW j \in Job, NEW u \in User, u = Target(j),
           AllocatePort(j)
    PROVE  SerialInv'
<1>. DEFINE p == IF job[j].row.port # 0 THEN job[j].row.port ELSE LowestFreePort
<1>1. job[j].pc = "port" /\ Purpose(j) /\ job[j].row = users[u]
  BY DEF AllocatePort, At, SerialInv, JobInv, AddInv
<1>2. PortFree(u, p) /\ (UserExists(u) => users[u].port = p)
  <2>1. CASE users[u].port # 0
    <3>1. p = users[u].port /\ UserExists(u)
      BY <1>1, <2>1, StoreAssumption
         DEF SerialInv, LifeInv, StoreTypeOK, UserExists, UserRow, NoUser
    <3>. QED
      BY <3>1 DEF SerialInv, LifeInv, Integrity, PortsDistinct, PortFree
  <2>2. CASE users[u].port = 0
    <3>1. ~UserExists(u) /\ p = LowestFreePort
      BY <1>1, <2>2, StoreAssumption
         DEF SerialInv, LifeInv, StoreTypeOK, UserExists, UserRow, NoUser
    <3>2. \A v \in User : users[v].port # LowestFreePort
      BY PortLeft DEF SerialInv, LifeInv
    <3>. QED
      BY <3>1, <3>2 DEF PortFree
  <2>. QED
    BY <2>1, <2>2
<1>. HIDE DEF p
<1>3. job' = [job EXCEPT ![j].pc = "useradd", ![j].port = p]
  BY DEF AllocatePort, p
<1>4. job'[j].pc = "useradd" /\ job'[j].port = p /\ job'[j].op = job[j].op
      /\ job'[j].user = job[j].user
  BY <1>3 DEF SerialInv, LifeInv, JobsOK, JobRecord
<1>5. UNCHANGED <<users, routes, host, served, last>>
  BY DEF AllocatePort, storeVars
<1>6. Resting(u)' => JobInv(j)'
  BY <1>1, <1>2, <1>4, <1>5 DEF JobInv, Purpose, AddInv, DownInv, WithPort, WithRow, Removing,
     FromInstall, FromUnits, FromGateway, FromWatcher, FromReady, Target, PortFree, UserExists
<1>. QED
  BY <1>1, <1>4, <1>5, <1>6, MoveOn DEF Target, Before

LEMMA ReadUserKeeps ==
    ASSUME Serial, SerialInv, LifeInv', NEW j \in Job, NEW u \in User, u = Target(j),
           ReadUser(j)
    PROVE  SerialInv'
<1>1. /\ job[j].pc \in {"activate", "deactivate", "remove"} /\ Purpose(j)
      /\ UNCHANGED <<users, routes, host, served>>
  BY DEF ReadUser, storeVars, SerialInv, JobInv
<1>2. users[u] \in UserRow \cup {NoUser} /\ UserInv(u) /\ Resting(u)
  BY <1>1 DEF SerialInv, LifeInv, StoreTypeOK, JobInv, Before
<1>3. ASSUME NEW step, Goto(j, step),
             \/ step = "add" /\ job[j].pc = "activate"
             \/ step = "deactivate" /\ job[j].pc = "remove"
             \/ step = "backup" /\ job[j].op = "remove" /\ users[u].status = "paused"
      PROVE  SerialInv'
  <2>1. /\ job'[j].pc = step /\ job'[j].op = job[j].op /\ Target(j)' = u /\ UNCHANGED last
        /\ job'[j].user = job[j].user
    BY <1>3, GotoFields DEF SerialInv
  <2>2. Resting(u)' => JobInv(j)'
    BY <1>1, <1>3, <2>1 DEF JobInv, Purpose, AddInv, DownInv, WithPort, WithRow, Removing,
       FromInstall, FromUnits, FromGateway, FromWatcher, FromReady
  <2>. QED
    BY <1>1, <2>1, <2>2, MoveOn DEF Before
<1>4. CASE ~UserExists(u) /\ Finish(j, FALSE)
  BY <1>1, <1>4, FailStep DEF Before
<1>5. CASE At(j, "activate") /\ UserExists(u) /\ Goto(j, "add")
  BY <1>3, <1>5 DEF At
<1>6. CASE /\ At(j, "deactivate") /\ users[u].status = "active"
           /\ job' = [job EXCEPT ![j].pc = "stop", ![j].row = users[u], ![j].uid = users[u].uid]
           /\ UNCHANGED last
  <2>1. /\ job'[j].pc = "stop" /\ job'[j].row = users[u] /\ job'[j].op = job[j].op
        /\ job'[j].user = job[j].user
    BY <1>6 DEF SerialInv, LifeInv, JobsOK, JobRecord
  <2>2. Resting(u)' => JobInv(j)'
    BY <1>1, <1>6, <2>1 DEF JobInv, Purpose, AddInv, DownInv, WithPort, WithRow, Removing, Before,
       FromInstall, FromUnits, FromGateway, FromWatcher, FromReady, Target, At
  <2>. QED
    BY <1>1, <1>6, <2>1, <2>2, MoveOn DEF Before, Target
<1>7. CASE /\ At(j, "deactivate") /\ users[u].status = "paused"
           /\ IF job[j].op = "remove" THEN Goto(j, "backup") ELSE Finish(j, TRUE)
  <2>1. CASE job[j].op = "remove"
    BY <1>3, <1>7, <2>1
  <2>2. CASE job[j].op # "remove"
    <3>1. Finish(j, TRUE) /\ job[j].op = "deactivate"
      BY <1>1, <1>7, <2>2 DEF Purpose, At
    <3>2. last'[u].op = "deactivate"
      BY <1>1, <3>1, FinishedOp
    <3>3. Resting(u)' /\ Agrees(u)' /\ Ports(u) \subseteq {users'[u].port}
      BY <1>1, <1>2 DEF Resting, Quiet, Unserved, RoutesOf, Enabled, UserInv, Agrees, RouteExists,
              UserExists, PortsKept, Serial, Late
    <3>4. Succeeded(u)'
      BY <1>1, <1>7, <3>2 DEF Succeeded
    <3>. QED
      BY <1>1, <3>1, <3>3, <3>4, EndStep
  <2>. QED
    BY <2>1, <2>2
<1>8. CASE /\ At(j, "remove") /\ UserExists(u)
           /\ Goto(j, IF users[u].status = "active" THEN "deactivate" ELSE "backup")
  <2>1. CASE users[u].status = "active"
    BY <1>3, <1>8, <2>1 DEF At
  <2>2. CASE users[u].status # "active"
    <3>1. users[u].status = "paused" /\ job[j].op = "remove" /\ Goto(j, "backup")
      BY <1>1, <1>2, <1>8, <2>2 DEF UserRow, NoUser, UserExists, Purpose, At
    <3>. QED
      BY <1>3, <3>1
  <2>. QED
    BY <2>1, <2>2
<1>. QED
  BY <1>4, <1>5, <1>6, <1>7, <1>8 DEF ReadUser

-----------------------------------------------------------------------------
(* Rows of state.db.                                                       *)

LEMMA RecordActiveKeeps ==
    ASSUME Serial, SerialInv, LifeInv', NEW j \in Job, NEW u \in User, u = Target(j),
           RecordActive(j)
    PROVE  SerialInv'
<1>. DEFINE p == job[j].port
<1>1. job[j].pc = "record" /\ Purpose(j) /\ AddInv(j) /\ UserInv(u)
  BY DEF RecordActive, At, SerialInv, JobInv
<1>2. /\ users'[u] = ActiveRow(p, job[j].uid) /\ \A v \in User \ {u} : users'[v] = users[v]
      /\ UNCHANGED <<routes, host, served>>
  BY DEF RecordActive, UpsertUser, SerialInv, LifeInv, StoreTypeOK
<1>3. /\ job'[j].pc = "route" /\ job'[j].op = job[j].op /\ job'[j].user = job[j].user
      /\ job'[j].port = p /\ job'[j].uid = job[j].uid /\ Target(j)' = u /\ UNCHANGED last
  BY GotoFields DEF RecordActive, SerialInv
<1>4. ActiveRow(p, job[j].uid).port = p /\ ActiveRow(p, job[j].uid).status = "active"
  BY DEF ActiveRow
<1>5. Ports(u) \subseteq {p} /\ PortFree(u, p)
  BY <1>1, OwnPort DEF WithPort
<1>6. UserExists(u) => users[u].port = p
  BY <1>1 DEF AddInv, WithPort
<1>7. UserInv(u)'
  <2>1. RouteExists(GatewayId[u]) => UserExists(u)
    BY StoreAssumption DEF SerialInv, LifeInv, Integrity, OwnersExist
  <2>2. Agrees(u)'
    BY <1>1, <1>2, <1>4, <1>6, <2>1 DEF UserInv, Agrees, RouteExists, UserExists
  <2>3. PortsKept(u)'
    BY <1>2, <1>4, <1>5 DEF PortsKept, Ports
  <2>. QED
    BY <1>3, <2>2, <2>3 DEF UserInv, Busy
<1>8. JobInv(j)'
  BY <1>1, <1>2, <1>3, <1>4, <1>5 DEF JobInv, Purpose, AddInv, DownInv, WithPort, WithRow, Removing,
     Before, FromInstall, FromUnits, FromGateway, FromWatcher, FromReady, HasAccount, PortFree
<1>. QED
  BY <1>2, <1>3, <1>7, <1>8, OneUser

LEMMA RecordPausedKeeps ==
    ASSUME Serial, SerialInv, LifeInv', NEW j \in Job, NEW u \in User, u = Target(j),
           RecordPaused(j)
    PROVE  SerialInv'
<1>. DEFINE paused == [job[j].row EXCEPT !.status = "paused", !.linger = FALSE]
<1>1. job[j].pc = "pause" /\ Purpose(j) /\ DownInv(j) /\ UserInv(u)
  BY DEF RecordPaused, At, SerialInv, JobInv
<1>2. /\ users'[u] = paused /\ \A v \in User \ {u} : users'[v] = users[v]
      /\ UNCHANGED <<routes, host, served>>
  BY DEF RecordPaused, UpsertUser, SerialInv, LifeInv, StoreTypeOK
<1>3. job[j].row = users[u] /\ job[j].row \in UserRow
  BY <1>1 DEF DownInv, WithRow, SerialInv, LifeInv, JobsOK, Coherent
<1>4. paused.status = "paused" /\ paused.port = users[u].port
  BY <1>3 DEF UserRow
<1>. HIDE DEF paused
<1>5. Resting(u)' /\ Agrees(u)'
  <2>1. /\ ~host[u].started /\ ~host[u].watcher /\ ~host[u].linger
        /\ Unserved(u) /\ \A id \in RoutesOf(u) : ~Enabled(id)
    BY <1>1 DEF DownInv, WithRow
  <2>2. Resting(u)'
    BY <1>2, <1>4, <2>1 DEF Resting, Quiet, Unserved, Enabled, RoutesOf
  <2>3. Agrees(u)'
    BY <1>1, <1>2, <1>4 DEF UserInv, Agrees, RouteExists, UserExists
  <2>. QED
    BY <2>2, <2>3
<1>6. Ports(u) \subseteq {users'[u].port}
  BY <1>1, <1>2, <1>4 DEF UserInv, PortsKept, Serial, Late
<1>7. CASE job[j].op = "remove"
  <2>1. /\ job'[j].pc = "backup" /\ job'[j].op = job[j].op /\ job'[j].user = job[j].user
        /\ Target(j)' = u /\ UNCHANGED last
    BY <1>7, GotoFields DEF RecordPaused, SerialInv
  <2>2. UserInv(u)'
    <3>1. PortsKept(u)'
      BY <1>2, <1>6 DEF PortsKept, Ports
    <3>. QED
      BY <1>5, <2>1, <3>1 DEF UserInv, Busy
  <2>3. JobInv(j)'
    BY <1>2, <1>4, <1>5, <1>7, <2>1 DEF JobInv, Purpose, AddInv, DownInv, WithPort, WithRow,
       Removing, Before, FromInstall, FromUnits, FromGateway, FromWatcher, FromReady
  <2>. QED
    BY <1>2, <2>1, <2>2, <2>3, OneUser
<1>8. CASE job[j].op # "remove"
  <2>1. Finish(j, TRUE) /\ job[j].op = "deactivate"
    BY <1>1, <1>8 DEF RecordPaused, Purpose, WithRow
  <2>2. last'[u].op = "deactivate"
    BY <1>1, <2>1, FinishedOp
  <2>3. Succeeded(u)'
    BY <1>2, <1>4, <2>2 DEF Succeeded
  <2>. QED
    BY <1>1, <1>2, <1>5, <1>6, <2>1, <2>3, EndStep
<1>. QED
  BY <1>7, <1>8

\* The row goes when the account is gone and its routes are not served.
LEMMA DeleteUserRowKeeps ==
    ASSUME Serial, SerialInv, LifeInv', NEW j \in Job, NEW u \in User, u = Target(j),
           DeleteUserRow(j)
    PROVE  SerialInv'
<1>1. /\ job[j].pc = "deleteRow" /\ Purpose(j) /\ DownInv(j) /\ UserInv(u) /\ Resting(u)
      /\ Finish(j, TRUE)
  BY DEF DeleteUserRow, At, SerialInv, JobInv, Removing
<1>2. /\ users'[u] = NoUser /\ \A v \in User \ {u} : users'[v] = users[v]
      /\ UNCHANGED <<host, served>>
      /\ \A id \in RoutesOf(u) : routes'[id] = NoRoute
      /\ \A id \in RouteId \ RoutesOf(u) : routes'[id] = routes[id]
  BY DEF DeleteUserRow, DeleteUser, SerialInv, LifeInv, StoreTypeOK, RoutesOf
<1>3. Quiet(u) /\ ~host[u].linger /\ ~HasAccount(u) /\ host[u].unit = 0
  BY <1>1 DEF DownInv, Removing, Resting
<1>4. GatewayId[u] \in RoutesOf(u)
  BY StoreAssumption DEF RoutesOf
<1>5. Resting(u)'
  BY <1>2, <1>3 DEF Resting, Quiet, Unserved, Enabled, RoutesOf, NoRoute, NoUser
<1>6. Agrees(u)'
  <2>1. \A rule \in served : rule.id # GatewayId[u]
    BY <1>3, StoreAssumption DEF Quiet, Unserved
  <2>. QED
    BY <1>1, <1>2, <1>4, <2>1 DEF UserInv, Agrees, RouteExists, NoRoute
<1>7. Ports(u) \subseteq {users'[u].port}
  BY <1>1, <1>3 DEF Ports, UserInv, Agrees, Quiet
<1>8. Succeeded(u)'
  <2>1. last'[u].op = "remove"
    BY <1>1, FinishedOp DEF Purpose, Removing
  <2>. QED
    BY <1>2, <1>3, <2>1 DEF Succeeded, UserExists, HasAccount, NoUser
<1>. QED
  BY <1>1, <1>2, <1>5, <1>6, <1>7, <1>8, EndStep

LEMMA StatementFailsKeeps ==
    ASSUME Serial, SerialInv, LifeInv', NEW j \in Job, StatementFails(j)
    PROVE  SerialInv'
<1>1. /\ Finish(j, FALSE) /\ UNCHANGED <<users, routes, host, served>>
      /\ job[j].pc \in {"record", "pause", "deleteRow"}
      /\ job[j].pc = "record" => ~PortFree(Target(j), job[j].port) \/ job[j].pc \in Faults
  BY DEF StatementFails, Fault, At, storeVars
<1>2. job[j].pc # "record"
  <2>. SUFFICES ASSUME job[j].pc = "record" PROVE FALSE
    OBVIOUS
  <2>1. PortFree(Target(j), job[j].port)
    BY DEF SerialInv, JobInv, AddInv, WithPort
  <2>. QED
    BY <1>1, <2>1 DEF Serial, LateSteps
<1>. QED
  BY <1>1, <1>2, FailStep DEF WithRow, Removing

-----------------------------------------------------------------------------
(* Calls of the daemon.                                                    *)

\* Withdrawing routes keeps what remains of them on the user's port.
LEMMA RoutesDown ==
    ASSUME Serial, SerialInv, NEW j \in Job, NEW u \in User, u = Target(j),
           job[j].pc \in {"disable", "unroute"}, RouteStatement(j),
           UNCHANGED host, served' \in {served, Rendering(routes')}
    PROVE  /\ UNCHANGED users /\ Ports(u) \subseteq {users[u].port}
           /\ \A id \in RouteId \ RoutesOf(u) : routes'[id] = routes[id]
           /\ job[j].pc = "disable" => \A id \in RoutesOf(u) : ~Enabled(id)'
           /\ Resting(u)' /\ Agrees(u)'
<1>1. UserInv(u) /\ JobInv(j)
  BY DEF SerialInv
<1>2. GatewayId[u] \in RoutesOf(u) /\ GatewayId[u] \in RouteId
  BY StoreAssumption DEF RoutesOf
<1>3. routes \in [RouteId -> RouteRow \cup {NoRoute}]
  BY DEF SerialInv, LifeInv, StoreTypeOK
<1>4. /\ UNCHANGED users
      /\ \A id \in RouteId \ RoutesOf(u) : routes'[id] = routes[id]
      /\ \A id \in RoutesOf(u) : Enabled(id)' => Enabled(id)
      /\ job[j].pc = "disable" => \A id \in RoutesOf(u) : ~Enabled(id)'
      /\ RouteExists(GatewayId[u])' => RouteExists(GatewayId[u])
      /\ RouteExists(GatewayId[u])' => routes'[GatewayId[u]].port = routes[GatewayId[u]].port
  <2>1. CASE job[j].pc = "disable"
    <3>1. /\ UNCHANGED users
          /\ routes' = [id \in RouteId |->
                         IF Owner[id] = u /\ RouteExists(id)
                         THEN [routes[id] EXCEPT !.state = "disabled"] ELSE routes[id]]
      BY <2>1 DEF RouteStatement, At, SetRoutesEnabled
    <3>. QED
      BY <1>2, <1>3, <2>1, <3>1 DEF RoutesOf, Enabled, RouteExists, RouteRow, NoRoute
  <2>2. CASE job[j].pc = "unroute"
    <3>1. /\ UNCHANGED users
          /\ routes' \in {routes, [routes EXCEPT ![GatewayId[u]] = NoRoute]}
      BY <2>2 DEF RouteStatement, At, DeleteRoute, storeVars
    <3>. QED
      BY <1>2, <1>3, <2>2, <3>1 DEF RoutesOf, Enabled, RouteExists, NoRoute
  <2>. QED
    BY <2>1, <2>2
<1>5. Ports(u) \subseteq {users[u].port}
  BY <1>1 DEF UserInv, PortsKept, Serial, Late
<1>6. Resting(u)'
  <2>1. Resting(u)
    BY <1>1 DEF JobInv, DownInv, WithRow, Removing, Resting
  <2>. QED
    BY <1>4, <2>1, RestingKept
<1>7. ASSUME NEW rule \in served', rule.id = GatewayId[u]
      PROVE  UserExists(u) /\ rule.port = users[u].port
  <2>1. CASE rule \in served
    BY <1>1, <1>7, <2>1 DEF UserInv, Agrees
  <2>2. CASE rule \in Rendering(routes')
    <3>1. PICK id \in RouteId : routes'[id].state = "enabled" /\ rule = [id |-> id, port |-> routes'[id].port]
      BY <2>2, Rendered
    <3>2. id = GatewayId[u] /\ RouteExists(id)' /\ rule.port = routes'[id].port
      BY <1>7, <3>1 DEF RouteExists
    <3>3. RouteExists(GatewayId[u]) /\ rule.port = users[u].port
      BY <1>1, <1>4, <3>2 DEF UserInv, Agrees
    <3>. QED
      BY <3>3, StoreAssumption DEF SerialInv, LifeInv, Integrity, OwnersExist
  <2>. QED
    BY <2>1, <2>2
<1>8. Agrees(u)'
  BY <1>1, <1>4, <1>7 DEF UserInv, Agrees, UserExists
<1>. QED
  BY <1>4, <1>5, <1>6, <1>8

LEMMA RouteCallKeeps ==
    ASSUME Serial, SerialInv, LifeInv', NEW j \in Job, NEW u \in User, u = Target(j),
           RouteCall(j)
    PROVE  SerialInv'
<1>1. /\ UserInv(u) /\ JobInv(j) /\ Purpose(j) /\ AddInv(j) /\ DownInv(j)
      /\ UNCHANGED host /\ served' = Rendering(routes') /\ RouteStatement(j)
      /\ job[j].pc \in {"route", "disable", "unroute"}
  BY DEF SerialInv, JobInv, RouteCall, RouteStatement, At
<1>2. GatewayId[u] \in RoutesOf(u) /\ GatewayId[u] \in RouteId
  BY StoreAssumption DEF RoutesOf
<1>3. CASE job[j].pc = "route"
  <2>. DEFINE p == job[j].port
              g == GatewayId[u]
  <2>1. /\ UNCHANGED users
        /\ routes'[g] = [state |-> "enabled", port |-> p]
        /\ \A id \in RouteId \ RoutesOf(u) : routes'[id] = routes[id]
        /\ Finish(j, TRUE)
    BY <1>1, <1>2, <1>3
       DEF RouteStatement, RouteCall, At, UpsertRoute, SerialInv, LifeInv, StoreTypeOK
  <2>2. users[u] = ActiveRow(p, job[j].uid) /\ users[u].status = "active" /\ users[u].port = p
    BY <1>1, <1>3 DEF AddInv, ActiveRow
  <2>3. Ports(u) \subseteq {p} /\ p # 0
    BY <1>3, OwnPort DEF WithPort
  <2>4. Resting(u)'
    BY <2>1, <2>2 DEF Resting
  <2>5. Agrees(u)'
    <3>1. \A rule \in served' : rule.id = g => rule.port = p
      BY <1>1, <2>1, Rendered
    <3>. QED
      BY <1>1, <2>1, <2>2, <3>1 DEF UserInv, Agrees, UserExists
  <2>6. Succeeded(u)'
    <3>1. last'[u].op \in {"add", "activate"}
      BY <1>1, <1>3, <2>1, FinishedOp DEF Purpose, WithPort
    <3>2. /\ host[u].home = "onboarded" /\ host[u].unit = p /\ host[u].started
          /\ host[u].watcher /\ host[u].linger
      BY <1>1, <1>3 DEF AddInv, FromInstall, FromUnits, FromGateway, FromWatcher, FromReady
    <3>3. host[u].gateway = p
      BY <1>1, <2>3, <3>2 DEF UserInv, Agrees, Ports
    <3>4. [id |-> g, port |-> p] \in served'
      BY <1>1, <1>2, <2>1 DEF Rendering
    <3>5. Running(u)'
      BY <1>1, <2>1, <2>2, <2>3, <3>2, <3>3, <3>4 DEF Running, Ready
    <3>. QED
      BY <2>1, <2>2, <3>1, <3>5 DEF Succeeded
  <2>. QED
    BY <1>1, <1>3, <2>1, <2>2, <2>3, <2>4, <2>5, <2>6, EndStep
<1>4. ASSUME job[j].pc \in {"disable", "unroute"}, NEW step, Goto(j, step), Resting(u)' => JobInv(j)'
      PROVE  SerialInv'
  <2>1. /\ UNCHANGED users /\ Ports(u) \subseteq {users[u].port}
        /\ \A id \in RouteId \ RoutesOf(u) : routes'[id] = routes[id]
        /\ Resting(u)' /\ Agrees(u)'
    BY <1>1, <1>4, RoutesDown
  <2>2. Target(j)' = u /\ UNCHANGED last
    BY <1>4, GotoFields DEF SerialInv
  <2>3. PortsKept(u)'
    BY <1>1, <2>1 DEF PortsKept, Ports
  <2>4. UserInv(u)'
    BY <2>1, <2>2, <2>3 DEF UserInv, Busy
  <2>. QED
    BY <1>1, <1>4, <2>1, <2>2, <2>4, OneUser
<1>5. CASE job[j].pc = "disable"
  <2>1. /\ job'[j].pc = "pause" /\ job'[j].op = job[j].op /\ job'[j].user = job[j].user
        /\ job'[j].row = job[j].row /\ Target(j)' = u /\ Goto(j, "pause")
    BY <1>5, GotoFields DEF RouteCall, At, SerialInv
  <2>2. UNCHANGED users /\ \A id \in RoutesOf(u) : ~Enabled(id)'
    BY <1>1, <1>5, RoutesDown
  <2>3. Unserved(u)'
    <3>1. \A rule \in Rendering(routes') : Owner[rule.id] # u
      BY <2>2, Rendered DEF Enabled, RoutesOf
    <3>. QED
      BY <1>1, <3>1 DEF Unserved
  <2>4. JobInv(j)'
    BY <1>1, <1>5, <2>1, <2>2, <2>3 DEF JobInv, Purpose, AddInv, DownInv, WithPort, WithRow,
       Removing, Before, FromInstall, FromUnits, FromGateway, FromWatcher, FromReady, RoutesOf
  <2>. QED
    BY <1>4, <1>5, <2>1, <2>4
<1>6. CASE job[j].pc = "unroute"
  <2>1. /\ job'[j].pc = "uninstall" /\ job'[j].op = job[j].op /\ job'[j].user = job[j].user
        /\ Target(j)' = u /\ Goto(j, "uninstall")
    BY <1>6, GotoFields DEF RouteCall, At, SerialInv
  <2>2. UNCHANGED users
    BY <1>1, <1>6, RoutesDown
  <2>3. Resting(u)' => JobInv(j)'
    BY <1>1, <1>6, <2>1, <2>2 DEF JobInv, Purpose, AddInv, DownInv, WithPort, WithRow,
       Removing, Before, FromInstall, FromUnits, FromGateway, FromWatcher, FromReady
  <2>. QED
    BY <1>4, <1>6, <2>1, <2>3
<1>. QED
  BY <1>1, <1>3, <1>5, <1>6

\* The daemon refuses no route of an Add: the row is there, and the hostname is
\* the user's own.
LEMMA RouteCallFailsKeeps ==
    ASSUME Serial, SerialInv, LifeInv', NEW j \in Job, NEW u \in User, u = Target(j),
           RouteCallFails(j)
    PROVE  SerialInv'
<1>1. UserInv(u) /\ AddInv(j) /\ DownInv(j) /\ UNCHANGED host
  BY DEF SerialInv, JobInv, RouteCallFails
<1>2. job[j].pc # "route"
  <2>. SUFFICES ASSUME job[j].pc = "route" PROVE FALSE
    OBVIOUS
  <2>1. "route" \notin Faults
    BY DEF Serial, LateSteps
  <2>2. UserExists(u)
    BY <1>1 DEF AddInv, ActiveRow, UserExists
  <2>3. HostFree(GatewayId[u])
    BY StoreAssumption DEF HostFree, Serial
  <2>. QED
    BY <2>1, <2>2, <2>3 DEF RouteCallFails, RouteRefused, Fault, At
<1>3. Finish(j, FALSE) /\ job[j].pc \in {"disable", "unroute"}
  BY <1>2 DEF RouteCallFails, RouteRefused, At
<1>4. CASE UNCHANGED <<storeVars, served>>
  <2>1. UNCHANGED <<users, routes, host, served>>
    BY <1>1, <1>4 DEF storeVars
  <2>. QED
    BY <1>3, <2>1, FailStep DEF WithRow, Removing
<1>5. CASE RouteStatement(j) /\ served' \in {served, Rendering(routes')}
  <2>1. /\ UNCHANGED users /\ Ports(u) \subseteq {users[u].port}
        /\ \A id \in RouteId \ RoutesOf(u) : routes'[id] = routes[id]
        /\ Resting(u)' /\ Agrees(u)'
    BY <1>1, <1>3, <1>5, RoutesDown
  <2>. QED
    BY <1>1, <1>3, <1>5, <2>1, EndStep
<1>. QED
  BY <1>3, <1>4, <1>5 DEF RouteCallFails

-----------------------------------------------------------------------------
(* What else changes the machine and the routes.                           *)

\* A machine changes on its own.
LEMMA MachineStep ==
    ASSUME SerialInv, LifeInv', NEW u \in User, NEW h, h = host[u],
           NEW new, host' = [host EXCEPT ![u] = new],
           UNCHANGED <<users, routes, served, job, last>>,
           new.home = h.home, new.linger = h.linger, new.unit = h.unit, new.enabled = h.enabled,
           new.started <=> new.gateway # 0, new.gateway \in {0, h.gateway},
           new.started => h.started, new.watcher => h.watcher,
           h.linger => /\ (h.manager => new.manager) /\ (h.started => new.started)
                       /\ (h.watcher => new.watcher) /\ new.gateway = h.gateway,
           h.archived => new.archived \/ h.gateway # 0
    PROVE  SerialInv'
<1>1. host'[u] = new /\ \A v \in User \ {u} : host'[v] = host[v]
  BY DEF SerialInv, LifeInv, WorldOK
<1>2. ASSUME NEW v \in User PROVE Resting(v) => Resting(v)'
  <2>1. /\ host'[v].started => host[v].started
        /\ host'[v].watcher => host[v].watcher
        /\ host'[v].linger => host[v].linger
    BY <1>1
  <2>. QED
    BY <2>1, RestingKept DEF Enabled
<1>3. ASSUME NEW v \in User \ {u} PROVE UserInv(v)'
  <2>1. UserInv(v)
    BY DEF SerialInv
  <2>2. Agrees(v)'
    BY <1>1, AgreesKept
  <2>3. PortsKept(v)'
    BY <1>1, <2>1 DEF UserInv, PortsKept, Ports, Target
  <2>4. Succeeded(v) => Succeeded(v)'
    BY <1>1, SucceededKept
  <2>. QED
    BY <1>2, <2>1, <2>2, <2>3, <2>4 DEF UserInv, Busy, Target
<1>4. UserInv(u)'
  <2>1. UserInv(u)
    BY DEF SerialInv
  <2>2. Agrees(u)' /\ PortsKept(u)'
    BY <1>1, <2>1 DEF UserInv, Agrees, PortsKept, Ports, RouteExists, UserExists, Target
  <2>3. Succeeded(u) => Succeeded(u)'
    BY <1>1 DEF Succeeded, Running, Ready, HasAccount, UserExists
  <2>. QED
    BY <1>2, <2>1, <2>2, <2>3 DEF UserInv, Busy, Target
<1>5. ASSUME NEW k \in Job PROVE JobInv(k)'
  <2>1. JobInv(k) /\ (Target(k) \in User \/ job[k].pc = "idle")
    BY DEF SerialInv, LifeInv, JobsOK, Coherent, Target
  <2>2. CASE job[k].pc = "idle"
    BY <2>1, <2>2 DEF JobInv, Purpose, AddInv, DownInv, WithPort, WithRow, Removing, Before,
       FromInstall, FromUnits, FromGateway, FromWatcher, FromReady
  <2>3. CASE Target(k) \in User \ {u}
    BY <1>1, <1>2, <2>1, <2>3 DEF JobInv, Purpose, AddInv, DownInv, Target, PortFree, UserExists,
       HasAccount, Unserved, Enabled, RoutesOf
  <2>4. CASE Target(k) = u
    <3>1. job[k].pc \in {"unroute", "uninstall", "dropLinger", "userdel"} => h.gateway = 0
      BY <2>1, <2>4 DEF JobInv, DownInv, Removing, Resting, Quiet, SerialInv, UserInv, Agrees
    <3>. QED
      BY <1>1, <1>2, <2>1, <2>4, <3>1 DEF JobInv, Purpose, AddInv, DownInv, Target, PortFree,
         UserExists, HasAccount, Unserved, Enabled, RoutesOf, FromInstall, FromUnits, FromGateway,
         FromWatcher, FromReady, WithRow, Removing
  <2>. QED
    BY <2>1, <2>2, <2>3, <2>4
<1>. QED
  BY <1>3, <1>4, <1>5 DEF SerialInv

LEMMA MachineKeeps ==
    ASSUME SerialInv, LifeInv', NEW u \in User,
           TenantWrites(u) \/ GatewayRetries(u) \/ ManagerStops(u)
    PROVE  SerialInv'
<1>. DEFINE h == host[u]
<1>1. h \in Machines /\ (h.started <=> h.gateway # 0)
  BY DEF SerialInv, LifeInv, WorldOK, UserInv, Agrees
<1>2. CASE TenantWrites(u)
  <2>. DEFINE new == [h EXCEPT !.archived = FALSE]
  <2>1. /\ host' = [host EXCEPT ![u] = new] /\ h.gateway # 0
        /\ UNCHANGED <<users, routes, served, job, last>>
    BY <1>2 DEF TenantWrites, storeVars
  <2>2. /\ new.home = h.home /\ new.linger = h.linger /\ new.unit = h.unit
        /\ new.enabled = h.enabled /\ new.started = h.started /\ new.gateway = h.gateway
        /\ new.watcher = h.watcher /\ new.manager = h.manager
    BY <1>1 DEF Machines
  <2>. HIDE DEF new
  <2>. QED
    BY <1>1, <2>1, <2>2, MachineStep
<1>3. CASE GatewayRetries(u)
  BY <1>1, <1>3 DEF GatewayRetries
<1>4. CASE ManagerStops(u)
  <2>. DEFINE down == GatewayDown(h)
              new == [down EXCEPT !.manager = FALSE, !.watcher = FALSE]
  <2>1. /\ host' = [host EXCEPT ![u] = new] /\ ~h.linger
        /\ UNCHANGED <<users, routes, served, job, last>>
    BY <1>4 DEF ManagerStops, storeVars
  <2>2. /\ down \in Machines /\ ~down.started /\ down.gateway = 0 /\ down.home = h.home
        /\ down.linger = h.linger /\ down.unit = h.unit /\ down.enabled = h.enabled
        /\ down.archived = h.archived
    BY <1>1, DownFields, MachineType
  <2>. HIDE DEF down
  <2>3. /\ ~new.started /\ new.gateway = 0 /\ new.home = h.home /\ ~new.watcher
        /\ new.linger = h.linger /\ new.unit = h.unit /\ new.enabled = h.enabled
        /\ new.archived = h.archived
    BY <2>2 DEF Machines
  <2>. HIDE DEF new
  <2>. QED
    BY <1>1, <2>1, <2>3, MachineStep
<1>. QED
  BY <1>2, <1>3, <1>4

\* A watcher runs for an active user, and leaves the hostname of a user alone.
LEMMA WatcherKeeps ==
    ASSUME SerialInv, LifeInv', NEW id \in PluginId,
           (\E port \in Port : WatcherPublishes(id, port)) \/ WatcherRetires(id)
    PROVE  SerialInv'
<1>1. /\ UNCHANGED <<users, host, job, last>> /\ served' = Rendering(routes')
      /\ host[Owner[id]].watcher
      /\ \A other \in RouteId \ {id} : routes'[other] = routes[other]
  BY DEF WatcherPublishes, WatcherRetires, UpsertRoute, DeleteRoute, SerialInv, LifeInv, StoreTypeOK
<1>2. \A v \in User : routes'[GatewayId[v]] = routes[GatewayId[v]]
  BY <1>1, StoreAssumption DEF PluginId
<1>3. ASSUME NEW v \in User, Quiet(v) PROVE Quiet(v)'
  <2>1. v # Owner[id]
    BY <1>1, <1>3 DEF Quiet
  <2>2. \A other \in RoutesOf(v) : routes'[other] = routes[other]
    BY <1>1, <2>1 DEF RoutesOf
  <2>. QED
    BY <1>1, <1>3, <2>2, QuietKept DEF Enabled
<1>4. ASSUME NEW v \in User PROVE Resting(v) => Resting(v)'
  BY <1>1, <1>3 DEF Resting
<1>5. ASSUME NEW v \in User PROVE UserInv(v)'
  <2>1. UserInv(v)
    BY DEF SerialInv
  <2>2. Agrees(v)'
    BY <1>1, <1>2, AgreesKept
  <2>3. PortsKept(v)'
    BY <1>1, <2>1 DEF UserInv, PortsKept, Ports, Target
  <2>4. Succeeded(v) => Succeeded(v)'
    BY <1>1, <1>2, SucceededKept
  <2>. QED
    BY <1>1, <1>4, <2>1, <2>2, <2>3, <2>4 DEF UserInv, Busy, Target
<1>6. ASSUME NEW k \in Job PROVE JobInv(k)'
  <2>1. JobInv(k) /\ (Target(k) \in User \/ job[k].pc = "idle")
    BY DEF SerialInv, LifeInv, JobsOK, Coherent, Target
  <2>2. CASE job[k].pc = "idle"
    BY <1>1, <2>1, <2>2 DEF JobInv, Purpose, AddInv, DownInv, WithPort, WithRow, Removing, Before,
       FromInstall, FromUnits, FromGateway, FromWatcher, FromReady
  <2>3. CASE Target(k) \in User
    <3>1. job[k].pc = "pause" => Quiet(Target(k))
      BY <2>1 DEF JobInv, DownInv, Quiet, WithRow
    <3>2. Target(k)' = Target(k)
      BY <1>1 DEF Target
    <3>3. job[k].pc = "pause" => Quiet(Target(k))'
      BY <1>3, <2>3, <3>1, <3>2
    <3>4. DownInv(k)'
      BY <1>1, <2>1, <3>2, <3>3 DEF JobInv, DownInv, Quiet, HasAccount
    <3>5. Purpose(k)' /\ AddInv(k)'
      BY <1>1, <2>1, <3>2 DEF JobInv, Purpose, AddInv, PortFree, UserExists, HasAccount
    <3>6. job'[k].pc \in Before \cup Removing => Resting(Target(k))'
      BY <1>1, <1>4, <2>1, <2>3, <3>2 DEF JobInv
    <3>. QED
      BY <3>4, <3>5, <3>6 DEF JobInv
  <2>. QED
    BY <2>1, <2>2, <2>3
<1>. QED
  BY <1>5, <1>6 DEF SerialInv

-----------------------------------------------------------------------------
LEMMA StartKeeps ==
    ASSUME Serial, SerialInv, LifeInv', NEW j \in Job, NEW op \in Operations, NEW u \in User,
           Start(j, op, u)
    PROVE  SerialInv'
<1>1. job[j].pc = "idle" /\ Target(j) = "none" /\ UserInv(u) /\ "none" \notin User
  BY LifecycleAssumption DEF Start, At, SerialInv, JobInv, Purpose, Target
<1>2. job'[j].pc = op /\ job'[j].op = op /\ Target(j)' = u
  BY DEF Start, Free, SerialInv, LifeInv, JobsOK, Target
<1>3. UNCHANGED <<users, routes, host, served, last>>
  BY DEF Start, storeVars
<1>4. ~Busy(u)
  BY <1>1 DEF Busy, Serial
<1>5. Resting(u)' /\ Agrees(u)'
  BY <1>1, <1>3, <1>4 DEF Resting, Quiet, Unserved, RoutesOf, Enabled, UserInv, Agrees,
     RouteExists, UserExists
<1>6. PortsKept(u)'
  BY <1>1, <1>3 DEF UserInv, PortsKept, Ports, Serial, Late
<1>7. UserInv(u)'
  BY <1>2, <1>5, <1>6 DEF UserInv, Busy
<1>8. JobInv(j)'
  BY <1>2, <1>5 DEF Operations, JobInv, Purpose, AddInv, DownInv, WithPort, WithRow, Removing,
     Before, FromInstall, FromUnits, FromGateway, FromWatcher, FromReady
<1>. QED
  BY <1>1, <1>2, <1>3, <1>7, <1>8, OneUser

LEMMA JobKeeps ==
    ASSUME Serial, SerialInv, LifeInv', NEW j \in Job, JobStep(j)
    PROVE  SerialInv'
<1>1. job[j].pc # "idle"
  BY DEF JobStep, AddStep, DownStep, ReadPrevious, AllocatePort, CreateAccount, EnableLinger,
     InstallRuntime, RunOnboarding, WriteUnits, StartGateway, StartWatcher, VerifyReadiness,
     RecordActive, UndoAdd, ReadUser, StopServices, DisableLinger, RecordPaused, BackUp,
     Uninstall, DeleteAccount, DeleteUserRow, RouteCall, RouteStatement, RouteCallFails,
     RouteRefused, Fault, CommandFails, CommandSteps, TenantSteps, StatementFails, Run, At
<1>2. PICK u \in User : u = Target(j)
  BY <1>1 DEF SerialInv, LifeInv, JobsOK, Coherent, Target
<1>3. ~UndoAdd(j)
  BY DEF UndoAdd, At, SerialInv, JobInv, Purpose
<1>4. CASE AddStep(j)
  BY <1>2, <1>3, <1>4, ReadPreviousKeeps, AllocatePortKeeps, CreateAccountKeeps,
     EnableLingerKeeps, InstallRuntimeKeeps, RunOnboardingKeeps, WriteUnitsKeeps,
     StartGatewayKeeps, StartWatcherKeeps, RecordActiveKeeps DEF AddStep
<1>5. CASE DownStep(j)
  BY <1>2, <1>5, ReadUserKeeps, DownCommandsKeep, RecordPausedKeeps, DeleteUserRowKeeps
     DEF DownStep
<1>6. CASE RouteCall(j) \/ RouteCallFails(j)
  BY <1>2, <1>6, RouteCallKeeps, RouteCallFailsKeeps
<1>. QED
  BY <1>4, <1>5, <1>6, CommandFailsKeeps, StatementFailsKeeps DEF JobStep

LEMMA InitSerial == Init => SerialInv
<1>. SUFFICES ASSUME Init PROVE SerialInv
  OBVIOUS
<1>1. LifeInv
  BY InitLife
<1>2. ASSUME NEW u \in User PROVE UserInv(u)
  <2>1. /\ host[u] = NoAccount /\ users[u] = NoUser /\ served = {}
        /\ \A id \in RouteId : routes[id] = NoRoute
        /\ last[u].op = "none"
    BY DEF Init, StoreInit
  <2>2. Agrees(u) /\ Ports(u) = {}
    BY <2>1, StoreAssumption DEF Agrees, Ports, NoAccount, RouteExists, NoRoute
  <2>3. Resting(u)
    BY <2>1 DEF Resting, Quiet, Unserved, NoAccount, NoUser, RoutesOf, Enabled, NoRoute
  <2>4. Succeeded(u)
    BY <2>1 DEF Succeeded, UserExists, HasAccount, NoUser, NoAccount
  <2>. QED
    BY <2>2, <2>3, <2>4 DEF UserInv, PortsKept
<1>3. ASSUME NEW j \in Job PROVE JobInv(j)
  BY DEF Init, Free, JobInv, Purpose, AddInv, DownInv, WithPort, WithRow, Removing,
     Before, FromInstall, FromUnits, FromGateway, FromWatcher, FromReady
<1>. QED
  BY <1>1, <1>2, <1>3 DEF SerialInv

LEMMA NextSerial ==
    ASSUME Serial, SerialInv, [Next]_vars
    PROVE  SerialInv'
<1>1. LifeInv'
  BY NextLife DEF SerialInv
<1>2. CASE UNCHANGED vars
  <2>1. UNCHANGED <<users, routes, host, served, job, last>>
    BY <1>2 DEF vars
  <2>2. ASSUME NEW u \in User PROVE Resting(u)' = Resting(u)
    BY <2>1 DEF Resting, Quiet, Unserved, Enabled, RoutesOf
  <2>3. ASSUME NEW u \in User PROVE UserInv(u)'
    <3>1. UserInv(u)
      BY DEF SerialInv
    <3>2. Agrees(u)'
      BY <2>1, AgreesKept
    <3>3. PortsKept(u)' /\ (Busy(u)' => Busy(u)) /\ (Busy(u) => Busy(u)')
      BY <2>1, <3>1 DEF UserInv, PortsKept, Ports, Busy, Target
    <3>4. Succeeded(u) => Succeeded(u)'
      BY <2>1, SucceededKept
    <3>. QED
      BY <2>2, <3>1, <3>2, <3>3, <3>4 DEF UserInv
  <2>4. ASSUME NEW j \in Job PROVE JobInv(j)'
    <3>1. JobInv(j) /\ Target(j)' = Target(j)
      BY <2>1 DEF SerialInv, Target
    <3>2. Purpose(j)' /\ AddInv(j)' /\ DownInv(j)'
      BY <2>1, <3>1 DEF JobInv, Purpose, AddInv, DownInv, PortFree, UserExists, HasAccount,
         Unserved, Enabled, RoutesOf
    <3>3. Resting(Target(j)) => Resting(Target(j))'
      BY <2>1, <3>1 DEF Resting, Quiet, Unserved, Enabled, RoutesOf
    <3>. QED
      BY <2>1, <3>1, <3>2, <3>3 DEF JobInv
  <2>. QED
    BY <1>1, <2>3, <2>4 DEF SerialInv
<1>3. CASE Environment
  BY <1>1, <1>3, MachineKeeps, WatcherKeeps DEF Environment
<1>. QED
  BY <1>1, <1>2, <1>3, StartKeeps, JobKeeps DEF Next

LEMMA SerialInvariant == ASSUME Serial PROVE Spec => []SerialInv
<1>1. SerialInv /\ [Next]_vars => SerialInv'
  BY NextSerial
<1>. QED
  BY <1>1, InitSerial, PTL DEF Spec

-----------------------------------------------------------------------------
\* What an Add, Activate, Deactivate or Remove that reported success stands for
\* holds until the next operation on the user, whatever other users do and
\* whatever failed before.
THEOREM SuccessStands == ASSUME Serial PROVE Spec => []SuccessHolds
<1>1. ASSUME SerialInv PROVE SuccessHolds
  <2>. SUFFICES ASSUME NEW u \in User, last[u].ok, ~Busy(u)
                PROVE  CASE last[u].op \in {"add", "activate"} -> Running(u)
                         [] last[u].op = "deactivate" ->
                              users[u].status = "paused" /\ Quiet(u) /\ ~host[u].linger
                         [] last[u].op \in {"remove", "none"} -> Gone(u)
    BY DEF SuccessHolds
  <2>1. Resting(u) /\ Succeeded(u) /\ last[u].op \in Operations \cup {"none"}
    BY <1>1 DEF SerialInv, UserInv, LifeInv, JobsOK
  <2>2. last[u].op \in {"add", "activate"} => Running(u)
    BY <2>1 DEF Succeeded
  <2>3. last[u].op = "deactivate" => users[u].status = "paused" /\ Quiet(u) /\ ~host[u].linger
    BY <2>1 DEF Succeeded, Resting
  <2>4. last[u].op \in {"remove", "none"} => Gone(u)
    BY <2>1 DEF Succeeded, Resting, Gone, UserExists
  <2>. QED
    BY <2>1, <2>2, <2>3, <2>4 DEF Operations
<1>. QED
  BY <1>1, SerialInvariant, PTL

\* A user whose row says paused has no service that runs and no route that is
\* enabled or published, also after operations that broke off.
THEOREM PausedStaysQuiet == ASSUME Serial PROVE Spec => []PausedIsQuiet
<1>1. SerialInv => PausedIsQuiet
  BY DEF SerialInv, PausedIsQuiet, UserInv, Resting
<1>. QED
  BY <1>1, SerialInvariant, PTL

\* A published hostname leads to a gateway of its owner or to none.
THEOREM HostnamesReachOwners == ASSUME Serial PROVE Spec => []RoutedToOwner
<1>1. ASSUME SerialInv PROVE RoutedToOwner
  <2>. SUFFICES ASSUME NEW rule \in served, NEW u \in User,
                       rule.id = GatewayId[Owner[rule.id]], host[u].gateway = rule.port
                PROVE  u = Owner[rule.id]
    BY DEF RoutedToOwner
  <2>. DEFINE w == Owner[rule.id]
  <2>1. w \in User /\ rule.port \in Port /\ rule.port # 0
    BY <1>1, StoreAssumption DEF SerialInv, LifeInv, WorldOK
  <2>2. UserExists(w) /\ rule.port = users[w].port
    BY <1>1, <2>1 DEF SerialInv, UserInv, Agrees
  <2>3. rule.port \in Ports(u)
    BY <2>1 DEF Ports
  <2>4. CASE Ports(u) \subseteq {users[u].port}
    BY <1>1, <2>1, <2>2, <2>3, <2>4 DEF SerialInv, LifeInv, Integrity, PortsDistinct
  <2>5. CASE \E j \in Job : Target(j) = u /\ job[j].pc \in Late /\ Ports(u) \subseteq {job[j].port}
    <3>1. PICK j \in Job : Target(j) = u /\ job[j].pc \in Late /\ rule.port = job[j].port
      BY <2>3, <2>5
    <3>2. PortFree(u, job[j].port)
      BY <1>1, <3>1 DEF SerialInv, JobInv, AddInv, Late, WithPort
    <3>. QED
      BY <2>1, <2>2, <3>1, <3>2 DEF PortFree
  <2>. QED
    BY <1>1, <2>4, <2>5 DEF SerialInv, UserInv, PortsKept
<1>. QED
  BY <1>1, SerialInvariant, PTL

-----------------------------------------------------------------------------
(* What becomes of a home directory.                                       *)

LEMMA CommandHome ==
    ASSUME LifeInv, NEW j \in Job, NEW u \in User, HasAccount(u), ~HasAccount(u)',
           NEW from, NEW to, NEW new, Run(j, from, new, to)
    PROVE  u = Target(j) /\ new.home = "none"
BY DEF Run, HasAccount, LifeInv, WorldOK

\* Only userdel takes an account away.
LEMMA OnlyUserdel ==
    ASSUME LifeInv, [Next]_vars, NEW u \in User, HasAccount(u), ~HasAccount(u)'
    PROVE  \E j \in Job : DeleteAccount(j) /\ Target(j) = u
<1>1. host[u] \in Machines /\ host[u].home # "none" /\ host' # host
  BY DEF LifeInv, WorldOK, HasAccount
<1>2. ASSUME NEW j \in Job, ~DeleteAccount(j), AddStep(j) \/ DownStep(j) PROVE FALSE
  <2>. DEFINE h == host[u]
              up == ManagerUp(h)
              down == GatewayDown(h)
  <2>1. /\ GatewayUp(h) \in Machines /\ GatewayUp(h).home = h.home
        /\ down \in Machines /\ down.home = h.home
    <3>1. GatewayUp(h) \in Machines /\ down \in Machines
      BY <1>1, MachineType
    <3>2. GatewayUp(h).home = h.home
      BY <1>1, UpFields
    <3>3. down.home = h.home
      BY <1>1, DownFields
    <3>. QED
      BY <3>1, <3>2, <3>3
  <2>2. up \in Machines /\ up.home = h.home
    <3>. DEFINE w == "watcher" \in h.enabled
                on == [h EXCEPT !.manager = TRUE, !.watcher = w]
    <3>1. w \in BOOLEAN /\ up \in {h, on, GatewayUp(on)}
      BY DEF ManagerUp
    <3>. HIDE DEF w
    <3>2. on \in Machines /\ on.home = h.home
      BY <1>1, <3>1 DEF Machines
    <3>. HIDE DEF on
    <3>3. GatewayUp(on) \in Machines /\ GatewayUp(on).home = h.home
      BY <3>2, MachineType, UpFields
    <3>. HIDE DEF up
    <3>. QED
      BY <1>1, <3>1, <3>2, <3>3
  <2>. HIDE DEF up, down
  <2>3. CASE CreateAccount(j)
    <3>1. CASE HasAccount(Target(j))
      BY <1>1, <2>3, <3>1, CommandHome DEF CreateAccount, Machine, HasAccount
    <3>2. CASE ~HasAccount(Target(j))
      BY <1>1, <2>3, <3>2, CommandHome DEF CreateAccount, Machine, Machines
    <3>. QED
      BY <3>1, <3>2
  <2>4. CASE EnableLinger(j)
    BY <1>1, <2>2, <2>4, CommandHome DEF EnableLinger, Machine, Machines, up
  <2>5. CASE InstallRuntime(j)
    <3>. DEFINE new == [up EXCEPT !.archived = FALSE, !.home = IF @ = "empty" THEN "runtime" ELSE @]
    <3>1. host \in [User -> Machines]
      BY DEF LifeInv, WorldOK
    <3>2. Target(j) = u
      BY <2>5, <3>1 DEF InstallRuntime, HasAccount
    <3>3. host' = [host EXCEPT ![u] = new]
      BY <2>5, <3>2 DEF InstallRuntime, Machine, up
    <3>4. new.home # "none"
      BY <1>1, <2>2 DEF Machines
    <3>. HIDE DEF new
    <3>. QED
      BY <3>1, <3>3, <3>4 DEF HasAccount
  <2>6. CASE RunOnboarding(j)
    <3>. DEFINE files == [h EXCEPT !.home = "onboarded", !.archived = FALSE]
                daemon == [files EXCEPT !.unit = job[j].port, !.enabled = @ \cup {"gateway"}]
    <3>1. job[j].pc = "onboard" /\ job[j].port \in Port
      BY <2>6 DEF RunOnboarding, At, LifeInv, JobsOK, Coherent, WithPort
    <3>2. files \in Machines /\ files.home = "onboarded"
      BY <1>1 DEF Machines, Homes
    <3>3. daemon \in Machines /\ daemon.home = "onboarded"
      <4>. HIDE DEF files
      <4>. QED
        BY <3>1, <3>2 DEF Machines
    <3>4. Target(j) = u => \E new \in {files, daemon, GatewayUp(GatewayDown(daemon))} :
                              Run(j, "onboard", new, "units")
      BY <2>6 DEF RunOnboarding, Machine
    <3>5. Target(j) = u
      BY <2>6, CommandHome DEF RunOnboarding
    <3>. HIDE DEF files, daemon
    <3>6. GatewayUp(GatewayDown(daemon)).home = "onboarded"
      <4>. DEFINE off == GatewayDown(daemon)
      <4>1. off \in Machines
        BY <3>3, MachineType
      <4>2. off.home = "onboarded"
        BY <3>3, DownFields
      <4>. HIDE DEF off
      <4>3. GatewayUp(off).home = "onboarded"
        BY <4>1, <4>2, UpFields
      <4>. QED
        BY <4>3 DEF off
    <3>. QED
      BY <3>2, <3>3, <3>4, <3>5, <3>6, CommandHome
  <2>7. CASE WriteUnits(j)
    <3>. DEFINE new == [h EXCEPT !.unit = job[j].port, !.archived = FALSE]
    <3>1. Target(j) = u
      BY <2>7, CommandHome DEF WriteUnits
    <3>2. Run(j, "units", new, "startGateway") /\ new.home = h.home
      BY <1>1, <2>7, <3>1 DEF WriteUnits, Machine, Machines
    <3>. HIDE DEF new
    <3>. QED
      BY <1>1, <3>2, CommandHome
  <2>8. CASE StartGateway(j)
    BY <1>1, <2>1, <2>8, CommandHome DEF StartGateway, Machine, Machines
  <2>9. CASE StartWatcher(j) \/ VerifyReadiness(j)
    <3>. DEFINE new == [h EXCEPT !.watcher = TRUE, !.enabled = @ \cup {"watcher"}]
    <3>1. Target(j) = u
      BY <2>9, CommandHome DEF StartWatcher, VerifyReadiness
    <3>2. Run(j, "startWatcher", new, "ready") \/ Run(j, "ready", h, "record")
      BY <2>9, <3>1 DEF StartWatcher, VerifyReadiness, Machine
    <3>3. new.home = h.home
      BY <1>1 DEF Machines
    <3>. HIDE DEF new
    <3>. QED
      BY <1>1, <3>2, <3>3, CommandHome
  <2>10. CASE StopServices(j)
    BY <1>1, <2>1, <2>10, CommandHome DEF StopServices, Machine, Machines, down
  <2>11. CASE DisableLinger(j) \/ BackUp(j)
    BY <1>1, <2>11, CommandHome DEF DisableLinger, BackUp, Machine, Machines
  <2>12. CASE Uninstall(j)
    BY <1>1, <2>1, <2>12, CommandHome DEF Uninstall, Machine, Machines, down
  <2>13. ~ReadPrevious(j) /\ ~AllocatePort(j) /\ ~RecordActive(j) /\ ~UndoAdd(j) /\ ~ReadUser(j)
         /\ ~RecordPaused(j) /\ ~DeleteUserRow(j)
    BY <1>1 DEF ReadPrevious, AllocatePort, RecordActive, UndoAdd, ReadUser, RecordPaused,
       DeleteUserRow
  <2>. QED
    BY <1>2, <2>3, <2>4, <2>5, <2>6, <2>7, <2>8, <2>9, <2>10, <2>11, <2>12, <2>13
       DEF AddStep, DownStep
<1>3. ASSUME NEW j \in Job, DeleteAccount(j) PROVE Target(j) = u
  BY <1>3, CommandHome DEF DeleteAccount
<1>4. ASSUME NEW j \in Job, JobStep(j) PROVE DeleteAccount(j)
  BY <1>1, <1>2, <1>4 DEF JobStep, RouteCall, RouteCallFails, CommandFails, StatementFails
<1>5. ~Environment
  <2>1. ASSUME NEW v \in User, TenantWrites(v) \/ GatewayRetries(v) \/ ManagerStops(v) PROVE FALSE
    <3>. DEFINE down == GatewayDown(host[v])
    <3>1. host[v] \in Machines
      BY DEF LifeInv, WorldOK
    <3>2. down \in Machines /\ down.home = host[v].home
      BY <3>1, MachineType, DownFields
    <3>. HIDE DEF down
    <3>3. CASE TenantWrites(v) \/ GatewayRetries(v)
      BY <3>1, <3>3 DEF TenantWrites, GatewayRetries, HasAccount, LifeInv, WorldOK, Machines
    <3>4. CASE ManagerStops(v)
      <4>1. host' = [host EXCEPT ![v] = [down EXCEPT !.manager = FALSE, !.watcher = FALSE]]
        BY <3>4 DEF ManagerStops, down
      <4>2. [down EXCEPT !.manager = FALSE, !.watcher = FALSE].home = host[v].home
        BY <3>2 DEF Machines
      <4>. QED
        BY <4>1, <4>2 DEF HasAccount, LifeInv, WorldOK
    <3>. QED
      BY <2>1, <3>3, <3>4
  <2>. QED
    BY <1>1, <2>1 DEF Environment, WatcherPublishes, WatcherRetires
<1>. QED
  BY <1>1, <1>3, <1>4, <1>5 DEF Next, Start, vars

\* Remove deletes no home directory that is not as a whole in a backup.
THEOREM RemovalsAreBackedUp == ASSUME Serial PROVE Spec => NothingLost
<1>1. ASSUME SerialInv, [Next]_vars
      PROVE  [\A u \in User : HasAccount(u) /\ ~HasAccount(u)' => host[u].archived]_vars
  <2>1. ASSUME NEW u \in User, HasAccount(u), ~HasAccount(u)' PROVE host[u].archived
    <3>1. PICK j \in Job : DeleteAccount(j) /\ Target(j) = u
      BY <1>1, <2>1, OnlyUserdel DEF SerialInv
    <3>. QED
      BY <1>1, <3>1 DEF DeleteAccount, Run, At, SerialInv, JobInv, DownInv
  <2>. QED
    BY <2>1
<1>. QED
  BY <1>1, SerialInvariant, PTL DEF Spec, NothingLost

-----------------------------------------------------------------------------
(* The rollback of Add, for failures of any steps.  A row that an Add      *)
(* reported stays until a Remove, so the rollback of a later Add found it  *)
(* when that Add began, and puts it back.                                  *)

OneAtATime == \A j, k \in Job : j = k

Added(u) == last[u] = [op |-> "add", ok |-> TRUE]
Removes(u) == \E j \in Job : Target(j) = u /\ job[j].op = "remove"

HasRead == {"port", "undo"} \cup WithPort
OpOK(j) ==
    /\ job[j].pc = "idle" => job[j].op = "none"
    /\ job[j].pc \in {"activate", "add"} \cup HasRead => job[j].op # "remove"
    /\ job[j].pc \in {"remove"} \cup Removing => job[j].op = "remove"

AddedInv ==
    /\ LifeInv
    /\ \A u \in User : Added(u) => UserExists(u) \/ Removes(u)
    /\ \A j \in Job : OpOK(j)
    /\ \A j \in Job : job[j].pc \in HasRead /\ job[j].row = NoUser => ~Added(Target(j))

\* The operation goes on.
LEMMA Proceeds ==
    ASSUME OneAtATime, AddedInv, LifeInv', NEW j \in Job, job[j].pc # "idle",
           NEW step, job'[j].pc = step, job'[j].op = job[j].op, Target(j)' = Target(j),
           job'[j].row = job[j].row, UNCHANGED last,
           \A u \in User : UserExists(u) => UserExists(u)',
           step \in HasRead => job[j].pc \in HasRead,
           step = "add" => job[j].pc = "activate",
           step \in {"remove"} \cup Removing => job[j].op = "remove",
           step \notin {"idle", "activate"}
    PROVE  AddedInv'
<1>2. \A k \in Job : k = j
  BY DEF OneAtATime
<1>3. \A u \in User : Added(u)' => UserExists(u)' \/ Removes(u)'
  BY <1>2 DEF AddedInv, Added, Removes
<1>4. OpOK(j)' /\ (job'[j].pc \in HasRead /\ job'[j].row = NoUser => ~Added(Target(j))')
  BY DEF AddedInv, OpOK, Added
<1>. QED
  BY <1>2, <1>3, <1>4 DEF AddedInv

LEMMA GoesOn ==
    ASSUME OneAtATime, AddedInv, LifeInv', NEW j \in Job, job[j].pc # "idle",
           NEW step, Goto(j, step), \A u \in User : UserExists(u) => UserExists(u)',
           step \in HasRead => job[j].pc \in HasRead,
           step = "add" => job[j].pc = "activate",
           step \in {"remove"} \cup Removing => job[j].op = "remove",
           step \notin {"idle", "activate"}
    PROVE  AddedInv'
<1>1. /\ job'[j].pc = step /\ job'[j].op = job[j].op /\ Target(j)' = Target(j)
      /\ job'[j].row = job[j].row /\ UNCHANGED last
  BY GotoFields DEF AddedInv
<1>. QED
  BY <1>1, Proceeds

\* The operation is over.
LEMMA IsOver ==
    ASSUME OneAtATime, AddedInv, LifeInv', NEW j \in Job, job[j].pc # "idle",
           NEW u \in User, u = Target(j), NEW ok, Finish(j, ok),
           \A v \in User \ {u} : UserExists(v) => UserExists(v)',
           ok = TRUE /\ job[j].op = "add" => UserExists(u)'
    PROVE  AddedInv'
<1>1. job'[j] = Free /\ (\A v \in User \ {u} : last'[v] = last[v])
      /\ last'[u] = [op |-> job[j].op, ok |-> ok]
  BY FinishFields DEF AddedInv
<1>2. \A k \in Job : k = j
  BY DEF OneAtATime
<1>3. ASSUME NEW v \in User, Added(v)' PROVE UserExists(v)'
  <2>1. CASE v = u
    BY <1>1, <1>3, <2>1 DEF Added
  <2>2. CASE v # u
    BY <1>1, <1>2, <1>3, <2>2 DEF AddedInv, Added, Removes
  <2>. QED
    BY <2>1, <2>2
<1>4. OpOK(j)' /\ job'[j].pc \notin HasRead
  BY <1>1 DEF OpOK, Free, HasRead, WithPort, Removing
<1>. QED
  BY <1>2, <1>3, <1>4 DEF AddedInv

LEMMA AddedCommands ==
    ASSUME OneAtATime, AddedInv, LifeInv', NEW j \in Job,
           NEW from, NEW to, NEW new, Run(j, from, new, to), from # "idle",
           to \in {"linger", "install", "onboard", "units", "startGateway", "startWatcher",
                   "ready", "record"} => from \in WithPort,
           to \in Removing => from \in Removing,
           to \in WithPort \cup WithRow \cup Removing, to \notin {"useradd", "route"}
    PROVE  AddedInv'
<1>1. job[j].pc = from /\ Goto(j, to) /\ UNCHANGED users
  BY DEF Run, At, storeVars
<1>2. \A u \in User : UserExists(u) => UserExists(u)'
  BY <1>1 DEF UserExists
<1>3. from \in Removing => job[j].op = "remove"
  BY <1>1 DEF AddedInv, OpOK
<1>. QED
  BY <1>1, <1>2, <1>3, GoesOn DEF HasRead, WithPort, WithRow, Removing

LEMMA AddedReads ==
    ASSUME OneAtATime, AddedInv, LifeInv', NEW j \in Job,
           ReadPrevious(j) \/ AllocatePort(j) \/ ReadUser(j)
    PROVE  AddedInv'
<1>1. /\ job[j].pc # "idle" /\ UNCHANGED users
      /\ \A u \in User : UserExists(u) => UserExists(u)'
  BY DEF ReadPrevious, AllocatePort, ReadUser, At, storeVars, UserExists
<1>2. PICK u \in User : u = Target(j)
  BY <1>1 DEF AddedInv, LifeInv, JobsOK, Coherent, Target
<1>3. \A k \in Job : k = j
  BY DEF OneAtATime
<1>4. OpOK(j) /\ (Added(u) => UserExists(u) \/ job[j].op = "remove")
  BY <1>2, <1>3 DEF AddedInv, Removes
<1>5. ASSUME UNCHANGED last, job'[j].op = job[j].op, Target(j)' = u, OpOK(j)',
             job'[j].pc \in HasRead /\ job'[j].row = NoUser => ~Added(u)
      PROVE  AddedInv'
  BY <1>1, <1>2, <1>3, <1>5 DEF AddedInv, Added, Removes
<1>6. CASE ReadPrevious(j)
  <2>1. /\ job[j].pc = "add" /\ job'[j].pc = "port" /\ job'[j].row = users[u] /\ UNCHANGED last
        /\ job'[j].op = job[j].op /\ Target(j)' = u
    BY <1>2, <1>6 DEF ReadPrevious, At, AddedInv, LifeInv, JobsOK, JobRecord, Target
  <2>2. OpOK(j)'
    BY <1>4, <2>1 DEF OpOK, HasRead, WithPort, Removing
  <2>3. users[u] = NoUser => ~Added(u)
    BY <1>4, <2>1 DEF OpOK, UserExists, NoUser
  <2>. QED
    BY <1>5, <2>1, <2>2, <2>3
<1>7. CASE AllocatePort(j)
  <2>1. /\ job[j].pc = "port" /\ job'[j].pc = "useradd" /\ job'[j].row = job[j].row
        /\ UNCHANGED last /\ job'[j].op = job[j].op /\ Target(j)' = u
    BY <1>2, <1>7 DEF AllocatePort, At, AddedInv, LifeInv, JobsOK, JobRecord, Target
  <2>2. OpOK(j)'
    BY <1>4, <2>1 DEF OpOK, HasRead, WithPort, Removing
  <2>3. job[j].row = NoUser => ~Added(u)
    BY <1>2, <2>1 DEF AddedInv, HasRead
  <2>. QED
    BY <1>5, <2>1, <2>2, <2>3
<1>8. CASE ReadUser(j)
  <2>1. job[j].pc \in {"activate", "deactivate", "remove"}
    BY <1>8 DEF ReadUser
  <2>2. CASE /\ job' = [job EXCEPT ![j].pc = "stop", ![j].row = users[u], ![j].uid = users[u].uid]
             /\ UNCHANGED last
    <3>1. job'[j].pc = "stop" /\ job'[j].op = job[j].op /\ Target(j)' = u
      BY <1>2, <2>2 DEF AddedInv, LifeInv, JobsOK, JobRecord, Target
    <3>2. OpOK(j)'
      BY <3>1 DEF OpOK, HasRead, WithPort, Removing
    <3>. QED
      BY <1>5, <2>2, <3>1, <3>2 DEF HasRead, WithPort
  <2>3. CASE \E step : Goto(j, step) /\ (\/ step = "add" /\ job[j].pc = "activate"
                                         \/ step = "deactivate"
                                         \/ step = "backup" /\ job[j].op = "remove")
    BY <1>1, <2>3, GoesOn DEF HasRead, WithPort, Removing
  <2>4. CASE Finish(j, FALSE)
    BY <1>1, <1>2, <2>4, IsOver
  <2>5. CASE Finish(j, TRUE) /\ UserExists(u)
    BY <1>1, <1>2, <2>5, IsOver
  <2>6. job[j].pc = "remove" => job[j].op = "remove"
    BY <1>4 DEF OpOK
  <2>. QED
    BY <1>2, <1>8, <2>1, <2>2, <2>3, <2>4, <2>5, <2>6 DEF ReadUser, At, UserExists
<1>. QED
  BY <1>6, <1>7, <1>8

LEMMA AddedWrites ==
    ASSUME OneAtATime, AddedInv, LifeInv', NEW j \in Job,
           RecordActive(j) \/ RecordPaused(j) \/ DeleteUserRow(j) \/ UndoAdd(j)
    PROVE  AddedInv'
<1>1. job[j].pc # "idle" /\ users \in [User -> UserRow \cup {NoUser}] /\ OpOK(j)
  BY DEF RecordActive, RecordPaused, DeleteUserRow, UndoAdd, At, AddedInv, LifeInv, StoreTypeOK
<1>2. PICK u \in User : u = Target(j)
  BY <1>1 DEF AddedInv, LifeInv, JobsOK, Coherent, Target
<1>3. CASE RecordActive(j)
  <2>1. /\ job[j].pc = "record" /\ Goto(j, "route")
        /\ users' = [users EXCEPT ![u] = ActiveRow(job[j].port, job[j].uid)]
    BY <1>2, <1>3 DEF RecordActive, At, UpsertUser
  <2>2. \A v \in User : UserExists(v) => UserExists(v)'
    BY <1>1, <2>1 DEF UserExists, ActiveRow
  <2>. QED
    BY <1>1, <2>1, <2>2, GoesOn DEF HasRead, WithPort, Removing
<1>4. CASE RecordPaused(j)
  <2>. DEFINE paused == [job[j].row EXCEPT !.status = "paused", !.linger = FALSE]
  <2>1. job[j].pc = "pause" /\ users' = [users EXCEPT ![u] = paused] /\ job[j].row \in UserRow
    BY <1>2, <1>4 DEF RecordPaused, At, UpsertUser, AddedInv, LifeInv, JobsOK, Coherent, WithRow
  <2>2. paused.status = "paused"
    BY <2>1 DEF UserRow
  <2>. HIDE DEF paused
  <2>3. \A v \in User : v = u \/ UserExists(v) => UserExists(v)'
    BY <1>1, <2>1, <2>2 DEF UserExists
  <2>4. CASE job[j].op = "remove"
    <3>1. Goto(j, "backup")
      BY <1>4, <2>4 DEF RecordPaused
    <3>. QED
      BY <1>1, <2>3, <2>4, <3>1, GoesOn DEF HasRead, WithPort
  <2>5. CASE job[j].op # "remove"
    <3>1. Finish(j, TRUE)
      BY <1>4, <2>5 DEF RecordPaused
    <3>. QED
      BY <1>1, <1>2, <2>3, <3>1, IsOver
  <2>. QED
    BY <2>4, <2>5
<1>5. CASE DeleteUserRow(j)
  <2>1. /\ job[j].pc = "deleteRow" /\ Finish(j, TRUE) /\ users' = [users EXCEPT ![u] = NoUser]
        /\ job[j].op = "remove"
    BY <1>1, <1>2, <1>5 DEF DeleteUserRow, At, DeleteUser, OpOK, Removing
  <2>2. \A v \in User \ {u} : UserExists(v) => UserExists(v)'
    BY <1>1, <2>1 DEF UserExists
  <2>. QED
    BY <1>1, <1>2, <2>1, <2>2, IsOver
<1>6. CASE UndoAdd(j)
  <2>1. Finish(j, FALSE) /\ \A v \in User \ {u} : users'[v] = users[v]
    BY <1>1, <1>2, <1>6 DEF UndoAdd, UpsertUser, DeleteUser, storeVars
  <2>. QED
    BY <1>1, <1>2, <2>1, IsOver DEF UserExists
<1>. QED
  BY <1>3, <1>4, <1>5, <1>6

LEMMA AddedCalls ==
    ASSUME OneAtATime, AddedInv, LifeInv', NEW j \in Job,
           RouteCall(j) \/ RouteCallFails(j) \/ CommandFails(j) \/ StatementFails(j)
    PROVE  AddedInv'
<1>1. job[j].pc # "idle" /\ UNCHANGED users /\ OpOK(j)
  BY DEF RouteCall, RouteCallFails, CommandFails, StatementFails, RouteStatement, RouteRefused,
     Fault, CommandSteps, TenantSteps, At, UpsertRoute, SetRoutesEnabled, DeleteRoute, storeVars,
     AddedInv
<1>2. PICK u \in User : u = Target(j)
  BY <1>1 DEF AddedInv, LifeInv, JobsOK, Coherent, Target
<1>3. \A v \in User : UserExists(v) => UserExists(v)'
  BY <1>1 DEF UserExists
<1>4. CASE Finish(j, FALSE)
  BY <1>1, <1>2, <1>3, <1>4, IsOver
<1>5. CASE RouteCall(j)
  <2>1. CASE job[j].pc = "route"
    <3>1. UserExists(u) /\ Finish(j, TRUE)
      BY <1>2, <1>5, <2>1, StoreAssumption DEF RouteCall, RouteStatement, At, UpsertRoute
    <3>. QED
      BY <1>1, <1>2, <1>3, <3>1, IsOver
  <2>2. CASE job[j].pc = "disable"
    <3>1. Goto(j, "pause")
      BY <1>5, <2>2 DEF RouteCall, At
    <3>. QED
      BY <1>1, <1>3, <3>1, GoesOn DEF HasRead, WithPort, Removing
  <2>3. CASE job[j].pc = "unroute"
    <3>1. Goto(j, "uninstall") /\ job[j].op = "remove"
      BY <1>1, <1>5, <2>3 DEF RouteCall, At, OpOK, Removing
    <3>. QED
      BY <1>1, <1>3, <3>1, GoesOn DEF HasRead, WithPort
  <2>. QED
    BY <1>5, <2>1, <2>2, <2>3 DEF RouteCall, At
<1>6. CASE job[j].pc = "route" /\ Goto(j, "undo")
  BY <1>1, <1>3, <1>6, GoesOn DEF HasRead, WithPort, Removing
<1>. QED
  BY <1>4, <1>5, <1>6 DEF RouteCallFails, CommandFails, StatementFails, At

LEMMA NextAdded ==
    ASSUME OneAtATime, AddedInv, [Next]_vars
    PROVE  AddedInv'
<1>1. LifeInv'
  BY NextLife DEF AddedInv
<1>2. CASE UNCHANGED <<users, job, last>>
  BY <1>1, <1>2 DEF AddedInv, Added, Removes, UserExists, OpOK, Target
<1>3. ASSUME NEW j \in Job, NEW op \in Operations, NEW u \in User, Start(j, op, u) PROVE AddedInv'
  <2>1. /\ job[j].pc = "idle" /\ job'[j].pc = op /\ job'[j].op = op /\ UNCHANGED <<users, last>>
    BY <1>3 DEF Start, At, Free, AddedInv, LifeInv, JobsOK, storeVars
  <2>2. \A k \in Job : k = j
    BY DEF OneAtATime
  <2>3. \A v \in User : ~Removes(v)
    BY <2>1, <2>2 DEF Removes, AddedInv, OpOK
  <2>4. \A v \in User : Added(v)' => UserExists(v)'
    BY <2>1, <2>3 DEF AddedInv, Added, UserExists
  <2>5. OpOK(j)' /\ job'[j].pc \notin HasRead
    BY <2>1 DEF OpOK, Operations, HasRead, WithPort, Removing
  <2>. QED
    BY <1>1, <2>2, <2>4, <2>5 DEF AddedInv
<1>4. CASE Environment
  BY <1>2, <1>4 DEF Environment, TenantWrites, GatewayRetries, ManagerStops, WatcherPublishes,
     WatcherRetires, UpsertRoute, DeleteRoute, storeVars
<1>5. ASSUME NEW j \in Job, JobStep(j) PROVE AddedInv'
  <2>1. CASE AddStep(j)
    <3>1. CASE \/ EnableLinger(j) \/ RunOnboarding(j)
               \/ WriteUnits(j) \/ StartGateway(j) \/ StartWatcher(j) \/ VerifyReadiness(j)
      BY <1>1, <3>1, AddedCommands
         DEF EnableLinger, RunOnboarding, WriteUnits, StartGateway,
             StartWatcher, VerifyReadiness, WithPort, WithRow, Removing
    <3>3. CASE CreateAccount(j)
      <4>1. \E new : Run(j, "useradd", new, "linger")
        BY <3>3 DEF CreateAccount
      <4>. QED
        BY <1>1, <4>1, AddedCommands DEF WithPort, WithRow, Removing
    <3>2. CASE InstallRuntime(j)
      <4>1. job[j].pc = "install" /\ UNCHANGED users
        BY <1>1, <3>2, InstallFields DEF AddedInv
      <4>2. \A u \in User : UserExists(u) => UserExists(u)'
        BY <4>1 DEF UserExists
      <4>3. /\ job'[j].pc = "onboard" /\ job'[j].op = job[j].op /\ Target(j)' = Target(j)
            /\ job'[j].row = job[j].row /\ UNCHANGED last
        BY <1>1, <3>2, InstallFields DEF AddedInv
      <4>. QED
        BY <1>1, <4>1, <4>2, <4>3, Proceeds DEF HasRead, WithPort, Removing
    <3>. QED
      BY <1>1, <2>1, <3>1, <3>2, <3>3, AddedReads, AddedWrites DEF AddStep
  <2>2. CASE DownStep(j)
    <3>1. CASE StopServices(j) \/ DisableLinger(j) \/ BackUp(j) \/ Uninstall(j) \/ DeleteAccount(j)
      <4>1. CASE StopServices(j) \/ DisableLinger(j)
        BY <1>1, <4>1, AddedCommands
           DEF StopServices, DisableLinger, WithPort, WithRow, Removing
      <4>2. CASE BackUp(j) \/ Uninstall(j) \/ DeleteAccount(j)
        BY <1>1, <4>2, AddedCommands
           DEF BackUp, Uninstall, DeleteAccount, WithPort, WithRow, Removing
      <4>. QED
        BY <3>1, <4>1, <4>2
    <3>. QED
      BY <1>1, <2>2, <3>1, AddedReads, AddedWrites DEF DownStep
  <2>. QED
    BY <1>1, <1>5, <2>1, <2>2, AddedCalls DEF JobStep
<1>. QED
  BY <1>2, <1>3, <1>4, <1>5 DEF Next, vars

\* An Add that fails never deletes a user that an earlier Add reported, whichever
\* of its steps fails; only a Remove deletes that row.
THEOREM AddNeverDeletes == ASSUME OneAtATime PROVE Spec => OnlyRemoveDeletes
<1>1. ASSUME AddedInv, [Next]_vars
      PROVE  [\A u \in User :
                UserExists(u) /\ ~UserExists(u)' /\ last[u] = [op |-> "add", ok |-> TRUE]
                  => \E j \in Job : Target(j) = u /\ job[j].op = "remove"]_vars
  <2>1. ASSUME NEW u \in User, UserExists(u), ~UserExists(u)', Added(u) PROVE Removes(u)
    <3>1. users' # users /\ users \in [User -> UserRow \cup {NoUser}]
      BY <1>1, <2>1 DEF UserExists, AddedInv, LifeInv, StoreTypeOK
    <3>2. PICK j \in Job : \/ RecordActive(j) \/ RecordPaused(j) \/ DeleteUserRow(j) \/ UndoAdd(j)
      <4>1. ~Environment
        BY <3>1 DEF Environment, TenantWrites, GatewayRetries, ManagerStops, WatcherPublishes,
           WatcherRetires, UpsertRoute, DeleteRoute, storeVars
      <4>2. ASSUME NEW j \in Job, JobStep(j)
            PROVE  \/ RecordActive(j) \/ RecordPaused(j) \/ DeleteUserRow(j) \/ UndoAdd(j)
        BY <3>1, <4>2 DEF JobStep, AddStep, DownStep, ReadPrevious, AllocatePort, CreateAccount,
           EnableLinger, InstallRuntime, RunOnboarding, WriteUnits, StartGateway, StartWatcher,
           VerifyReadiness, ReadUser, StopServices, DisableLinger, BackUp, Uninstall,
           DeleteAccount, RouteCall, RouteStatement, RouteCallFails, UpsertRoute,
           SetRoutesEnabled, DeleteRoute, CommandFails, StatementFails, Run, storeVars
      <4>. QED
        BY <1>1, <3>1, <4>1, <4>2 DEF Next, Start, vars, storeVars
    <3>3. Target(j) \in User /\ OpOK(j) /\ job[j].row \in UserRow \cup {NoUser}
          /\ (job[j].pc = "pause" => job[j].row \in UserRow)
      BY <1>1, <3>2 DEF AddedInv, LifeInv, JobsOK, JobRecord, Coherent, WithRow, Target,
         RecordActive, RecordPaused, DeleteUserRow, UndoAdd, At
    <3>4. CASE RecordActive(j)
      BY <2>1, <3>1, <3>3, <3>4 DEF RecordActive, UpsertUser, UserExists, ActiveRow
    <3>5. CASE RecordPaused(j)
      <4>. DEFINE paused == [job[j].row EXCEPT !.status = "paused", !.linger = FALSE]
      <4>1. users' = [users EXCEPT ![Target(j)] = paused] /\ job[j].row \in UserRow
        BY <3>3, <3>5 DEF RecordPaused, At, UpsertUser
      <4>2. paused.status = "paused"
        BY <4>1 DEF UserRow
      <4>. HIDE DEF paused
      <4>. QED
        BY <2>1, <3>1, <3>3, <4>1, <4>2 DEF UserExists
    <3>6. CASE DeleteUserRow(j)
      <4>1. job[j].op = "remove" /\ users' = [users EXCEPT ![Target(j)] = NoUser]
        BY <3>3, <3>6 DEF DeleteUserRow, DeleteUser, At, OpOK, Removing
      <4>. QED
        BY <2>1, <3>1, <3>3, <4>1 DEF UserExists, Removes
    <3>7. CASE UndoAdd(j)
      <4>1. job[j].pc = "undo" /\ (job[j].row = NoUser => ~Added(Target(j)))
        BY <1>1, <3>7 DEF UndoAdd, At, AddedInv, HasRead
      <4>2. Target(j) = u
        BY <2>1, <3>1, <3>3, <3>7 DEF UndoAdd, UpsertUser, DeleteUser, UserExists, storeVars
      <4>3. job[j].row # NoUser
        BY <2>1, <4>1, <4>2
      <4>4. job[j].row.status # "none"
        BY <3>3, <4>3 DEF UserRow
      <4>. QED
        BY <2>1, <3>1, <3>7, <4>2, <4>3, <4>4 DEF UndoAdd, UpsertUser, UserExists, storeVars
    <3>. QED
      BY <3>2, <3>4, <3>5, <3>6, <3>7
  <2>. QED
    BY <2>1 DEF Added, Removes
<1>2. Init => AddedInv
  BY InitLife DEF Init, AddedInv, Added, OpOK, Free, HasRead, WithPort, Removing
<1>3. AddedInv /\ [Next]_vars => AddedInv'
  BY NextAdded
<1>. QED
  BY <1>1, <1>2, <1>3, PTL DEF Spec, OnlyRemoveDeletes
=============================================================================
