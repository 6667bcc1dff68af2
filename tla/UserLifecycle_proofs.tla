------------------------- MODULE UserLifecycle_proofs ------------------------
(***************************************************************************)
(* Proofs about UserLifecycle for any users, ports and routes, any number  *)
(* of jobs at a time, and failures of any steps.                           *)
(***************************************************************************)
EXTENDS UserLifecycle, StateStore_proofs, FiniteSetTheorems, WellFoundedInduction

-----------------------------------------------------------------------------
(* There is always a port for a new user.                                  *)

LEMMA Lowest ==
    ASSUME NEW T, T \subseteq Nat, T # {}
    PROVE  \E p \in T : \A q \in T : p <= q
<1>. DEFINE R == OpToRel(<, Nat)
<1>1. IsWellFoundedOn(R, Nat)
  BY NatLessThanWellFounded
<1>2. \A x, y \in Nat : x < y => <<x, y>> \in R
  BY DEF OpToRel
<1>. HIDE DEF R
<1>3. PICK p \in T : \A q \in T : ~(<<q, p>> \in R)
  BY <1>1, WFMin
<1>4. ASSUME NEW q \in T PROVE p <= q
  <2>1. p \in Nat /\ q \in Nat /\ ~(<<q, p>> \in R)
    BY <1>3
  <2>2. ~(q < p)
    BY <1>2, <2>1
  <2>. QED
    BY <2>1, <2>2
<1>. QED
  BY <1>4

LEMMA PortLeft ==
    ASSUME StoreTypeOK
    PROVE  LowestFreePort \in Port /\ \A u \in User : users[u].port # LowestFreePort
<1>. DEFINE Taken == {users[u].port : u \in User}
            f == [u \in User |-> users[u].port]
            free == {p \in Port : \A u \in User : users[u].port # p}
<1>1. IsFiniteSet(Port) /\ IsFiniteSet(User) /\ Cardinality(Port) > Cardinality(User)
  BY LifecycleAssumption
<1>2. IsFiniteSet(Taken) /\ Cardinality(Taken) <= Cardinality(User)
  <2>1. f \in Surjection(User, Taken)
    BY DEF Surjection
  <2>. QED
    BY <1>1, <2>1, FS_Surjection DEF ExistsSurjection
<1>3. free # {}
  <2>1. SUFFICES ASSUME free = {} PROVE FALSE
    OBVIOUS
  <2>2. Port \in SUBSET Taken
    BY <2>1
  <2>3. Cardinality(Port) <= Cardinality(Taken)
    BY <1>2, <2>2, FS_Subset
  <2>4. Cardinality(Port) \in Nat /\ Cardinality(Taken) \in Nat /\ Cardinality(User) \in Nat
    BY <1>1, <1>2, FS_CardinalityType
  <2>. QED
    BY <1>1, <1>2, <2>3, <2>4
<1>4. \E p \in free : \A q \in free : p <= q
  BY <1>3, Lowest, StoreAssumption
<1>5. LowestFreePort \in free
  BY <1>4 DEF LowestFreePort
<1>. QED
  BY <1>5

-----------------------------------------------------------------------------
(* Types.  A job that uses its port or its row has one, and a slot that is *)
(* not free is for a user.                                                 *)

WithPort == {"useradd", "linger", "install", "onboard", "units", "startGateway",
             "startWatcher", "ready", "record", "route"}
WithRow == {"stop", "unlinger", "disable", "pause"}

WithUid == {"onboard", "units", "startGateway", "startWatcher", "ready", "record", "route"}

Coherent(j) ==
    /\ job[j].pc # "idle" => job[j].user \in User
    /\ job[j].pc \in WithPort => job[j].port \in Port
    /\ job[j].pc \in WithRow => job[j].row \in UserRow

JobsOK ==
    /\ job \in [Job -> JobRecord]
    /\ \A j \in Job : Coherent(j)
    /\ last \in [User -> [op : Operations \cup {"none"}, ok : BOOLEAN]]

WorldOK ==
    /\ host \in [User -> Machines]
    /\ served \subseteq [id : RouteId, port : Port]
    /\ known \subseteq PluginId
    /\ budget \in 0 .. Budget

\* Whoever knows the uid of u knows one that useradd has chosen for u.
UidsOK ==
    /\ \A u \in User : HasAccount(u) => host[u].uid \in NewUid[u]
    /\ \A u \in User : UserExists(u) => users[u].uid \in NewUid[u]
    /\ \A j \in Job : job[j].pc # "idle" /\ job[j].row # NoUser
                     => job[j].row.uid \in NewUid[job[j].user]
    /\ \A j \in Job : job[j].pc \in WithUid => job[j].uid \in NewUid[job[j].user]

LifeInv == StoreTypeOK /\ Integrity /\ JobsOK /\ WorldOK /\ UidsOK

LEMMA UidType == \A u \in User : NewUid[u] \subseteq Uid
BY LifecycleAssumption

\* A slot gets the job r.
LEMMA SlotOK ==
    ASSUME LifeInv, NEW j \in Job, NEW r \in JobRecord, job' = [job EXCEPT ![j] = r],
           r.pc # "idle" => r.user \in User,
           r.pc \in WithPort => r.port \in Port,
           r.pc \in WithRow => r.row \in UserRow,
           last' \in [User -> [op : Operations \cup {"none"}, ok : BOOLEAN]]
    PROVE  JobsOK'
<1>1. job' \in [Job -> JobRecord] /\ job'[j] = r /\ \A k \in Job \ {j} : job'[k] = job[k]
  BY DEF LifeInv, JobsOK
<1>2. \A k \in Job : Coherent(k)'
  BY <1>1 DEF LifeInv, JobsOK, Coherent
<1>. QED
  BY <1>1, <1>2 DEF JobsOK

LEMMA GotoOK ==
    ASSUME LifeInv, NEW j \in Job, NEW step \in Steps \ {"idle"}, job[j].pc # "idle",
           Goto(j, step),
           step \in WithPort => job[j].pc \in WithPort,
           step \in WithRow => job[j].pc \in WithRow
    PROVE  JobsOK'
<1>. DEFINE r == [job[j] EXCEPT !.pc = step]
<1>1. job[j] \in JobRecord /\ Coherent(j)
  BY DEF LifeInv, JobsOK
<1>2. r \in JobRecord /\ r.pc = step /\ r.user = job[j].user /\ r.port = job[j].port
      /\ r.row = job[j].row
  BY <1>1 DEF JobRecord
<1>3. job' = [job EXCEPT ![j] = r] /\ last' = last
  BY DEF Goto
<1>. HIDE DEF r
<1>. QED
  BY <1>1, <1>2, <1>3, SlotOK DEF Coherent, LifeInv, JobsOK

LEMMA FreeIsJob == Free \in JobRecord /\ Free.pc = "idle"
BY DEF Free, JobRecord, Steps

LEMMA FinishOK ==
    ASSUME LifeInv, NEW j \in Job, NEW ok \in BOOLEAN, job[j].pc # "idle", Finish(j, ok)
    PROVE  JobsOK'
<1>1. job[j] \in JobRecord /\ Target(j) \in User
  BY DEF LifeInv, JobsOK, Coherent, Target
<1>2. last' \in [User -> [op : Operations \cup {"none"}, ok : BOOLEAN]]
  BY <1>1 DEF Finish, LifeInv, JobsOK, JobRecord
<1>. QED
  BY <1>2, FreeIsJob, SlotOK DEF Finish, WithPort, WithRow

-----------------------------------------------------------------------------
(* Commands.                                                               *)

LEMMA BoundType == \A port \in Port \cup {0} : Bound(port) \in Port \cup {0}
BY DEF Bound

LEMMA MachineType ==
    ASSUME NEW h \in Machines
    PROVE  /\ GatewayUp(h) \in Machines /\ GatewayDown(h) \in Machines /\ ManagerUp(h) \in Machines
<1>1. ASSUME NEW g \in Machines PROVE GatewayUp(g) \in Machines
  <2>1. Bound(g.unit) \in Port \cup {0}
    BY BoundType DEF Machines
  <2>. DEFINE port == IF g.gateway # 0 THEN g.gateway ELSE Bound(g.unit)
  <2>2. port \in Port \cup {0}
    BY <2>1 DEF Machines
  <2>3. GatewayUp(g) = [g EXCEPT !.started = TRUE, !.gateway = port]
    BY DEF GatewayUp
  <2>. HIDE DEF port
  <2>4. [g EXCEPT !.started = TRUE] \in Machines
    BY DEF Machines
  <2>5. [g EXCEPT !.started = TRUE, !.gateway = port] \in Machines
    BY <2>2, <2>4 DEF Machines
  <2>. QED
    BY <2>3, <2>5
<1>2. GatewayDown(h) \in Machines
  BY DEF GatewayDown, Machines
<1>3. ManagerUp(h) \in Machines
  <2>. DEFINE w == "watcher" \in h.enabled
              up == [h EXCEPT !.manager = TRUE, !.watcher = w]
  <2>1. w \in BOOLEAN
    OBVIOUS
  <2>2. ManagerUp(h) \in {h, up, GatewayUp(up)}
    BY DEF ManagerUp
  <2>. HIDE DEF w
  <2>3. up \in Machines
    BY <2>1 DEF Machines
  <2>. QED
    BY <1>1, <2>2, <2>3
<1>. QED
  BY <1>1, <1>2, <1>3

\* A command that succeeds.
LEMMA RunOK ==
    ASSUME LifeInv, NEW j \in Job, NEW from \in Steps \ {"idle"}, NEW to \in Steps \ {"idle"},
           NEW new \in Machines, Run(j, from, new, to), known' \subseteq PluginId,
           to \in WithPort => from \in WithPort,
           to \in WithRow => from \in WithRow
    PROVE  JobsOK' /\ WorldOK' /\ UNCHANGED storeVars
<1>1. JobsOK'
  BY GotoOK DEF Run, At
<1>2. Target(j) \in User
  BY DEF Run, At, LifeInv, JobsOK, Coherent, Target
<1>. QED
  BY <1>1, <1>2 DEF Run, LifeInv, WorldOK

LEMMA AddCommands ==
    ASSUME LifeInv, NEW j \in Job,
           \/ CreateAccount(j) \/ EnableLinger(j) \/ InstallRuntime(j) \/ RunOnboarding(j)
           \/ WriteUnits(j) \/ StartGateway(j) \/ StartWatcher(j) \/ VerifyReadiness(j)
    PROVE  JobsOK' /\ WorldOK' /\ UNCHANGED storeVars
<1>. DEFINE h == Machine(j)
<1>1. /\ job[j].pc \in {"useradd", "linger", "install", "onboard", "units", "startGateway",
                        "startWatcher", "ready"}
      /\ known' = known
  BY DEF CreateAccount, EnableLinger, InstallRuntime, RunOnboarding, WriteUnits, StartGateway,
         StartWatcher, VerifyReadiness, Run, At
<1>2. h \in Machines /\ job[j].port \in Port /\ known' \subseteq PluginId
  BY <1>1 DEF LifeInv, JobsOK, WorldOK, Coherent, Machine, Target, WithPort
<1>3. CASE CreateAccount(j)
  <2>1. ASSUME Run(j, "useradd", h, "linger") PROVE JobsOK' /\ WorldOK' /\ UNCHANGED storeVars
    BY <1>2, <2>1, RunOK DEF Steps, WithPort, WithRow
  <2>2. ASSUME NEW id \in NewUid[Target(j)],
               Run(j, "useradd", [h EXCEPT !.home = "empty", !.uid = id], "linger")
        PROVE  JobsOK' /\ WorldOK' /\ UNCHANGED storeVars
    <3>1. Target(j) \in User
      BY <1>1 DEF LifeInv, JobsOK, Coherent, Target
    <3>. DEFINE new == [h EXCEPT !.home = "empty", !.uid = id]
    <3>2. new \in Machines
      BY <1>2, <3>1, UidType DEF Machines, Homes
    <3>3. Run(j, "useradd", new, "linger")
      BY <2>2
    <3>. HIDE DEF new
    <3>. QED
      BY <1>2, <3>2, <3>3, RunOK DEF Steps, WithPort, WithRow
  <2>. QED
    BY <1>3, <2>1, <2>2 DEF CreateAccount
<1>4. CASE EnableLinger(j)
  <2>. DEFINE new == [ManagerUp(h) EXCEPT !.linger = TRUE]
  <2>1. new \in Machines
    BY <1>2, MachineType DEF Machines
  <2>2. Run(j, "linger", new, "install")
    BY <1>4 DEF EnableLinger
  <2>. HIDE DEF new
  <2>. QED
    BY <1>2, <2>1, <2>2, RunOK DEF Steps, WithPort, WithRow
<1>5. CASE InstallRuntime(j)
  <2>. DEFINE new == [ManagerUp(h) EXCEPT !.archived = FALSE,
                                          !.home = IF @ = "empty" THEN "runtime" ELSE @]
  <2>1. new \in Machines
    <3>1. ManagerUp(h) \in Machines
      BY <1>2, MachineType
    <3>. QED
      BY <3>1 DEF Machines, Homes
  <2>2. host' = [host EXCEPT ![Target(j)] = new]
    BY <1>5 DEF InstallRuntime
  <2>. HIDE DEF new
  <2>3. Target(j) \in User /\ Target(j) = job[j].user /\ job[j] \in JobRecord
    BY <1>1 DEF LifeInv, JobsOK, Coherent, Target
  <2>4. WorldOK' /\ UNCHANGED storeVars
    BY <1>5, <2>1, <2>2, <2>3 DEF InstallRuntime, LifeInv, WorldOK
  <2>. DEFINE id == KnownUid(j)
              r == [job[j] EXCEPT !.pc = "onboard", !.uid = id]
  <2>5. id \in Uid \cup {0}
    BY <1>2, <2>3 DEF KnownUid, JobRecord, UserRow, NoUser, Machines
  <2>6. job' = [job EXCEPT ![j] = r] /\ last' = last
    BY <1>5 DEF InstallRuntime
  <2>. HIDE DEF id
  <2>7. r \in JobRecord /\ r.pc = "onboard" /\ r.user = Target(j) /\ r.port = job[j].port
    BY <2>3, <2>5 DEF JobRecord, Steps
  <2>. HIDE DEF r
  <2>8. JobsOK'
    BY <1>2, <2>3, <2>6, <2>7, SlotOK DEF WithRow, LifeInv, JobsOK
  <2>. QED
    BY <2>4, <2>8
<1>6. CASE RunOnboarding(j)
  <2>. DEFINE files == [h EXCEPT !.home = "onboarded", !.archived = FALSE]
              daemon == [files EXCEPT !.unit = job[j].port, !.enabled = @ \cup {"gateway"}]
              restarted == IF files.gateway = job[j].port THEN daemon
                           ELSE GatewayUp(GatewayDown(daemon))
  <2>1. files \in Machines
    BY <1>2 DEF Machines, Homes
  <2>2. daemon \in Machines
    <3>. HIDE DEF files
    <3>. QED
      BY <1>2, <2>1 DEF Machines
  <2>3. restarted \in Machines
    <3>. HIDE DEF files, daemon
    <3>. QED
      BY <2>2, MachineType
  <2>4. \E after \in {files, restarted} : Run(j, "onboard", after, "units")
    BY <1>6 DEF RunOnboarding
  <2>. HIDE DEF files, restarted
  <2>. QED
    BY <1>2, <2>1, <2>3, <2>4, RunOK DEF Steps, WithPort, WithRow
<1>7. CASE WriteUnits(j)
  <2>. DEFINE new == [h EXCEPT !.unit = job[j].port, !.archived = FALSE]
  <2>1. new \in Machines
    BY <1>2 DEF Machines
  <2>2. Run(j, "units", new, "startGateway")
    BY <1>7 DEF WriteUnits
  <2>. HIDE DEF new
  <2>. QED
    BY <1>2, <2>1, <2>2, RunOK DEF Steps, WithPort, WithRow
<1>8. CASE StartGateway(j)
  <2>. DEFINE new == [GatewayUp(h) EXCEPT !.enabled = @ \cup {"gateway"}]
  <2>1. new \in Machines
    BY <1>2, MachineType DEF Machines
  <2>2. Run(j, "startGateway", new, "startWatcher")
    BY <1>8 DEF StartGateway
  <2>. HIDE DEF new
  <2>. QED
    BY <1>2, <2>1, <2>2, RunOK DEF Steps, WithPort, WithRow
<1>9. CASE StartWatcher(j)
  <2>. DEFINE new == [h EXCEPT !.watcher = TRUE, !.enabled = @ \cup {"watcher"}]
  <2>1. new \in Machines
    BY <1>2 DEF Machines
  <2>2. Run(j, "startWatcher", new, "ready")
    BY <1>9 DEF StartWatcher
  <2>. HIDE DEF new
  <2>. QED
    BY <1>2, <2>1, <2>2, RunOK DEF Steps, WithPort, WithRow
<1>10. CASE VerifyReadiness(j)
  BY <1>2, <1>10, RunOK DEF VerifyReadiness, Steps, WithPort, WithRow
<1>. QED
  BY <1>3, <1>4, <1>5, <1>6, <1>7, <1>8, <1>9, <1>10

LEMMA DownCommands ==
    ASSUME LifeInv, NEW j \in Job,
           \/ StopServices(j) \/ DisableLinger(j) \/ BackUp(j) \/ Uninstall(j) \/ DeleteAccount(j)
    PROVE  JobsOK' /\ WorldOK' /\ UNCHANGED storeVars
<1>. DEFINE h == Machine(j)
<1>1. job[j].pc # "idle" /\ known' \subseteq PluginId
  BY DEF StopServices, DisableLinger, BackUp, Uninstall, DeleteAccount, Run, At, LifeInv, WorldOK
<1>2. h \in Machines
  BY <1>1 DEF LifeInv, JobsOK, WorldOK, Coherent, Machine, Target
<1>3. CASE StopServices(j)
  <2>. DEFINE new == [GatewayDown(h) EXCEPT !.watcher = FALSE]
  <2>1. new \in Machines
    BY <1>2, MachineType DEF Machines
  <2>2. Run(j, "stop", new, "unlinger")
    BY <1>3 DEF StopServices
  <2>. HIDE DEF new
  <2>. QED
    BY <1>1, <2>1, <2>2, RunOK DEF Steps, WithPort, WithRow
<1>4. CASE DisableLinger(j)
  <2>. DEFINE new == [h EXCEPT !.linger = FALSE]
  <2>1. new \in Machines
    BY <1>2 DEF Machines
  <2>2. Run(j, "unlinger", new, "disable") \/ Run(j, "dropLinger", new, "userdel")
    BY <1>4 DEF DisableLinger
  <2>. HIDE DEF new
  <2>. QED
    BY <1>1, <2>1, <2>2, RunOK DEF Steps, WithPort, WithRow
<1>5. CASE BackUp(j)
  <2>. DEFINE new == [h EXCEPT !.archived = TRUE]
  <2>1. new \in Machines
    BY <1>2 DEF Machines
  <2>2. Run(j, "backup", new, "unroute")
    BY <1>5 DEF BackUp
  <2>. HIDE DEF new
  <2>. QED
    BY <1>1, <2>1, <2>2, RunOK DEF Steps, WithPort, WithRow
<1>6. CASE Uninstall(j)
  <2>1. PICK after \in {h, GatewayDown(h)} :
            Run(j, "uninstall", [after EXCEPT !.home = "runtime"], "dropLinger")
    BY <1>6 DEF Uninstall
  <2>. DEFINE new == [after EXCEPT !.home = "runtime"]
  <2>2. new \in Machines
    BY <1>2, MachineType DEF Machines, Homes
  <2>3. Run(j, "uninstall", new, "dropLinger")
    BY <2>1
  <2>. HIDE DEF new
  <2>. QED
    BY <1>1, <2>2, <2>3, RunOK DEF Steps, WithPort, WithRow
<1>7. CASE DeleteAccount(j)
  <2>1. NoAccount \in Machines
    BY DEF NoAccount, Machines, Homes
  <2>. QED
    BY <1>1, <1>7, <2>1, RunOK DEF DeleteAccount, Steps, WithPort, WithRow
<1>. QED
  BY <1>3, <1>4, <1>5, <1>6, <1>7

LEMMA FaultBudget ==
    ASSUME LifeInv, NEW j \in Job, Fault(j)
    PROVE  budget' \in 0 .. Budget
BY LifecycleAssumption DEF Fault, LifeInv, WorldOK

LEMMA CommandFailure ==
    ASSUME LifeInv, NEW j \in Job, CommandFails(j)
    PROVE  JobsOK' /\ WorldOK' /\ UNCHANGED storeVars
<1>1. job[j].pc # "idle" /\ Finish(j, FALSE) /\ UNCHANGED <<storeVars, host, served, known>>
  BY DEF CommandFails, CommandSteps, TenantSteps
<1>2. budget' \in 0 .. Budget
  BY FaultBudget DEF CommandFails, LifeInv, WorldOK
<1>. QED
  BY <1>1, <1>2, FinishOK DEF LifeInv, WorldOK

-----------------------------------------------------------------------------
(* Rows and calls.                                                         *)

LEMMA Reads ==
    ASSUME LifeInv, NEW j \in Job, ReadPrevious(j) \/ AllocatePort(j) \/ ReadUser(j)
    PROVE  JobsOK' /\ WorldOK' /\ UNCHANGED storeVars
<1>1. job[j].pc # "idle" /\ UNCHANGED <<storeVars, host, served, known, budget>>
  BY DEF ReadPrevious, AllocatePort, ReadUser, At
<1>2. WorldOK'
  BY <1>1 DEF LifeInv, WorldOK
<1>3. /\ job[j] \in JobRecord /\ Target(j) \in User /\ job[j].user = Target(j)
      /\ users[Target(j)] \in UserRow \cup {NoUser}
  BY <1>1 DEF LifeInv, JobsOK, Coherent, Target, StoreTypeOK
<1>4. CASE ReadPrevious(j)
  <2>. DEFINE r == [job[j] EXCEPT !.pc = "port", !.row = users[Target(j)]]
  <2>1. r \in JobRecord /\ r.pc = "port" /\ r.user = Target(j)
    BY <1>3 DEF JobRecord, Steps
  <2>2. job' = [job EXCEPT ![j] = r] /\ last' = last
    BY <1>4 DEF ReadPrevious
  <2>. HIDE DEF r
  <2>3. JobsOK'
    BY <1>3, <2>1, <2>2, SlotOK DEF WithPort, WithRow, LifeInv, JobsOK
  <2>. QED
    BY <1>1, <1>2, <2>3
<1>5. CASE AllocatePort(j)
  <2>. DEFINE port == IF job[j].row.port # 0 THEN job[j].row.port ELSE LowestFreePort
              r == [job[j] EXCEPT !.pc = "useradd", !.port = port]
  <2>1. port \in Port
    BY <1>3, PortLeft DEF JobRecord, UserRow, NoUser, LifeInv
  <2>2. job' = [job EXCEPT ![j] = r] /\ last' = last
    BY <1>5 DEF AllocatePort
  <2>. HIDE DEF port
  <2>3. r \in JobRecord /\ r.pc = "useradd" /\ r.user = Target(j) /\ r.port = port
    BY <1>3, <2>1 DEF JobRecord, Steps
  <2>. HIDE DEF r
  <2>4. JobsOK'
    BY <1>3, <2>1, <2>2, <2>3, SlotOK DEF WithRow, LifeInv, JobsOK
  <2>. QED
    BY <1>1, <1>2, <2>4
<1>6. CASE ReadUser(j)
  <2>1. CASE Finish(j, FALSE) \/ Finish(j, TRUE)
    BY <1>1, <1>2, <2>1, FinishOK
  <2>2. CASE \E step \in {"add", "backup", "deactivate"} : Goto(j, step)
    BY <1>1, <1>2, <2>2, GotoOK DEF Steps, WithPort, WithRow
  <2>3. CASE /\ users[Target(j)].status = "active" /\ UNCHANGED last
             /\ job' = [job EXCEPT ![j].pc = "stop", ![j].row = users[Target(j)],
                                   ![j].uid = users[Target(j)].uid]
    <3>. DEFINE r == [job[j] EXCEPT !.pc = "stop", !.row = users[Target(j)],
                                    !.uid = users[Target(j)].uid]
    <3>1. users[Target(j)] \in UserRow
      BY <1>3, <2>3 DEF NoUser
    <3>2. r \in JobRecord /\ r.pc = "stop" /\ r.user = Target(j) /\ r.row \in UserRow
      BY <1>3, <3>1 DEF JobRecord, UserRow, Steps
    <3>3. job' = [job EXCEPT ![j] = r] /\ last' = last
      BY <2>3
    <3>. HIDE DEF r
    <3>4. JobsOK'
      BY <1>3, <3>2, <3>3, SlotOK DEF WithPort, LifeInv, JobsOK
    <3>. QED
      BY <1>1, <1>2, <3>4
  <2>. QED
    BY <1>6, <2>1, <2>2, <2>3 DEF ReadUser
<1>. QED
  BY <1>4, <1>5, <1>6

\* What a write of a row leaves alone, and the job after it.
LEMMA Writes ==
    ASSUME LifeInv, NEW j \in Job,
           \/ RecordActive(j) \/ RecordPaused(j) \/ DeleteUserRow(j) \/ UndoAdd(j)
           \/ StatementFails(j)
    PROVE  JobsOK' /\ WorldOK' /\ [StoreNext]_storeVars
<1>1. job[j].pc # "idle" /\ UNCHANGED <<host, served, known>>
  BY DEF RecordActive, RecordPaused, DeleteUserRow, UndoAdd, StatementFails, At
<1>2. budget' \in 0 .. Budget
  BY FaultBudget DEF RecordActive, RecordPaused, DeleteUserRow, UndoAdd, StatementFails, LifeInv,
                     WorldOK
<1>3. WorldOK'
  BY <1>1, <1>2 DEF LifeInv, WorldOK
<1>4. JobsOK'
  BY <1>1, GotoOK, FinishOK DEF RecordActive, RecordPaused, DeleteUserRow, UndoAdd,
     StatementFails, At, Steps, WithPort, WithRow
<1>5. /\ Target(j) \in User /\ job[j] \in JobRecord /\ Coherent(j)
  BY <1>1 DEF LifeInv, JobsOK, Coherent, Target
<1>6. CASE RecordActive(j)
  <2>1. job[j].uid \in Uid
    BY <1>5, <1>6, UidType DEF RecordActive, At, LifeInv, UidsOK, WithUid, Target
  <2>2. ActiveRow(job[j].port, job[j].uid) \in UserRow
    BY <1>5, <1>6, <2>1 DEF RecordActive, At, Coherent, WithPort, ActiveRow, UserRow
  <2>. QED
    BY <1>3, <1>4, <1>5, <1>6, <2>2 DEF RecordActive, StoreNext
<1>7. CASE RecordPaused(j)
  <2>1. [job[j].row EXCEPT !.status = "paused", !.linger = FALSE] \in UserRow
    BY <1>5, <1>7 DEF RecordPaused, At, Coherent, WithRow, UserRow
  <2>. QED
    BY <1>3, <1>4, <1>5, <1>7, <2>1 DEF RecordPaused, StoreNext
<1>8. CASE DeleteUserRow(j)
  BY <1>3, <1>4, <1>5, <1>8 DEF DeleteUserRow, StoreNext
<1>9. CASE UndoAdd(j)
  <2>1. job[j].row # NoUser => job[j].row \in UserRow
    BY <1>5 DEF JobRecord
  <2>. QED
    BY <1>3, <1>4, <1>5, <1>9, <2>1 DEF UndoAdd, StoreNext
<1>10. CASE StatementFails(j)
  BY <1>3, <1>4, <1>10 DEF StatementFails
<1>. QED
  BY <1>6, <1>7, <1>8, <1>9, <1>10

LEMMA RenderingType ==
    ASSUME NEW table \in [RouteId -> RouteRow \cup {NoRoute}]
    PROVE  Rendering(table) \subseteq [id : RouteId, port : Port]
<1>1. \A id \in RouteId : table[id].state = "enabled" => table[id].port \in Port
  BY DEF RouteRow, NoRoute
<1>. QED
  BY <1>1 DEF Rendering

LEMMA StatementIsStore ==
    ASSUME LifeInv, NEW j \in Job, RouteStatement(j)
    PROVE  [StoreNext]_storeVars
<1>1. Coherent(j) /\ job[j].pc # "idle"
  BY DEF LifeInv, JobsOK, RouteStatement, At
<1>2. Target(j) \in User /\ GatewayId[Target(j)] \in RouteId
  BY <1>1, StoreAssumption DEF Coherent, Target
<1>3. At(j, "route") => job[j].port \in Port
  BY <1>1 DEF Coherent, At, WithPort
<1>. QED
  BY <1>2, <1>3 DEF RouteStatement, StoreNext

LEMMA Calls ==
    ASSUME LifeInv, NEW j \in Job, RouteCall(j) \/ RouteCallFails(j)
    PROVE  JobsOK' /\ WorldOK' /\ [StoreNext]_storeVars
<1>1. [StoreNext]_storeVars
  BY StatementIsStore DEF RouteCall, RouteCallFails
<1>2. StoreTypeOK'
  BY <1>1, StoreNextOK DEF LifeInv
<1>3. Rendering(routes') \subseteq [id : RouteId, port : Port]
  BY <1>2, RenderingType DEF StoreTypeOK
<1>4. /\ served' \in {served, Rendering(routes')} /\ UNCHANGED <<host, known>>
      /\ job[j].pc \in {"route", "disable", "unroute"}
  BY DEF RouteCall, RouteCallFails, RouteStatement, RouteRefused, At
<1>5. budget' \in 0 .. Budget
  BY FaultBudget DEF RouteCall, RouteCallFails, LifeInv, WorldOK
<1>6. WorldOK'
  BY <1>3, <1>4, <1>5 DEF LifeInv, WorldOK
<1>7. JobsOK'
  BY <1>4, GotoOK, FinishOK DEF RouteCall, RouteCallFails, At, Steps, WithPort, WithRow
<1>. QED
  BY <1>1, <1>6, <1>7

\* The tenant, systemd, logind and the watcher.
LEMMA Environs ==
    ASSUME LifeInv, Environment
    PROVE  JobsOK' /\ WorldOK' /\ [StoreNext]_storeVars
<1>1. ASSUME UNCHANGED <<job, last>> PROVE JobsOK'
  BY <1>1 DEF LifeInv, JobsOK, Coherent
<1>2. ASSUME NEW u \in User, TenantWrites(u) \/ GatewayRetries(u) \/ ManagerStops(u)
      PROVE  JobsOK' /\ WorldOK' /\ [StoreNext]_storeVars
  <2>1. UNCHANGED <<storeVars, served, known, job, last, budget>>
    BY <1>2 DEF TenantWrites, GatewayRetries, ManagerStops
  <2>2. host[u] \in Machines
    BY DEF LifeInv, WorldOK
  <2>3. \E new \in Machines : host' = [host EXCEPT ![u] = new]
    <3>1. CASE TenantWrites(u)
      <4>1. [host[u] EXCEPT !.archived = FALSE] \in Machines
        BY <2>2 DEF Machines
      <4>. QED
        BY <3>1, <4>1 DEF TenantWrites
    <3>2. CASE GatewayRetries(u)
      <4>. DEFINE port == Bound(host[u].unit)
      <4>1. port \in Port \cup {0}
        BY <2>2, BoundType DEF Machines
      <4>2. host' = [host EXCEPT ![u] = [host[u] EXCEPT !.gateway = port]]
        BY <3>2 DEF GatewayRetries
      <4>. HIDE DEF port
      <4>3. [host[u] EXCEPT !.gateway = port] \in Machines
        BY <2>2, <4>1 DEF Machines
      <4>. QED
        BY <4>2, <4>3
    <3>3. CASE ManagerStops(u)
      <4>1. [GatewayDown(host[u]) EXCEPT !.manager = FALSE, !.watcher = FALSE] \in Machines
        BY <2>2, MachineType DEF Machines
      <4>. QED
        BY <3>3, <4>1 DEF ManagerStops
    <3>. QED
      BY <1>2, <3>1, <3>2, <3>3
  <2>4. WorldOK'
    BY <2>1, <2>3 DEF LifeInv, WorldOK
  <2>. QED
    BY <1>1, <2>1, <2>4
<1>3. ASSUME NEW id \in PluginId,
             WatcherRetires(id) \/ \E port \in Port : WatcherPublishes(id, port)
      PROVE  JobsOK' /\ WorldOK' /\ [StoreNext]_storeVars
  <2>1. [StoreNext]_storeVars
    BY <1>3 DEF WatcherRetires, WatcherPublishes, StoreNext, PluginId
  <2>2. Rendering(routes') \subseteq [id : RouteId, port : Port]
    BY <2>1, StoreNextOK, RenderingType DEF LifeInv, StoreTypeOK
  <2>3. UNCHANGED <<host, job, last, budget>> /\ served' = Rendering(routes')
        /\ known' \subseteq PluginId
    BY <1>3 DEF WatcherRetires, WatcherPublishes, LifeInv, WorldOK
  <2>4. WorldOK'
    BY <2>2, <2>3 DEF LifeInv, WorldOK
  <2>. QED
    BY <1>1, <2>1, <2>3, <2>4
<1>. QED
  BY <1>2, <1>3 DEF Environment

LEMMA Starts ==
    ASSUME LifeInv, NEW j \in Job, NEW op \in Operations, NEW u \in User, Start(j, op, u)
    PROVE  JobsOK' /\ WorldOK' /\ UNCHANGED storeVars
<1>. DEFINE r == [Free EXCEPT !.pc = op, !.op = op, !.user = u]
<1>1. r \in JobRecord /\ r.pc = op /\ r.user = u
  BY DEF Free, JobRecord, Steps, Operations
<1>2. job' = [job EXCEPT ![j] = r] /\ UNCHANGED <<storeVars, host, served, known, last, budget>>
  BY DEF Start
<1>. HIDE DEF r
<1>3. JobsOK'
  BY <1>1, <1>2, SlotOK DEF Operations, WithPort, WithRow, LifeInv, JobsOK
<1>. QED
  BY <1>2, <1>3 DEF LifeInv, WorldOK

-----------------------------------------------------------------------------
(* Uids.                                                                   *)

\* What systemd does to a machine leaves the account alone.
LEMMA AccountKept ==
    ASSUME NEW h \in Machines
    PROVE  /\ GatewayUp(h).home = h.home /\ GatewayUp(h).uid = h.uid
           /\ GatewayDown(h).home = h.home /\ GatewayDown(h).uid = h.uid
           /\ ManagerUp(h).home = h.home /\ ManagerUp(h).uid = h.uid
<1>1. \A g \in Machines : GatewayUp(g).home = g.home /\ GatewayUp(g).uid = g.uid
  BY DEF GatewayUp, Machines
<1>2. GatewayDown(h).home = h.home /\ GatewayDown(h).uid = h.uid
  BY DEF GatewayDown, Machines
<1>3. ManagerUp(h).home = h.home /\ ManagerUp(h).uid = h.uid
  <2>. DEFINE w == "watcher" \in h.enabled
              up == [h EXCEPT !.manager = TRUE, !.watcher = w]
  <2>1. ManagerUp(h) \in {h, up, GatewayUp(up)} /\ w \in BOOLEAN
    BY DEF ManagerUp
  <2>. HIDE DEF w
  <2>2. up \in Machines /\ up.home = h.home /\ up.uid = h.uid
    BY <2>1 DEF Machines
  <2>. HIDE DEF up
  <2>. QED
    BY <1>1, <2>1, <2>2
<1>. QED
  BY <1>1, <1>2, <1>3

LEMMA AccountUids ==
    ASSUME LifeInv, Next, NEW u \in User, HasAccount(u)'
    PROVE  host'[u].uid \in NewUid[u]
<1>. DEFINE Same(h, g) == h \in Machines /\ h.home # "none" /\ h.uid = g.uid
<1>1. /\ host \in [User -> Machines]
      /\ \A v \in User : host[v].home # "none" => host[v].uid \in NewUid[v]
  BY DEF LifeInv, WorldOK, UidsOK, HasAccount
<1>2. CASE UNCHANGED host
  BY <1>1, <1>2 DEF HasAccount
<1>3. ASSUME NEW j \in Job, NEW h, host' = [host EXCEPT ![Target(j)] = h], Target(j) \in User,
             \/ h = NoAccount
             \/ h.uid \in NewUid[Target(j)]
             \/ h.uid = Machine(j).uid /\ HasAccount(Target(j))
      PROVE  host'[u].uid \in NewUid[u]
  BY <1>1, <1>3 DEF HasAccount, NoAccount, Machine
<1>4. ASSUME NEW j \in Job, CreateAccount(j) PROVE host'[u].uid \in NewUid[u]
  <2>1. Target(j) \in User
    BY <1>4 DEF CreateAccount, At, LifeInv, JobsOK, Coherent, Target
  <2>2. Machine(j) \in Machines
    BY <1>1, <2>1 DEF Machine
  <2>3. CASE HasAccount(Target(j))
    BY <1>3, <1>4, <2>1, <2>3 DEF CreateAccount, Run
  <2>4. CASE ~HasAccount(Target(j))
    <3>1. PICK id \in NewUid[Target(j)] :
              Run(j, "useradd", [Machine(j) EXCEPT !.home = "empty", !.uid = id], "linger")
      BY <1>4, <2>4 DEF CreateAccount
    <3>. DEFINE h == [Machine(j) EXCEPT !.home = "empty", !.uid = id]
    <3>2. h.uid = id /\ host' = [host EXCEPT ![Target(j)] = h]
      BY <2>2, <3>1 DEF Run, Machines
    <3>. HIDE DEF h
    <3>. QED
      BY <1>3, <2>1, <3>2
  <2>. QED
    BY <2>3, <2>4
<1>5. ASSUME NEW j \in Job,
             \/ EnableLinger(j) \/ InstallRuntime(j) \/ RunOnboarding(j) \/ WriteUnits(j)
             \/ StartGateway(j) \/ StartWatcher(j) \/ VerifyReadiness(j)
             \/ StopServices(j) \/ DisableLinger(j) \/ BackUp(j) \/ Uninstall(j)
      PROVE  host'[u].uid \in NewUid[u]
  <2>1. job[j].pc \in TenantSteps \cup {"ready", "backup", "uninstall"} /\ Feasible(j)
    BY <1>5 DEF EnableLinger, InstallRuntime, RunOnboarding, WriteUnits, StartGateway, StartWatcher,
       VerifyReadiness, StopServices, DisableLinger, BackUp, Uninstall, Run, At, TenantSteps
  <2>2. HasAccount(Target(j))
    BY <2>1 DEF Feasible, Ready, HasRuntime, HasAccount, At
  <2>3. Target(j) \in User
    BY <2>1 DEF TenantSteps, LifeInv, JobsOK, Coherent, Target
  <2>4. Machine(j) \in Machines
    BY <1>1, <2>3 DEF Machine
  <2>5. \E h : host' = [host EXCEPT ![Target(j)] = h] /\ h.uid = Machine(j).uid
    <3>1. CASE EnableLinger(j)
      <4>1. [ManagerUp(Machine(j)) EXCEPT !.linger = TRUE].uid = Machine(j).uid
        BY <2>4, AccountKept, MachineType DEF Machines
      <4>. QED
        BY <3>1, <4>1 DEF EnableLinger, Run
    <3>2. CASE InstallRuntime(j)
      <4>1. [ManagerUp(Machine(j)) EXCEPT !.archived = FALSE,
               !.home = IF @ = "empty" THEN "runtime" ELSE @].uid = Machine(j).uid
        BY <2>4, AccountKept, MachineType DEF Machines
      <4>. QED
        BY <3>2, <4>1 DEF InstallRuntime
    <3>3. CASE RunOnboarding(j)
      <4>. DEFINE files == [Machine(j) EXCEPT !.home = "onboarded", !.archived = FALSE]
                  daemon == [files EXCEPT !.unit = job[j].port, !.enabled = @ \cup {"gateway"}]
                  restarted == IF files.gateway = job[j].port THEN daemon
                               ELSE GatewayUp(GatewayDown(daemon))
      <4>1. files \in Machines /\ files.uid = Machine(j).uid
        BY <2>4 DEF Machines, Homes
      <4>2. job[j].port \in Port
        BY <3>3 DEF RunOnboarding, At, LifeInv, JobsOK, Coherent, WithPort
      <4>3. daemon \in Machines /\ daemon.uid = Machine(j).uid
        <5>. HIDE DEF files
        <5>. QED
          BY <4>1, <4>2 DEF Machines
      <4>4. restarted.uid = Machine(j).uid
        <5>. HIDE DEF daemon, files
        <5>. QED
          BY <4>3, AccountKept, MachineType
      <4>5. \E after \in {files, restarted} : Run(j, "onboard", after, "units")
        BY <3>3 DEF RunOnboarding
      <4>. HIDE DEF files, restarted
      <4>. QED
        BY <4>1, <4>4, <4>5 DEF Run
    <3>4. CASE WriteUnits(j)
      <4>1. [Machine(j) EXCEPT !.unit = job[j].port, !.archived = FALSE].uid = Machine(j).uid
        BY <2>4 DEF Machines
      <4>. QED
        BY <3>4, <4>1 DEF WriteUnits, Run
    <3>5. CASE StartGateway(j)
      <4>1. [GatewayUp(Machine(j)) EXCEPT !.enabled = @ \cup {"gateway"}].uid = Machine(j).uid
        BY <2>4, AccountKept, MachineType DEF Machines
      <4>. QED
        BY <3>5, <4>1 DEF StartGateway, Run
    <3>6. CASE StartWatcher(j)
      <4>1. [Machine(j) EXCEPT !.watcher = TRUE, !.enabled = @ \cup {"watcher"}].uid
                = Machine(j).uid
        BY <2>4 DEF Machines
      <4>. QED
        BY <3>6, <4>1 DEF StartWatcher, Run
    <3>7. CASE VerifyReadiness(j)
      BY <3>7 DEF VerifyReadiness, Run
    <3>8. CASE StopServices(j)
      <4>1. [GatewayDown(Machine(j)) EXCEPT !.watcher = FALSE].uid = Machine(j).uid
        BY <2>4, AccountKept, MachineType DEF Machines
      <4>. QED
        BY <3>8, <4>1 DEF StopServices, Run
    <3>9. CASE DisableLinger(j)
      <4>1. [Machine(j) EXCEPT !.linger = FALSE].uid = Machine(j).uid
        BY <2>4 DEF Machines
      <4>. QED
        BY <3>9, <4>1 DEF DisableLinger, Run
    <3>10. CASE BackUp(j)
      <4>1. [Machine(j) EXCEPT !.archived = TRUE].uid = Machine(j).uid
        BY <2>4 DEF Machines
      <4>. QED
        BY <3>10, <4>1 DEF BackUp, Run
    <3>11. CASE Uninstall(j)
      <4>1. PICK after \in {Machine(j), GatewayDown(Machine(j))} :
                Run(j, "uninstall", [after EXCEPT !.home = "runtime"], "dropLinger")
        BY <3>11 DEF Uninstall
      <4>2. after \in Machines /\ after.uid = Machine(j).uid
        BY <2>4, AccountKept, MachineType
      <4>3. [after EXCEPT !.home = "runtime"].uid = Machine(j).uid
        BY <4>2 DEF Machines
      <4>. QED
        BY <4>1, <4>3 DEF Run
    <3>. QED
      BY <1>5, <3>1, <3>2, <3>3, <3>4, <3>5, <3>6, <3>7, <3>8, <3>9, <3>10, <3>11
  <2>. QED
    BY <1>3, <2>2, <2>3, <2>5
<1>6. ASSUME NEW j \in Job, DeleteAccount(j) PROVE host'[u].uid \in NewUid[u]
  <2>1. Target(j) \in User
    BY <1>6 DEF DeleteAccount, Run, At, LifeInv, JobsOK, Coherent, Target
  <2>. QED
    BY <1>3, <1>6, <2>1 DEF DeleteAccount, Run
<1>7. ASSUME NEW v \in User, TenantWrites(v) \/ GatewayRetries(v) \/ ManagerStops(v)
      PROVE  host'[u].uid \in NewUid[u]
  <2>1. host[v] \in Machines
    BY <1>1
  <2>2. CASE TenantWrites(v)
    BY <1>1, <2>1, <2>2 DEF TenantWrites, HasAccount, Machines
  <2>3. CASE GatewayRetries(v)
    BY <1>1, <2>1, <2>3 DEF GatewayRetries, HasAccount, Machines
  <2>4. CASE ManagerStops(v)
    <3>. DEFINE h == [GatewayDown(host[v]) EXCEPT !.manager = FALSE, !.watcher = FALSE]
    <3>1. h.home = host[v].home /\ h.uid = host[v].uid
      BY <2>1, AccountKept, MachineType DEF Machines
    <3>2. host' = [host EXCEPT ![v] = h]
      BY <2>4 DEF ManagerStops
    <3>. HIDE DEF h
    <3>. QED
      BY <1>1, <3>1, <3>2 DEF HasAccount
  <2>. QED
    BY <1>7, <2>2, <2>3, <2>4
<1>8. ASSUME NEW j \in Job,
             \/ ReadPrevious(j) \/ AllocatePort(j) \/ ReadUser(j) \/ RecordActive(j) \/ UndoAdd(j)
             \/ RecordPaused(j) \/ DeleteUserRow(j) \/ RouteCall(j) \/ RouteCallFails(j)
             \/ CommandFails(j) \/ StatementFails(j)
      PROVE  UNCHANGED host
  BY <1>8 DEF ReadPrevious, AllocatePort, ReadUser, RecordActive, UndoAdd, RecordPaused,
     DeleteUserRow, RouteCall, RouteCallFails, CommandFails, StatementFails
<1>9. ASSUME NEW j \in Job, JobStep(j) PROVE host'[u].uid \in NewUid[u]
  BY <1>2, <1>4, <1>5, <1>6, <1>8, <1>9 DEF JobStep, AddStep, DownStep
<1>10. ASSUME Environment PROVE host'[u].uid \in NewUid[u]
  <2>1. CASE \E id \in PluginId : WatcherRetires(id) \/ \E port \in Port : WatcherPublishes(id, port)
    BY <1>2, <2>1 DEF WatcherRetires, WatcherPublishes
  <2>. QED
    BY <1>7, <1>10, <2>1 DEF Environment
<1>11. ASSUME NEW j \in Job, NEW op \in Operations, NEW v \in User, Start(j, op, v)
       PROVE  host'[u].uid \in NewUid[u]
  BY <1>2, <1>11 DEF Start
<1>. QED
  BY <1>9, <1>10, <1>11 DEF Next

LEMMA RowUids ==
    ASSUME LifeInv, Next, NEW u \in User, UserExists(u)'
    PROVE  users'[u].uid \in NewUid[u]
<1>1. /\ users \in [User -> UserRow \cup {NoUser}]
      /\ \A v \in User : users[v].status # "none" => users[v].uid \in NewUid[v]
  BY DEF LifeInv, StoreTypeOK, UidsOK, UserExists
<1>2. CASE UNCHANGED users
  BY <1>1, <1>2 DEF UserExists
<1>3. ASSUME NEW v \in User, NEW row, users' = [users EXCEPT ![v] = row],
             row # NoUser => row.uid \in NewUid[v]
      PROVE  users'[u].uid \in NewUid[u]
  BY <1>1, <1>3 DEF UserExists, NoUser
<1>4. ASSUME NEW j \in Job,
             RecordActive(j) \/ RecordPaused(j) \/ DeleteUserRow(j) \/ UndoAdd(j)
      PROVE  users'[u].uid \in NewUid[u]
  <2>1. /\ Target(j) \in User /\ Coherent(j) /\ job[j].pc # "idle" /\ Target(j) = job[j].user
        /\ job[j].row # NoUser => job[j].row.uid \in NewUid[Target(j)]
        /\ job[j].pc \in WithUid => job[j].uid \in NewUid[Target(j)]
    BY <1>4 DEF RecordActive, RecordPaused, DeleteUserRow, UndoAdd, At, LifeInv, JobsOK, Coherent,
       Target, UidsOK
  <2>2. CASE RecordActive(j)
    <3>1. ActiveRow(job[j].port, job[j].uid).uid \in NewUid[Target(j)]
      BY <2>1, <2>2 DEF RecordActive, At, WithUid, ActiveRow
    <3>. QED
      BY <1>3, <2>1, <2>2, <3>1 DEF RecordActive, UpsertUser
  <2>3. CASE RecordPaused(j)
    <3>. DEFINE row == [job[j].row EXCEPT !.status = "paused", !.linger = FALSE]
    <3>1. job[j].row \in UserRow
      BY <2>1, <2>3 DEF RecordPaused, At, Coherent, WithRow
    <3>2. row.uid \in NewUid[Target(j)]
      BY <2>1, <3>1 DEF UserRow, NoUser
    <3>3. users' = [users EXCEPT ![Target(j)] = row]
      BY <2>3 DEF RecordPaused, UpsertUser
    <3>. HIDE DEF row
    <3>. QED
      BY <1>3, <2>1, <3>2, <3>3
  <2>4. CASE DeleteUserRow(j)
    BY <1>3, <2>1, <2>4 DEF DeleteUserRow, DeleteUser
  <2>5. CASE UndoAdd(j)
    <3>1. \/ UpsertUser(Target(j), job[j].row) /\ job[j].row # NoUser
          \/ DeleteUser(Target(j))
          \/ UNCHANGED storeVars
      BY <2>5 DEF UndoAdd
    <3>. QED
      BY <1>2, <1>3, <2>1, <3>1 DEF UpsertUser, DeleteUser, storeVars
  <2>. QED
    BY <1>4, <2>2, <2>3, <2>4, <2>5
<1>5. ASSUME NEW j \in Job, RouteCall(j) \/ RouteCallFails(j) PROVE UNCHANGED users
  BY <1>5 DEF RouteCall, RouteCallFails, RouteStatement, UpsertRoute, SetRoutesEnabled, DeleteRoute,
     storeVars
<1>6. ASSUME NEW j \in Job,
             \/ ReadPrevious(j) \/ AllocatePort(j) \/ ReadUser(j)
             \/ CreateAccount(j) \/ EnableLinger(j) \/ InstallRuntime(j) \/ RunOnboarding(j)
             \/ WriteUnits(j) \/ StartGateway(j) \/ StartWatcher(j) \/ VerifyReadiness(j)
             \/ StopServices(j) \/ DisableLinger(j) \/ BackUp(j) \/ Uninstall(j) \/ DeleteAccount(j)
             \/ CommandFails(j) \/ StatementFails(j)
      PROVE  UNCHANGED users
  BY <1>6, AddCommands, DownCommands, CommandFailure DEF ReadPrevious, AllocatePort, ReadUser,
     StatementFails, storeVars
<1>7. CASE Environment
  BY <1>2, <1>7 DEF Environment, TenantWrites, GatewayRetries, ManagerStops, WatcherPublishes,
     WatcherRetires, UpsertRoute, DeleteRoute, storeVars
<1>8. ASSUME NEW j \in Job, JobStep(j) PROVE users'[u].uid \in NewUid[u]
  BY <1>2, <1>4, <1>5, <1>6, <1>8 DEF JobStep, AddStep, DownStep
<1>9. ASSUME NEW j \in Job, NEW op \in Operations, NEW v \in User, Start(j, op, v)
      PROVE  UNCHANGED users
  BY <1>9 DEF Start, storeVars
<1>. QED
  BY <1>2, <1>7, <1>8, <1>9 DEF Next

\* What a job knows of uids.
Informed(k) ==
    /\ job[k].pc # "idle" /\ job[k].row # NoUser => job[k].row.uid \in NewUid[job[k].user]
    /\ job[k].pc \in WithUid => job[k].uid \in NewUid[job[k].user]

LEMMA SlotInformed ==
    ASSUME LifeInv, NEW j \in Job, NEW r, job' = [job EXCEPT ![j] = r],
           r.pc # "idle" /\ r.row # NoUser => r.row.uid \in NewUid[r.user],
           r.pc \in WithUid => r.uid \in NewUid[r.user]
    PROVE  \A k \in Job : Informed(k)'
BY DEF LifeInv, JobsOK, UidsOK, Informed

LEMMA GotoInformed ==
    ASSUME LifeInv, NEW j \in Job, NEW step \in Steps, Goto(j, step), job[j].pc # "idle",
           step \in WithUid => job[j].pc \in WithUid
    PROVE  \A k \in Job : Informed(k)'
<1>. DEFINE r == [job[j] EXCEPT !.pc = step]
<1>1. job[j] \in JobRecord
  BY DEF LifeInv, JobsOK
<1>2. r.pc = step /\ r.row = job[j].row /\ r.user = job[j].user /\ r.uid = job[j].uid
  BY <1>1 DEF JobRecord
<1>3. job' = [job EXCEPT ![j] = r]
  BY DEF Goto
<1>. HIDE DEF r
<1>4. /\ job[j].row # NoUser => job[j].row.uid \in NewUid[job[j].user]
      /\ job[j].pc \in WithUid => job[j].uid \in NewUid[job[j].user]
  BY DEF LifeInv, UidsOK
<1>. QED
  BY <1>2, <1>3, <1>4, SlotInformed

LEMMA FinishInformed ==
    ASSUME LifeInv, NEW j \in Job, NEW ok, Finish(j, ok)
    PROVE  \A k \in Job : Informed(k)'
BY SlotInformed DEF Finish, Free, WithUid

LEMMA JobUids ==
    ASSUME LifeInv, Next
    PROVE  \A k \in Job : Informed(k)'
<1>1. ASSUME NEW j \in Job, NEW op \in Operations, NEW u \in User, Start(j, op, u)
      PROVE  \A k \in Job : Informed(k)'
  <2>. DEFINE r == [Free EXCEPT !.pc = op, !.op = op, !.user = u]
  <2>1. r.pc = op /\ r.row = NoUser /\ job' = [job EXCEPT ![j] = r]
    BY <1>1 DEF Start, Free
  <2>. HIDE DEF r
  <2>. QED
    BY <2>1, SlotInformed DEF Operations, WithUid
<1>2. ASSUME NEW j \in Job, ReadPrevious(j) PROVE \A k \in Job : Informed(k)'
  <2>. DEFINE r == [job[j] EXCEPT !.pc = "port", !.row = users[Target(j)]]
  <2>1. job[j] \in JobRecord /\ Target(j) \in User
    BY <1>2 DEF ReadPrevious, At, LifeInv, JobsOK, Coherent, Target
  <2>2. r.pc = "port" /\ r.row = users[Target(j)] /\ r.user = Target(j)
        /\ job' = [job EXCEPT ![j] = r]
    BY <1>2, <2>1 DEF ReadPrevious, JobRecord, Target
  <2>. HIDE DEF r
  <2>3. r.row # NoUser => r.row.uid \in NewUid[r.user]
    BY <2>1, <2>2 DEF LifeInv, UidsOK, StoreTypeOK, UserExists, UserRow
  <2>. QED
    BY <2>2, <2>3, SlotInformed DEF WithUid
<1>3. ASSUME NEW j \in Job, AllocatePort(j) PROVE \A k \in Job : Informed(k)'
  <2>. DEFINE port == IF job[j].row.port # 0 THEN job[j].row.port ELSE LowestFreePort
              r == [job[j] EXCEPT !.pc = "useradd", !.port = port]
  <2>1. job[j] \in JobRecord /\ job[j].pc = "port"
    BY <1>3 DEF AllocatePort, At, LifeInv, JobsOK
  <2>2. job' = [job EXCEPT ![j] = r]
    BY <1>3 DEF AllocatePort
  <2>. HIDE DEF port
  <2>3. r.pc = "useradd" /\ r.row = job[j].row /\ r.user = job[j].user
    BY <2>1 DEF JobRecord
  <2>. HIDE DEF r
  <2>. QED
    BY <2>1, <2>2, <2>3, SlotInformed DEF WithUid, LifeInv, UidsOK
<1>4. ASSUME NEW j \in Job, ReadUser(j) PROVE \A k \in Job : Informed(k)'
  <2>1. job[j].pc # "idle" /\ job[j] \in JobRecord /\ Target(j) \in User
        /\ users[Target(j)] \in UserRow \cup {NoUser}
    BY <1>4 DEF ReadUser, LifeInv, JobsOK, Coherent, Target, StoreTypeOK
  <2>2. CASE Finish(j, FALSE) \/ Finish(j, TRUE)
    BY <2>2, FinishInformed
  <2>3. CASE \E step \in {"add", "backup", "deactivate"} : Goto(j, step)
    BY <2>1, <2>3, GotoInformed DEF Steps, WithUid
  <2>4. CASE /\ users[Target(j)].status = "active"
             /\ job' = [job EXCEPT ![j].pc = "stop", ![j].row = users[Target(j)],
                                   ![j].uid = users[Target(j)].uid]
    <3>. DEFINE r == [job[j] EXCEPT !.pc = "stop", !.row = users[Target(j)],
                                    !.uid = users[Target(j)].uid]
    <3>1. r.pc = "stop" /\ r.row = users[Target(j)] /\ r.user = Target(j)
          /\ job' = [job EXCEPT ![j] = r]
      BY <2>1, <2>4 DEF JobRecord, Target
    <3>. HIDE DEF r
    <3>2. r.row.uid \in NewUid[r.user]
      BY <2>1, <2>4, <3>1 DEF LifeInv, UidsOK, UserExists
    <3>. QED
      BY <3>1, <3>2, SlotInformed DEF WithUid
  <2>. QED
    BY <1>4, <2>2, <2>3, <2>4 DEF ReadUser
<1>5. ASSUME NEW j \in Job, InstallRuntime(j) PROVE \A k \in Job : Informed(k)'
  <2>1. /\ job[j] \in JobRecord /\ Target(j) \in User /\ job[j].user = Target(j)
        /\ HasAccount(Target(j)) /\ job[j].pc # "idle"
    BY <1>5 DEF InstallRuntime, Feasible, TenantSteps, At, LifeInv, JobsOK, Coherent, Target
  <2>. DEFINE id == KnownUid(j)
              r == [job[j] EXCEPT !.pc = "onboard", !.uid = id]
  <2>2. id \in NewUid[Target(j)]
    BY <2>1 DEF KnownUid, Machine, LifeInv, UidsOK
  <2>3. job' = [job EXCEPT ![j] = r]
    BY <1>5 DEF InstallRuntime
  <2>. HIDE DEF id
  <2>4. r.pc = "onboard" /\ r.row = job[j].row /\ r.user = Target(j) /\ r.uid = id
    BY <2>1 DEF JobRecord
  <2>. HIDE DEF r
  <2>. QED
    BY <2>1, <2>2, <2>3, <2>4, SlotInformed DEF LifeInv, UidsOK
<1>6. ASSUME NEW j \in Job,
             \/ CreateAccount(j) \/ EnableLinger(j) \/ RunOnboarding(j) \/ WriteUnits(j)
             \/ StartGateway(j) \/ StartWatcher(j) \/ VerifyReadiness(j) \/ StopServices(j)
             \/ DisableLinger(j) \/ BackUp(j) \/ Uninstall(j) \/ DeleteAccount(j)
             \/ RecordActive(j) \/ RecordPaused(j) \/ DeleteUserRow(j) \/ UndoAdd(j)
             \/ RouteCall(j) \/ RouteCallFails(j) \/ CommandFails(j) \/ StatementFails(j)
      PROVE  \A k \in Job : Informed(k)'
  <2>1. \/ \E ok \in BOOLEAN : Finish(j, ok)
        \/ \E step \in Steps : /\ Goto(j, step) /\ job[j].pc # "idle"
                               /\ step \in WithUid => job[j].pc \in WithUid
    <3>1. CASE \/ CreateAccount(j) \/ EnableLinger(j) \/ RunOnboarding(j) \/ WriteUnits(j)
               \/ StartGateway(j) \/ StartWatcher(j) \/ VerifyReadiness(j) \/ StopServices(j)
               \/ DisableLinger(j) \/ BackUp(j) \/ Uninstall(j) \/ DeleteAccount(j)
      BY <3>1 DEF CreateAccount, EnableLinger, RunOnboarding, WriteUnits, StartGateway, StartWatcher,
         VerifyReadiness, StopServices, DisableLinger, BackUp, Uninstall, DeleteAccount, Run, At,
         Steps, WithUid
    <3>2. CASE \/ RecordActive(j) \/ RecordPaused(j) \/ DeleteUserRow(j) \/ UndoAdd(j)
               \/ RouteCall(j) \/ RouteCallFails(j) \/ CommandFails(j) \/ StatementFails(j)
      BY <3>2 DEF RecordActive, RecordPaused, DeleteUserRow, UndoAdd, RouteCall, RouteCallFails,
         CommandFails, StatementFails, At, Steps, WithUid
    <3>. QED
      BY <1>6, <3>1, <3>2
  <2>2. CASE \E ok \in BOOLEAN : Finish(j, ok)
    BY <2>2, FinishInformed
  <2>3. CASE \E step \in Steps : /\ Goto(j, step) /\ job[j].pc # "idle"
                                 /\ step \in WithUid => job[j].pc \in WithUid
    BY <2>3, GotoInformed
  <2>. QED
    BY <2>1, <2>2, <2>3
<1>7. CASE Environment
  <2>1. UNCHANGED job
    BY <1>7 DEF Environment, TenantWrites, GatewayRetries, ManagerStops, WatcherPublishes,
       WatcherRetires
  <2>. QED
    BY <2>1 DEF LifeInv, UidsOK, Informed
<1>8. ASSUME NEW j \in Job, JobStep(j) PROVE \A k \in Job : Informed(k)'
  BY <1>2, <1>3, <1>4, <1>5, <1>6, <1>8 DEF JobStep, AddStep, DownStep
<1>. QED
  BY <1>1, <1>7, <1>8 DEF Next

LEMMA NextUids == LifeInv /\ [Next]_vars => UidsOK'
<1>1. CASE LifeInv /\ UNCHANGED vars
  BY <1>1 DEF vars, storeVars, LifeInv, UidsOK, HasAccount, UserExists
<1>2. CASE LifeInv /\ Next
  BY <1>2, AccountUids, RowUids, JobUids DEF UidsOK, Informed
<1>. QED
  BY <1>1, <1>2

-----------------------------------------------------------------------------
LEMMA InitLife == Init => LifeInv
<1>. SUFFICES ASSUME Init PROVE LifeInv
  OBVIOUS
<1>1. StoreTypeOK /\ Integrity
  BY StoreInitOK DEF Init
<1>2. NoAccount \in Machines
  BY DEF NoAccount, Machines, Homes
<1>3. JobsOK
  BY FreeIsJob DEF Init, JobsOK, Coherent, WithPort, WithRow
<1>4. WorldOK
  BY <1>2, LifecycleAssumption DEF Init, WorldOK
<1>5. UidsOK
  BY DEF Init, StoreInit, UidsOK, HasAccount, UserExists, NoAccount, NoUser, Free, WithUid
<1>. QED
  BY <1>1, <1>3, <1>4, <1>5 DEF LifeInv

LEMMA StepLife ==
    ASSUME LifeInv, [Next]_vars
    PROVE  JobsOK' /\ WorldOK' /\ [StoreNext]_storeVars
<1>1. ASSUME NEW j \in Job, JobStep(j) PROVE JobsOK' /\ WorldOK' /\ [StoreNext]_storeVars
  BY <1>1, AddCommands, DownCommands, CommandFailure, Reads, Writes, Calls
     DEF JobStep, AddStep, DownStep
<1>2. CASE UNCHANGED vars
  BY <1>2 DEF vars, LifeInv, JobsOK, WorldOK, Coherent, storeVars
<1>. QED
  BY <1>1, <1>2, Starts, Environs DEF Next

LEMMA NextLife == LifeInv /\ [Next]_vars => LifeInv'
BY StepLife, StoreNextOK, NextUids DEF LifeInv

LEMMA Invariant == Spec => []LifeInv
BY InitLife, NextLife, PTL DEF Spec

\* Rows, machines, published rules and jobs keep their types: there is a port for
\* every Add, also for overlapping ones, and the row that Deactivate
\* writes back is one it has read.
THEOREM LifecycleTypes == Spec => []TypeOK
<1>1. LifeInv => TypeOK
  BY DEF LifeInv, TypeOK, JobsOK, WorldOK
<1>. QED
  BY <1>1, Invariant, PTL

\* The user manager reaches the tables by the statements of the store only, so
\* StoreIntegrity holds whatever jobs overlap and fail.
THEOREM LifecycleUsesStore == Spec => StoreSpec
<1>1. Init => StoreInit
  BY DEF Init
<1>2. LifeInv /\ [Next]_vars => [StoreNext]_storeVars
  BY StepLife
<1>. QED
  BY <1>1, <1>2, Invariant, PTL DEF Spec, StoreSpec
=============================================================================
