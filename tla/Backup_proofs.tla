---------------------------- MODULE Backup_proofs ---------------------------
(***************************************************************************)
(* Proofs about Backup for any tenants, jobs, processes that may read the  *)
(* key, coincidences, and numbers of seconds, pieces of data and failures: *)
(* types, and no tenant gets the data of another.  Where no two backups of *)
(* a tenant share a second, whoever reads the key: what is listed keeps    *)
(* its file, and what a home has lost is in one.  Where moreover no two    *)
(* restores of a tenant overlap: what one reports as restored is.          *)
(***************************************************************************)
EXTENDS Backup, FiniteSetTheorems, TLAPS

JobRecord == [pc : Steps, op : {"none", "create", "restore", "remove"},
              user : User \cup {"none"}, id : Id \cup {NoId},
              data : SUBSET Data, result : {"none", "ok", "error"}]

\* What the tables of the steps range over, without the bounds of the counters.
Shape ==
    /\ home \in [User -> SUBSET Data] /\ staged \in [User -> SUBSET Data]
    /\ now \in 1..MaxTime
    /\ archive \in [Id -> [key : Nat, data : SUBSET Data]]
    /\ key \in Nat /\ keys \in Nat
    /\ recorded \subseteq Id
    /\ job \in [Job -> JobRecord]

\* A job that runs is somebody's, and one that restores has passed Allowed.
Checked(j) ==
    /\ job[j].pc # "idle" => job[j].user \in User
    /\ job[j].pc \in {"decrypt", "stop", "unpack", "clear", "move", "start"} => job[j].op = "restore"
    /\ job[j].pc \in {"dump", "encrypt", "record", "wipe"} => job[j].op # "restore"
    /\ job[j].op = "restore" /\ job[j].pc # "user" => job[j].id \in Id /\ job[j].id[1] = job[j].user
    /\ job[j].pc = "record" => job[j].id \in Id

Carried(j) == \A d \in job[j].data : d.of = job[j].user

Archived == \A id \in Id : \A d \in archive[id].data : d.of = id[1]

OwnInv == Shape /\ OwnDataOnly /\ Archived /\ \A j \in Job : Checked(j) /\ Carried(j)

USE BackupAssumption

-----------------------------------------------------------------------------
(* A step changes at most the job of one slot.                             *)

\* The other slots keep what they had.
LEMMA OneJob ==
    ASSUME NEW j \in Job, NEW r \in JobRecord, OwnInv,
           job' = [job EXCEPT ![j] = r]
    PROVE  /\ job' \in [Job -> JobRecord] /\ job'[j] = r
           /\ \A k \in Job \ {j} : job'[k] = job[k]
BY DEF OwnInv, Shape

\* A slot that is free has nothing to check.
LEMMA FreeJob ==
    ASSUME NEW j \in Job, NEW result \in {"none", "ok", "error"}, OwnInv,
           Finish(j, result)
    PROVE  /\ job' \in [Job -> JobRecord]
           /\ \A k \in Job : Checked(k)' /\ Carried(k)'
<1>1. Free(result) \in JobRecord
  BY DEF Free, JobRecord, Steps, Id
<1>2. /\ job' \in [Job -> JobRecord] /\ job'[j] = Free(result)
      /\ \A k \in Job \ {j} : job'[k] = job[k]
  BY <1>1, OneJob DEF Finish
<1>3. Checked(j)' /\ Carried(j)'
  BY <1>2 DEF Checked, Carried, Free
<1>4. \A k \in Job \ {j} : Checked(k)' /\ Carried(k)'
  BY <1>2 DEF OwnInv, Checked, Carried
<1>. QED
  BY <1>2, <1>3, <1>4

\* A slot whose counter alone moves keeps user, id, operation and data.
LEMMA MovedJob ==
    ASSUME NEW j \in Job, NEW step \in Steps, OwnInv, Goto(j, step),
           job[j].pc # "idle", step \notin {"user", "record"},
           job[j].pc = "user" /\ job[j].op = "restore"
               => job[j].id \in Id /\ job[j].id[1] = job[j].user,
           step \in {"decrypt", "stop", "unpack", "clear", "move", "start"} => job[j].op = "restore",
           step \in {"dump", "encrypt", "wipe"} => job[j].op # "restore"
    PROVE  /\ job' \in [Job -> JobRecord]
           /\ \A k \in Job : Checked(k)' /\ Carried(k)'
<1>1. job[j] \in JobRecord
  BY DEF OwnInv, Shape
<1>2. [job[j] EXCEPT !.pc = step] \in JobRecord /\ job' = [job EXCEPT ![j] = [job[j] EXCEPT !.pc = step]]
  BY <1>1 DEF JobRecord, Goto
<1>3. /\ job' \in [Job -> JobRecord] /\ job'[j] = [job[j] EXCEPT !.pc = step]
      /\ \A k \in Job \ {j} : job'[k] = job[k]
  BY <1>2, OneJob
<1>4. /\ job'[j].pc = step /\ job'[j].op = job[j].op /\ job'[j].user = job[j].user
      /\ job'[j].id = job[j].id /\ job'[j].data = job[j].data
  BY <1>1, <1>3 DEF JobRecord
<1>5. Checked(j) /\ Carried(j)
  BY DEF OwnInv
<1>6. Checked(j)' /\ Carried(j)'
  BY <1>4, <1>5 DEF Checked, Carried
<1>7. \A k \in Job \ {j} : Checked(k)' /\ Carried(k)'
  BY <1>3 DEF OwnInv, Checked, Carried
<1>. QED
  BY <1>3, <1>6, <1>7

-----------------------------------------------------------------------------
LEMMA InitOwn == Init => OwnInv
<1>. SUFFICES ASSUME Init PROVE OwnInv
  OBVIOUS
<1>1. Free("none") \in JobRecord
  BY DEF Free, JobRecord, Steps
<1>2. NoArchive \in [key : Nat, data : SUBSET Data] /\ NoArchive.data = {}
  BY DEF NoArchive
<1>3. \A u \in User : [of |-> u, n |-> 1] \in Data
  BY DEF Data
<1>4. Shape
  BY <1>1, <1>2, <1>3 DEF Init, Shape
<1>5. OwnDataOnly /\ Archived
  BY <1>2 DEF Init, OwnDataOnly, Archived
<1>6. \A j \in Job : Checked(j) /\ Carried(j)
  BY DEF Init, Checked, Carried, Free
<1>. QED
  BY <1>4, <1>5, <1>6 DEF OwnInv

\* Steps that neither move data nor store any.
LEMMA ControlSteps ==
    ASSUME NEW j \in Job, OwnInv,
           \/ \E u \in User : StartCreate(j, u) \/ StartRemove(j, u)
           \/ \E u \in User, id \in Id : StartRestore(j, u, id)
           \/ CheckUser(j) \/ ReadKey(j) \/ WriteKey(j) \/ StopGateway(j) \/ StartGateway(j)
           \/ Die(j)
    PROVE  OwnInv'
<1>. DEFINE Sound == job' \in [Job -> JobRecord] /\ \A k \in Job : Checked(k)' /\ Carried(k)'
<1>1. job[j] \in JobRecord /\ Checked(j)
  BY DEF OwnInv, Shape
<1>2. ASSUME NEW op \in {"create", "restore", "remove"}, NEW u \in User, NEW id \in Id \cup {NoId},
             Start(j, op, u, id)
      PROVE  Sound
  <2>. DEFINE begun == [Free("none") EXCEPT !.pc = "user", !.op = op, !.user = u, !.id = id]
  <2>1. begun \in JobRecord
    BY DEF Free, JobRecord, Steps
  <2>2. /\ job' \in [Job -> JobRecord] /\ job'[j] = begun
        /\ \A k \in Job \ {j} : job'[k] = job[k]
    BY <1>2, <2>1, OneJob DEF Start
  <2>3. Checked(j)' /\ Carried(j)'
    BY <2>2 DEF Checked, Carried, Free
  <2>4. \A k \in Job \ {j} : Checked(k)' /\ Carried(k)'
    BY <2>2 DEF OwnInv, Checked, Carried
  <2>. QED
    BY <2>2, <2>3, <2>4
<1>3. ASSUME CheckUser(j) PROVE Sound
  <2>1. CASE Allowed(j)
    <3>1. /\ Goto(j, "key") /\ job[j].pc = "user" /\ "key" \in Steps
          /\ job[j].op = "restore" => job[j].id \in Id /\ job[j].id[1] = job[j].user
      BY <1>3, <2>1 DEF CheckUser, Allowed, At, Target, Steps, OwnInv, Shape
    <3>. QED
      BY <3>1, MovedJob
  <2>2. CASE ~Allowed(j)
    BY <1>3, <2>2, FreeJob DEF CheckUser
  <2>. QED
    BY <2>1, <2>2
<1>4. ASSUME ReadKey(j) \/ WriteKey(j) PROVE Sound
  <2>1. PICK step \in {"writeKey", AfterKey(j)} : Goto(j, step) /\ job[j].pc \in {"key", "writeKey"}
    BY <1>4 DEF ReadKey, WriteKey, At
  <2>2. step \in Steps /\ step \notin {"user", "record"} /\ (step = "decrypt" => job[j].op = "restore")
        /\ (step = "dump" => job[j].op # "restore")
        /\ step \notin {"stop", "unpack", "clear", "move", "start", "encrypt", "wipe"}
    BY <2>1 DEF AfterKey, Steps
  <2>. QED
    BY <2>1, <2>2, MovedJob
<1>5. ASSUME StopGateway(j) PROVE Sound
  <2>1. CASE Target(j) \in managed
    <3>1. Goto(j, "unpack") /\ job[j].pc = "stop" /\ job[j].op = "restore" /\ "unpack" \in Steps
      BY <1>1, <1>5, <2>1 DEF StopGateway, At, Checked, Steps
    <3>. QED
      BY <3>1, MovedJob
  <2>2. CASE Target(j) \notin managed
    BY <1>5, <2>2, FreeJob DEF StopGateway
  <2>. QED
    BY <2>1, <2>2
<1>6. ASSUME StartGateway(j) \/ Die(j) PROVE Sound
  <2>1. PICK result \in {"none", "ok", "error"} : Finish(j, result)
    BY <1>6 DEF StartGateway, Die
  <2>. QED
    BY <2>1, FreeJob
<1>7. Sound
  BY <1>2, <1>3, <1>4, <1>5, <1>6 DEF StartCreate, StartRemove, StartRestore
<1>8. UNCHANGED <<home, staged, archive, recorded, now>>
  <2>1. CASE CheckUser(j) \/ ReadKey(j) \/ WriteKey(j) \/ StopGateway(j) \/ StartGateway(j) \/ Die(j)
    BY <2>1 DEF CheckUser, ReadKey, WriteKey, StopGateway, StartGateway, Die, tenant, vault
  <2>2. ASSUME NEW op, NEW u, NEW id, Start(j, op, u, id)
        PROVE  UNCHANGED <<home, staged, archive, recorded, now>>
    BY <2>2 DEF Start, tenant, vault
  <2>. QED
    BY <2>1, <2>2 DEF StartCreate, StartRemove, StartRestore
<1>9. key' \in Nat /\ keys' \in Nat
  <2>1. CASE WriteKey(j)
    BY <2>1 DEF WriteKey, OwnInv, Shape
  <2>2. CASE CheckUser(j) \/ ReadKey(j) \/ StopGateway(j) \/ StartGateway(j) \/ Die(j)
    BY <2>2 DEF CheckUser, ReadKey, StopGateway, StartGateway, Die, vault, OwnInv, Shape
  <2>3. ASSUME NEW op, NEW u, NEW id, Start(j, op, u, id)
        PROVE  key' \in Nat /\ keys' \in Nat
    BY <2>3 DEF Start, vault, OwnInv, Shape
  <2>. QED
    BY <2>1, <2>2, <2>3 DEF StartCreate, StartRemove, StartRestore
<1>. QED
  BY <1>7, <1>8, <1>9 DEF OwnInv, Shape, OwnDataOnly, Archived

\* The steps of a backup: from the home directory to the archive and the table.
LEMMA BackupSteps ==
    ASSUME NEW j \in Job, OwnInv, Dump(j) \/ Encrypt(j) \/ Record(j) \/ Wipe(j)
    PROVE  OwnInv'
<1>1. job[j] \in JobRecord /\ Checked(j) /\ Carried(j)
  BY DEF OwnInv, Shape
<1>2. CASE Dump(j)
  <2>1. UNCHANGED <<home, staged, archive, recorded, now, key, keys>>
    BY <1>2 DEF Dump, tenant, vault
  <2>2. CASE home[Target(j)] = {}
    <3>1. job' \in [Job -> JobRecord] /\ \A k \in Job : Checked(k)' /\ Carried(k)'
      BY <1>2, <2>2, FreeJob DEF Dump
    <3>. QED
      BY <2>1, <3>1 DEF OwnInv, Shape, OwnDataOnly, Archived
  <2>3. CASE home[Target(j)] # {}
    <3>. DEFINE after == [job[j] EXCEPT !.pc = "encrypt", !.data = home[Target(j)]]
    <3>1. Target(j) \in User
      BY <1>1, <1>2 DEF Dump, At, Target, Checked
    <3>2. after \in JobRecord
      BY <1>1, <3>1 DEF JobRecord, Steps, OwnInv, Shape
    <3>3. job' = [job EXCEPT ![j] = after]
      BY <1>2, <2>3 DEF Dump, OwnInv, Shape
    <3>4. /\ job' \in [Job -> JobRecord] /\ job'[j] = after
          /\ \A k \in Job \ {j} : job'[k] = job[k]
      BY <3>2, <3>3, OneJob
    <3>5. /\ after.pc = "encrypt" /\ after.op = job[j].op /\ after.user = job[j].user
          /\ after.id = job[j].id /\ after.data = home[Target(j)]
      BY <1>1 DEF JobRecord
    <3>6. job[j].pc = "dump"
      BY <1>2 DEF Dump, At
    <3>7. Checked(j)' /\ Carried(j)'
      BY <1>1, <3>1, <3>4, <3>5, <3>6 DEF Checked, Carried, OwnInv, OwnDataOnly, Target
    <3>8. \A k \in Job \ {j} : Checked(k)' /\ Carried(k)'
      BY <3>4 DEF OwnInv, Checked, Carried
    <3>. QED
      BY <2>1, <3>4, <3>7, <3>8 DEF OwnInv, Shape, OwnDataOnly, Archived
  <2>. QED
    BY <2>2, <2>3
<1>3. CASE Encrypt(j)
  <2>. DEFINE after == [job[j] EXCEPT !.pc = "record", !.id = Stamp(j)]
              file == [key |-> key, data |-> job[j].data]
  <2>1. UNCHANGED <<home, staged, recorded, now, key, keys>>
    BY <1>3 DEF Encrypt, tenant
  <2>2. Stamp(j) \in Id /\ Stamp(j)[1] = job[j].user
    BY <1>1, <1>3 DEF Encrypt, At, Stamp, Target, Checked, Id, OwnInv, Shape
  <2>3. after \in JobRecord /\ file \in [key : Nat, data : SUBSET Data]
    BY <1>1, <2>2 DEF JobRecord, Steps, OwnInv, Shape
  <2>4. archive' = [archive EXCEPT ![Stamp(j)] = file] /\ job' = [job EXCEPT ![j] = after]
    BY <1>3 DEF Encrypt, OwnInv, Shape
  <2>5. /\ job' \in [Job -> JobRecord] /\ job'[j] = after
        /\ \A k \in Job \ {j} : job'[k] = job[k]
    BY <2>3, <2>4, OneJob
  <2>6. /\ after.pc = "record" /\ after.op = job[j].op /\ after.user = job[j].user
        /\ after.id = Stamp(j) /\ after.data = job[j].data
    BY <1>1 DEF JobRecord
  <2>7. Checked(j)' /\ Carried(j)'
    BY <1>1, <1>3, <2>2, <2>5, <2>6 DEF Checked, Carried, Encrypt, At
  <2>8. \A k \in Job \ {j} : Checked(k)' /\ Carried(k)'
    BY <2>5 DEF OwnInv, Checked, Carried
  <2>9. archive' \in [Id -> [key : Nat, data : SUBSET Data]] /\ Archived'
    BY <1>1, <2>2, <2>3, <2>4 DEF OwnInv, Shape, Archived, Carried
  <2>. QED
    BY <2>1, <2>5, <2>7, <2>8, <2>9 DEF OwnInv, Shape, OwnDataOnly
<1>4. CASE Record(j)
  <2>1. UNCHANGED <<home, staged, archive, now, key, keys>>
    BY <1>4 DEF Record, tenant
  <2>2. recorded' \subseteq Id
    BY <1>1, <1>4 DEF Record, At, Checked, OwnInv, Shape
  <2>3. job' \in [Job -> JobRecord] /\ \A k \in Job : Checked(k)' /\ Carried(k)'
    <3>1. CASE job[j].op = "remove"
      <4>1. Goto(j, "wipe") /\ job[j].pc = "record" /\ "wipe" \in Steps
        BY <1>4, <3>1 DEF Record, At, Steps
      <4>. QED
        BY <3>1, <4>1, MovedJob
    <3>2. CASE job[j].op # "remove"
      BY <1>4, <3>2, FreeJob DEF Record
    <3>. QED
      BY <3>1, <3>2
  <2>. QED
    BY <2>1, <2>2, <2>3 DEF OwnInv, Shape, OwnDataOnly, Archived
<1>5. CASE Wipe(j)
  <2>1. job' \in [Job -> JobRecord] /\ \A k \in Job : Checked(k)' /\ Carried(k)'
    BY <1>5, FreeJob DEF Wipe
  <2>2. UNCHANGED <<archive, recorded, now, key, keys>>
    BY <1>5 DEF Wipe, vault
  <2>3. /\ home' \in [User -> SUBSET Data] /\ staged' \in [User -> SUBSET Data]
        /\ OwnDataOnly'
    BY <1>5 DEF Wipe, OwnInv, Shape, OwnDataOnly
  <2>. QED
    BY <2>1, <2>2, <2>3 DEF OwnInv, Shape, Archived
<1>. QED
  BY <1>2, <1>3, <1>4, <1>5

\* The steps of a restore: from the archive to the staging and home directories.
LEMMA RestoreSteps ==
    ASSUME NEW j \in Job, OwnInv, Decrypt(j) \/ Unpack(j) \/ Clear(j) \/ Move(j)
    PROVE  OwnInv'
<1>1. job[j] \in JobRecord /\ Checked(j) /\ Carried(j)
  BY DEF OwnInv, Shape
<1>2. job[j].op = "restore" /\ job[j].user \in User
      /\ job[j].id \in Id /\ job[j].id[1] = job[j].user
  BY <1>1 DEF Decrypt, Unpack, Clear, Move, At, Checked
<1>3. CASE Decrypt(j)
  <2>1. UNCHANGED <<home, staged, archive, recorded, now, key, keys>>
    BY <1>3 DEF Decrypt, tenant, vault
  <2>2. job' \in [Job -> JobRecord] /\ \A k \in Job : Checked(k)' /\ Carried(k)'
    <3>. DEFINE after == [job[j] EXCEPT !.pc = "stop", !.data = archive[job[j].id].data]
    <3>1. CASE archive[job[j].id].key = key /\ Target(j) \in managed
      <4>1. archive[job[j].id].data \in SUBSET Data
        BY <1>2 DEF OwnInv, Shape
      <4>2. after \in JobRecord
        BY <1>1, <4>1 DEF JobRecord, Steps
      <4>3. job' = [job EXCEPT ![j] = after]
        BY <1>3, <3>1 DEF Decrypt, OwnInv, Shape
      <4>4. /\ job' \in [Job -> JobRecord] /\ job'[j] = after
            /\ \A k \in Job \ {j} : job'[k] = job[k]
        BY <4>2, <4>3, OneJob
      <4>5. /\ after.pc = "stop" /\ after.op = job[j].op /\ after.user = job[j].user
            /\ after.id = job[j].id /\ after.data = archive[job[j].id].data
        BY <1>1 DEF JobRecord
      <4>6. Checked(j)' /\ Carried(j)'
        BY <1>2, <4>4, <4>5 DEF Checked, Carried, OwnInv, Archived
      <4>7. \A k \in Job \ {j} : Checked(k)' /\ Carried(k)'
        BY <4>4 DEF OwnInv, Checked, Carried
      <4>. QED
        BY <4>4, <4>6, <4>7
    <3>2. CASE ~(archive[job[j].id].key = key /\ Target(j) \in managed)
      BY <1>3, <3>2, FreeJob DEF Decrypt
    <3>. QED
      BY <3>1, <3>2
  <2>. QED
    BY <2>1, <2>2 DEF OwnInv, Shape, OwnDataOnly, Archived
<1>4. CASE Unpack(j) \/ Clear(j)
  <2>1. PICK step \in {"clear", "move"} : Goto(j, step)
    BY <1>4 DEF Unpack, Clear
  <2>2. job' \in [Job -> JobRecord] /\ \A k \in Job : Checked(k)' /\ Carried(k)'
    <3>1. step \in Steps /\ job[j].pc \in {"unpack", "clear"}
      BY <1>4 DEF Unpack, Clear, At, Steps
    <3>. QED
      BY <1>2, <2>1, <3>1, MovedJob
  <2>3. UNCHANGED <<archive, recorded, now, key, keys>>
    BY <1>4 DEF Unpack, Clear, vault
  <2>4. home' \in [User -> SUBSET Data] /\ staged' \in [User -> SUBSET Data]
    BY <1>1, <1>2, <1>4 DEF Unpack, Clear, Target, OwnInv, Shape, JobRecord
  <2>5. OwnDataOnly'
    BY <1>1, <1>2, <1>4 DEF Unpack, Clear, Target, Carried, OwnInv, Shape, OwnDataOnly
  <2>. QED
    BY <2>2, <2>3, <2>4, <2>5 DEF OwnInv, Shape, Archived
<1>5. CASE Move(j)
  <2>1. UNCHANGED <<archive, recorded, now, key, keys>>
    BY <1>5 DEF Move, vault
  <2>2. job' \in [Job -> JobRecord] /\ \A k \in Job : Checked(k)' /\ Carried(k)'
    <3>1. CASE staged[Target(j)] = {}
      BY <1>5, <3>1, FreeJob DEF Move
    <3>2. CASE staged[Target(j)] # {}
      <4>1. Goto(j, "start") /\ job[j].pc = "move" /\ "start" \in Steps
        BY <1>5, <3>2 DEF Move, At, Steps
      <4>. QED
        BY <1>2, <4>1, MovedJob
    <3>. QED
      BY <3>1, <3>2
  <2>3. home' \in [User -> SUBSET Data] /\ staged' \in [User -> SUBSET Data] /\ OwnDataOnly'
    BY <1>2, <1>5 DEF Move, Target, OwnInv, Shape, OwnDataOnly
  <2>. QED
    BY <2>1, <2>2, <2>3 DEF OwnInv, Shape, Archived
<1>. QED
  BY <1>3, <1>4, <1>5

\* A failure frees the slot and at most deletes an archive.
LEMMA FailStep ==
    ASSUME NEW j \in Job, OwnInv, Fail(j)
    PROVE  OwnInv'
<1>1. job' \in [Job -> JobRecord] /\ \A k \in Job : Checked(k)' /\ Carried(k)'
  BY FreeJob DEF Fail
<1>2. UNCHANGED <<home, staged, recorded, now, key, keys>>
  BY DEF Fail, LeftBehind, tenant
<1>3. NoArchive \in [key : Nat, data : SUBSET Data] /\ NoArchive.data = {}
  BY DEF NoArchive
<1>4. archive' \in [Id -> [key : Nat, data : SUBSET Data]] /\ Archived'
  BY <1>3 DEF Fail, LeftBehind, OwnInv, Shape, Archived, Checked
<1>. QED
  BY <1>1, <1>2, <1>4 DEF OwnInv, Shape, OwnDataOnly

LEMMA WorldSteps ==
    ASSUME OwnInv,
           \/ Tick \/ ClockEnds \/ UNCHANGED vars
           \/ \E u \in User : Use(u) \/ AddAgain(u)
    PROVE  OwnInv'
<1>1. UNCHANGED <<staged, archive, recorded, key, keys, job>>
  BY DEF Tick, ClockEnds, Use, AddAgain, vars, tenant, vault
<1>2. now' \in 1..MaxTime
  BY DEF Tick, ClockEnds, Use, AddAgain, vars, OwnInv, Shape
<1>3. home' \in [User -> SUBSET Data] /\ OwnDataOnly'
  BY <1>1 DEF Tick, ClockEnds, Use, AddAgain, vars, tenant, OwnInv, Shape, OwnDataOnly
<1>4. \A j \in Job : Checked(j)' /\ Carried(j)'
  BY <1>1 DEF OwnInv, Checked, Carried
<1>. QED
  BY <1>1, <1>2, <1>3, <1>4 DEF OwnInv, Shape, Archived

\* No tenant ever gets the data of another, from a restore, from what an earlier
\* one left in the staging directory, or after having been removed and added again.
THEOREM TenantsGetTheirOwn == Spec => []OwnDataOnly
<1>1. Init => OwnInv
  BY InitOwn
<1>2. OwnInv /\ [Next]_vars => OwnInv'
  BY ControlSteps, BackupSteps, RestoreSteps, FailStep, WorldSteps DEF Next
<1>3. OwnInv => OwnDataOnly
  BY DEF OwnInv
<1>. QED
  BY <1>1, <1>2, <1>3, PTL DEF Spec

-----------------------------------------------------------------------------
(* The vault, where no two backups of a tenant share a second.  Any process *)
(* may fail to read the key, and several may make one at a time.            *)

Distinct == "sameSecond" \notin Overlaps

\* The key on disk is the one made last, and a listed backup has a key of those made.
NewestKey == key = keys

FilesKept == \A id \in recorded : archive[id].data # {}

KeysKnown == \A id \in recorded : archive[id].key \in 1..keys

\* What a job has in hand is what it will record, wipe for, or restore.
InHand(j) ==
    /\ job[j].pc \notin {"idle", "user", "key", "writeKey"} => key # 0
    /\ job[j].pc = "encrypt" => job[j].data # {}
    /\ job[j].pc = "record" =>
         /\ archive[job[j].id].key \in 1..keys /\ archive[job[j].id].data # {}
         /\ job[j].id \notin recorded /\ job[j].id[1] = job[j].user
    /\ job[j].pc = "wipe" => job[j].id \in recorded /\ job[j].id[1] = job[j].user
    /\ job[j].op = "restore" /\ job[j].pc # "user" => job[j].id \in recorded

DistinctStamps ==
    \A j, k \in Job : job[j].pc = "record" /\ job[k].pc = "record" /\ job[j].id = job[k].id => j = k

\* An empty home directory has a backup in the table.
EmptyHasBackup == \A u \in User : home[u] = {} => \E id \in recorded : id[1] = u

VaultInv ==
    /\ NewestKey /\ FilesKept /\ KeysKnown /\ DistinctStamps /\ EmptyHasBackup
    /\ \A j \in Job : InHand(j)

\* What Goto and Finish make of the slots.
LEMMA GotoFields ==
    ASSUME NEW j \in Job, NEW step, OwnInv, Goto(j, step)
    PROVE  /\ job'[j].pc = step /\ job'[j].op = job[j].op /\ job'[j].user = job[j].user
           /\ job'[j].id = job[j].id /\ job'[j].data = job[j].data
           /\ \A k \in Job \ {j} : job'[k] = job[k]
BY DEF Goto, OwnInv, Shape, JobRecord

LEMMA FinishFields ==
    ASSUME NEW j \in Job, NEW result, OwnInv, Finish(j, result)
    PROVE  /\ job'[j].pc = "idle" /\ job'[j].op = "none"
           /\ \A k \in Job \ {j} : job'[k] = job[k]
BY DEF Finish, Free, OwnInv, Shape

\* A step that leaves the vault as it is and whose job does not become one that records.
LEMMA VaultKept ==
    ASSUME NEW j \in Job, OwnInv, VaultInv, UNCHANGED <<key, keys, archive, recorded>>,
           \A u \in User : home'[u] = {} => home[u] = {} \/ \E id \in recorded : id[1] = u,
           \A k \in Job \ {j} : job'[k] = job[k],
           job'[j].pc # "record", InHand(j)'
    PROVE  VaultInv'
BY DEF VaultInv, NewestKey, FilesKept, KeysKnown, DistinctStamps, EmptyHasBackup, InHand

LEMMA InitVault == Init => VaultInv
<1>. SUFFICES ASSUME Init PROVE VaultInv
  OBVIOUS
<1>1. \A j \in Job : job[j].pc = "idle" /\ job[j].op = "none"
  BY DEF Init, Free
<1>2. recorded = {} /\ \A u \in User : home[u] # {}
  BY DEF Init
<1>. QED
  BY <1>1, <1>2
  DEF Init, VaultInv, NewestKey, FilesKept, KeysKnown, InHand, DistinctStamps, EmptyHasBackup

\* Starting a job, and ending one.
LEMMA VaultEnds ==
    ASSUME NEW j \in Job, OwnInv, VaultInv,
           \/ \E u \in User : StartCreate(j, u) \/ StartRemove(j, u)
           \/ \E u \in User, id \in Id : StartRestore(j, u, id)
           \/ Die(j) \/ (Fail(j) /\ job[j].pc # "record")
    PROVE  VaultInv'
<1>1. ASSUME NEW op, NEW u, NEW id, Start(j, op, u, id) PROVE VaultInv'
  <2>1. /\ job'[j].pc = "user" /\ \A k \in Job \ {j} : job'[k] = job[k]
        /\ UNCHANGED <<home, key, keys, archive, recorded>>
    BY <1>1 DEF Start, Free, tenant, vault, OwnInv, Shape
  <2>2. InHand(j)'
    BY <2>1 DEF InHand
  <2>. QED
    BY <2>1, <2>2, VaultKept
<1>2. CASE Die(j) \/ (Fail(j) /\ job[j].pc # "record")
  <2>1. PICK result : Finish(j, result)
    BY <1>2 DEF Die, Fail
  <2>2. UNCHANGED <<home, key, keys, archive, recorded>>
    BY <1>2 DEF Die, Fail, LeftBehind, At, tenant, vault
  <2>3. InHand(j)'
    BY <2>1, FinishFields DEF InHand
  <2>. QED
    BY <2>1, <2>2, <2>3, FinishFields, VaultKept
<1>. QED
  BY <1>1, <1>2 DEF StartCreate, StartRemove, StartRestore

\* Where a key is made: it takes the place of the one on disk, whoever reads that.
LEMMA VaultKey ==
    ASSUME NEW j \in Job, OwnInv, VaultInv, CheckUser(j) \/ ReadKey(j) \/ WriteKey(j)
    PROVE  VaultInv'
<1>1. CASE CheckUser(j)
  <2>1. UNCHANGED <<home, key, keys, archive, recorded>>
    BY <1>1 DEF CheckUser, tenant, vault
  <2>2. CASE Allowed(j)
    <3>1. Goto(j, "key")
      BY <1>1, <2>2 DEF CheckUser
    <3>2. InHand(j)'
      BY <2>1, <2>2, <3>1, GotoFields DEF InHand, Allowed
    <3>. QED
      BY <2>1, <3>1, <3>2, GotoFields, VaultKept
  <2>3. CASE ~Allowed(j)
    <3>1. Finish(j, "error")
      BY <1>1, <2>3 DEF CheckUser
    <3>2. InHand(j)'
      BY <3>1, FinishFields DEF InHand
    <3>. QED
      BY <2>1, <3>1, <3>2, FinishFields, VaultKept
  <2>. QED
    BY <2>2, <2>3
<1>2. CASE ReadKey(j)
  <2>1. UNCHANGED <<home, key, keys, archive, recorded>> /\ job[j].pc = "key"
    BY <1>2 DEF ReadKey, At, tenant, vault
  <2>2. PICK step \in {"writeKey", "decrypt", "dump"} :
            Goto(j, step) /\ (step # "writeKey" => key # 0)
    BY <1>2 DEF ReadKey, SeesKey, AfterKey
  <2>3. InHand(j)'
    BY <2>1, <2>2, GotoFields DEF InHand, VaultInv
  <2>. QED
    BY <2>1, <2>2, <2>3, GotoFields, VaultKept
<1>3. CASE WriteKey(j)
  <2>1. Goto(j, AfterKey(j)) /\ AfterKey(j) \in {"decrypt", "dump"} /\ job[j].pc = "writeKey"
    BY <1>3 DEF WriteKey, AfterKey, At
  <2>2. /\ key' = keys + 1 /\ keys' = keys + 1 /\ keys \in Nat
        /\ UNCHANGED <<home, archive, recorded>>
    BY <1>3 DEF WriteKey, tenant, OwnInv, Shape
  <2>3. /\ job'[j].pc \in {"decrypt", "dump"} /\ job'[j].op = job[j].op /\ job'[j].id = job[j].id
        /\ \A k \in Job \ {j} : job'[k] = job[k]
    BY <2>1, GotoFields
  <2>4. NewestKey' /\ FilesKept' /\ KeysKnown' /\ DistinctStamps' /\ EmptyHasBackup'
    BY <2>2, <2>3
    DEF VaultInv, NewestKey, FilesKept, KeysKnown, DistinctStamps, EmptyHasBackup
  <2>5. InHand(j)'
    BY <2>1, <2>2, <2>3 DEF VaultInv, InHand
  <2>6. \A k \in Job \ {j} : InHand(k)'
    BY <2>2, <2>3 DEF VaultInv, InHand
  <2>. QED
    BY <2>4, <2>5, <2>6 DEF VaultInv
<1>. QED
  BY <1>1, <1>2, <1>3

\* Backup, and the failure of recording one.
LEMMA VaultBackup ==
    ASSUME NEW j \in Job, Distinct, OwnInv, VaultInv,
           Dump(j) \/ Encrypt(j) \/ Record(j) \/ Wipe(j) \/ (Fail(j) /\ job[j].pc = "record")
    PROVE  VaultInv'
<1>1. job[j] \in JobRecord /\ Checked(j) /\ InHand(j)
  BY DEF OwnInv, Shape, VaultInv
<1>2. CASE Dump(j)
  <2>1. UNCHANGED <<home, key, keys, archive, recorded>> /\ job[j].pc = "dump"
    BY <1>2 DEF Dump, At, tenant, vault
  <2>2. CASE home[Target(j)] = {}
    <3>1. Finish(j, "error")
      BY <1>2, <2>2 DEF Dump
    <3>2. InHand(j)'
      BY <3>1, FinishFields DEF InHand
    <3>. QED
      BY <2>1, <3>1, <3>2, FinishFields, VaultKept
  <2>3. CASE home[Target(j)] # {}
    <3>1. /\ job'[j].pc = "encrypt" /\ job'[j].data # {} /\ job'[j].op = job[j].op
          /\ job'[j].id = job[j].id /\ \A k \in Job \ {j} : job'[k] = job[k]
      BY <1>1, <1>2, <2>3 DEF Dump, OwnInv, Shape, JobRecord
    <3>2. InHand(j)'
      BY <1>1, <2>1, <3>1 DEF InHand
    <3>. QED
      BY <2>1, <3>1, <3>2, VaultKept
  <2>. QED
    BY <2>2, <2>3
<1>3. CASE Encrypt(j)
  <2>1. UNCHANGED <<home, key, keys, recorded>> /\ job[j].pc = "encrypt"
    BY <1>3 DEF Encrypt, At, tenant
  <2>2. /\ Stamp(j) \in Id /\ Stamp(j)[1] = job[j].user
        /\ archive[Stamp(j)] = NoArchive /\ NoArchive.data = {}
    BY <1>1, <1>3, <2>1 DEF Encrypt, Stamp, Target, Checked, Id, OwnInv, Shape, Distinct, NoArchive
  <2>3. Stamp(j) \notin recorded /\ \A k \in Job : job[k].pc = "record" => job[k].id # Stamp(j)
    BY <2>2 DEF VaultInv, FilesKept, InHand
  <2>4. /\ job'[j].pc = "record" /\ job'[j].id = Stamp(j)
        /\ job'[j].op = job[j].op /\ job'[j].user = job[j].user
        /\ \A k \in Job \ {j} : job'[k] = job[k]
    BY <1>1, <1>3 DEF Encrypt, OwnInv, Shape, JobRecord
  <2>5. /\ archive'[Stamp(j)].key \in 1..keys /\ archive'[Stamp(j)].data # {}
        /\ \A id \in Id \ {Stamp(j)} : archive'[id] = archive[id]
    BY <1>1, <1>3, <2>1, <2>2 DEF Encrypt, InHand, VaultInv, NewestKey, OwnInv, Shape
  <2>6. recorded \subseteq Id /\ \A k \in Job : job[k].pc = "record" => job[k].id \in Id
    BY DEF OwnInv, Shape, Checked
  <2>7. NewestKey' /\ FilesKept' /\ KeysKnown' /\ EmptyHasBackup' /\ DistinctStamps'
    BY <2>1, <2>3, <2>4, <2>5, <2>6
    DEF VaultInv, NewestKey, FilesKept, KeysKnown, EmptyHasBackup, DistinctStamps
  <2>8. InHand(j)'
    BY <1>1, <2>1, <2>2, <2>3, <2>4, <2>5 DEF InHand, Checked
  <2>9. \A k \in Job \ {j} : InHand(k)'
    BY <2>1, <2>3, <2>4, <2>5, <2>6 DEF VaultInv, InHand
  <2>. QED
    BY <2>7, <2>8, <2>9 DEF VaultInv
<1>4. CASE Record(j)
  <2>1. /\ UNCHANGED <<home, key, keys, archive>> /\ recorded' = recorded \cup {job[j].id}
        /\ job[j].pc = "record"
    BY <1>4 DEF Record, At, tenant
  <2>2. /\ \A k \in Job \ {j} : job'[k] = job[k]
        /\ \/ job'[j].pc = "wipe" /\ job'[j].op = "remove"
           \/ job'[j].pc = "idle" /\ job'[j].op = "none"
        /\ job'[j].pc = "wipe" => job'[j].id = job[j].id /\ job'[j].user = job[j].user
    <3>1. CASE job[j].op = "remove"
      BY <1>4, <3>1, GotoFields DEF Record
    <3>2. CASE job[j].op # "remove"
      BY <1>4, <3>2, FinishFields DEF Record
    <3>. QED
      BY <3>1, <3>2
  <2>3. EmptyHasBackup' /\ DistinctStamps'
    BY <1>1, <2>1, <2>2 DEF VaultInv, EmptyHasBackup, DistinctStamps
  <2>4. NewestKey' /\ FilesKept' /\ KeysKnown'
    BY <1>1, <2>1, <2>2 DEF VaultInv, NewestKey, FilesKept, KeysKnown, InHand
  <2>5. InHand(j)'
    BY <1>1, <2>1, <2>2 DEF InHand
  <2>6. \A k \in Job \ {j} : InHand(k)'
    BY <2>1, <2>2 DEF VaultInv, InHand, DistinctStamps
  <2>. QED
    BY <2>3, <2>4, <2>5, <2>6 DEF VaultInv
<1>5. CASE Wipe(j)
  <2>1. UNCHANGED <<key, keys, archive, recorded>> /\ job[j].pc = "wipe" /\ Finish(j, "ok")
    BY <1>5 DEF Wipe, At, vault
  <2>2. \A u \in User : home'[u] = {} => home[u] = {} \/ \E id \in recorded : id[1] = u
    BY <1>1, <1>5, <2>1 DEF Wipe, Target, InHand, OwnInv, Shape
  <2>3. InHand(j)'
    BY <2>1, FinishFields DEF InHand
  <2>. QED
    BY <2>1, <2>2, <2>3, FinishFields, VaultKept
<1>6. CASE Fail(j) /\ job[j].pc = "record"
  <2>1. UNCHANGED <<home, key, keys, recorded>> /\ Finish(j, "error")
    BY <1>6 DEF Fail, LeftBehind, At, tenant
  <2>2. \A id \in Id \ {job[j].id} : archive'[id] = archive[id]
    BY <1>6 DEF Fail, LeftBehind, At, OwnInv, Shape
  <2>3. job'[j].pc = "idle" /\ job'[j].op = "none" /\ \A k \in Job \ {j} : job'[k] = job[k]
    BY <2>1, FinishFields
  <2>4. job[j].id \notin recorded /\ \A k \in Job \ {j} : job[k].pc = "record" => job[k].id # job[j].id
    BY <1>1, <1>6 DEF InHand, VaultInv, DistinctStamps
  <2>5. recorded \subseteq Id /\ \A k \in Job : job[k].pc = "record" => job[k].id \in Id
    BY DEF OwnInv, Shape, Checked
  <2>6. NewestKey' /\ FilesKept' /\ KeysKnown' /\ EmptyHasBackup' /\ DistinctStamps'
    BY <2>1, <2>2, <2>3, <2>4, <2>5
    DEF VaultInv, NewestKey, FilesKept, KeysKnown, EmptyHasBackup, DistinctStamps
  <2>7. \A k \in Job : InHand(k)'
    BY <2>1, <2>2, <2>3, <2>4, <2>5 DEF VaultInv, InHand
  <2>. QED
    BY <2>6, <2>7 DEF VaultInv
<1>. QED
  BY <1>2, <1>3, <1>4, <1>5, <1>6

\* Restore changes nothing in the vault, and has a backup of what it clears.
LEMMA VaultRestore ==
    ASSUME NEW j \in Job, OwnInv, VaultInv,
           \/ Decrypt(j) \/ StopGateway(j) \/ Unpack(j) \/ Clear(j) \/ Move(j) \/ StartGateway(j)
    PROVE  VaultInv'
<1>1. Checked(j) /\ InHand(j) /\ job[j] \in JobRecord
  BY DEF OwnInv, Shape, VaultInv
<1>2. job[j].pc \in {"decrypt", "stop", "unpack", "clear", "move", "start"}
  BY DEF Decrypt, StopGateway, Unpack, Clear, Move, StartGateway, At
<1>3. key # 0 /\ job[j].op = "restore" /\ job[j].id \in recorded /\ job[j].id[1] = job[j].user
  BY <1>1, <1>2 DEF Checked, InHand
<1>4. UNCHANGED <<key, keys, archive, recorded>>
  BY DEF Decrypt, StopGateway, Unpack, Clear, Move, StartGateway, vault
<1>5. \A u \in User : home'[u] = {} => home[u] = {} \/ \E id \in recorded : id[1] = u
  <2>1. CASE Clear(j)
    BY <1>3, <2>1 DEF Clear, Target, OwnInv, Shape
  <2>2. CASE Move(j)
    BY <1>1, <2>2 DEF Move, Checked, OwnInv, Shape
  <2>3. CASE Decrypt(j) \/ StopGateway(j) \/ Unpack(j) \/ StartGateway(j)
    BY <2>3 DEF Decrypt, StopGateway, Unpack, StartGateway, tenant
  <2>. QED
    BY <2>1, <2>2, <2>3
<1>. DEFINE Ended == job'[j].pc = "idle" /\ job'[j].op = "none"
            Moved == job'[j].pc \in {"stop", "unpack", "clear", "move", "start"}
                     /\ job'[j].id = job[j].id
            OthersKept == \A k \in Job \ {j} : job'[k] = job[k]
<1>6. OthersKept /\ (Ended \/ Moved)
  <2>1. ASSUME NEW step \in {"unpack", "clear", "move", "start"}, Goto(j, step)
        PROVE  OthersKept /\ Moved
    BY <2>1, GotoFields
  <2>2. ASSUME NEW result, Finish(j, result) PROVE OthersKept /\ Ended
    BY <2>2, FinishFields
  <2>3. CASE Decrypt(j) /\ archive[job[j].id].key = key /\ Target(j) \in managed
    BY <1>1, <2>3 DEF Decrypt, OwnInv, Shape, JobRecord
  <2>. QED
    BY <2>1, <2>2, <2>3 DEF Decrypt, StopGateway, Unpack, Clear, Move, StartGateway
<1>7. InHand(j)'
  BY <1>3, <1>4, <1>6 DEF InHand
<1>. QED
  BY <1>4, <1>5, <1>6, <1>7, VaultKept

LEMMA VaultWorld ==
    ASSUME OwnInv, VaultInv,
           \/ Tick \/ ClockEnds \/ UNCHANGED vars
           \/ \E u \in User : Use(u) \/ AddAgain(u)
    PROVE  VaultInv'
<1>1. UNCHANGED <<key, keys, archive, recorded, job>>
  BY DEF Tick, ClockEnds, Use, AddAgain, vars, tenant, vault
<1>2. \A u \in User : home'[u] = {} => home[u] = {}
  BY DEF Tick, ClockEnds, Use, AddAgain, vars, tenant, OwnInv, Shape
<1>. QED
  BY <1>1, <1>2
  DEF VaultInv, NewestKey, FilesKept, KeysKnown, DistinctStamps, EmptyHasBackup, InHand

LEMMA DistinctVault == ASSUME Distinct PROVE Spec => [](OwnInv /\ VaultInv)
<1>1. Init => OwnInv /\ VaultInv
  BY InitOwn, InitVault
<1>2. OwnInv /\ [Next]_vars => OwnInv'
  BY ControlSteps, BackupSteps, RestoreSteps, FailStep, WorldSteps DEF Next
<1>3. OwnInv /\ VaultInv /\ [Next]_vars => VaultInv'
  <2>. SUFFICES ASSUME OwnInv, VaultInv, [Next]_vars PROVE VaultInv'
    OBVIOUS
  <2>1. CASE \/ Tick \/ ClockEnds \/ UNCHANGED vars
            \/ \E u \in User : Use(u) \/ AddAgain(u)
    BY <2>1, VaultWorld
  <2>2. ASSUME NEW j \in Job,
               \/ \E u \in User : StartCreate(j, u) \/ StartRemove(j, u)
               \/ \E u \in User, id \in Id : StartRestore(j, u, id)
               \/ Die(j) \/ Fail(j)
        PROVE  VaultInv'
    BY <2>2, Distinct, VaultEnds, VaultBackup
  <2>3. ASSUME NEW j \in Job, CheckUser(j) \/ ReadKey(j) \/ WriteKey(j) PROVE VaultInv'
    BY <2>3, VaultKey
  <2>4. ASSUME NEW j \in Job, Dump(j) \/ Encrypt(j) \/ Record(j) \/ Wipe(j) PROVE VaultInv'
    BY <2>4, Distinct, VaultBackup
  <2>5. ASSUME NEW j \in Job,
               \/ Decrypt(j) \/ StopGateway(j) \/ Unpack(j) \/ Clear(j) \/ Move(j)
               \/ StartGateway(j)
        PROVE  VaultInv'
    BY <2>5, VaultRestore
  <2>. QED
    BY <2>1, <2>2, <2>3, <2>4, <2>5 DEF Next
<1>. QED
  BY <1>1, <1>2, <1>3, PTL DEF Spec

\* No job takes away the file of a backup the table lists, whatever fails at any step
\* and whoever reads the key, and until a second key is written it can be restored.
THEOREM ListedBackupsKept == ASSUME Distinct PROVE Spec => []BackupsKept
<1>1. OwnInv /\ VaultInv => BackupsKept
  <2>. SUFFICES ASSUME OwnInv, VaultInv, NEW id \in recorded
                PROVE  archive[id].data # {} /\ (keys = 1 => Restorable(id))
    BY DEF BackupsKept
  <2>1. archive[id].data # {} /\ archive[id].key \in 1..keys /\ key = keys /\ keys \in Nat
    BY DEF VaultInv, FilesKept, KeysKnown, NewestKey, OwnInv, Shape
  <2>. QED
    BY <2>1 DEF Restorable
<1>. QED
  BY Distinct, DistinctVault, <1>1, PTL

\* The data of a tenant is never gone altogether: neither a removal nor a restore
\* that breaks off empties a home directory that no backup holds.
THEOREM DataSurvives == ASSUME Distinct PROVE Spec => []DataKept
<1>1. OwnInv /\ VaultInv => DataKept
  BY DEF VaultInv, EmptyHasBackup, FilesKept, KeysKnown, DataKept
<1>. QED
  BY Distinct, DistinctVault, <1>1, PTL

-----------------------------------------------------------------------------
(* The types.  A job writes at most one key, so there are never more keys   *)
(* than jobs were started: those that may yet write one are counted too.   *)

Preparing == {j \in Job : job[j].pc \in {"user", "key", "writeKey"}}

Bounded ==
    /\ managed \subseteq User /\ gateway \subseteq User
    /\ key \in 0..keys /\ started \in 0..MaxJobs /\ budget \in 0..Budget
    /\ \A id \in Id : archive[id].key \in 0..keys
    /\ IsFiniteSet(Preparing) /\ keys + Cardinality(Preparing) \in 0..started

\* A step that starts no job and writes no key.
LEMMA FewerPreparing ==
    ASSUME OwnInv, Bounded, Preparing' \subseteq Preparing, UNCHANGED <<keys, started>>
    PROVE  IsFiniteSet(Preparing') /\ keys' + Cardinality(Preparing') \in 0..started'
<1>. DEFINE before == Preparing
            after == Preparing'
<1>1. IsFiniteSet(after) /\ Cardinality(after) <= Cardinality(before)
  BY FS_Subset DEF Bounded
<1>2. Cardinality(after) \in Nat /\ Cardinality(before) \in Nat /\ keys \in Nat
  BY <1>1, FS_CardinalityType DEF Bounded, OwnInv, Shape
<1>. QED
  BY <1>1, <1>2 DEF Bounded

LEMMA InitBounded == Init => Bounded
<1>. SUFFICES ASSUME Init PROVE Bounded
  OBVIOUS
<1>1. Preparing = {}
  BY DEF Init, Preparing, Free
<1>2. IsFiniteSet(Preparing) /\ Cardinality(Preparing) = 0
  BY <1>1, FS_EmptySet
<1>. QED
  BY <1>2 DEF Init, Bounded, NoArchive

LEMMA StartBounded ==
    ASSUME NEW j \in Job, NEW op, NEW u, NEW id, OwnInv, Bounded, Start(j, op, u, id)
    PROVE  Bounded'
<1>. DEFINE before == Preparing
            after == Preparing'
<1>1. job[j].pc = "idle" /\ job'[j].pc = "user" /\ \A k \in Job \ {j} : job'[k] = job[k]
  BY DEF Start, At, Free, OwnInv, Shape
<1>2. after = before \cup {j} /\ j \notin before
  BY <1>1 DEF Preparing
<1>3. IsFiniteSet(after) /\ Cardinality(after) = Cardinality(before) + 1
  BY <1>2, FS_AddElement DEF Bounded
<1>4. Cardinality(before) \in Nat /\ keys \in Nat
  BY FS_CardinalityType DEF Bounded, OwnInv, Shape
<1>5. UNCHANGED <<managed, gateway, key, keys, budget, archive>> /\ started' = started + 1
      /\ started < MaxJobs
  BY DEF Start, tenant, vault
<1>. QED
  BY <1>3, <1>4, <1>5 DEF Bounded

LEMMA WriteBounded ==
    ASSUME NEW j \in Job, OwnInv, Bounded, WriteKey(j)
    PROVE  Bounded'
<1>. DEFINE before == Preparing
            after == Preparing'
<1>1. Goto(j, AfterKey(j)) /\ AfterKey(j) \in {"decrypt", "dump"} /\ job[j].pc = "writeKey"
  BY DEF WriteKey, AfterKey, At
<1>2. job'[j].pc \in {"decrypt", "dump"} /\ \A k \in Job \ {j} : job'[k] = job[k]
  BY <1>1, GotoFields
<1>3. after = before \ {j} /\ j \in before
  BY <1>1, <1>2 DEF Preparing
<1>4. IsFiniteSet(after) /\ Cardinality(after) = Cardinality(before) - 1
  BY <1>3, FS_RemoveElement DEF Bounded
<1>5. Cardinality(before) \in Nat /\ Cardinality(after) \in Nat /\ keys \in Nat
  BY <1>4, FS_CardinalityType DEF Bounded, OwnInv, Shape
<1>6. UNCHANGED <<managed, gateway, started, budget, archive>>
      /\ keys' = keys + 1 /\ key' = keys + 1
  BY DEF WriteKey, tenant
<1>7. keys' + Cardinality(after) \in 0..started'
  BY <1>4, <1>5, <1>6 DEF Bounded
<1>. QED
  BY <1>4, <1>5, <1>6, <1>7 DEF Bounded

\* The other steps of a job: it ends, or goes on to a step after the key, or to the
\* next step of the three before it.
LEMMA OtherBounded ==
    ASSUME NEW j \in Job, OwnInv, Bounded,
           \/ CheckUser(j) \/ ReadKey(j) \/ Dump(j) \/ Encrypt(j) \/ Record(j) \/ Wipe(j)
           \/ Decrypt(j) \/ StopGateway(j) \/ Unpack(j) \/ Clear(j) \/ Move(j)
           \/ StartGateway(j) \/ Fail(j) \/ Die(j)
    PROVE  Bounded'
<1>. DEFINE OneMoves == /\ \A k \in Job \ {j} : job'[k] = job[k]
                        /\ job'[j].pc \in {"user", "key", "writeKey"} => j \in Preparing
<1>1. ASSUME NEW step, Goto(j, step), job[j].pc \in {"user", "key"} \/ step \notin {"user", "key", "writeKey"}
      PROVE  OneMoves
  BY <1>1, GotoFields DEF Preparing
<1>2. ASSUME NEW result, Finish(j, result) PROVE OneMoves
  BY <1>2, FinishFields
<1>3. OneMoves
  <2>1. CASE CheckUser(j) \/ ReadKey(j)
    BY <1>1, <1>2, <2>1 DEF CheckUser, ReadKey, At
  <2>2. CASE Dump(j) /\ home[Target(j)] # {}
    BY <2>2 DEF Dump, OwnInv, Shape, JobRecord
  <2>3. CASE Dump(j) /\ home[Target(j)] = {}
    BY <1>2, <2>3 DEF Dump
  <2>4. CASE Encrypt(j)
    BY <2>4 DEF Encrypt, OwnInv, Shape, JobRecord
  <2>5. CASE Decrypt(j) /\ archive[job[j].id].key = key /\ Target(j) \in managed
    BY <2>5 DEF Decrypt, OwnInv, Shape, JobRecord
  <2>6. CASE Decrypt(j) /\ ~(archive[job[j].id].key = key /\ Target(j) \in managed)
    BY <1>2, <2>6 DEF Decrypt
  <2>7. CASE Record(j) \/ Wipe(j) \/ Fail(j) \/ Die(j)
    BY <1>1, <1>2, <2>7 DEF Record, Wipe, Fail, Die
  <2>8. CASE StopGateway(j) \/ Unpack(j) \/ Clear(j) \/ Move(j) \/ StartGateway(j)
    BY <1>1, <1>2, <2>8 DEF StopGateway, Unpack, Clear, Move, StartGateway
  <2>. QED
    BY <2>1, <2>2, <2>3, <2>4, <2>5, <2>6, <2>7, <2>8
<1>4. Preparing' \subseteq Preparing
  BY <1>3 DEF Preparing
<1>5. UNCHANGED <<key, keys, started>>
  BY DEF CheckUser, ReadKey, Dump, Encrypt, Record, Wipe, Decrypt, StopGateway, Unpack, Clear,
         Move, StartGateway, Fail, Die, vault
<1>6. managed' \subseteq User /\ gateway' \subseteq User
  <2>1. CASE StartGateway(j)
    BY <2>1 DEF StartGateway, At, Target, Bounded, OwnInv, Checked
  <2>2. CASE Wipe(j) \/ StopGateway(j)
    BY <2>2 DEF Wipe, StopGateway, Bounded
  <2>3. CASE ~(StartGateway(j) \/ Wipe(j) \/ StopGateway(j))
    BY <2>3 DEF CheckUser, ReadKey, Dump, Encrypt, Record, Decrypt, Unpack, Clear, Move, Fail, Die,
                tenant, Bounded
  <2>. QED
    BY <2>1, <2>2, <2>3
<1>7. budget' \in 0..Budget
  <2>1. CASE Fail(j) \/ Die(j)
    BY <2>1 DEF Fail, Die, Bounded
  <2>2. CASE ~(Fail(j) \/ Die(j))
    BY <2>2 DEF CheckUser, ReadKey, Dump, Encrypt, Record, Wipe, Decrypt, StopGateway, Unpack,
                Clear, Move, StartGateway, Bounded
  <2>. QED
    BY <2>1, <2>2
<1>8. \A id \in Id : archive'[id].key \in 0..keys
  <2>1. CASE Encrypt(j)
    BY <2>1 DEF Encrypt, Bounded, OwnInv, Shape
  <2>2. CASE Fail(j)
    BY <2>2 DEF Fail, LeftBehind, NoArchive, Bounded, OwnInv, Shape
  <2>3. CASE ~(Encrypt(j) \/ Fail(j))
    BY <2>3 DEF CheckUser, ReadKey, Dump, Record, Wipe, Decrypt, StopGateway, Unpack, Clear,
                Move, StartGateway, Die, vault, Bounded
  <2>. QED
    BY <2>1, <2>2, <2>3
<1>. QED
  BY <1>4, <1>5, <1>6, <1>7, <1>8, FewerPreparing DEF Bounded

LEMMA WorldBounded ==
    ASSUME OwnInv, Bounded,
           \/ Tick \/ ClockEnds \/ UNCHANGED vars
           \/ \E u \in User : Use(u) \/ AddAgain(u)
    PROVE  Bounded'
<1>1. UNCHANGED <<key, keys, archive, job, started, budget>>
  BY DEF Tick, ClockEnds, Use, AddAgain, vars, vault
<1>2. managed' \subseteq User /\ gateway' \subseteq User
  BY DEF Tick, ClockEnds, Use, AddAgain, vars, tenant, Bounded
<1>. QED
  BY <1>1, <1>2 DEF Bounded, Preparing

\* The types of all variables; in particular master.key is only ever one of the
\* keys that were generated, and there are no more of those than jobs.
THEOREM BackupTypes == Spec => []TypeOK
<1>1. Init => OwnInv /\ Bounded
  BY InitOwn, InitBounded
<1>2. OwnInv /\ [Next]_vars => OwnInv'
  BY ControlSteps, BackupSteps, RestoreSteps, FailStep, WorldSteps DEF Next
<1>3. OwnInv /\ Bounded /\ [Next]_vars => Bounded'
  BY StartBounded, WriteBounded, OtherBounded, WorldBounded
  DEF Next, StartCreate, StartRemove, StartRestore
<1>4. OwnInv /\ Bounded => TypeOK
  <2>. SUFFICES ASSUME OwnInv, Bounded PROVE TypeOK
    OBVIOUS
  <2>1. keys \in 0..MaxJobs
    <3>1. Cardinality(Preparing) \in Nat /\ keys \in Nat
      BY FS_CardinalityType DEF Bounded, OwnInv, Shape
    <3>. QED
      BY <3>1 DEF Bounded
  <2>2. archive \in [Id -> Archive]
    BY <2>1 DEF Bounded, OwnInv, Shape, Archive
  <2>. QED
    BY <2>1, <2>2 DEF TypeOK, Bounded, OwnInv, Shape, JobRecord
<1>. QED
  BY <1>1, <1>2, <1>3, <1>4, PTL DEF Spec

-----------------------------------------------------------------------------
(* What a restore moves, where no two backups of a tenant share a second    *)
(* and no restore runs beside a restore or a removal of the same tenant.    *)
(* Here processes may fail to read the key, or make several.                *)

Apart == "sameSecond" \notin Overlaps /\ "beside" \notin Overlaps

\* What a job is about to store, wipe or restore.
Pending(j) ==
    /\ job[j].pc = "encrypt" => job[j].data # {}
    /\ job[j].pc = "record" => archive[job[j].id].data # {} /\ job[j].id \notin recorded
    /\ job[j].pc = "wipe" => job[j].op = "remove"
    /\ job[j].op = "restore" /\ job[j].pc # "user" => job[j].id \in recorded

\* Where the data of the backup is while a job restores it.
Underway(j) ==
    /\ job[j].pc \in {"stop", "unpack", "clear", "move"} => job[j].data = archive[job[j].id].data
    /\ job[j].pc \in {"clear", "move"} => job[j].data \subseteq staged[job[j].user]
    /\ job[j].pc = "start" => archive[job[j].id].data \subseteq home[job[j].user]

Alone ==
    \A j \in Job : \A k \in Job \ {j} :
        job[j].op = "restore" /\ job[k].user = job[j].user => job[k].op \notin {"restore", "remove"}

WholeInv ==
    /\ FilesKept /\ DistinctStamps /\ Alone
    /\ \A j \in Job : Pending(j) /\ Underway(j)


\* A step that leaves the vault as it is.
LEMMA PendingKept ==
    ASSUME NEW j \in Job, WholeInv, UNCHANGED <<archive, recorded>>,
           \A k \in Job \ {j} : job'[k] = job[k], job'[j].pc # "record", Pending(j)'
    PROVE  FilesKept' /\ DistinctStamps' /\ \A k \in Job : Pending(k)'
BY DEF WholeInv, FilesKept, DistinctStamps, Pending

\* The other restores go on undisturbed where what they restore, and their tenants'
\* directories, lose nothing.
LEMMA UnderwayKept ==
    ASSUME NEW j \in Job, OwnInv, WholeInv, \A k \in Job \ {j} : job'[k] = job[k],
           \A id \in recorded : archive'[id] = archive[id],
           \A k \in Job \ {j} : job[k].op = "restore" /\ job[k].user \in User =>
               /\ home[job[k].user] \subseteq home'[job[k].user]
               /\ staged[job[k].user] \subseteq staged'[job[k].user]
    PROVE  \A k \in Job \ {j} : Underway(k)'
<1>. SUFFICES ASSUME NEW k \in Job \ {j}, job[k].pc \in {"stop", "unpack", "clear", "move", "start"}
              PROVE  Underway(k)'
  BY DEF Underway
<1>1. job[k].op = "restore" /\ job[k].user \in User /\ job[k].id \in recorded
  BY DEF OwnInv, Checked, WholeInv, Pending
<1>2. Underway(k)
  BY DEF WholeInv
<1>. QED
  BY <1>1, <1>2 DEF Underway

\* A job that ends, or keeps its operation and its tenant.
LEMMA AloneKept ==
    ASSUME NEW j \in Job, WholeInv, \A k \in Job \ {j} : job'[k] = job[k],
           job'[j].op = "none" \/ (job'[j].op = job[j].op /\ job'[j].user = job[j].user)
    PROVE  Alone'
BY DEF WholeInv, Alone

LEMMA InitWhole == Init => WholeInv
BY DEF Init, Free, WholeInv, FilesKept, DistinctStamps, Alone, Pending, Underway

LEMMA WholeStart ==
    ASSUME NEW j \in Job, Apart, OwnInv, WholeInv,
           \/ \E u \in User : StartCreate(j, u) \/ StartRemove(j, u)
           \/ \E u \in User, id \in Id : StartRestore(j, u, id)
    PROVE  WholeInv'
<1>1. PICK op \in {"create", "restore", "remove"}, u \in User, id \in Id \cup {NoId} :
         /\ Start(j, op, u, id)
         /\ op = "remove" => ~Running({"restore"}, u)
         /\ op = "restore" => ~Running({"restore", "remove"}, u)
  BY DEF StartCreate, StartRemove, StartRestore, Apart
<1>2. /\ job'[j].pc = "user" /\ job'[j].op = op /\ job'[j].user = u
      /\ \A k \in Job \ {j} : job'[k] = job[k]
      /\ UNCHANGED <<home, staged, archive, recorded>>
  BY <1>1 DEF Start, Free, tenant, vault, OwnInv, Shape
<1>3. Pending(j)' /\ Underway(j)'
  BY <1>2 DEF Pending, Underway
<1>4. FilesKept' /\ DistinctStamps' /\ \A k \in Job : Pending(k)'
  BY <1>2, <1>3, PendingKept
<1>5. \A k \in Job \ {j} : Underway(k)'
  BY <1>2, UnderwayKept
<1>6. Alone'
  BY <1>1, <1>2 DEF WholeInv, Alone, Running, Target
<1>. QED
  BY <1>3, <1>4, <1>5, <1>6 DEF WholeInv

\* A job ends without having changed anything, or its backup's file goes with it.
LEMMA WholeEnds ==
    ASSUME NEW j \in Job, NEW result, OwnInv, WholeInv, Finish(j, result),
           UNCHANGED <<home, staged, recorded>>, archive' = LeftBehind(j).archive \/ archive' = archive
    PROVE  WholeInv'
<1>1. job'[j].pc = "idle" /\ job'[j].op = "none" /\ \A k \in Job \ {j} : job'[k] = job[k]
  BY FinishFields
<1>2. Pending(j)' /\ Underway(j)'
  BY <1>1 DEF Pending, Underway
<1>3. /\ \A id \in recorded : archive'[id] = archive[id]
      /\ \A k \in Job \ {j} : job[k].pc = "record" => archive'[job[k].id] = archive[job[k].id]
  <2>1. CASE archive' = archive
    BY <2>1
  <2>2. CASE archive' = LeftBehind(j).archive /\ job[j].pc # "record"
    BY <2>2 DEF LeftBehind, At
  <2>3. CASE archive' = LeftBehind(j).archive /\ job[j].pc = "record"
    <3>1. \A id \in Id \ {job[j].id} : archive'[id] = archive[id]
      BY <2>3 DEF LeftBehind, At, OwnInv, Shape
    <3>2. job[j].id \notin recorded
          /\ \A k \in Job \ {j} : job[k].pc = "record" => job[k].id # job[j].id
      BY <2>3 DEF WholeInv, Pending, DistinctStamps
    <3>3. recorded \subseteq Id /\ \A k \in Job : job[k].pc = "record" => job[k].id \in Id
      BY DEF OwnInv, Shape, Checked
    <3>. QED
      BY <3>1, <3>2, <3>3
  <2>. QED
    BY <2>1, <2>2, <2>3
<1>4. FilesKept' /\ DistinctStamps' /\ \A k \in Job : Pending(k)'
  BY <1>1, <1>2, <1>3 DEF WholeInv, FilesKept, DistinctStamps, Pending
<1>5. \A k \in Job \ {j} : Underway(k)'
  BY <1>1, <1>3, UnderwayKept
<1>6. Alone'
  BY <1>1, AloneKept
<1>. QED
  BY <1>2, <1>4, <1>5, <1>6 DEF WholeInv

\* A job goes on to another step without changing the vault or the directories.
LEMMA WholeMoves ==
    ASSUME NEW j \in Job, NEW step, OwnInv, WholeInv, Goto(j, step),
           UNCHANGED <<home, staged, archive, recorded>>,
           step \notin {"encrypt", "record", "wipe", "stop", "clear", "move", "start"},
           step = "unpack" => job[j].pc = "stop",
           job[j].op = "restore" => job[j].id \in recorded
    PROVE  WholeInv'
<1>1. /\ job'[j].pc = step /\ job'[j].op = job[j].op /\ job'[j].user = job[j].user
      /\ job'[j].id = job[j].id /\ job'[j].data = job[j].data
      /\ \A k \in Job \ {j} : job'[k] = job[k]
  BY GotoFields
<1>2. Pending(j)'
  BY <1>1 DEF Pending
<1>3. Underway(j)'
  BY <1>1 DEF WholeInv, Underway
<1>4. FilesKept' /\ DistinctStamps' /\ \A k \in Job : Pending(k)'
  BY <1>1, <1>2, PendingKept
<1>5. \A k \in Job \ {j} : Underway(k)'
  BY <1>1, UnderwayKept
<1>6. Alone'
  BY <1>1, AloneKept
<1>. QED
  BY <1>2, <1>3, <1>4, <1>5, <1>6 DEF WholeInv


\* What needs no more than that: reading or making the key, stopping and starting the
\* gateway, and every way to end early.
LEMMA WholeControl ==
    ASSUME NEW j \in Job, OwnInv, WholeInv,
           \/ CheckUser(j) \/ ReadKey(j) \/ WriteKey(j) \/ StopGateway(j) \/ StartGateway(j)
           \/ Fail(j) \/ Die(j)
    PROVE  WholeInv'
<1>1. Pending(j) /\ Checked(j)
  BY DEF WholeInv, OwnInv
<1>2. CASE CheckUser(j)
  <2>1. UNCHANGED <<home, staged, archive, recorded>>
    BY <1>2 DEF CheckUser, tenant, vault
  <2>2. CASE Allowed(j)
    BY <1>2, <2>1, <2>2, WholeMoves DEF CheckUser, Allowed
  <2>3. CASE ~Allowed(j)
    BY <1>2, <2>1, <2>3, WholeEnds DEF CheckUser
  <2>. QED
    BY <2>2, <2>3
<1>3. CASE ReadKey(j) \/ WriteKey(j)
  <2>1. UNCHANGED <<home, staged, archive, recorded>> /\ job[j].pc \in {"key", "writeKey"}
    BY <1>3 DEF ReadKey, WriteKey, At, tenant, vault
  <2>2. PICK step \in {"writeKey", "dump", "decrypt"} : Goto(j, step)
    BY <1>3 DEF ReadKey, WriteKey, AfterKey
  <2>3. job[j].op = "restore" => job[j].id \in recorded
    BY <1>1, <2>1 DEF Pending
  <2>. QED
    BY <2>1, <2>2, <2>3, WholeMoves
<1>4. CASE StopGateway(j)
  <2>1. UNCHANGED <<home, staged, archive, recorded>> /\ job[j].pc = "stop"
    BY <1>4 DEF StopGateway, At, vault
  <2>2. CASE Target(j) \in managed
    <3>1. Goto(j, "unpack") /\ job[j].id \in recorded
      BY <1>1, <1>4, <2>1, <2>2 DEF StopGateway, Checked, Pending
    <3>. QED
      BY <2>1, <3>1, WholeMoves
  <2>3. CASE Target(j) \notin managed
    BY <1>4, <2>1, <2>3, WholeEnds DEF StopGateway
  <2>. QED
    BY <2>2, <2>3
<1>5. CASE StartGateway(j) \/ Fail(j) \/ Die(j)
  <2>1. UNCHANGED <<home, staged, recorded>> /\ (archive' = LeftBehind(j).archive \/ archive' = archive)
    BY <1>5 DEF StartGateway, Fail, Die, LeftBehind, tenant, vault
  <2>2. PICK result : Finish(j, result)
    BY <1>5 DEF StartGateway, Fail, Die
  <2>. QED
    BY <2>1, <2>2, WholeEnds
<1>. QED
  BY <1>2, <1>3, <1>4, <1>5

\* A backup adds a file no restore reads, and a row for a file that holds data; the
\* removal that follows it wipes a tenant nobody restores.
LEMMA WholeBackup ==
    ASSUME NEW j \in Job, Apart, OwnInv, WholeInv, Dump(j) \/ Encrypt(j) \/ Record(j) \/ Wipe(j)
    PROVE  WholeInv'
<1>1. job[j] \in JobRecord /\ Checked(j) /\ Pending(j)
  BY DEF OwnInv, Shape, WholeInv
<1>2. CASE Dump(j)
  <2>1. UNCHANGED <<home, staged, archive, recorded>> /\ job[j].pc = "dump"
    BY <1>2 DEF Dump, At, tenant, vault
  <2>2. CASE home[Target(j)] = {}
    BY <1>2, <2>1, <2>2, WholeEnds DEF Dump
  <2>3. CASE home[Target(j)] # {}
    <3>1. /\ job'[j].pc = "encrypt" /\ job'[j].data # {} /\ job'[j].op = job[j].op
          /\ job'[j].user = job[j].user /\ \A k \in Job \ {j} : job'[k] = job[k]
      BY <1>1, <1>2, <2>3 DEF Dump, OwnInv, Shape, JobRecord
    <3>2. Pending(j)' /\ Underway(j)'
      BY <1>1, <2>1, <3>1 DEF Checked, Pending, Underway
    <3>3. FilesKept' /\ DistinctStamps' /\ \A k \in Job : Pending(k)'
      BY <2>1, <3>1, <3>2, PendingKept
    <3>4. (\A k \in Job \ {j} : Underway(k)') /\ Alone'
      BY <2>1, <3>1, UnderwayKept, AloneKept
    <3>. QED
      BY <3>2, <3>3, <3>4 DEF WholeInv
  <2>. QED
    BY <2>2, <2>3
<1>3. CASE Encrypt(j)
  <2>1. UNCHANGED <<home, staged, recorded>> /\ job[j].pc = "encrypt"
    BY <1>3 DEF Encrypt, At, tenant
  <2>2. Stamp(j) \in Id /\ archive[Stamp(j)] = NoArchive /\ NoArchive.data = {}
    BY <1>1, <1>3, <2>1 DEF Encrypt, Stamp, Target, Checked, Id, OwnInv, Shape, Apart, NoArchive
  <2>3. Stamp(j) \notin recorded /\ \A k \in Job : job[k].pc = "record" => job[k].id # Stamp(j)
    BY <2>2 DEF WholeInv, FilesKept, Pending
  <2>4. /\ job'[j].pc = "record" /\ job'[j].id = Stamp(j)
        /\ job'[j].op = job[j].op /\ job'[j].user = job[j].user
        /\ \A k \in Job \ {j} : job'[k] = job[k]
    BY <1>1, <1>3 DEF Encrypt, OwnInv, Shape, JobRecord
  <2>5. archive'[Stamp(j)].data # {} /\ \A id \in Id \ {Stamp(j)} : archive'[id] = archive[id]
    BY <1>1, <1>3, <2>1, <2>2 DEF Encrypt, Pending, OwnInv, Shape
  <2>6. recorded \subseteq Id /\ \A k \in Job : job[k].pc = "record" => job[k].id \in Id
    BY DEF OwnInv, Shape, Checked
  <2>7. FilesKept' /\ DistinctStamps'
    BY <2>1, <2>3, <2>4, <2>5, <2>6 DEF WholeInv, FilesKept, DistinctStamps
  <2>8. Pending(j)' /\ Underway(j)'
    BY <1>1, <2>1, <2>3, <2>4, <2>5 DEF Checked, Pending, Underway
  <2>9. \A k \in Job \ {j} : Pending(k)'
    BY <2>1, <2>3, <2>4, <2>5, <2>6 DEF WholeInv, Pending
  <2>10. \A id \in recorded : archive'[id] = archive[id]
    BY <2>3, <2>5, <2>6
  <2>11. \A k \in Job \ {j} : Underway(k)'
    BY <2>1, <2>4, <2>10, UnderwayKept
  <2>12. Alone'
    BY <2>4, AloneKept
  <2>. QED
    BY <2>7, <2>8, <2>9, <2>11, <2>12 DEF WholeInv
<1>4. CASE Record(j)
  <2>1. /\ UNCHANGED <<home, staged, archive>> /\ recorded' = recorded \cup {job[j].id}
        /\ job[j].pc = "record"
    BY <1>4 DEF Record, At, tenant
  <2>2. /\ \A k \in Job \ {j} : job'[k] = job[k]
        /\ \/ job'[j].pc = "wipe" /\ job'[j].op = "remove" /\ job'[j].op = job[j].op
              /\ job'[j].user = job[j].user
           \/ job'[j].pc = "idle" /\ job'[j].op = "none"
    <3>1. CASE job[j].op = "remove"
      BY <1>4, <3>1, GotoFields DEF Record
    <3>2. CASE job[j].op # "remove"
      BY <1>4, <3>2, FinishFields DEF Record
    <3>. QED
      BY <3>1, <3>2
  <2>3. FilesKept' /\ DistinctStamps'
    BY <1>1, <2>1, <2>2 DEF WholeInv, FilesKept, DistinctStamps, Pending
  <2>4. Pending(j)' /\ Underway(j)'
    BY <2>2 DEF Pending, Underway
  <2>5. \A k \in Job \ {j} : Pending(k)'
    BY <2>1, <2>2 DEF WholeInv, Pending, DistinctStamps
  <2>6. (\A k \in Job \ {j} : Underway(k)') /\ Alone'
    BY <2>1, <2>2, UnderwayKept, AloneKept
  <2>. QED
    BY <2>3, <2>4, <2>5, <2>6 DEF WholeInv
<1>5. CASE Wipe(j)
  <2>1. UNCHANGED <<archive, recorded>> /\ job[j].pc = "wipe" /\ Finish(j, "ok")
    BY <1>5 DEF Wipe, At, vault
  <2>2. job'[j].pc = "idle" /\ job'[j].op = "none" /\ \A k \in Job \ {j} : job'[k] = job[k]
    BY <2>1, FinishFields
  <2>3. Pending(j)' /\ Underway(j)'
    BY <2>2 DEF Pending, Underway
  <2>4. FilesKept' /\ DistinctStamps' /\ \A k \in Job : Pending(k)'
    BY <2>1, <2>2, <2>3, PendingKept
  <2>5. ASSUME NEW k \in Job \ {j}, job[k].op = "restore", job[k].user \in User
        PROVE  home'[job[k].user] = home[job[k].user] /\ staged'[job[k].user] = staged[job[k].user]
    <3>1. job[k].user # job[j].user
      BY <1>1, <2>1, <2>5 DEF Pending, WholeInv, Alone
    <3>. QED
      BY <1>5, <3>1 DEF Wipe, Target, OwnInv, Shape
  <2>6. (\A k \in Job \ {j} : Underway(k)') /\ Alone'
    BY <2>1, <2>2, <2>5, UnderwayKept, AloneKept
  <2>. QED
    BY <2>3, <2>4, <2>6 DEF WholeInv
<1>. QED
  BY <1>2, <1>3, <1>4, <1>5

\* The way of the data: into the job, the staging directory, and the home directory.
LEMMA WholeRestore ==
    ASSUME NEW j \in Job, OwnInv, WholeInv, Decrypt(j) \/ Unpack(j) \/ Clear(j) \/ Move(j)
    PROVE  WholeInv'
<1>1. job[j] \in JobRecord /\ Checked(j) /\ Pending(j) /\ Underway(j)
  BY DEF OwnInv, Shape, WholeInv
<1>2. job[j].op = "restore" /\ job[j].id \in recorded /\ job[j].user \in User
      /\ UNCHANGED <<archive, recorded>>
  BY <1>1 DEF Decrypt, Unpack, Clear, Move, At, Checked, Pending, vault
<1>3. \A k \in Job \ {j} : job[k].op = "restore" => job[k].user # job[j].user
  BY <1>2 DEF WholeInv, Alone
<1>4. ASSUME NEW k \in Job \ {j}, job[k].op = "restore", job[k].user \in User
      PROVE  home'[job[k].user] = home[job[k].user] /\ staged'[job[k].user] = staged[job[k].user]
  BY <1>3, <1>4 DEF Decrypt, Unpack, Clear, Move, Target, tenant, OwnInv, Shape
<1>. DEFINE Ended == job'[j].pc = "idle" /\ job'[j].op = "none"
            Moved == job'[j].pc \in {"stop", "clear", "move", "start"} /\ job'[j].op = job[j].op
                     /\ job'[j].user = job[j].user /\ job'[j].id = job[j].id
            OthersKept == \A k \in Job \ {j} : job'[k] = job[k]
<1>5. OthersKept /\ (Ended \/ (Moved /\ Underway(j)'))
  <2>1. ASSUME NEW result, Finish(j, result) PROVE OthersKept /\ Ended
    BY <2>1, FinishFields
  <2>2. CASE Decrypt(j) /\ archive[job[j].id].key = key /\ Target(j) \in managed
    <3>1. OthersKept /\ Moved /\ job'[j].pc = "stop" /\ job'[j].data = archive[job[j].id].data
      BY <1>1, <2>2 DEF Decrypt, OwnInv, Shape, JobRecord
    <3>. QED
      BY <1>2, <3>1 DEF Underway
  <2>3. CASE Unpack(j)
    <3>1. OthersKept /\ Moved /\ job'[j].pc = "clear" /\ job'[j].data = job[j].data
          /\ job[j].pc = "unpack"
      BY <2>3, GotoFields DEF Unpack, At
    <3>2. staged'[job[j].user] = staged[job[j].user] \cup job[j].data
      BY <1>2, <2>3 DEF Unpack, Target, OwnInv, Shape
    <3>. QED
      BY <1>1, <1>2, <3>1, <3>2 DEF Underway
  <2>4. CASE Clear(j)
    <3>1. OthersKept /\ Moved /\ job'[j].pc = "move" /\ job'[j].data = job[j].data
          /\ job[j].pc = "clear" /\ staged' = staged
      BY <2>4, GotoFields DEF Clear, At
    <3>. QED
      BY <1>1, <1>2, <3>1 DEF Underway
  <2>5. CASE Move(j) /\ staged[Target(j)] # {}
    <3>1. OthersKept /\ Moved /\ job'[j].pc = "start" /\ job[j].pc = "move"
      BY <2>5, GotoFields DEF Move, At
    <3>2. home'[job[j].user] = home[job[j].user] \cup staged[job[j].user]
      BY <1>2, <2>5 DEF Move, Target, OwnInv, Shape
    <3>. QED
      BY <1>1, <1>2, <3>1, <3>2 DEF Underway
  <2>. QED
    BY <2>1, <2>2, <2>3, <2>4, <2>5 DEF Decrypt, Move
<1>6. Pending(j)' /\ Underway(j)'
  BY <1>2, <1>5 DEF Pending, Underway
<1>7. FilesKept' /\ DistinctStamps' /\ \A k \in Job : Pending(k)'
  BY <1>2, <1>5, <1>6, PendingKept
<1>8. (\A k \in Job \ {j} : Underway(k)') /\ Alone'
  BY <1>2, <1>4, <1>5, UnderwayKept, AloneKept
<1>. QED
  BY <1>6, <1>7, <1>8 DEF WholeInv

LEMMA WholeWorld ==
    ASSUME OwnInv, WholeInv,
           \/ Tick \/ ClockEnds \/ UNCHANGED vars
           \/ \E u \in User : Use(u) \/ AddAgain(u)
    PROVE  WholeInv'
<1>1. UNCHANGED <<archive, recorded, job, staged>>
  BY DEF Tick, ClockEnds, Use, AddAgain, vars, tenant, vault
<1>2. \A u \in User : home[u] \subseteq home'[u]
  BY DEF Tick, ClockEnds, Use, AddAgain, vars, tenant, OwnInv, Shape
<1>3. \A j \in Job : job[j].pc = "start" => job[j].user \in User
  BY DEF OwnInv, Checked
<1>4. \A j \in Job : Underway(j)'
  BY <1>1, <1>2, <1>3 DEF WholeInv, Underway
<1>. QED
  BY <1>1, <1>4 DEF WholeInv, FilesKept, DistinctStamps, Alone, Pending

\* A restore that reports success has put the data of the backup into the home
\* directory, whatever broke off before it, however many keys were made, and whatever
\* the tenant, other backups and the jobs of other tenants did meanwhile.
THEOREM RestoresAreWhole == ASSUME Apart PROVE Spec => RestoredWhole
<1>1. Init => OwnInv /\ WholeInv
  BY InitOwn, InitWhole
<1>2. OwnInv /\ [Next]_vars => OwnInv'
  BY ControlSteps, BackupSteps, RestoreSteps, FailStep, WorldSteps DEF Next
<1>3. OwnInv /\ WholeInv /\ [Next]_vars => WholeInv'
  BY Apart, WholeStart, WholeControl, WholeBackup, WholeRestore, WholeWorld DEF Next
<1>4. WholeInv => [\A j \in Job : (At(j, "start") /\ job'[j].result = "ok")
                          => archive[job[j].id].data \subseteq home[Target(j)]]_vars
  BY DEF WholeInv, Underway, At, Target
<1>. QED
  BY <1>1, <1>2, <1>3, <1>4, PTL DEF Spec, RestoredWhole
=============================================================================
