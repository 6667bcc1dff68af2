------------------------------- MODULE Backup -------------------------------
(***************************************************************************)
(* backup.Manager (internal/backup/manager.go): encrypted backups of the   *)
(* tenants' home directories, their restore, the mandatory backup before a *)
(* removal, and the master key all of them share.                          *)
(*                                                                         *)
(* A job is one call of Create, Restore or Remove: the user screen runs    *)
(* each in a goroutine, the timer runs `openclaw-multi backup` in a        *)
(* process of its own, so jobs overlap, and any of them may fail at any    *)
(* step or end with its process.                                           *)
(*                                                                         *)
(* Abstractions.  A home directory is the set of pieces of data in it; the *)
(* tenant only adds to it.  The stamp of a backup is the second it was     *)
(* taken at, which with the user is both its id and its path.  Checksum,   *)
(* size and the listing order are left out (nothing compares the checksum).*)
(* mkdir and tar are one step, so are mv and chown.  Of Remove only the    *)
(* backup and the loss of the home directory are here; UserLifecycle has   *)
(* the rest.  sudo, openssl, tar and the openclaw CLI are external.        *)
(***************************************************************************)
EXTENDS Naturals, FiniteSets

CONSTANTS
    User,         \* tenants
    Job,          \* slots of jobs that run at a time
    Console,      \* the jobs of the user screen, which refuses to run as root
    KeyReaders,   \* the jobs whose process may read the 0600 key of root; a job of
                  \* the screen is one where the administrator was given the key
    Overlaps,     \* the coincidences that may happen, see below
    MaxTime,      \* seconds
    MaxData,      \* pieces of data per tenant
    MaxJobs,      \* jobs in a behaviour
    Budget        \* failures and kills in a behaviour

\* sameSecond: two backups of one tenant within a second.  firstKey: two jobs
\* that both find no key.  beside: a restore beside another restore, or beside the
\* removal, of the same tenant.
Coincidence == {"sameSecond", "firstKey", "beside"}

ASSUME BackupAssumption ==
    /\ {Console, KeyReaders} \subseteq SUBSET Job /\ Overlaps \subseteq Coincidence
    /\ {MaxTime, MaxData, MaxJobs} \subseteq Nat \ {0} /\ Budget \in Nat

VARIABLES
    managed,      \* the users with a row in state.db
    home,         \* home[u]: the data in ~/.openclaw
    staged,       \* staged[u]: the data in ~/.openclaw-restore-tmp
    gateway,      \* the users whose gateway runs
    key,          \* master.key: 0 without one, else its number
    keys,         \* keys generated so far
    now,          \* the clock
    archive,      \* archive[id]: the encrypted file of a backup
    recorded,     \* the ids with a row in the backups table
    job,          \* job[j]: the job in slot j and its locals
    started,      \* jobs started so far
    budget        \* failures left

tenant == <<managed, home, staged, gateway>>
vault == <<key, keys, archive, recorded>>
vars == <<tenant, vault, now, job, started, budget>>

Data == [of : User, n : 1..MaxData]
Id == User \X (1..MaxTime)
NoId == <<"none", 0>>
NoArchive == [key |-> 0, data |-> {}]
Archive == [key : 0..MaxJobs, data : SUBSET Data]

Steps == {"idle", "user", "key", "writeKey", "dump", "encrypt", "record", "wipe",
          "decrypt", "stop", "unpack", "clear", "move", "start"}

Free(result) == [pc |-> "idle", op |-> "none", user |-> "none", id |-> NoId,
                 data |-> {}, result |-> result]

TypeOK ==
    /\ managed \subseteq User /\ gateway \subseteq User
    /\ home \in [User -> SUBSET Data] /\ staged \in [User -> SUBSET Data]
    /\ key \in 0..keys /\ keys \in 0..MaxJobs
    /\ now \in 1..MaxTime
    /\ archive \in [Id -> Archive] /\ recorded \subseteq Id
    /\ job \in [Job -> [pc : Steps, op : {"none", "create", "restore", "remove"},
                        user : User \cup {"none"}, id : Id \cup {NoId},
                        data : SUBSET Data, result : {"none", "ok", "error"}]]
    /\ started \in 0..MaxJobs /\ budget \in 0..Budget

Init ==
    /\ managed = User /\ gateway = User
    /\ home = [u \in User |-> {[of |-> u, n |-> 1]}]
    /\ staged = [u \in User |-> {}]
    /\ key = 0 /\ keys = 0
    /\ now = 1
    /\ archive = [id \in Id |-> NoArchive] /\ recorded = {}
    /\ job = [j \in Job |-> Free("none")]
    /\ started = 0 /\ budget = Budget

At(j, step) == job[j].pc = step
Target(j) == job[j].user
Goto(j, step) == job' = [job EXCEPT ![j].pc = step]
\* Mutant: the outcome of a job is whatever the last command printed.
FinishUnread(j, result) == job' = [job EXCEPT ![j] = Free("output")]

Finish(j, result) == job' = [job EXCEPT ![j] = Free(result)]
Others(j) == Job \ {j}

-----------------------------------------------------------------------------
(* The vault.  ensureMasterKey takes any error of the read for a missing   *)
(* key: the administrator's own process may not read what root wrote.      *)

SeesKey(j) == key # 0 /\ j \in KeyReaders

Restorable(id) == id \in recorded /\ archive[id].key = key /\ archive[id].data # {}

Start(j, op, u, id) ==
    /\ At(j, "idle") /\ started < MaxJobs
    /\ job' = [job EXCEPT ![j] = [Free("none") EXCEPT !.pc = "user", !.op = op,
                                                      !.user = u, !.id = id]]
    /\ started' = started + 1
    /\ UNCHANGED <<tenant, vault, now, budget>>

Running(ops, u) == \E k \in Job : job[k].op \in ops /\ Target(k) = u

\* The timer runs `openclaw-multi backup`, the screen all three.
StartCreate(j, u) == Start(j, "create", u, NoId)
StartRemove(j, u) ==
    /\ j \in Console
    /\ "beside" \in Overlaps \/ ~Running({"restore"}, u)
    /\ Start(j, "remove", u, NoId)
StartRestore(j, u, id) ==
    /\ j \in Console
    /\ "beside" \in Overlaps \/ ~Running({"restore", "remove"}, u)
    /\ Start(j, "restore", u, id)

\* Mutant: Restore does not compare the owner of the backup.
AllowedAnyOwner(j) ==
    /\ Target(j) \in managed
    /\ job[j].op = "restore" => job[j].id \in recorded

\* GetUser, and in Restore GetBackup and the owner of the backup.
Allowed(j) ==
    /\ Target(j) \in managed
    /\ job[j].op = "restore" => job[j].id \in recorded /\ job[j].id[1] = Target(j)

CheckUser(j) ==
    /\ At(j, "user")
    /\ IF Allowed(j) THEN Goto(j, "key") ELSE Finish(j, "error")
    /\ UNCHANGED <<tenant, vault, now, started, budget>>

\* Where a job goes on once it has a key.
AfterKey(j) == IF job[j].op = "restore" THEN "decrypt" ELSE "dump"

ReadKey(j) ==
    /\ At(j, "key")
    /\ "firstKey" \in Overlaps \/ key # 0 \/ \A k \in Others(j) : ~At(k, "writeKey")
    /\ Goto(j, IF SeesKey(j) THEN AfterKey(j) ELSE "writeKey")
    /\ UNCHANGED <<tenant, vault, now, started, budget>>

\* A new random key takes the place of the file, whatever it held.
WriteKey(j) ==
    /\ At(j, "writeKey")
    /\ keys' = keys + 1 /\ key' = keys + 1
    /\ Goto(j, AfterKey(j))
    /\ UNCHANGED <<tenant, archive, recorded, now, started, budget>>

-----------------------------------------------------------------------------
(* Create.                                                                 *)

\* openclaw backup create, as the tenant; it has to find something.
Dump(j) ==
    /\ At(j, "dump")
    /\ IF home[Target(j)] = {} THEN Finish(j, "error")
       ELSE job' = [job EXCEPT ![j].pc = "encrypt", ![j].data = home[Target(j)]]
    /\ UNCHANGED <<tenant, vault, now, started, budget>>

\* The id of a backup, which is also its path.
Stamp(j) == <<Target(j), now>>

\* The clock gives the id, openssl writes the file with the key it finds.
Encrypt(j) ==
    /\ At(j, "encrypt")
    /\ "sameSecond" \in Overlaps \/ archive[Stamp(j)] = NoArchive
    /\ archive' = [archive EXCEPT ![Stamp(j)] = [key |-> key, data |-> job[j].data]]
    /\ job' = [job EXCEPT ![j].pc = "record", ![j].id = Stamp(j)]
    /\ UNCHANGED <<tenant, key, keys, recorded, now, started, budget>>

\* UpsertBackup.
Record(j) ==
    /\ At(j, "record")
    /\ recorded' = recorded \cup {job[j].id}
    /\ IF job[j].op = "remove" THEN Goto(j, "wipe") ELSE Finish(j, "ok")
    /\ UNCHANGED <<tenant, key, keys, archive, now, started, budget>>

\* Remove goes on only after its backup: userdel -r, then the row.
Wipe(j) ==
    /\ At(j, "wipe")
    /\ home' = [home EXCEPT ![Target(j)] = {}]
    /\ staged' = [staged EXCEPT ![Target(j)] = {}]
    /\ managed' = managed \ {Target(j)} /\ gateway' = gateway \ {Target(j)}
    /\ Finish(j, "ok")
    /\ UNCHANGED <<vault, now, started, budget>>

-----------------------------------------------------------------------------
(* Restore.                                                                *)

\* openssl -d and openclaw backup verify, which fail on another key's file.
Decrypt(j) ==
    /\ At(j, "decrypt")
    /\ IF archive[job[j].id].key = key /\ Target(j) \in managed
       THEN job' = [job EXCEPT ![j].pc = "stop", ![j].data = archive[job[j].id].data]
       ELSE Finish(j, "error")
    /\ UNCHANGED <<tenant, vault, now, started, budget>>

\* systemctl --user stop needs the account.
StopGateway(j) ==
    /\ At(j, "stop")
    /\ IF Target(j) \in managed THEN Goto(j, "unpack") ELSE Finish(j, "error")
    /\ gateway' = gateway \ {Target(j)}
    /\ UNCHANGED <<managed, home, staged, vault, now, started, budget>>

\* tar adds to what an earlier restore left behind.
Unpack(j) ==
    /\ At(j, "unpack")
    /\ staged' = [staged EXCEPT ![Target(j)] = @ \cup job[j].data]
    /\ Goto(j, "clear")
    /\ UNCHANGED <<managed, home, gateway, vault, now, started, budget>>

\* rm -rf ~/.openclaw
Clear(j) ==
    /\ At(j, "clear")
    /\ home' = [home EXCEPT ![Target(j)] = {}]
    /\ Goto(j, "move")
    /\ UNCHANGED <<managed, staged, gateway, vault, now, started, budget>>

\* mv fails when there is nothing to move.
Move(j) ==
    /\ At(j, "move")
    /\ IF staged[Target(j)] = {} THEN Finish(j, "error") /\ UNCHANGED <<home, staged>>
       ELSE /\ home' = [home EXCEPT ![Target(j)] = @ \cup staged[Target(j)]]
            /\ staged' = [staged EXCEPT ![Target(j)] = {}]
            /\ Goto(j, "start")
    /\ UNCHANGED <<managed, gateway, vault, now, started, budget>>

StartGateway(j) ==
    /\ At(j, "start")
    /\ IF Target(j) \in managed
       THEN gateway' = gateway \cup {Target(j)} /\ Finish(j, "ok")
       ELSE UNCHANGED gateway /\ Finish(j, "error")
    /\ UNCHANGED <<managed, home, staged, vault, now, started, budget>>

-----------------------------------------------------------------------------
(* Failures, and the world.                                                *)

\* Mutant: the file stays when its row cannot be written, and the row stays
\* when the file goes: the row is written first.
LeftBehindRowFirst(j) ==
    IF At(j, "record")
    THEN [archive |-> [archive EXCEPT ![job[j].id] = NoArchive],
          recorded |-> recorded \cup {job[j].id}]
    ELSE [archive |-> archive, recorded |-> recorded]

\* Create removes the file when it cannot read it back or record it.
LeftBehind(j) ==
    IF At(j, "record")
    THEN [archive |-> [archive EXCEPT ![job[j].id] = NoArchive], recorded |-> recorded]
    ELSE [archive |-> archive, recorded |-> recorded]

\* Mutant: Remove goes on after a backup that failed.
FailKeepsRemoving(j) ==
    /\ ~At(j, "idle") /\ budget > 0 /\ budget' = budget - 1
    /\ archive' = LeftBehind(j).archive /\ recorded' = LeftBehind(j).recorded
    /\ IF job[j].op = "remove" THEN Goto(j, "wipe") ELSE Finish(j, "error")
    /\ UNCHANGED <<tenant, key, keys, now, started>>

\* Mutant: Restore goes on after a command that failed.
FailKeepsRestoring(j) ==
    /\ ~At(j, "idle") /\ budget > 0 /\ budget' = budget - 1
    /\ archive' = LeftBehind(j).archive /\ recorded' = LeftBehind(j).recorded
    /\ IF job[j].pc \in {"unpack", "clear", "move"} THEN Goto(j, "start") ELSE Finish(j, "error")
    /\ UNCHANGED <<tenant, key, keys, now, started>>

\* The step at hand fails without effect, and the job with it.
Fail(j) ==
    /\ ~At(j, "idle") /\ budget > 0 /\ budget' = budget - 1
    /\ archive' = LeftBehind(j).archive /\ recorded' = LeftBehind(j).recorded
    /\ Finish(j, "error")
    /\ UNCHANGED <<tenant, key, keys, now, started>>

\* The process of the job ends: nothing is cleaned up.
Die(j) ==
    /\ ~At(j, "idle") /\ budget > 0 /\ budget' = budget - 1
    /\ Finish(j, "none")
    /\ UNCHANGED <<tenant, vault, now, started>>

Tick == now < MaxTime /\ now' = now + 1 /\ UNCHANGED <<tenant, vault, job, started, budget>>

\* The tenant adds data to the home directory of a running gateway.
Use(u) ==
    /\ u \in managed /\ u \in gateway
    /\ \E d \in Data : d.of = u /\ d \notin home[u] /\ home' = [home EXCEPT ![u] = @ \cup {d}]
    /\ UNCHANGED <<managed, staged, gateway, vault, now, job, started, budget>>

\* The user is added again, with an empty home directory.
AddAgain(u) ==
    /\ u \notin managed
    /\ managed' = managed \cup {u} /\ gateway' = gateway \cup {u}
    /\ UNCHANGED <<home, staged, vault, now, job, started, budget>>

\* The bound of the clock: a backup may wait for a second that never comes.
ClockEnds == now = MaxTime /\ UNCHANGED vars

Next ==
    \/ Tick \/ ClockEnds
    \/ \E u \in User : Use(u) \/ AddAgain(u)
    \/ \E j \in Job :
         \/ \E u \in User : StartCreate(j, u) \/ StartRemove(j, u)
         \/ \E u \in User, id \in Id : StartRestore(j, u, id)
         \/ CheckUser(j) \/ ReadKey(j) \/ WriteKey(j)
         \/ Dump(j) \/ Encrypt(j) \/ Record(j) \/ Wipe(j)
         \/ Decrypt(j) \/ StopGateway(j) \/ Unpack(j) \/ Clear(j) \/ Move(j) \/ StartGateway(j)
         \/ Fail(j) \/ Die(j)

Spec == Init /\ [][Next]_vars

-----------------------------------------------------------------------------
(* Properties.                                                             *)

\* Every backup the table lists can be restored: its file is there, and the key
\* it was encrypted with is the one on disk.  It fails where the user screen cannot
\* read the key, as it makes one of its own.
RecordedRestorable == \A id \in recorded : Restorable(id)

\* Whoever can read the key, no job takes away the file of a backup the table lists,
\* and until a second key is written the backup can be restored.
BackupsKept ==
    \A id \in recorded : archive[id].data # {} /\ (keys = 1 => Restorable(id))

\* Whoever can read the key, a home directory is only ever emptied, by a removal or
\* a restore that may break off at any step, with a backup of the tenant listed whose
\* file holds data, encrypted with one of the keys that were written.
DataKept ==
    \A u \in User :
        home[u] = {} => \E id \in recorded :
                            /\ id[1] = u /\ archive[id].data # {}
                            /\ archive[id].key \in 1..keys

\* No tenant ever gets the data of another, whichever ids are asked for and
\* whatever a broken restore left in the staging directory.
OwnDataOnly == \A u \in User : \A d \in home[u] \cup staged[u] : d.of = u

\* A restore that reports success has put the data of the backup into the home
\* directory, also after restores that broke off.
RestoredWhole ==
    [][\A j \in Job : (At(j, "start") /\ job'[j].result = "ok")
                          => archive[job[j].id].data \subseteq home[Target(j)]]_vars
=============================================================================
