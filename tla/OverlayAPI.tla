----------------------------- MODULE OverlayAPI -----------------------------
(***************************************************************************)
(* openclaw-overlay-api: the handlers of the daemon that own the route     *)
(* table, and the publication of that table to cloudflared                 *)
(* (internal/api/server.go, internal/api/service.go,                       *)
(* internal/cloudflared/manager.go, RealFS of internal/shell/fs.go).       *)
(*                                                                         *)
(* net/http runs every request in a goroutine of its own and nothing in    *)
(* the daemon serialises them, so a request is a process with a pc and     *)
(* its local variables, and each statement, file operation and command is  *)
(* a step.  One element of Request is a slot that serves one request after *)
(* the other; Cardinality(Request) is the number of handlers that may run  *)
(* at the same time.                                                       *)
(*                                                                         *)
(* The users table is written by another process (the TUI) on its own      *)
(* connection: TuiUpsertUser and TuiDeleteUser are that environment.       *)
(*                                                                         *)
(* Abstractions: a rendered configuration is the set of its ingress rules  *)
(* (the rendering sorts them by hostname, so the set determines the text); *)
(* a text cut short, or a text followed by the tail of another one, is     *)
(* Torn, whatever it says; opening the temporary file, writing it and      *)
(* renaming it are three steps; the credentials check and every other      *)
(* reason to give up before the first write are one outcome of the listing *)
(* step; the audit log is left out.                                        *)
(***************************************************************************)
EXTENDS StateStore

CONSTANTS
    Request,      \* slots of concurrently running handlers
    CatchAll,     \* the rule "service: http_status:404"
    Traffic(_),   \* Traffic(o): clients of this instance send the request o
    Faults,       \* which operations may fail in this instance, see FaultKind
    InitialFile,  \* the content of config.yml before the daemon first publishes
    Empty,        \* the content of a file that was truncated and not yet written
    Torn          \* the content of a file that is none of the texts written to it

FaultKind == {"statement", "precheck", "write", "validate", "sighup", "rollback", "crash"}

Rule == [host : Hostname, port : Port]

\* What RenderConfig can produce: some rules, and the catch-all after them.
Rendering == {{CatchAll} \cup rules : rules \in SUBSET Rule}

\* A file that does not exist.  A rendering is never empty.
NoFile == {}

\* A text that RenderConfig produced, from its first byte to its last.
Whole(file) == file \notin {NoFile, Empty, Torn}

\* No hostname is routed to two services.
Unambiguous(file) ==
    Whole(file) => \A x, y \in file \ {CatchAll} : x.host = y.host => x = y

ASSUME APIAssumption ==
    /\ Faults \subseteq FaultKind
    /\ CatchAll \notin Rule
    /\ InitialFile \in {NoFile} \cup Rendering
    /\ Unambiguous(InitialFile)
    /\ Empty # Torn
    /\ {Empty, Torn} \cap ({NoFile} \cup Rendering) = {}

VARIABLES
    config,       \* /etc/cloudflared/config.yml
    tmp,          \* config.yml.tmp, the path every WriteFile of it goes through
    loaded,       \* the rules the running cloudflared serves
    req           \* req[r]: the handler running in slot r and its local variables

fileVars == <<config, tmp, loaded>>
apiVars == <<config, tmp, loaded, req>>
vars == <<users, routes, config, tmp, loaded, req>>

-----------------------------------------------------------------------------
(* Requests.  The peer is root or the configured administrator (Admin), or *)
(* a tenant: the user whose row has the uid that the socket reports.       *)

Admin == "admin"

Kind == {"upsertGateway", "deleteGateway", "upsertPlugin", "deletePlugin",
         "enable", "disable", "reload"}

\* The id is the daemon's: only deletePlugin takes it from the URL.  Port 0 is
\* that of a request without local_port.
Operation ==
    {o \in [kind : Kind, by : {Admin} \cup User, user : User, id : RouteId, port : Port \cup {0}] :
        /\ o.kind = "upsertPlugin" => o.id \in PluginId /\ Owner[o.id] = o.user
        /\ o.kind \notin {"upsertPlugin", "deletePlugin"} => o.id = GatewayId[o.user]
        /\ o.kind \notin {"upsertPlugin", "upsertGateway"} => o.port = 0}

\* Server.authorize of a request on /users/<user>; requireRoot for reload.
Authorized(o) ==
    \/ o.by = Admin
    \/ o.kind # "reload" /\ o.by = o.user /\ UserExists(o.user)

\* The GetUser that opens UpsertGateway, UpsertPlugin and SetEnabled.
NeedsUser(o) == o.kind \in {"upsertGateway", "upsertPlugin", "enable", "disable"}

\* Mutant: DeletePlugin takes any id.
AnyNamespace(o) == TRUE

\* The prefix check of DeletePlugin: errForbidden when it fails.
OwnNamespace(o) == o.kind = "deletePlugin" => o.id \in PluginId /\ Owner[o.id] = o.user

\* Mutant: the catch-all is forgotten.
RenderWithoutCatchAll(table) ==
    {[host |-> Host[id], port |-> table[id].port] : id \in {i \in RouteId : table[i].state = "enabled"}}

\* RenderConfig: the enabled rows, then the catch-all.
RenderConfig(table) ==
    {CatchAll} \cup {[host |-> Host[id], port |-> table[id].port] :
                        id \in {i \in RouteId : table[i].state = "enabled"}}

\* The row write of each handler, as one statement of the store.
RowWrite(r) ==
    LET o == req[r].op IN
    \/ o.kind \in {"upsertGateway", "upsertPlugin"} /\ UpsertRoute(o.id, req[r].target)
    \/ o.kind \in {"deleteGateway", "deletePlugin"} /\ DeleteRoute(o.id)
    \/ o.kind = "enable" /\ SetRoutesEnabled(o.user, TRUE)
    \/ o.kind = "disable" /\ SetRoutesEnabled(o.user, FALSE)

\* The row write affects nothing or violates a constraint.
RowWriteRejected(r) ==
    LET o == req[r].op IN
    \/ /\ o.kind \in {"upsertGateway", "upsertPlugin"}
       /\ ~(UserExists(Owner[o.id]) /\ HostFree(o.id))
    \/ o.kind \in {"deleteGateway", "deletePlugin"} /\ ~RouteExists(o.id)

-----------------------------------------------------------------------------
File == {NoFile, Empty, Torn} \cup Rendering
Step == {"idle", "lookup", "row", "list", "read", "write", "fill", "rename", "validate", "sighup",
         "restore", "refill", "restored", "restoreHup", "refillHup", "restoredHup", "rehup"}

NoOp == [kind |-> "none"]

\* op: the decoded request; target: the local port its row write stores;
\* candidate, original: data and original of PublishWithSummary; fd: the path
\* under which the file it has open for writing is to be found by now, "gone"
\* when another rename has replaced that file; reply: how the last request of
\* the slot was answered.
Slot == [pc : Step, op : Operation \cup {NoOp}, target : Port \cup {0},
         candidate : {NoFile} \cup Rendering, original : File,
         fd : {"none", "tmp", "config", "gone"}, reply : {"none", "ok", "error"}]

Idle(answer) == [pc |-> "idle", op |-> NoOp, target |-> 0,
                 candidate |-> NoFile, original |-> NoFile, fd |-> "none", reply |-> answer]

At(r, step) == req[r].pc = step
Goto(r, step) == req' = [req EXCEPT ![r].pc = step]
Answer(r, result) == req' = [req EXCEPT ![r] = Idle(result)]
Fail(r, kind) == kind \in Faults /\ Answer(r, "error")

-----------------------------------------------------------------------------
Init ==
    /\ StoreInit
    /\ config = InitialFile
    /\ tmp = NoFile
    /\ loaded = InitialFile
    /\ req = [r \in Request |-> Idle("none")]

-----------------------------------------------------------------------------
(* The environment.                                                        *)

\* The rows users.Manager writes: Add activates, Deactivate pauses.
ManagerRow == {row \in UserRow : row.linger = (row.status = "active")}

TuiUpsertUser(u) ==
    /\ \E row \in ManagerRow : UpsertUser(u, row)
    /\ UNCHANGED apiVars

TuiDeleteUser(u) ==
    /\ DeleteUser(u)
    /\ UNCHANGED apiVars

\* A handler starts: userRoute dispatches the request it decoded.
Receive(r, o) ==
    /\ At(r, "idle")
    /\ Traffic(o)
    /\ req' = [req EXCEPT ![r] = [Idle("none") EXCEPT !.pc = "lookup", !.op = o]]
    /\ UNCHANGED <<storeVars, fileVars>>

-----------------------------------------------------------------------------
(* The handler up to its row write.  authorizeUser and GetUser read the    *)
(* same row and change nothing, so they are one step.                      *)

Admissible(o) ==
    /\ Authorized(o)
    /\ NeedsUser(o) => UserExists(o.user)
    /\ OwnNamespace(o)
    /\ o.kind = "upsertPlugin" => o.port # 0

Lookup(r) ==
    LET o == req[r].op IN
    /\ At(r, "lookup")
    /\ Admissible(o)
    /\ req' = [req EXCEPT
                ![r].pc = IF o.kind = "reload" THEN "list" ELSE "row",
                ![r].target = IF o.kind = "upsertGateway" /\ o.port = 0
                              THEN users[o.user].port ELSE o.port]
    /\ UNCHANGED <<storeVars, fileVars>>

\* Mutant: a refused request hangs.
RejectedWithoutReply(r) ==
    /\ At(r, "lookup")
    /\ ~Admissible(req[r].op)
    /\ UNCHANGED vars

LookupRejected(r) ==
    /\ At(r, "lookup")
    /\ ~Admissible(req[r].op)
    /\ Answer(r, "error")
    /\ UNCHANGED <<storeVars, fileVars>>

\* Mutant: the handler answers without publishing.
WriteRowUnpublished(r) ==
    /\ At(r, "row")
    /\ RowWrite(r)
    /\ Answer(r, "ok")
    /\ UNCHANGED fileVars

WriteRow(r) ==
    /\ At(r, "row")
    /\ RowWrite(r)
    /\ Goto(r, "list")
    /\ UNCHANGED fileVars

\* DeleteGateway takes ErrNoRoute for success; every other error is returned.
WriteRowRejected(r) ==
    /\ At(r, "row")
    /\ RowWriteRejected(r)
    /\ IF req[r].op.kind = "deleteGateway" THEN Goto(r, "list") ELSE Answer(r, "error")
    /\ UNCHANGED <<storeVars, fileVars>>

WriteRowFails(r) ==
    /\ At(r, "row")
    /\ Fail(r, "statement")
    /\ UNCHANGED <<storeVars, fileVars>>

-----------------------------------------------------------------------------
(* RouteService.Publish and Manager.PublishWithSummary.                    *)

\* ListRoutes, the credentials check and RenderConfig: the last time this
\* publication reads the table.
List(r) ==
    /\ At(r, "list")
    /\ \/ req' = [req EXCEPT ![r].candidate = RenderConfig(routes), ![r].pc = "read"]
       \/ Fail(r, "precheck")
    /\ UNCHANGED <<storeVars, fileVars>>

\* Mutant: the backup is of the new content.
BackUpCandidate(r) ==
    /\ At(r, "read")
    /\ \/ req' = [req EXCEPT ![r].original = req[r].candidate, ![r].pc = "write"]
       \/ config # NoFile /\ Fail(r, "write")
    /\ UNCHANGED <<storeVars, fileVars>>

\* ReadFile of config.yml, and its copy to the snapshots directory when it exists.
ReadOriginal(r) ==
    /\ At(r, "read")
    /\ \/ req' = [req EXCEPT ![r].original = config, ![r].pc = "write"]
       \/ config # NoFile /\ Fail(r, "write")
    /\ UNCHANGED <<storeVars, fileVars>>

(* RealFS.WriteFile.  Every writer of config.yml goes through the one path *)
(* config.yml.tmp, and os.WriteFile truncates it before it writes; a       *)
(* descriptor follows its file when another handler renames it away.       *)

\* A handler opens config.yml.tmp (O_CREATE|O_TRUNC) and goes on to step.
Open(r, step) ==
    /\ tmp' = Empty
    /\ req' = [req EXCEPT ![r].pc = step, ![r].fd = "tmp"]

\* It has written the file, closes it and goes on to step.
Close(r, step) == req' = [req EXCEPT ![r].pc = step, ![r].fd = "none"]

\* The write of a text over what the file holds: the longer of two texts keeps
\* its tail.  A write that is cut leaves a part of the text, or nothing of it.
Written(before, text, cut) ==
    IF cut THEN {before, Torn}
    ELSE IF text = Empty THEN {before}
    ELSE IF before \in {Empty, text} THEN {text} ELSE {text, Torn}

\* The write through the descriptor of r, wherever its file is by now.
Fill(r, text, cut) ==
    /\ IF req[r].fd = "tmp" THEN tmp' \in Written(tmp, text, cut) ELSE UNCHANGED tmp
    /\ IF req[r].fd = "config" THEN config' \in Written(config, text, cut) ELSE UNCHANGED config

Moved(slot) ==
    [slot EXCEPT !.fd = CASE @ = "tmp" -> "config" [] @ = "config" -> "gone" [] OTHER -> @]

\* os.Rename of whatever is at config.yml.tmp by now; r goes on with slot.
RenameTmp(r, slot) ==
    /\ tmp # NoFile
    /\ config' = tmp
    /\ tmp' = NoFile
    /\ req' = [q \in Request |-> IF q = r THEN slot ELSE Moved(req[q])]

\* The WriteFile of the publication: open and truncate, ...
OpenTmp(r) ==
    /\ At(r, "write")
    /\ \/ Open(r, "fill")
       \/ Fail(r, "write") /\ UNCHANGED tmp
    /\ UNCHANGED <<storeVars, config, loaded>>

\* ... write, ...
FillTmp(r) ==
    /\ At(r, "fill")
    /\ \/ Fill(r, req[r].candidate, FALSE) /\ Close(r, "rename")
       \/ Fill(r, req[r].candidate, TRUE) /\ Fail(r, "write")
    /\ UNCHANGED <<storeVars, loaded>>

\* ... and rename.
Rename(r) ==
    /\ At(r, "rename")
    /\ \/ RenameTmp(r, [req[r] EXCEPT !.pc = "validate"])
       \/ tmp = NoFile /\ Answer(r, "error") /\ UNCHANGED <<config, tmp>>
    /\ UNCHANGED <<storeVars, loaded>>

\* Mutant: a failed command is reported and not rolled back.
GiveUp(r, step) == Answer(r, "error")

\* A command failed: restore the original if there was one to restore.
Undo(r, step) ==
    IF req[r].original # NoFile THEN Goto(r, step) ELSE Answer(r, "error")

\* cloudflared tunnel ingress validate --config <path>, ten seconds at most.  It
\* refuses a file that is not a whole rendering.
Validate(r) ==
    /\ At(r, "validate")
    /\ \/ Whole(config) /\ Goto(r, "sighup")
       \/ ("validate" \in Faults \/ ~Whole(config)) /\ Undo(r, "restore")
    /\ UNCHANGED <<storeVars, fileVars>>

\* What cloudflared may serve after a SIGHUP: the file as it is now or, when
\* that is not a whole rendering, what it served before, or nothing.
Reloaded == IF Whole(config) THEN {config} ELSE {loaded, NoFile}

\* kill -HUP of cloudflared's main process.
Sighup(r) ==
    /\ At(r, "sighup")
    /\ \/ loaded' \in Reloaded /\ Answer(r, "ok")
       \/ "sighup" \in Faults /\ Undo(r, "restoreHup") /\ UNCHANGED loaded
    /\ UNCHANGED <<storeVars, config, tmp>>

\* The WriteFile of the rollback: open and truncate, ...
OpenRestore(r) ==
    /\ At(r, "restore") \/ At(r, "restoreHup")
    /\ \/ Open(r, IF At(r, "restore") THEN "refill" ELSE "refillHup")
       \/ Fail(r, "rollback") /\ UNCHANGED tmp
    /\ UNCHANGED <<storeVars, config, loaded>>

\* Mutant: the rollback writes the new content again.
RefillCandidate(r) ==
    /\ At(r, "refill") \/ At(r, "refillHup")
    /\ \/ /\ Fill(r, req[r].candidate, FALSE)
          /\ Close(r, IF At(r, "refill") THEN "restored" ELSE "restoredHup")
       \/ Fill(r, req[r].candidate, TRUE) /\ Fail(r, "rollback")
    /\ UNCHANGED <<storeVars, loaded>>

\* ... write, whose failure ends the request, ...
FillRestore(r) ==
    /\ At(r, "refill") \/ At(r, "refillHup")
    /\ \/ /\ Fill(r, req[r].original, FALSE)
          /\ Close(r, IF At(r, "refill") THEN "restored" ELSE "restoredHup")
       \/ Fill(r, req[r].original, TRUE) /\ Fail(r, "rollback")
    /\ UNCHANGED <<storeVars, loaded>>

\* ... and rename.  Only the rollback after a failed SIGHUP signals again.
RestoreRename(r) ==
    /\ At(r, "restored") \/ At(r, "restoredHup")
    /\ \/ RenameTmp(r, IF At(r, "restored") THEN Idle("error") ELSE [req[r] EXCEPT !.pc = "rehup"])
       \/ tmp = NoFile /\ Answer(r, "error") /\ UNCHANGED <<config, tmp>>
    /\ UNCHANGED <<storeVars, loaded>>

\* The second SIGHUP, whose error is ignored.
SighupRestored(r) ==
    /\ At(r, "rehup")
    /\ \/ loaded' \in Reloaded
       \/ "sighup" \in Faults /\ UNCHANGED loaded
    /\ Answer(r, "error")
    /\ UNCHANGED <<storeVars, config, tmp>>

\* The daemon dies and systemd restarts it: run() opens the store and listens,
\* and publishes nothing.  Clients see their connections closed.
Restart ==
    /\ "crash" \in Faults
    /\ req' = [r \in Request |-> IF At(r, "idle") THEN req[r] ELSE Idle("error")]
    /\ UNCHANGED <<storeVars, fileVars>>

-----------------------------------------------------------------------------
Handle(r) ==
    \/ Lookup(r) \/ LookupRejected(r)
    \/ WriteRow(r) \/ WriteRowRejected(r) \/ WriteRowFails(r)
    \/ List(r) \/ ReadOriginal(r) \/ OpenTmp(r) \/ FillTmp(r) \/ Rename(r)
    \/ Validate(r) \/ Sighup(r)
    \/ OpenRestore(r) \/ FillRestore(r) \/ RestoreRename(r) \/ SighupRestored(r)

Tui == \E u \in User : TuiUpsertUser(u) \/ TuiDeleteUser(u)

Next ==
    \/ Tui
    \/ \E r \in Request, o \in Operation : Receive(r, o)
    \/ \E r \in Request : Handle(r)
    \/ Restart

Spec == Init /\ [][Next]_vars

\* Go schedules every handler goroutine, and each command it runs has a timeout.
FairSpec == Spec /\ \A r \in Request : WF_vars(Handle(r))

-----------------------------------------------------------------------------
(* Properties.                                                             *)

\* What a handler renders ends in the catch-all and routes to positive ports
\* only, so the error branches of RenderConfig cannot be taken; what cloudflared
\* serves is nothing or such a rendering, even when a file on disk is torn.
TypeOK ==
    /\ StoreTypeOK
    /\ config \in File
    /\ tmp \in File
    /\ loaded \in {NoFile} \cup Rendering
    /\ req \in [Request -> Slot]

Quiescent == \A r \in Request : At(r, "idle")

\* No rendering that exists anywhere (on disk, in flight, in cloudflared) routes
\* one hostname to two services: a publication renders a single state of the
\* table, and the table's UNIQUE hostname carries over to the text, however the
\* handlers interleave and whatever fails.  Of a file that two handlers have
\* written into each other it says nothing: see WrittenAtomically.
OneRulePerHost ==
    /\ \A f \in {config, tmp, loaded} : Unambiguous(f)
    /\ \A r \in Request : Unambiguous(req[r].candidate) /\ Unambiguous(req[r].original)

\* config.yml is always a text that was rendered: the "atomic write" that
\* docs/phases/phase-6-overlay-api-daemon.md promises of the publication.
WrittenAtomically == config \in {NoFile} \cup Rendering

\* A tenant's request changes no route of another user, through any endpoint
\* and whatever id is in the URL (authorizeUser, the prefix check of
\* DeletePlugin).  The TUI's statements are those that leave req unchanged.
TenantsTouchOwnRoutes ==
    [][\A id \in RouteId : routes'[id] # routes[id] /\ req' # req =>
          \E r \in Request : At(r, "row") /\ req'[r] # req[r]
                            /\ req[r].op.by \in {Admin, Owner[id]}]_vars

\* When the last answer of every handler was a success and none is running, the
\* file holds a rule for every enabled route of the table and cloudflared serves
\* that file: what the clients were told is what is published, the rows that
\* earlier requests wrote and failed to publish or died with included.
Published ==
    (\A r \in Request : At(r, "idle") /\ req[r].reply = "ok")
        => /\ Whole(config)
           /\ RenderConfig(routes) \subseteq config
           /\ loaded = config

\* Between requests cloudflared runs the file on disk: every path out of
\* PublishWithSummary, the two rollbacks included, brings them back together.
IdleInSync == Quiescent => loaded = config

\* A publication that reports an error after it touched config.yml has put the
\* previous content back (roll back config on validation or SIGHUP failure).
RollsBackOnFailure ==
    [][\A r \in Request :
          /\ req[r].pc \in {"validate", "sighup", "restored", "restoredHup", "rehup"}
          /\ req'[r] = Idle("error")
          => config' = req[r].original]_vars

\* Every request is answered.
Answered == \A r \in Request : ~At(r, "idle") ~> At(r, "idle")

\* The one handler of an instance where requests are served one at a time.
Sole == CHOOSE r \in Request : TRUE

\* The serial daemon publishes all or nothing: the rollback target stands for
\* the file until the publication has answered.
Publication ==
    INSTANCE AtomicPublication WITH
        Rendering <- RenderConfig,
        None <- NoFile,
        table <- routes,
        listed <- req[Sole].candidate,
        file <- IF req[Sole].original # NoFile THEN req[Sole].original ELSE config,
        served <- loaded
PublishesAtomically == Publication!Spec
=============================================================================
