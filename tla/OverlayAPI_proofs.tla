-------------------------- MODULE OverlayAPI_proofs --------------------------
(***************************************************************************)
(* Proofs about OverlayAPI for any number of users, routes and concurrent  *)
(* handlers.  TypeOK is not inductive alone: what a handler is about to    *)
(* store depends on the request it decoded, which is what Coherent says.   *)
(* The last part is about a daemon that serves one request at a time:      *)
(* there the publication is atomic, and what it answers is true.           *)
(***************************************************************************)
EXTENDS OverlayAPI, StateStore_proofs

\* A running handler has a request, and one about to upsert has a port for it.
Coherent ==
    \A r \in Request :
        /\ ~At(r, "idle") => req[r].op \in Operation
        /\ At(r, "row") /\ req[r].op.kind \in {"upsertGateway", "upsertPlugin"} => req[r].target \in Port

APIInv == TypeOK /\ Coherent

-----------------------------------------------------------------------------
LEMMA OperationFields ==
    ASSUME NEW o \in Operation
    PROVE  /\ o.user \in User
           /\ o.id \in RouteId
           /\ o.port \in Port \cup {0}
           /\ o.by \in User \cup {Admin}
           /\ o.kind \in Kind
           /\ o.kind \in {"upsertGateway", "deleteGateway", "upsertPlugin"} => Owner[o.id] = o.user
BY StoreAssumption DEF Operation, Kind, PluginId

LEMMA RenderIsFile ==
    ASSUME StoreTypeOK
    PROVE  RenderConfig(routes) \in Rendering
<1>. DEFINE on == {i \in RouteId : routes[i].state = "enabled"}
            rules == {[host |-> Host[id], port |-> routes[id].port] : id \in on}
<1>1. \A id \in on : routes[id].port \in Port /\ Host[id] \in Hostname
  BY DEF StoreTypeOK, RouteRow, NoRoute, Hostname
<1>2. rules \in SUBSET Rule
  BY <1>1 DEF Rule
<1>3. RenderConfig(routes) = {CatchAll} \cup rules
  BY DEF RenderConfig
<1>. QED
  BY <1>2, <1>3 DEF Rendering

\* A rendering has at least the catch-all, and is not a text that was cut.
LEMMA RenderingsAreWhole ==
    /\ Rendering \cup {NoFile} \subseteq File
    /\ \A f \in Rendering : Whole(f)
    /\ \A f \in File : Whole(f) => f \in Rendering
    /\ Empty \in File /\ Empty # NoFile /\ Empty # Torn
<1>1. \A f \in Rendering : f # NoFile
  BY DEF Rendering, NoFile
<1>. QED
  BY <1>1, APIAssumption DEF Whole, File

LEMMA IdleIsSlot == \A answer \in {"none", "ok", "error"} : Idle(answer) \in Slot
BY DEF Idle, Slot, Step, File, NoFile

LEMMA InitOK == Init => APIInv
<1>. SUFFICES ASSUME Init PROVE APIInv
  OBVIOUS
<1>1. StoreTypeOK
  BY StoreInitOK DEF Init
<1>2. InitialFile \in File /\ InitialFile \in {NoFile} \cup Rendering
  BY APIAssumption DEF File
<1>3. TypeOK
  BY <1>1, <1>2, IdleIsSlot DEF Init, TypeOK, File
<1>4. Coherent
  BY DEF Init, Coherent, At, Idle
<1>. QED
  BY <1>3, <1>4 DEF APIInv

-----------------------------------------------------------------------------
(* Steps of a handler, one lemma for each shape of change to its slot.     *)

\* The slot of r becomes s and nobody else's changes.
Becomes(r, s) == req' = [req EXCEPT ![r] = s]

LEMMA SlotStep ==
    ASSUME APIInv, NEW r \in Request, NEW s \in Slot, Becomes(r, s),
           s.pc # "idle" => s.op \in Operation,
           s.pc = "row" /\ s.op.kind \in {"upsertGateway", "upsertPlugin"} => s.target \in Port
    PROVE  req' \in [Request -> Slot] /\ Coherent'
BY DEF APIInv, TypeOK, Coherent, At, Becomes

LEMMA AnswerStep ==
    ASSUME APIInv, NEW r \in Request, NEW result \in {"ok", "error"}, Answer(r, result)
    PROVE  req' \in [Request -> Slot] /\ Coherent'
<1>1. Idle(result) \in Slot /\ Idle(result).pc = "idle"
  BY IdleIsSlot DEF Idle
<1>2. Becomes(r, Idle(result))
  BY DEF Answer, Becomes
<1>. QED
  BY <1>1, <1>2, SlotStep

LEMMA GotoStep ==
    ASSUME APIInv, NEW r \in Request, ~At(r, "idle"), NEW step \in Step \ {"row"}, Goto(r, step)
    PROVE  req' \in [Request -> Slot] /\ Coherent'
<1>. DEFINE s == [req[r] EXCEPT !.pc = step]
<1>1. req[r] \in Slot
  BY DEF APIInv, TypeOK
<1>2. s \in Slot /\ s.pc = step /\ s.op = req[r].op
  BY <1>1 DEF Slot
<1>3. Becomes(r, s)
  BY DEF Goto, Becomes
<1>. QED
  BY <1>2, <1>3, SlotStep DEF APIInv, Coherent

-----------------------------------------------------------------------------
(* Every step is a statement of the store or leaves the tables alone.      *)

LEMMA WriteRowIsStatement ==
    ASSUME APIInv, NEW r \in Request, WriteRow(r)
    PROVE  StoreNext
<1>. DEFINE o == req[r].op
<1>1. o \in Operation
  BY DEF WriteRow, At, APIInv, Coherent
<1>2. o.id \in RouteId /\ o.user \in User
  BY <1>1, OperationFields
<1>3. o.kind \in {"upsertGateway", "upsertPlugin"} => req[r].target \in Port
  BY DEF WriteRow, APIInv, Coherent
<1>. QED
  BY <1>2, <1>3 DEF WriteRow, RowWrite, StoreNext

LEMMA NextIsStoreNext == APIInv /\ [Next]_vars => [StoreNext]_storeVars
<1>. SUFFICES ASSUME APIInv, [Next]_vars PROVE [StoreNext]_storeVars
  OBVIOUS
<1>1. ASSUME Tui PROVE StoreNext
  BY <1>1 DEF Tui, TuiUpsertUser, TuiDeleteUser, ManagerRow, StoreNext
<1>2. ASSUME NEW r \in Request, NEW o \in Operation, Receive(r, o) PROVE UNCHANGED storeVars
  BY <1>2 DEF Receive
<1>3. ASSUME NEW r \in Request, Handle(r) PROVE [StoreNext]_storeVars
  <2>1. CASE WriteRow(r)
    BY <2>1, WriteRowIsStatement
  <2>2. CASE ~WriteRow(r)
    BY <1>3, <2>2 DEF Handle, Lookup, LookupRejected, WriteRowRejected, WriteRowFails, List,
       ReadOriginal, OpenTmp, FillTmp, Rename, Validate, Sighup, OpenRestore, FillRestore,
       RestoreRename, SighupRestored
  <2>. QED
    BY <2>1, <2>2
<1>4. Restart => UNCHANGED storeVars
  BY DEF Restart
<1>5. UNCHANGED vars => UNCHANGED storeVars
  BY DEF vars, storeVars
<1>. QED
  BY <1>1, <1>2, <1>3, <1>4, <1>5 DEF Next

-----------------------------------------------------------------------------
(* The invariant, one lemma per group of actions.                          *)

FilesOK == config \in File /\ tmp \in File /\ loaded \in {NoFile} \cup Rendering
SlotsOK == req \in [Request -> Slot] /\ Coherent

LEMMA FailStep ==
    ASSUME APIInv, NEW r \in Request, NEW kind, Fail(r, kind)
    PROVE  SlotsOK'
BY AnswerStep DEF Fail, SlotsOK

\* A handler opens the temporary file.
LEMMA OpenStep ==
    ASSUME APIInv, NEW r \in Request, ~At(r, "idle"), NEW step \in {"fill", "refill", "refillHup"},
           Open(r, step)
    PROVE  SlotsOK' /\ tmp' \in File
<1>. DEFINE s == [req[r] EXCEPT !.pc = step, !.fd = "tmp"]
<1>1. req[r] \in Slot
  BY DEF APIInv, TypeOK
<1>2. s \in Slot /\ s.pc = step /\ s.op = req[r].op
  BY <1>1 DEF Slot, Step
<1>3. Becomes(r, s)
  BY DEF Open, Becomes
<1>4. SlotsOK'
  BY <1>2, <1>3, SlotStep DEF APIInv, Coherent, SlotsOK
<1>. QED
  BY <1>4, RenderingsAreWhole DEF Open

\* It writes a text and closes it.
LEMMA CloseStep ==
    ASSUME APIInv, NEW r \in Request, ~At(r, "idle"), NEW step \in {"rename", "restored", "restoredHup"},
           Close(r, step)
    PROVE  SlotsOK'
<1>. DEFINE s == [req[r] EXCEPT !.pc = step, !.fd = "none"]
<1>1. req[r] \in Slot
  BY DEF APIInv, TypeOK
<1>2. s \in Slot /\ s.pc = step /\ s.op = req[r].op
  BY <1>1 DEF Slot, Step
<1>3. Becomes(r, s)
  BY DEF Close, Becomes
<1>. QED
  BY <1>2, <1>3, SlotStep DEF APIInv, Coherent, SlotsOK

\* In both cases nothing else changes in its slot, and no other slot.
LEMMA FileSlot ==
    ASSUME APIInv, NEW r \in Request, NEW step, Open(r, step) \/ Close(r, step)
    PROVE  /\ req'[r].pc = step
           /\ req'[r].fd = IF Open(r, step) THEN "tmp" ELSE "none"
           /\ req'[r].candidate = req[r].candidate
           /\ req'[r].original = req[r].original
           /\ \A q \in Request \ {r} : req'[q] = req[q]
<1>1. req \in [Request -> Slot]
  BY DEF APIInv, TypeOK
<1>2. ASSUME NEW fd, req' = [req EXCEPT ![r].pc = step, ![r].fd = fd]
      PROVE  /\ req'[r].pc = step /\ req'[r].fd = fd
             /\ req'[r].candidate = req[r].candidate
             /\ req'[r].original = req[r].original
             /\ \A q \in Request \ {r} : req'[q] = req[q]
  BY <1>1, <1>2 DEF Slot
<1>. QED
  BY <1>2 DEF Open, Close

LEMMA FillStep ==
    ASSUME APIInv, NEW r \in Request, NEW text \in File, NEW cut \in BOOLEAN, Fill(r, text, cut)
    PROVE  config' \in File /\ tmp' \in File
<1>1. \A before \in File : Written(before, text, cut) \subseteq File
  BY DEF Written, File
<1>. QED
  BY <1>1 DEF Fill, APIInv, TypeOK

\* A rename changes the slots of the others in nothing but their descriptor.
LEMMA RenameStep ==
    ASSUME APIInv, NEW r \in Request, NEW s \in Slot, RenameTmp(r, s),
           s.pc # "row", s.pc # "idle" => s.op \in Operation
    PROVE  SlotsOK' /\ config' \in File /\ tmp' \in File
<1>1. \A q \in Request : /\ Moved(req[q]) \in Slot
                         /\ Moved(req[q]).pc = req[q].pc
                         /\ Moved(req[q]).op = req[q].op
                         /\ Moved(req[q]).target = req[q].target
  BY DEF APIInv, TypeOK, Moved, Slot
<1>2. req' \in [Request -> Slot]
  BY <1>1 DEF RenameTmp
<1>3. Coherent'
  BY <1>1 DEF RenameTmp, APIInv, Coherent, At
<1>. QED
  BY <1>2, <1>3, RenderingsAreWhole DEF RenameTmp, SlotsOK, APIInv, TypeOK

LEMMA RequestSteps ==
    ASSUME APIInv, NEW r \in Request,
           \/ \E o \in Operation : Receive(r, o)
           \/ Lookup(r) \/ LookupRejected(r)
           \/ WriteRow(r) \/ WriteRowRejected(r) \/ WriteRowFails(r)
    PROVE  SlotsOK' /\ FilesOK'
<1>1. FilesOK'
  BY DEF APIInv, TypeOK, FilesOK, fileVars, Receive, Lookup, LookupRejected, WriteRow,
         WriteRowRejected, WriteRowFails
<1>2. ASSUME NEW o \in Operation, Receive(r, o) PROVE SlotsOK'
  <2>. DEFINE s == [Idle("none") EXCEPT !.pc = "lookup", !.op = o]
  <2>1. s \in Slot /\ s.pc = "lookup" /\ s.op = o
    BY IdleIsSlot DEF Slot, Idle, Step
  <2>2. Becomes(r, s)
    BY <1>2 DEF Receive, Becomes
  <2>. QED
    BY <2>1, <2>2, SlotStep DEF SlotsOK
<1>3. CASE Lookup(r)
  <2>. DEFINE o == req[r].op
              p == IF o.kind = "upsertGateway" /\ o.port = 0 THEN users[o.user].port ELSE o.port
              s == [req[r] EXCEPT !.pc = IF o.kind = "reload" THEN "list" ELSE "row", !.target = p]
  <2>1. o \in Operation
    BY <1>3 DEF Lookup, At, APIInv, Coherent
  <2>2. o.kind = "upsertGateway" => users[o.user].port \in Port
    BY <1>3, <2>1, OperationFields, StoreAssumption
       DEF Lookup, Admissible, NeedsUser, UserExists, APIInv, TypeOK, StoreTypeOK, UserRow, NoUser
  <2>3. p \in Port \cup {0} /\ (o.kind \in {"upsertGateway", "upsertPlugin"} => p \in Port)
    BY <1>3, <2>1, <2>2, OperationFields DEF Lookup, Admissible
  <2>4. req[r] \in Slot
    BY DEF APIInv, TypeOK
  <2>5. s \in Slot /\ s.op = o /\ s.target = p
    BY <2>3, <2>4 DEF Slot, Step
  <2>6. Becomes(r, s)
    BY <1>3, <2>4 DEF Lookup, Becomes, Slot, APIInv, TypeOK
  <2>. QED
    BY <1>1, <2>1, <2>3, <2>5, <2>6, SlotStep DEF SlotsOK
<1>4. CASE LookupRejected(r)
  BY <1>1, <1>4, AnswerStep DEF LookupRejected, SlotsOK
<1>5. CASE WriteRow(r)
  BY <1>1, <1>5, GotoStep DEF WriteRow, At, Step, SlotsOK
<1>6. CASE WriteRowRejected(r)
  BY <1>1, <1>6, GotoStep, AnswerStep DEF WriteRowRejected, At, Step, SlotsOK
<1>7. CASE WriteRowFails(r)
  BY <1>1, <1>7, FailStep DEF WriteRowFails
<1>. QED
  BY <1>1, <1>2, <1>3, <1>4, <1>5, <1>6, <1>7

LEMMA PublishSteps ==
    ASSUME APIInv, NEW r \in Request,
           \/ List(r) \/ ReadOriginal(r) \/ OpenTmp(r) \/ FillTmp(r) \/ Rename(r)
           \/ Validate(r) \/ Sighup(r)
    PROVE  SlotsOK' /\ FilesOK'
<1>0. req[r] \in Slot /\ FilesOK /\ StoreTypeOK
  BY DEF APIInv, TypeOK, FilesOK
<1>1. CASE List(r)
  <2>. DEFINE s == [req[r] EXCEPT !.candidate = RenderConfig(routes), !.pc = "read"]
  <2>1. s \in Slot /\ s.pc = "read" /\ s.op = req[r].op
    BY <1>0, RenderIsFile DEF Slot, Step
  <2>2. req[r].op \in Operation
    BY <1>1 DEF List, At, APIInv, Coherent
  <2>3. Becomes(r, s) => SlotsOK'
    BY <2>1, <2>2, SlotStep DEF SlotsOK
  <2>4. Becomes(r, s) \/ Fail(r, "precheck")
    BY <1>1, <1>0 DEF List, Becomes, APIInv, TypeOK, Slot
  <2>. QED
    BY <1>0, <1>1, <2>3, <2>4, FailStep DEF List, FilesOK, fileVars
<1>2. CASE ReadOriginal(r)
  <2>. DEFINE s == [req[r] EXCEPT !.original = config, !.pc = "write"]
  <2>1. s \in Slot /\ s.pc = "write" /\ s.op = req[r].op
    BY <1>0 DEF Slot, Step, FilesOK
  <2>2. req[r].op \in Operation
    BY <1>2 DEF ReadOriginal, At, APIInv, Coherent
  <2>3. Becomes(r, s) => SlotsOK'
    BY <2>1, <2>2, SlotStep DEF SlotsOK
  <2>4. Becomes(r, s) \/ Fail(r, "write")
    BY <1>2, <1>0 DEF ReadOriginal, Becomes, APIInv, TypeOK, Slot
  <2>. QED
    BY <1>0, <1>2, <2>3, <2>4, FailStep DEF ReadOriginal, FilesOK, fileVars
<1>3. CASE OpenTmp(r)
  BY <1>0, <1>3, FailStep, OpenStep DEF OpenTmp, FilesOK, At
<1>4. CASE FillTmp(r)
  <2>1. config' \in File /\ tmp' \in File
    BY <1>0, <1>4, FillStep, RenderingsAreWhole DEF FillTmp, Slot
  <2>2. SlotsOK'
    BY <1>0, <1>4, FailStep, CloseStep DEF FillTmp, At
  <2>. QED
    BY <1>0, <1>4, <2>1, <2>2 DEF FillTmp, FilesOK
<1>5. CASE Rename(r)
  <2>. DEFINE s == [req[r] EXCEPT !.pc = "validate"]
  <2>1. s \in Slot /\ s.pc = "validate" /\ s.op = req[r].op
    BY <1>0 DEF Slot, Step
  <2>2. req[r].op \in Operation
    BY <1>5 DEF Rename, At, APIInv, Coherent
  <2>. QED
    BY <1>0, <1>5, <2>1, <2>2, RenameStep, AnswerStep DEF Rename, FilesOK, SlotsOK
<1>6. CASE Validate(r)
  BY <1>0, <1>6, AnswerStep, GotoStep DEF Validate, Undo, FilesOK, fileVars, At, Step, SlotsOK
<1>7. CASE Sighup(r)
  <2>1. Reloaded \subseteq {NoFile} \cup Rendering
    BY <1>0, RenderingsAreWhole DEF Reloaded, FilesOK
  <2>. QED
    BY <1>0, <1>7, <2>1, AnswerStep, GotoStep DEF Sighup, Undo, FilesOK, At, Step, SlotsOK
<1>. QED
  BY <1>1, <1>2, <1>3, <1>4, <1>5, <1>6, <1>7

LEMMA RollbackSteps ==
    ASSUME APIInv, NEW r \in Request,
           OpenRestore(r) \/ FillRestore(r) \/ RestoreRename(r) \/ SighupRestored(r)
    PROVE  SlotsOK' /\ FilesOK'
<1>0. req[r] \in Slot /\ FilesOK
  BY DEF APIInv, TypeOK, FilesOK
<1>1. CASE OpenRestore(r)
  BY <1>0, <1>1, FailStep, OpenStep DEF OpenRestore, FilesOK, At
<1>2. CASE FillRestore(r)
  <2>1. config' \in File /\ tmp' \in File
    BY <1>0, <1>2, FillStep DEF FillRestore, Slot
  <2>2. SlotsOK'
    BY <1>0, <1>2, FailStep, CloseStep DEF FillRestore, At
  <2>. QED
    BY <1>0, <1>2, <2>1, <2>2 DEF FillRestore, FilesOK
<1>3. CASE RestoreRename(r)
  <2>. DEFINE s == [req[r] EXCEPT !.pc = "rehup"]
  <2>1. s \in Slot /\ s.pc = "rehup" /\ s.op = req[r].op
    BY <1>0 DEF Slot, Step
  <2>2. req[r].op \in Operation
    BY <1>3 DEF RestoreRename, At, APIInv, Coherent
  <2>3. Idle("error") \in Slot /\ Idle("error").pc = "idle"
    BY IdleIsSlot DEF Idle
  <2>4. CASE RenameTmp(r, Idle("error")) \/ RenameTmp(r, s)
    BY <1>0, <1>3, <2>1, <2>2, <2>3, <2>4, RenameStep DEF RestoreRename, FilesOK
  <2>5. CASE Answer(r, "error") /\ UNCHANGED <<config, tmp>>
    BY <1>0, <1>3, <2>5, AnswerStep DEF RestoreRename, FilesOK, SlotsOK
  <2>. QED
    BY <1>3, <2>4, <2>5 DEF RestoreRename
<1>4. CASE SighupRestored(r)
  <2>1. Reloaded \subseteq {NoFile} \cup Rendering
    BY <1>0, RenderingsAreWhole DEF Reloaded, FilesOK
  <2>. QED
    BY <1>0, <1>4, <2>1, AnswerStep DEF SighupRestored, FilesOK, SlotsOK
<1>. QED
  BY <1>1, <1>2, <1>3, <1>4

LEMMA RestartStep ==
    ASSUME APIInv, Restart
    PROVE  SlotsOK' /\ FilesOK'
<1>1. FilesOK'
  BY DEF Restart, APIInv, TypeOK, FilesOK, fileVars
<1>2. req' \in [Request -> Slot]
  BY IdleIsSlot DEF Restart, APIInv, TypeOK
<1>3. \A r \in Request : req'[r].pc = "idle"
  BY DEF Restart, At, Idle
<1>. QED
  BY <1>1, <1>2, <1>3 DEF SlotsOK, Coherent, At

LEMMA NextOK == (APIInv /\ Integrity) /\ [Next]_vars => (APIInv /\ Integrity)'
<1>. SUFFICES ASSUME APIInv, Integrity, [Next]_vars PROVE APIInv' /\ Integrity'
  OBVIOUS
<1>1. StoreTypeOK' /\ Integrity'
  BY NextIsStoreNext, StoreNextOK DEF APIInv, TypeOK
<1>2. SlotsOK' /\ FilesOK'
  <2>1. CASE Tui \/ UNCHANGED vars
    BY <2>1 DEF Tui, TuiUpsertUser, TuiDeleteUser, apiVars, vars, APIInv, TypeOK, SlotsOK,
                FilesOK, Coherent, At
  <2>2. ASSUME NEW r \in Request, NEW o \in Operation, Receive(r, o) PROVE SlotsOK' /\ FilesOK'
    BY <2>2, RequestSteps
  <2>3. ASSUME NEW r \in Request, Handle(r) PROVE SlotsOK' /\ FilesOK'
    BY <2>3, RequestSteps, PublishSteps, RollbackSteps DEF Handle
  <2>4. CASE Restart
    BY <2>4, RestartStep
  <2>. QED
    BY <2>1, <2>2, <2>3, <2>4 DEF Next
<1>. QED
  BY <1>1, <1>2 DEF APIInv, TypeOK, SlotsOK, FilesOK

LEMMA Invariance == Spec => [](APIInv /\ Integrity)
<1>1. Init => APIInv /\ Integrity
  BY InitOK, StoreInitOK DEF Init
<1>. QED
  BY <1>1, NextOK, PTL DEF Spec

(* The daemon's variables keep their types.  What it renders ends in the   *)
(* catch-all and routes to positive ports, so RenderConfig never meets the *)
(* rows it would refuse; what cloudflared serves is nothing or a rendering *)
(* even where two handlers have written one file into the other, because   *)
(* cloudflared takes no torn file.                                         *)
THEOREM TypeCorrect == Spec => []TypeOK
<1>1. APIInv /\ Integrity => TypeOK
  BY DEF APIInv
<1>. QED
  BY <1>1, Invariance, PTL

(* The daemon and the TUI reach the tables only through statements the     *)
(* schema guards: the module implements StateStore.                        *)
THEOREM ImplementsStore == Spec => StoreSpec
<1>1. Init => StoreInit
  BY DEF Init
<1>2. (APIInv /\ Integrity) /\ [Next]_vars => [StoreNext]_storeVars
  BY NextIsStoreNext
<1>. QED
  BY <1>1, <1>2, Invariance, PTL DEF Spec, StoreSpec

-----------------------------------------------------------------------------
(* One rule per hostname.  The rendering inherits it from the UNIQUE        *)
(* hostname of the table; every other step only moves a file.              *)

LEMMA RenderUnambiguous ==
    ASSUME StoreTypeOK, HostsDistinct
    PROVE  Unambiguous(RenderConfig(routes))
<1>. DEFINE on == {i \in RouteId : routes[i].state = "enabled"}
            rule(id) == [host |-> Host[id], port |-> routes[id].port]
<1>1. SUFFICES ASSUME NEW x \in RenderConfig(routes) \ {CatchAll},
                      NEW y \in RenderConfig(routes) \ {CatchAll}, x.host = y.host
               PROVE  x = y
  BY DEF Unambiguous
<1>2. PICK i \in on : x = rule(i)
  BY DEF RenderConfig
<1>3. PICK j \in on : y = rule(j)
  BY DEF RenderConfig
<1>4. Host[i] = Host[j]
  BY <1>1, <1>2, <1>3
<1>5. RouteExists(i) /\ RouteExists(j)
  BY DEF RouteExists
<1>6. i = j
  BY <1>4, <1>5 DEF HostsDistinct
<1>. QED
  BY <1>2, <1>3, <1>6

LEMMA NoFileUnambiguous == Unambiguous(NoFile) /\ Unambiguous(Empty) /\ Unambiguous(Torn)
BY DEF Unambiguous, Whole

\* A write leaves one of the two texts, or a torn one.
LEMMA WrittenUnambiguous ==
    ASSUME NEW before, NEW text, NEW cut \in BOOLEAN, Unambiguous(before), Unambiguous(text),
           NEW after \in Written(before, text, cut)
    PROVE  Unambiguous(after)
BY NoFileUnambiguous DEF Written

FilesUnambiguous == Unambiguous(config) /\ Unambiguous(tmp) /\ Unambiguous(loaded)
SlotsUnambiguous ==
    \A r \in Request : Unambiguous(req[r].candidate) /\ Unambiguous(req[r].original)

LEMMA AnswerUnambiguous ==
    ASSUME APIInv, SlotsUnambiguous, NEW r \in Request, NEW result, Answer(r, result)
    PROVE  SlotsUnambiguous'
BY NoFileUnambiguous DEF APIInv, TypeOK, SlotsUnambiguous, Answer, Idle

LEMMA GotoUnambiguous ==
    ASSUME APIInv, SlotsUnambiguous, NEW r \in Request, NEW step, Goto(r, step)
    PROVE  SlotsUnambiguous'
BY DEF APIInv, TypeOK, SlotsUnambiguous, Goto, Slot

LEMMA RequestUnambiguous ==
    ASSUME APIInv, SlotsUnambiguous, FilesUnambiguous, NEW r \in Request,
           \/ \E o \in Operation : Receive(r, o)
           \/ Lookup(r) \/ LookupRejected(r)
           \/ WriteRow(r) \/ WriteRowRejected(r) \/ WriteRowFails(r)
    PROVE  SlotsUnambiguous' /\ FilesUnambiguous'
<1>1. FilesUnambiguous'
  BY DEF FilesUnambiguous, fileVars, Receive, Lookup, LookupRejected, WriteRow,
         WriteRowRejected, WriteRowFails
<1>2. CASE \E o \in Operation : Receive(r, o)
  BY <1>1, <1>2, NoFileUnambiguous DEF Receive, SlotsUnambiguous, Idle, APIInv, TypeOK
<1>3. CASE Lookup(r)
  BY <1>1, <1>3 DEF Lookup, SlotsUnambiguous, APIInv, TypeOK, Slot
<1>4. CASE LookupRejected(r) \/ WriteRow(r) \/ WriteRowRejected(r) \/ WriteRowFails(r)
  BY <1>1, <1>4, AnswerUnambiguous, GotoUnambiguous
     DEF LookupRejected, WriteRow, WriteRowRejected, WriteRowFails, Fail
<1>. QED
  BY <1>2, <1>3, <1>4

LEMMA PublishUnambiguous ==
    ASSUME APIInv, HostsDistinct, SlotsUnambiguous, FilesUnambiguous, NEW r \in Request, Handle(r)
    PROVE  SlotsUnambiguous' /\ FilesUnambiguous'
<1>0. /\ StoreTypeOK
      /\ req \in [Request -> Slot]
      /\ \A f \in {config, tmp, loaded, req[r].candidate, req[r].original} : Unambiguous(f)
  BY DEF APIInv, TypeOK, FilesUnambiguous, SlotsUnambiguous
<1>1. CASE List(r)
  <2>1. FilesUnambiguous'
    BY <1>1 DEF List, FilesUnambiguous, fileVars
  <2>2. CASE req' = [req EXCEPT ![r].candidate = RenderConfig(routes), ![r].pc = "read"]
    BY <1>0, <2>1, <2>2, RenderUnambiguous DEF SlotsUnambiguous, Slot
  <2>3. CASE Fail(r, "precheck")
    BY <2>1, <2>3, AnswerUnambiguous DEF Fail
  <2>. QED
    BY <1>1, <2>2, <2>3 DEF List
<1>2. CASE ReadOriginal(r)
  <2>1. FilesUnambiguous'
    BY <1>2 DEF ReadOriginal, FilesUnambiguous, fileVars
  <2>2. CASE req' = [req EXCEPT ![r].original = config, ![r].pc = "write"]
    BY <1>0, <2>1, <2>2 DEF SlotsUnambiguous, Slot
  <2>3. CASE Fail(r, "write")
    BY <2>1, <2>3, AnswerUnambiguous DEF Fail
  <2>. QED
    BY <1>2, <2>2, <2>3 DEF ReadOriginal
<1>3. CASE Validate(r) \/ Sighup(r) \/ SighupRestored(r)
  <2>1. SlotsUnambiguous'
    BY <1>3, AnswerUnambiguous, GotoUnambiguous DEF Validate, Sighup, SighupRestored, Undo
  <2>2. FilesUnambiguous'
    BY <1>0, <1>3, NoFileUnambiguous
       DEF Validate, Sighup, SighupRestored, Reloaded, FilesUnambiguous, fileVars
  <2>. QED
    BY <2>1, <2>2
<1>4. CASE OpenTmp(r) \/ OpenRestore(r)
  <2>1. FilesUnambiguous'
    BY <1>0, <1>4, NoFileUnambiguous DEF OpenTmp, OpenRestore, Open, FilesUnambiguous
  <2>2. CASE \E kind : Fail(r, kind)
    BY <2>1, <2>2, AnswerUnambiguous DEF Fail
  <2>3. CASE \E step : Open(r, step)
    BY <1>0, <2>1, <2>3, FileSlot DEF SlotsUnambiguous
  <2>. QED
    BY <1>4, <2>2, <2>3 DEF OpenTmp, OpenRestore
<1>5. CASE FillTmp(r) \/ FillRestore(r)
  <2>1. FilesUnambiguous'
    <3>1. ASSUME NEW text \in {req[r].candidate, req[r].original}, NEW cut \in BOOLEAN, Fill(r, text, cut)
          PROVE  Unambiguous(tmp') /\ Unambiguous(config')
      BY <1>0, <3>1, WrittenUnambiguous DEF Fill
    <3>. QED
      BY <1>0, <1>5, <3>1 DEF FillTmp, FillRestore, FilesUnambiguous
  <2>2. CASE \E kind : Fail(r, kind)
    BY <2>1, <2>2, AnswerUnambiguous DEF Fail
  <2>3. CASE \E step : Close(r, step)
    BY <1>0, <2>1, <2>3, FileSlot DEF SlotsUnambiguous
  <2>. QED
    BY <1>5, <2>2, <2>3 DEF FillTmp, FillRestore
<1>6. CASE Rename(r) \/ RestoreRename(r)
  <2>1. FilesUnambiguous'
    BY <1>0, <1>6, NoFileUnambiguous DEF Rename, RestoreRename, RenameTmp, FilesUnambiguous
  <2>2. CASE Answer(r, "error")
    BY <2>1, <2>2, AnswerUnambiguous
  <2>3. CASE ~Answer(r, "error")
    <3>1. \A q \in Request : /\ Moved(req[q]).candidate = req[q].candidate
                             /\ Moved(req[q]).original = req[q].original
      BY <1>0 DEF Moved, Slot
    <3>2. PICK s \in {Idle("error"), [req[r] EXCEPT !.pc = "rehup"], [req[r] EXCEPT !.pc = "validate"]} :
             RenameTmp(r, s)
      BY <1>6, <2>3 DEF Rename, RestoreRename
    <3>3. Unambiguous(s.candidate) /\ Unambiguous(s.original)
      BY <1>0, NoFileUnambiguous DEF Idle, Slot
    <3>. QED
      BY <2>1, <3>1, <3>2, <3>3 DEF RenameTmp, SlotsUnambiguous
  <2>. QED
    BY <2>2, <2>3
<1>. QED
  BY <1>1, <1>2, <1>3, <1>4, <1>5, <1>6, RequestUnambiguous DEF Handle

LEMMA UnambiguousNext ==
    (APIInv /\ Integrity) /\ (SlotsUnambiguous /\ FilesUnambiguous) /\ [Next]_vars
        => (SlotsUnambiguous /\ FilesUnambiguous)'
<1>. SUFFICES ASSUME APIInv, Integrity, SlotsUnambiguous, FilesUnambiguous, [Next]_vars
              PROVE  SlotsUnambiguous' /\ FilesUnambiguous'
  OBVIOUS
<1>1. CASE Tui \/ UNCHANGED vars
  BY <1>1 DEF Tui, TuiUpsertUser, TuiDeleteUser, apiVars, vars, SlotsUnambiguous, FilesUnambiguous
<1>2. ASSUME NEW r \in Request, NEW o \in Operation, Receive(r, o)
      PROVE  SlotsUnambiguous' /\ FilesUnambiguous'
  BY <1>2, RequestUnambiguous
<1>3. ASSUME NEW r \in Request, Handle(r) PROVE SlotsUnambiguous' /\ FilesUnambiguous'
  BY <1>3, PublishUnambiguous DEF Integrity
<1>4. CASE Restart
  BY <1>4, NoFileUnambiguous DEF Restart, fileVars, SlotsUnambiguous, FilesUnambiguous, Idle
<1>. QED
  BY <1>1, <1>2, <1>3, <1>4 DEF Next

(* However handlers interleave, fail, are killed or write into each        *)
(* other's file, no whole text the daemon keeps and nothing cloudflared    *)
(* serves has two rules for one hostname.                                  *)
THEOREM HostnamesUnambiguous == Spec => []OneRulePerHost
<1>1. Init => SlotsUnambiguous /\ FilesUnambiguous
  BY APIAssumption, NoFileUnambiguous DEF Init, Idle, SlotsUnambiguous, FilesUnambiguous
<1>2. SlotsUnambiguous /\ FilesUnambiguous => OneRulePerHost
  BY DEF OneRulePerHost, SlotsUnambiguous, FilesUnambiguous
<1>. QED
  BY <1>1, <1>2, UnambiguousNext, Invariance, PTL DEF Spec

-----------------------------------------------------------------------------
(* Tenants.                                                                *)

\* A handler about to write a row passed authorize and the prefix check.
Permitted ==
    \A r \in Request :
        At(r, "row") => /\ req[r].op.by \in {Admin, req[r].op.user}
                        /\ OwnNamespace(req[r].op)

LEMMA PermittedNext == APIInv /\ Permitted /\ [Next]_vars => Permitted'
<1>. SUFFICES ASSUME APIInv, Permitted, [Next]_vars PROVE Permitted'
  OBVIOUS
<1>0. req \in [Request -> Slot]
  BY DEF APIInv, TypeOK
<1>1. CASE Tui \/ UNCHANGED vars
  BY <1>1 DEF Tui, TuiUpsertUser, TuiDeleteUser, apiVars, vars, Permitted, At
<1>2. ASSUME NEW r \in Request, NEW o \in Operation, Receive(r, o) PROVE Permitted'
  BY <1>0, <1>2 DEF Receive, Permitted, At, Idle
<1>3. ASSUME NEW r \in Request, Handle(r) PROVE Permitted'
  <2>1. CASE Lookup(r)
    <3>1. req'[r].op = req[r].op /\ \A q \in Request \ {r} : req'[q] = req[q]
      BY <1>0, <2>1 DEF Lookup, Slot
    <3>. QED
      BY <2>1, <3>1 DEF Lookup, Admissible, Authorized, Permitted, At
  <2>2. CASE ~Lookup(r)
    <3>1. req'[r].pc # "row"
      <4>1. CASE \E step \in Step \ {"row"} : Goto(r, step) \/ Open(r, step) \/ Close(r, step)
        BY <1>0, <4>1, FileSlot DEF Goto, Slot
      <4>2. CASE \E answer : Answer(r, answer)
        BY <1>0, <4>2 DEF Answer, Idle
      <4>3. CASE List(r) \/ ReadOriginal(r) \/ Rename(r) \/ RestoreRename(r)
        BY <1>0, <4>2, <4>3 DEF List, ReadOriginal, Rename, RestoreRename, RenameTmp, Fail, Idle, Slot
      <4>. QED
        BY <1>3, <2>2, <4>1, <4>2, <4>3
           DEF Handle, LookupRejected, WriteRow, WriteRowRejected, WriteRowFails, OpenTmp, FillTmp,
               Validate, Sighup, OpenRestore, FillRestore, SighupRestored, Fail, Undo, Step
    <3>2. \A q \in Request \ {r} : req'[q] = req[q] \/ req'[q] = Moved(req[q])
      BY <1>0, <1>3, <2>2
         DEF Handle, LookupRejected, WriteRow, WriteRowRejected, WriteRowFails, List,
             ReadOriginal, OpenTmp, FillTmp, Rename, Validate, Sighup, OpenRestore, FillRestore,
             RestoreRename, SighupRestored, Goto, Answer, Fail, Undo, Open, Close, RenameTmp
    <3>3. \A q \in Request : Moved(req[q]).pc = req[q].pc /\ Moved(req[q]).op = req[q].op
      BY <1>0 DEF Moved, Slot
    <3>. QED
      BY <3>1, <3>2, <3>3 DEF Permitted, At
  <2>. QED
    BY <2>1, <2>2
<1>4. CASE Restart
  BY <1>4 DEF Restart, Permitted, At, Idle
<1>. QED
  BY <1>1, <1>2, <1>3, <1>4 DEF Next

LEMMA OwnRoutesStep ==
    ASSUME APIInv, Permitted, [Next]_vars, NEW id \in RouteId,
           routes'[id] # routes[id], req' # req
    PROVE  \E r \in Request : /\ At(r, "row") /\ req'[r] # req[r]
                              /\ req[r].op.by \in {Admin, Owner[id]}
<1>1. PICK r \in Request : WriteRow(r)
  BY DEF Next, vars, Tui, TuiUpsertUser, TuiDeleteUser, apiVars, storeVars, Receive, Handle, Lookup,
         LookupRejected, WriteRow, WriteRowRejected, WriteRowFails, List, ReadOriginal, OpenTmp,
         FillTmp, Rename, Validate, Sighup, OpenRestore, FillRestore, RestoreRename, SighupRestored,
         Restart
<1>. DEFINE o == req[r].op
<1>2. At(r, "row") /\ req'[r] # req[r]
  BY <1>1 DEF WriteRow, Goto, At, APIInv, TypeOK, Slot
<1>3. o \in Operation
  BY <1>2 DEF APIInv, Coherent, At
<1>4. o.by \in {Admin, o.user} /\ OwnNamespace(o)
  BY <1>2 DEF Permitted
<1>5. o.kind \in Kind
  BY <1>3, OperationFields
<1>6. CASE o.kind \in {"enable", "disable"}
  <2>1. Owner[id] = o.user
    BY <1>1, <1>6 DEF WriteRow, RowWrite, SetRoutesEnabled, APIInv, TypeOK, StoreTypeOK
  <2>. QED
    BY <1>2, <1>4, <2>1
<1>7. CASE o.kind \notin {"enable", "disable"}
  <2>1. o.id \in RouteId /\ Owner[o.id] = o.user
    BY <1>3, <1>4, <1>7, <1>1, OperationFields DEF OwnNamespace, WriteRow, RowWrite
  <2>2. id = o.id
    BY <1>1, <1>7, <2>1 DEF WriteRow, RowWrite, UpsertRoute, DeleteRoute, APIInv, TypeOK, StoreTypeOK
  <2>. QED
    BY <1>2, <1>4, <2>1, <2>2
<1>. QED
  BY <1>6, <1>7

(* Whatever a tenant sends, the only routes its requests change are its    *)
(* own: every write of a row is by the administrator or by the owner.      *)
THEOREM TenantIsolation == Spec => TenantsTouchOwnRoutes
<1>1. Init => Permitted
  BY DEF Init, Permitted, At, Idle
<1>2. APIInv /\ Permitted /\ [Next]_vars
        => [\A id \in RouteId : routes'[id] # routes[id] /\ req' # req =>
              \E r \in Request : At(r, "row") /\ req'[r] # req[r]
                                /\ req[r].op.by \in {Admin, Owner[id]}]_vars
  BY OwnRoutesStep
<1>. QED
  BY <1>1, <1>2, PermittedNext, Invariance, PTL DEF Spec, TenantsTouchOwnRoutes

-----------------------------------------------------------------------------
(***************************************************************************)
(* What OverlayAPI promises when one handler runs at a time: what it        *)
(* answers is true, whatever fails and however often the daemon dies       *)
(* (Single).  Where also the last line of defence holds, so that config.yml *)
(* exists, the write of a rollback succeeds and the daemon is not killed   *)
(* in between (Serial), the publication is atomic.  Any number of users,   *)
(* routes and requests.  Under two handlers none of this holds: see the    *)
(* runs "race" and "torn".                                                 *)
(***************************************************************************)

Single == \E r \in Request : Request = {r}

Serial ==
    /\ Single
    /\ Faults \cap {"rollback", "crash"} = {}
    /\ InitialFile # NoFile

LEMMA SoleHandler == (Single => Request = {Sole}) /\ (Serial => Request = {Sole})
BY DEF Serial, Single, Sole

\* The one handler writes into the file it has just truncated.
LEMMA SoleFill ==
    ASSUME req[Sole].fd = "tmp", tmp = Empty, NEW text \in Rendering, NEW cut \in BOOLEAN,
           Fill(Sole, text, cut)
    PROVE  config' = config /\ (~cut => tmp' = text)
BY RenderingsAreWhole DEF Fill, Written, Whole

LEMMA SoleRename ==
    ASSUME Request = {Sole}, NEW s, RenameTmp(Sole, s)
    PROVE  req'[Sole] = s /\ config' = tmp
BY DEF RenameTmp

-----------------------------------------------------------------------------
(* Where the configuration is, for each point of PublishWithSummary.       *)

Untouched == {"idle", "lookup", "row", "list", "read", "write", "fill", "rename"}
Installed == {"validate", "sighup", "restore", "refill", "restored",
              "restoreHup", "refillHup", "restoredHup"}
Listed == {"read", "write", "fill", "rename"} \cup Installed \cup {"rehup"}
BackedUp == {"write", "fill", "rename"} \cup Installed \cup {"rehup"}
Filling == {"fill", "refill", "refillHup"}

SerialInv ==
    LET s == req[Sole] IN
    /\ config \in Rendering
    /\ s.pc \in Untouched => loaded = config
    /\ s.pc \in Listed => s.candidate # NoFile
    /\ s.pc \notin Listed => s.candidate = NoFile
    /\ s.pc \in BackedUp => s.original = loaded /\ s.original \in Rendering
    /\ s.pc \notin BackedUp => s.original = NoFile
    /\ s.pc \in Filling => s.fd = "tmp" /\ tmp = Empty
    /\ s.pc = "rename" => tmp = s.candidate
    /\ s.pc \in {"validate", "sighup"} => config = s.candidate
    /\ s.pc \in {"restored", "restoredHup"} => tmp = s.original
    /\ s.pc = "rehup" => config = s.original

LEMMA SerialInit == Serial /\ Init => SerialInv
<1>. SUFFICES ASSUME Serial, Init PROVE SerialInv
  OBVIOUS
<1>1. req[Sole] = Idle("none")
  BY SoleHandler DEF Init
<1>2. config \in Rendering /\ loaded = config
  BY APIAssumption DEF Serial, Init
<1>. QED
  BY <1>1, <1>2 DEF SerialInv, Idle, Untouched, Listed, BackedUp, Installed, Filling

\* Until it lists the table a handler keeps no file.
LEMMA RequestSlot ==
    ASSUME Serial, APIInv, SerialInv,
           \/ \E o \in Operation : Receive(Sole, o)
           \/ Lookup(Sole) \/ LookupRejected(Sole)
           \/ WriteRow(Sole) \/ WriteRowRejected(Sole) \/ WriteRowFails(Sole)
    PROVE  /\ req'[Sole].pc \in {"idle", "lookup", "row", "list"}
           /\ req'[Sole].candidate = NoFile /\ req'[Sole].original = NoFile
           /\ req[Sole].pc \in {"idle", "lookup", "row"}
           /\ req[Sole].candidate = NoFile /\ req[Sole].original = NoFile
<1>1. req[Sole] \in Slot /\ req \in [Request -> Slot] /\ Sole \in Request
  BY SoleHandler DEF APIInv, TypeOK
<1>2. req[Sole].pc \in {"idle", "lookup", "row"}
  BY DEF Receive, Lookup, LookupRejected, WriteRow, WriteRowRejected, WriteRowFails, At
<1>3. req[Sole].candidate = NoFile /\ req[Sole].original = NoFile
  BY <1>2 DEF SerialInv, Listed, BackedUp, Installed
<1>4. CASE \E o \in Operation : Receive(Sole, o)
  BY <1>1, <1>2, <1>3, <1>4 DEF Receive, Idle
<1>5. CASE Lookup(Sole)
  BY <1>1, <1>2, <1>3, <1>5 DEF Lookup, Slot
<1>6. CASE \E answer : Answer(Sole, answer)
  BY <1>1, <1>2, <1>3, <1>6 DEF Answer, Idle
<1>7. CASE Goto(Sole, "list")
  BY <1>1, <1>2, <1>3, <1>7 DEF Goto, Slot
<1>. QED
  BY <1>4, <1>5, <1>6, <1>7 DEF LookupRejected, WriteRow, WriteRowRejected, WriteRowFails, Fail

LEMMA SerialRequest ==
    ASSUME Serial, APIInv, SerialInv,
           \/ \E o \in Operation : Receive(Sole, o)
           \/ Lookup(Sole) \/ LookupRejected(Sole)
           \/ WriteRow(Sole) \/ WriteRowRejected(Sole) \/ WriteRowFails(Sole)
    PROVE  SerialInv'
<1>1. config' = config /\ loaded' = loaded
  BY DEF Receive, Lookup, LookupRejected, WriteRow, WriteRowRejected, WriteRowFails, fileVars
<1>. QED
  BY <1>1, RequestSlot DEF SerialInv, Untouched, Listed, BackedUp, Installed, Filling

LEMMA SerialPublish ==
    ASSUME Serial, APIInv, SerialInv,
           \/ List(Sole) \/ ReadOriginal(Sole) \/ OpenTmp(Sole) \/ FillTmp(Sole) \/ Rename(Sole)
           \/ Validate(Sole) \/ Sighup(Sole)
    PROVE  SerialInv'
<1>1. req[Sole] \in Slot /\ req \in [Request -> Slot] /\ Sole \in Request /\ StoreTypeOK
  BY SoleHandler DEF APIInv, TypeOK
<1>0. \A f \in Rendering : f # NoFile /\ Whole(f)
  BY RenderingsAreWhole DEF Whole
<1>2. CASE List(Sole)
  BY <1>0, <1>1, <1>2, RenderIsFile
     DEF List, Fail, Answer, Idle, fileVars, At, Slot, SerialInv, Untouched, Listed, BackedUp,
         Installed, Filling
<1>3. CASE ReadOriginal(Sole)
  BY <1>1, <1>3
     DEF ReadOriginal, Fail, Answer, Idle, fileVars, At, Slot, SerialInv, Untouched, Listed,
         BackedUp, Installed, Filling
<1>4. CASE OpenTmp(Sole)
  BY <1>1, <1>4
     DEF OpenTmp, Open, Fail, Answer, Idle, At, Slot, SerialInv, Untouched, Listed, BackedUp,
         Installed, Filling
<1>5. CASE FillTmp(Sole)
  <2>1. req[Sole].candidate \in Rendering
    BY <1>1, <1>5 DEF FillTmp, At, Slot, SerialInv, Untouched, Listed, BackedUp, Installed, Filling
  <2>2. config' = config /\ (Fail(Sole, "write") \/ tmp' = req[Sole].candidate)
    BY <1>5, <2>1, SoleFill DEF FillTmp, At, SerialInv, Filling
  <2>3. CASE Fail(Sole, "write")
    BY <1>1, <1>5, <2>2, <2>3
       DEF FillTmp, Fail, Answer, Idle, At, Slot, SerialInv, Untouched, Listed, BackedUp,
           Installed, Filling
  <2>4. CASE Close(Sole, "rename") /\ tmp' = req[Sole].candidate
    <3>1. /\ req'[Sole].pc = "rename" /\ req[Sole].pc = "fill"
          /\ req'[Sole].candidate = req[Sole].candidate
          /\ req'[Sole].original = req[Sole].original
      BY <1>1, <1>5, <2>4, FileSlot DEF FillTmp, At
    <3>. QED
      BY <1>5, <2>2, <2>4, <3>1
         DEF FillTmp, SerialInv, Untouched, Listed, BackedUp, Installed, Filling
  <2>. QED
    BY <1>5, <2>1, <2>3, <2>4, SoleFill DEF FillTmp, At, SerialInv, Filling
<1>6. CASE Rename(Sole)
  <2>1. tmp = req[Sole].candidate /\ tmp \in Rendering
    BY <1>1, <1>6 DEF Rename, At, Slot, SerialInv, Untouched, Listed, BackedUp, Installed, Filling
  <2>2. req'[Sole] = [req[Sole] EXCEPT !.pc = "validate"] /\ config' = tmp
    BY <1>0, <1>6, <2>1, SoleHandler, SoleRename DEF Rename
  <2>. QED
    BY <1>1, <1>6, <2>1, <2>2
       DEF Rename, At, Slot, SerialInv, Untouched, Listed, BackedUp, Installed, Filling
<1>7. CASE Validate(Sole)
  BY <1>0, <1>1, <1>7
     DEF Validate, Undo, Goto, Answer, Idle, fileVars, At, Slot, SerialInv, Untouched, Listed,
         BackedUp, Installed, Filling
<1>8. CASE Sighup(Sole)
  BY <1>0, <1>1, <1>8
     DEF Sighup, Reloaded, Undo, Goto, Answer, Idle, At, Slot, SerialInv, Untouched, Listed,
         BackedUp, Installed, Filling
<1>. QED
  BY <1>2, <1>3, <1>4, <1>5, <1>6, <1>7, <1>8

LEMMA SerialRollback ==
    ASSUME Serial, APIInv, SerialInv,
           OpenRestore(Sole) \/ FillRestore(Sole) \/ RestoreRename(Sole) \/ SighupRestored(Sole)
    PROVE  SerialInv'
<1>1. req[Sole] \in Slot /\ req \in [Request -> Slot] /\ Sole \in Request
  BY SoleHandler DEF APIInv, TypeOK
<1>0. \A f \in Rendering : f # NoFile /\ Whole(f)
  BY RenderingsAreWhole DEF Whole
<1>2. CASE OpenRestore(Sole)
  BY <1>1, <1>2
     DEF OpenRestore, Serial, Open, Fail, At, Slot, SerialInv, Untouched, Listed, BackedUp,
         Installed, Filling
<1>3. CASE FillRestore(Sole)
  <2>1. req[Sole].original \in Rendering
    BY <1>1, <1>3 DEF FillRestore, At, Slot, SerialInv, Untouched, Listed, BackedUp, Installed,
        Filling
  <2>2. ~Fail(Sole, "rollback")
    BY DEF Serial, Fail
  <2>3. config' = config /\ tmp' = req[Sole].original
    BY <1>3, <2>1, <2>2, SoleFill DEF FillRestore, At, SerialInv, Filling
  <2>4. Close(Sole, IF At(Sole, "refill") THEN "restored" ELSE "restoredHup")
    BY <1>3, <2>2 DEF FillRestore
  <2>5. /\ req'[Sole].pc \in {"restored", "restoredHup"} /\ req[Sole].pc \in {"refill", "refillHup"}
        /\ req'[Sole].candidate = req[Sole].candidate
        /\ req'[Sole].original = req[Sole].original
    BY <1>1, <1>3, <2>4, FileSlot DEF FillRestore, At
  <2>. QED
    BY <1>3, <2>3, <2>5
       DEF FillRestore, SerialInv, Untouched, Listed, BackedUp, Installed, Filling
<1>4. CASE RestoreRename(Sole)
  <2>1. tmp = req[Sole].original /\ tmp \in Rendering
    BY <1>1, <1>4 DEF RestoreRename, At, Slot, SerialInv, Untouched, Listed, BackedUp, Installed,
        Filling
  <2>2. PICK slot \in {Idle("error"), [req[Sole] EXCEPT !.pc = "rehup"]} :
           /\ RenameTmp(Sole, slot)
           /\ slot = IF At(Sole, "restored") THEN Idle("error") ELSE [req[Sole] EXCEPT !.pc = "rehup"]
    BY <1>0, <1>4, <2>1 DEF RestoreRename
  <2>3. req'[Sole] = slot /\ config' = tmp
    BY <2>2, SoleHandler, SoleRename
  <2>. QED
    BY <1>1, <1>4, <2>1, <2>2, <2>3
       DEF RestoreRename, Idle, At, Slot, SerialInv, Untouched, Listed, BackedUp, Installed, Filling
<1>5. CASE SighupRestored(Sole)
  BY <1>0, <1>1, <1>5
     DEF SighupRestored, Reloaded, Answer, Idle, At, Slot, SerialInv, Untouched, Listed, BackedUp,
         Installed, Filling
<1>. QED
  BY <1>2, <1>3, <1>4, <1>5

LEMMA SerialNext == Serial /\ APIInv /\ SerialInv /\ [Next]_vars => SerialInv'
<1>. SUFFICES ASSUME Serial, APIInv, SerialInv, [Next]_vars PROVE SerialInv'
  OBVIOUS
<1>1. CASE Tui \/ UNCHANGED vars
  BY <1>1 DEF Tui, TuiUpsertUser, TuiDeleteUser, apiVars, vars, SerialInv
<1>2. CASE \E r \in Request, o \in Operation : Receive(r, o)
  BY <1>2, SoleHandler, SerialRequest
<1>3. CASE \E r \in Request : Handle(r)
  BY <1>3, SoleHandler, SerialRequest, SerialPublish, SerialRollback DEF Handle
<1>4. CASE Restart
  BY <1>4 DEF Restart, Serial
<1>. QED
  BY <1>1, <1>2, <1>3, <1>4 DEF Next

LEMMA SerialInvariance == ASSUME Serial PROVE Spec => []SerialInv
<1>1. Init => SerialInv
  BY Serial, SerialInit
<1>2. APIInv /\ Integrity /\ SerialInv /\ [Next]_vars => SerialInv'
  BY Serial, SerialNext
<1>. QED
  BY <1>1, <1>2, Invariance, PTL DEF Spec

(* Between requests cloudflared serves the file on disk: all the ways out  *)
(* of PublishWithSummary, both rollbacks included, bring them together.    *)
THEOREM SerialInSync == ASSUME Serial PROVE Spec => []IdleInSync
<1>1. SerialInv => IdleInSync
  BY Serial, SoleHandler DEF SerialInv, IdleInSync, Quiescent, At, Untouched
<1>. QED
  BY <1>1, SerialInvariance, Serial, PTL

-----------------------------------------------------------------------------
\* The step that answers a publication with an error, past the point where it
\* replaced the file.
LEMMA FailureRestores ==
    ASSUME Serial, APIInv, SerialInv, Handle(Sole),
           req[Sole].pc \in {"validate", "sighup", "restored", "restoredHup", "rehup"},
           req'[Sole] = Idle("error")
    PROVE  config' = req[Sole].original
<1>1. req[Sole] \in Slot /\ req \in [Request -> Slot] /\ Sole \in Request
  BY SoleHandler DEF APIInv, TypeOK
<1>2. req'[Sole].pc = "idle" /\ req'[Sole].reply = "error"
  BY DEF Idle
<1>0. \A f \in Rendering : f # NoFile
  BY RenderingsAreWhole DEF Whole
<1>3. CASE Validate(Sole)
  BY <1>0, <1>1, <1>2, <1>3 DEF Validate, Undo, Goto, At, Slot, SerialInv, BackedUp, Installed
<1>4. CASE Sighup(Sole)
  BY <1>0, <1>1, <1>2, <1>4 DEF Sighup, Undo, Goto, Answer, Idle, At, Slot, SerialInv, BackedUp,
      Installed
<1>5. CASE RestoreRename(Sole)
  <2>1. tmp = req[Sole].original /\ tmp # NoFile
    BY <1>5, RenderingsAreWhole DEF RestoreRename, At, SerialInv, BackedUp, Installed, Whole
  <2>. QED
    BY <1>5, <2>1 DEF RestoreRename, RenameTmp
<1>6. CASE SighupRestored(Sole)
  BY <1>6 DEF SighupRestored, At, SerialInv
<1>. QED
  BY <1>3, <1>4, <1>5, <1>6 DEF Handle, At, Lookup, LookupRejected, WriteRow, WriteRowRejected,
     WriteRowFails, List, ReadOriginal, OpenTmp, FillTmp, Rename, OpenRestore, FillRestore

LEMMA ReceiveStarts ==
    ASSUME Serial, APIInv, NEW o \in Operation, Receive(Sole, o)
    PROVE  req[Sole].pc = "idle"
BY DEF Receive, At

(* A publication that fails after it replaced config.yml has put the       *)
(* previous content back by the time it answers, on every way out.         *)
THEOREM SerialRollsBack == ASSUME Serial PROVE Spec => RollsBackOnFailure
<1>. DEFINE Restores ==
       \A r \in Request :
          /\ req[r].pc \in {"validate", "sighup", "restored", "restoredHup", "rehup"}
          /\ req'[r] = Idle("error")
          => config' = req[r].original
<1>1. APIInv /\ SerialInv /\ [Next]_vars => [Restores]_vars
  <2>. SUFFICES ASSUME APIInv, SerialInv, Next,
                       req[Sole].pc \in {"validate", "sighup", "restored", "restoredHup", "rehup"},
                       req'[Sole] = Idle("error")
                PROVE  config' = req[Sole].original
    BY Serial, SoleHandler
  <2>1. CASE Tui
    <3>1. req' = req
      BY <2>1 DEF Tui, TuiUpsertUser, TuiDeleteUser, apiVars
    <3>. QED
      BY <3>1 DEF Idle
  <2>2. CASE \E r \in Request, o \in Operation : Receive(r, o)
    BY <2>2, Serial, SoleHandler, ReceiveStarts
  <2>3. CASE \E r \in Request : Handle(r)
    BY <2>3, Serial, SoleHandler, FailureRestores
  <2>4. CASE Restart
    BY <2>4, Serial DEF Restart, Serial
  <2>. QED
    BY <2>1, <2>2, <2>3, <2>4 DEF Next
<1>2. APIInv /\ Integrity /\ SerialInv /\ [Next]_vars => [Restores]_vars
  BY <1>1
<1>. QED
  BY <1>2, Invariance, SerialInvariance, Serial, PTL DEF Spec, RollsBackOnFailure

-----------------------------------------------------------------------------
(* What a publication has listed, and what it has published.  Only the row *)
(* of the handler itself could add a rule, and it was written before.  A   *)
(* single handler never tears config.yml: what it renames, it has written. *)
PublishedInv ==
    LET s == req[Sole] IN
    /\ config \in {NoFile} \cup Rendering
    /\ s.original \in {NoFile} \cup Rendering
    /\ s.pc \in {"read", "write", "fill", "rename", "validate", "sighup"} =>
          RenderConfig(routes) \subseteq s.candidate /\ s.candidate \in Rendering
    /\ s.pc \in Filling => s.fd = "tmp" /\ tmp = Empty
    /\ s.pc = "rename" => tmp = s.candidate
    /\ s.pc \in {"validate", "sighup"} => config = s.candidate
    /\ s.pc \in {"restore", "refill", "restored", "restoreHup", "refillHup", "restoredHup"} =>
          s.original \in Rendering
    /\ s.pc \in {"restored", "restoredHup"} => tmp = s.original
    /\ s.pc = "idle" /\ s.reply = "ok" =>
          RenderConfig(routes) \subseteq config /\ Whole(config) /\ loaded = config

\* The TUI can only take routes away (the cascade of DeleteUser).
LEMMA TuiShrinks == StoreTypeOK /\ Tui => RenderConfig(routes') \subseteq RenderConfig(routes)
<1>. SUFFICES ASSUME StoreTypeOK, Tui, NEW i \in RouteId, routes'[i].state = "enabled"
              PROVE  routes[i].state = "enabled" /\ routes'[i].port = routes[i].port
  BY DEF RenderConfig
<1>1. CASE \E u \in User : TuiUpsertUser(u)
  BY <1>1 DEF TuiUpsertUser, UpsertUser
<1>2. CASE \E u \in User : TuiDeleteUser(u)
  BY <1>2 DEF TuiDeleteUser, DeleteUser, StoreTypeOK, NoRoute
<1>. QED
  BY <1>1, <1>2 DEF Tui

LEMMA PublishedStep ==
    ASSUME Single, APIInv, PublishedInv, Handle(Sole)
    PROVE  PublishedInv'
<1>1. req[Sole] \in Slot /\ req \in [Request -> Slot] /\ Sole \in Request /\ StoreTypeOK
  BY SoleHandler DEF APIInv, TypeOK
<1>0. \A f \in Rendering : f # NoFile /\ Whole(f)
  BY RenderingsAreWhole DEF Whole
<1>2. CASE Lookup(Sole)
  BY <1>1, <1>2 DEF Lookup, fileVars, Slot, PublishedInv, Filling
<1>3. CASE WriteRow(Sole) \/ WriteRowRejected(Sole)
  BY <1>1, <1>3
     DEF WriteRow, WriteRowRejected, Goto, Answer, Idle, fileVars, Slot, PublishedInv, Filling
<1>4. ASSUME Answer(Sole, "error"), config' = config PROVE PublishedInv'
  BY <1>1, <1>4 DEF Answer, Idle, PublishedInv, Filling
<1>5. CASE List(Sole)
  BY <1>1, <1>4, <1>5, RenderIsFile
     DEF List, Fail, At, fileVars, Slot, storeVars, PublishedInv, Filling
<1>6. CASE ReadOriginal(Sole)
  BY <1>1, <1>4, <1>6
     DEF ReadOriginal, Fail, At, fileVars, Slot, storeVars, PublishedInv, Filling
<1>7. CASE OpenTmp(Sole)
  BY <1>1, <1>4, <1>7 DEF OpenTmp, Fail, Open, At, Slot, storeVars, PublishedInv, Filling
<1>8. CASE FillTmp(Sole)
  <2>1. config' = config /\ (Fail(Sole, "write") \/ tmp' = req[Sole].candidate)
    BY <1>8, SoleFill DEF FillTmp, At, PublishedInv, Filling
  <2>2. CASE Fail(Sole, "write")
    BY <1>4, <2>1, <2>2 DEF Fail
  <2>3. CASE Close(Sole, "rename") /\ tmp' = req[Sole].candidate
    BY <1>1, <1>8, <2>1, <2>3, FileSlot DEF FillTmp, At, storeVars, PublishedInv, Filling
  <2>. QED
    BY <1>8, <2>1, <2>2, <2>3, SoleFill DEF FillTmp, At, PublishedInv, Filling
<1>9. CASE Rename(Sole)
  <2>1. tmp = req[Sole].candidate /\ tmp \in Rendering
    BY <1>9 DEF Rename, At, PublishedInv
  <2>2. req'[Sole] = [req[Sole] EXCEPT !.pc = "validate"] /\ config' = tmp
    BY <1>0, <1>9, <2>1, SoleHandler, SoleRename DEF Rename
  <2>. QED
    BY <1>1, <1>9, <2>1, <2>2 DEF Rename, At, Slot, storeVars, PublishedInv, Filling
<1>10. CASE Validate(Sole)
  BY <1>1, <1>4, <1>10 DEF Validate, Undo, Goto, At, fileVars, Slot, storeVars, PublishedInv, Filling
<1>11. CASE Sighup(Sole)
  <2>1. CASE loaded' \in Reloaded /\ Answer(Sole, "ok")
    BY <1>0, <1>1, <1>11, <2>1
       DEF Sighup, Reloaded, Answer, Idle, At, Slot, storeVars, PublishedInv, Filling
  <2>2. CASE Undo(Sole, "restoreHup")
    BY <1>1, <1>4, <1>11, <2>2 DEF Sighup, Undo, Goto, At, Slot, storeVars, PublishedInv, Filling
  <2>. QED
    BY <1>11, <2>1, <2>2 DEF Sighup
<1>12. CASE OpenRestore(Sole)
  BY <1>1, <1>4, <1>12 DEF OpenRestore, Fail, Open, At, Slot, storeVars, PublishedInv, Filling
<1>13. CASE FillRestore(Sole)
  <2>1. config' = config /\ (Fail(Sole, "rollback") \/ tmp' = req[Sole].original)
    BY <1>13, SoleFill DEF FillRestore, At, PublishedInv, Filling
  <2>2. CASE Fail(Sole, "rollback")
    BY <1>4, <2>1, <2>2 DEF Fail
  <2>3. CASE Close(Sole, IF At(Sole, "refill") THEN "restored" ELSE "restoredHup")
            /\ tmp' = req[Sole].original
    BY <1>1, <1>13, <2>1, <2>3, FileSlot DEF FillRestore, At, storeVars, PublishedInv, Filling
  <2>. QED
    BY <1>13, <2>1, <2>2, <2>3, SoleFill DEF FillRestore, At, PublishedInv, Filling
<1>14. CASE RestoreRename(Sole)
  <2>1. tmp = req[Sole].original /\ tmp \in Rendering
    BY <1>14 DEF RestoreRename, At, PublishedInv
  <2>2. PICK slot \in {Idle("error"), [req[Sole] EXCEPT !.pc = "rehup"]} : RenameTmp(Sole, slot)
    BY <1>0, <1>14, <2>1 DEF RestoreRename
  <2>3. req'[Sole] = slot /\ config' = tmp
    BY <2>2, SoleHandler, SoleRename
  <2>. QED
    BY <1>1, <1>14, <2>1, <2>2, <2>3
       DEF RestoreRename, Idle, Slot, storeVars, PublishedInv, Filling
<1>15. CASE SighupRestored(Sole)
  BY <1>4, <1>15 DEF SighupRestored
<1>. QED
  BY <1>2, <1>3, <1>4, <1>5, <1>6, <1>7, <1>8, <1>9, <1>10, <1>11, <1>12, <1>13, <1>14, <1>15
     DEF Handle, LookupRejected, WriteRowFails, Fail, fileVars

LEMMA PublishedNext == Single /\ APIInv /\ PublishedInv /\ [Next]_vars => PublishedInv'
<1>. SUFFICES ASSUME Single, APIInv, PublishedInv, [Next]_vars PROVE PublishedInv'
  OBVIOUS
<1>1. CASE Tui
  <2>1. UNCHANGED <<req, config, tmp, loaded>>
    BY <1>1 DEF Tui, TuiUpsertUser, TuiDeleteUser, apiVars
  <2>2. RenderConfig(routes') \subseteq RenderConfig(routes)
    BY <1>1, TuiShrinks DEF APIInv, TypeOK
  <2>. QED
    BY <2>1, <2>2 DEF PublishedInv
<1>2. CASE \E r \in Request, o \in Operation : Receive(r, o)
  <2>1. req'[Sole].pc = "lookup" /\ req'[Sole].original = NoFile /\ config' = config
    BY <1>2, SoleHandler DEF Receive, Idle, fileVars, APIInv, TypeOK
  <2>. QED
    BY <2>1 DEF PublishedInv, Filling
<1>3. CASE \E r \in Request : Handle(r)
  BY <1>3, SoleHandler, PublishedStep
<1>4. CASE Restart
  <2>1. UNCHANGED <<config, tmp, loaded, routes>> /\ Sole \in Request
    BY <1>4, SoleHandler DEF Restart, fileVars, storeVars
  <2>2. CASE At(Sole, "idle")
    BY <1>4, <2>1, <2>2 DEF Restart, PublishedInv
  <2>3. CASE ~At(Sole, "idle")
    BY <1>4, <2>1, <2>3 DEF Restart, Idle, PublishedInv, Filling
  <2>. QED
    BY <2>2, <2>3
<1>5. CASE UNCHANGED vars
  BY <1>5 DEF vars, PublishedInv
<1>. QED
  BY <1>1, <1>2, <1>3, <1>4, <1>5 DEF Next

(* After a success of a daemon that serves one request at a time, the file *)
(* holds a rule for every enabled route of the table and cloudflared       *)
(* serves that file, whatever failed and however often the daemon died     *)
(* before: nothing between the listing and the answer can add a route the  *)
(* publication has missed.                                                 *)
THEOREM SinglePublished == ASSUME Single PROVE Spec => []Published
<1>1. Init => PublishedInv
  BY Single, SoleHandler, APIAssumption DEF Init, Idle, PublishedInv, Filling
<1>2. APIInv /\ Integrity /\ PublishedInv /\ [Next]_vars => PublishedInv'
  BY Single, PublishedNext
<1>3. PublishedInv => Published
  BY Single, SoleHandler DEF PublishedInv, Published, At
<1>. QED
  BY <1>1, <1>2, <1>3, Invariance, Single, PTL DEF Spec

-----------------------------------------------------------------------------
(* The refinement of AtomicPublication.                                    *)

fallback == IF req[Sole].original # NoFile THEN req[Sole].original ELSE config

LEMMA MapInit == Serial /\ Init => Publication!Init
<1>. SUFFICES ASSUME Serial, Init PROVE Publication!Init
  OBVIOUS
<1>1. req[Sole].candidate = NoFile /\ req[Sole].original = NoFile
  BY SoleHandler DEF Init, Idle
<1>. QED
  BY <1>1 DEF Init, Publication!Init

\* What a handler does to the image of the state when it goes on, and when it gives up.
Keeps ==
    /\ req'[Sole].candidate = req[Sole].candidate
    /\ fallback' = fallback
    /\ loaded' = loaded

GivesUp ==
    /\ req[Sole].candidate # NoFile
    /\ req'[Sole].candidate = NoFile
    /\ fallback' = fallback
    /\ loaded' = loaded
    /\ routes' = routes

LEMMA KeepsMaps == Keeps => [Publication!Next]_(Publication!pubVars)
BY DEF Keeps, fallback, Publication!Next, Publication!Change, Publication!pubVars

LEMMA GivesUpMaps == GivesUp => Publication!Next
BY DEF GivesUp, fallback, Publication!Next, Publication!Abort

LEMMA MapRequest ==
    ASSUME Serial, APIInv, SerialInv,
           \/ \E o \in Operation : Receive(Sole, o)
           \/ Lookup(Sole) \/ LookupRejected(Sole)
           \/ WriteRow(Sole) \/ WriteRowRejected(Sole) \/ WriteRowFails(Sole)
    PROVE  Keeps
<1>1. config' = config /\ loaded' = loaded
  BY DEF Receive, Lookup, LookupRejected, WriteRow, WriteRowRejected, WriteRowFails, fileVars
<1>. QED
  BY <1>1, RequestSlot DEF Keeps, fallback

LEMMA MapPublish ==
    ASSUME Serial, APIInv, SerialInv,
           \/ List(Sole) \/ ReadOriginal(Sole) \/ OpenTmp(Sole) \/ FillTmp(Sole) \/ Rename(Sole)
           \/ Validate(Sole) \/ Sighup(Sole)
    PROVE  Publication!Next \/ Keeps
<1>1. req[Sole] \in Slot /\ req \in [Request -> Slot] /\ Sole \in Request /\ StoreTypeOK
  BY SoleHandler DEF APIInv, TypeOK
<1>0. \A f \in Rendering : f # NoFile /\ Whole(f)
  BY RenderingsAreWhole DEF Whole
<1>2. CASE List(Sole)
  <2>1. CASE req' = [req EXCEPT ![Sole].candidate = RenderConfig(routes), ![Sole].pc = "read"]
    <3>1. req[Sole].candidate = NoFile /\ req'[Sole].candidate = RenderConfig(routes)
      BY <1>1, <1>2, <2>1 DEF List, At, Slot, SerialInv, Listed, Installed
    <3>2. req'[Sole].original = req[Sole].original /\ UNCHANGED <<routes, config, loaded>>
      BY <1>1, <1>2, <2>1 DEF List, Slot, fileVars, storeVars
    <3>. QED
      BY <3>1, <3>2 DEF Publication!Next, Publication!Begin
  <2>2. CASE Answer(Sole, "error")
    BY <1>1, <1>2, <2>2 DEF List, At, SerialInv, Listed, BackedUp, Installed, fileVars, Answer,
       Idle, Keeps, fallback
  <2>. QED
    BY <1>2, <2>1, <2>2 DEF List, Fail
<1>3. CASE ReadOriginal(Sole)
  <2>1. CASE req' = [req EXCEPT ![Sole].original = config, ![Sole].pc = "write"]
    BY <1>1, <1>3, <2>1 DEF ReadOriginal, At, Slot, SerialInv, BackedUp, Installed, fileVars,
        Keeps, fallback
  <2>2. CASE Answer(Sole, "error")
    BY <1>1, <1>3, <2>2, GivesUpMaps DEF ReadOriginal, At, SerialInv, Listed, BackedUp, Installed,
       fileVars, storeVars, Answer, Idle, GivesUp, fallback
  <2>. QED
    BY <1>3, <2>1, <2>2 DEF ReadOriginal, Fail
<1>4. CASE OpenTmp(Sole)
  <2>1. CASE Open(Sole, "fill")
    BY <1>1, <1>4, <2>1 DEF OpenTmp, Open, Slot, Keeps, fallback
  <2>2. CASE Answer(Sole, "error")
    BY <1>1, <1>4, <2>2, GivesUpMaps DEF OpenTmp, At, SerialInv, Untouched, Listed, BackedUp,
        Installed,
       storeVars, Answer, Idle, GivesUp, fallback
  <2>. QED
    BY <1>4, <2>1, <2>2 DEF OpenTmp, Fail
<1>5. CASE FillTmp(Sole)
  <2>0. config' = config
    <3>1. req[Sole].candidate \in Rendering
      BY <1>1, <1>5 DEF FillTmp, At, Slot, SerialInv, Listed
    <3>. QED
      BY <1>5, <3>1, SoleFill DEF FillTmp, At, SerialInv, Filling
  <2>1. CASE Close(Sole, "rename")
    BY <1>1, <1>5, <2>0, <2>1, FileSlot DEF FillTmp, Keeps, fallback
  <2>2. CASE Answer(Sole, "error")
    BY <1>1, <1>5, <2>0, <2>2, GivesUpMaps DEF FillTmp, At, SerialInv, Untouched, Listed, BackedUp,
       Installed, storeVars, Answer, Idle, GivesUp, fallback
  <2>. QED
    BY <1>5, <2>1, <2>2 DEF FillTmp, Fail
<1>8. CASE Rename(Sole)
  <2>1. tmp # NoFile
    BY <1>8 DEF Rename, At, SerialInv, Listed
  <2>2. req'[Sole] = [req[Sole] EXCEPT !.pc = "validate"]
    BY <1>8, <2>1, SoleHandler, SoleRename DEF Rename
  <2>. QED
    BY <1>0, <1>1, <1>8, <2>2 DEF Rename, At, Slot, SerialInv, BackedUp, Keeps, fallback
<1>6. CASE Validate(Sole)
  BY <1>0, <1>1, <1>6 DEF Validate, Undo, Goto, At, Slot, SerialInv, BackedUp, Installed, fileVars,
      Keeps, fallback
<1>7. CASE Sighup(Sole)
  <2>1. CASE loaded' \in Reloaded /\ Answer(Sole, "ok")
    BY <1>0, <1>1, <1>7, <2>1
       DEF Sighup, Reloaded, Answer, Idle, At, SerialInv, Listed, BackedUp, Installed, storeVars,
       Publication!Next, Publication!Commit
  <2>2. CASE Undo(Sole, "restoreHup") /\ UNCHANGED loaded
    BY <1>0, <1>1, <1>7, <2>2 DEF Sighup, Undo, Goto, At, Slot, SerialInv, BackedUp, Installed,
        Keeps, fallback
  <2>. QED
    BY <1>7, <2>1, <2>2 DEF Sighup
<1>. QED
  BY <1>2, <1>3, <1>4, <1>5, <1>6, <1>7, <1>8

LEMMA MapRollback ==
    ASSUME Serial, APIInv, SerialInv,
           OpenRestore(Sole) \/ FillRestore(Sole) \/ RestoreRename(Sole) \/ SighupRestored(Sole)
    PROVE  Publication!Next \/ Keeps
<1>1. req[Sole] \in Slot /\ req \in [Request -> Slot] /\ Sole \in Request
  BY SoleHandler DEF APIInv, TypeOK
<1>0. \A f \in Rendering : f # NoFile /\ Whole(f)
  BY RenderingsAreWhole DEF Whole
<1>2. CASE OpenRestore(Sole)
  BY <1>1, <1>2 DEF OpenRestore, Serial, Open, Fail, At, Slot, SerialInv, BackedUp, Installed,
      Keeps, fallback
<1>5. CASE FillRestore(Sole)
  <2>1. req[Sole].original \in Rendering /\ req[Sole].fd = "tmp" /\ tmp = Empty
    BY <1>5 DEF FillRestore, At, SerialInv, BackedUp, Installed, Filling
  <2>2. config' = config
    BY <1>5, <2>1, SoleFill DEF FillRestore
  <2>. QED
    BY <1>1, <1>5, <2>2, FileSlot DEF FillRestore, Serial, Fail, Keeps, fallback
<1>3. CASE RestoreRename(Sole)
  <2>1. tmp = req[Sole].original /\ tmp \in Rendering /\ req[Sole].original = loaded
    BY <1>3 DEF RestoreRename, At, SerialInv, BackedUp, Installed
  <2>2. PICK slot \in {Idle("error"), [req[Sole] EXCEPT !.pc = "rehup"]} : RenameTmp(Sole, slot)
    BY <1>0, <1>3, <2>1 DEF RestoreRename
  <2>3. req'[Sole] = slot /\ config' = tmp
    BY <2>2, SoleHandler, SoleRename
  <2>4. CASE slot = Idle("error")
    BY <1>0, <1>1, <1>3, <2>1, <2>3, <2>4, GivesUpMaps
       DEF RestoreRename, Idle, At, SerialInv, Listed, Installed, storeVars, GivesUp, fallback
  <2>5. CASE slot = [req[Sole] EXCEPT !.pc = "rehup"]
    BY <1>0, <1>1, <1>3, <2>1, <2>3, <2>5 DEF RestoreRename, Slot, Keeps, fallback
  <2>. QED
    BY <2>2, <2>4, <2>5
<1>4. CASE SighupRestored(Sole)
  BY <1>0, <1>1, <1>4, GivesUpMaps DEF SighupRestored, Reloaded, Answer, Idle, At, SerialInv, Listed,
     BackedUp, Installed, storeVars, GivesUp, fallback
<1>. QED
  BY <1>2, <1>3, <1>4, <1>5

LEMMA MapNext ==
    Serial /\ APIInv /\ SerialInv /\ [Next]_vars => [Publication!Next]_(Publication!pubVars)
<1>. SUFFICES ASSUME Serial, APIInv, SerialInv, [Next]_vars
              PROVE  [Publication!Next]_(Publication!pubVars)
  OBVIOUS
<1>1. CASE Tui \/ UNCHANGED vars
  <2>1. Keeps
    BY <1>1 DEF Tui, TuiUpsertUser, TuiDeleteUser, apiVars, vars, Keeps, fallback
  <2>. QED
    BY <2>1, KeepsMaps
<1>2. CASE \E r \in Request, o \in Operation : Receive(r, o)
  BY <1>2, SoleHandler, MapRequest, KeepsMaps
<1>3. CASE \E r \in Request : Handle(r)
  <2>1. Handle(Sole)
    BY <1>3, SoleHandler
  <2>. QED
    BY <2>1, MapRequest, MapPublish, MapRollback, KeepsMaps DEF Handle
<1>4. CASE Restart
  BY <1>4 DEF Restart, Serial
<1>. QED
  BY <1>1, <1>2, <1>3, <1>4 DEF Next

(* The serial daemon implements AtomicPublication: config.yml and what     *)
(* cloudflared serves move together from one rendering of the table to a   *)
(* later one, or stay where they are.                                      *)
THEOREM SerialRefinement == ASSUME Serial PROVE Spec => PublishesAtomically
<1>1. Init => Publication!Init
  BY Serial, MapInit
<1>2. APIInv /\ Integrity /\ SerialInv /\ [Next]_vars => [Publication!Next]_(Publication!pubVars)
  BY Serial, MapNext
<1>. QED
  BY <1>1, <1>2, Invariance, SerialInvariance, Serial, PTL
     DEF Spec, PublishesAtomically, Publication!Spec
==============================================================================
