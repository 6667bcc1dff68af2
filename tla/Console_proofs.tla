---------------------------- MODULE Console_proofs --------------------------
(***************************************************************************)
(* Proofs about Console for any users, fleets, hosts and bounds, and for   *)
(* results that arrive in any order: the administrator's orders do what    *)
(* was asked for or put back what they found, repair what was reported,    *)
(* and open the ports that were planned; a screen that says it is busy is  *)
(* waiting for something; and the list that is shown at rest is the fleet, *)
(* unless a failure or an older list came after the last reading.          *)
(***************************************************************************)
EXTENDS Console, FiniteSetTheorems, TLAPS

Ops == UserOrder \cup NetworkOrder \cup DoctorOrder \cup Screens \cup {"none", "back"}

IsOrder(o) == o = [op |-> o.op, user |-> o.user, status |-> o.status, row |-> o.row,
                   plan |-> o.plan, todo |-> o.todo]
IsScreen(s) == "name" \in DOMAIN s /\ "plan" \in DOMAIN s /\ "report" \in DOMAIN s

Messages == [op : Ops, ok : BOOLEAN, list : Row, plan : SUBSET Item]

Shape ==
    /\ fleet \in Row /\ backups \subseteq User /\ drift \subseteq Drifts
    /\ DOMAIN flight = 1..MaxSlots /\ flight = [s \in 1..MaxSlots |-> flight[s]]
    /\ \A s \in 1..MaxSlots : IsOrder(flight[s]) /\ flight[s].op \in Ops
    /\ IsScreen(screen)
    /\ inbox \in Seq(Messages)

\* An order that changes a row is one the administrator gave, and what it may put
\* back is a row.
OrderAsked(o) ==
    /\ o.op \in UserOrder \ {"list"} => o.user \in User
    /\ o.op = "add" => <<"active", o.user>> \in asked
    /\ o.op = "toggle" =>
         <<IF o.status = "paused" THEN "active" ELSE "paused", o.user>> \in asked
    /\ o.op = "remove" => <<"absent", o.user>> \in asked /\ <<"paused", o.user>> \in asked
    /\ o.row \in Status \cup {"absent", "none"}
    /\ o.op = "add" /\ o.status = "active" => o.row # "none"

FlightsAsked == \A s \in 1..MaxSlots : OrderAsked(flight[s])

\* What doctor is about to repair, or offers to, is in a report.
Sound == {m \in Messages : m.op \in DoctorOrder => m.plan \subseteq reported}

ShowsReported(s) ==
    s.name = "doctor" => s.plan \subseteq reported /\ s.report \subseteq reported

Reports ==
    /\ \A s \in 1..MaxSlots : flight[s].op = "applyFixes" => flight[s].plan \subseteq reported
    /\ inbox \in Seq(Sound)
    /\ ShowsReported(screen)

ConsoleInv == Shape /\ FlightsAsked /\ Reports

-----------------------------------------------------------------------------
LEMMA OneSlot ==
    ASSUME NEW s \in 1..MaxSlots, NEW o, Shape, flight' = [flight EXCEPT ![s] = o],
           IsOrder(o), o.op \in Ops
    PROVE  /\ DOMAIN flight' = 1..MaxSlots /\ flight' = [t \in 1..MaxSlots |-> flight'[t]]
           /\ flight'[s] = o /\ \A t \in (1..MaxSlots) \ {s} : flight'[t] = flight[t]
           /\ \A t \in 1..MaxSlots : IsOrder(flight'[t]) /\ flight'[t].op \in Ops
BY DEF Shape

LEMMA Removed ==
    ASSUME NEW S, NEW seq \in Seq(S), NEW i \in 1..Len(seq)
    PROVE  RemoveAt(seq, i) \in Seq(S) /\ seq[i] \in S
BY DEF RemoveAt

LEMMA NoOrderIsOrder ==
    ASSUME NEW op, NEW u, NEW status, NEW plan
    PROVE  LET o == Order(op, u, status, plan)
           IN /\ o.op = op /\ o.user = u /\ o.status = status /\ o.plan = plan
              /\ o.row = "none" /\ NoOrder.row = "none"
              /\ IsOrder(o) /\ IsOrder(NoOrder) /\ NoOrder.op = "none"
BY DEF Order, NoOrder, IsOrder

LEMMA FreeSlotIsSlot == Free # {} => FreeSlot \in 1..MaxSlots
<1>. SUFFICES ASSUME Free # {} PROVE FreeSlot \in 1..MaxSlots
  OBVIOUS
<1>1. Free \subseteq 1..MaxSlots
  BY DEF Free
<1>. QED
  BY <1>1 DEF FreeSlot

LEMMA SeqGrows ==
    ASSUME NEW S, NEW T, S \subseteq T, NEW seq \in Seq(S)
    PROVE  seq \in Seq(T)
OBVIOUS

\* More is reported or asked, and nothing is in flight that was not.
LEMMA Grows ==
    ASSUME FlightsAsked, Reports, asked \subseteq asked', reported \subseteq reported',
           UNCHANGED flight
    PROVE  FlightsAsked' /\ \A s \in 1..MaxSlots :
               flight'[s].op = "applyFixes" => flight'[s].plan \subseteq reported'
BY DEF FlightsAsked, OrderAsked, Reports

-----------------------------------------------------------------------------
(* The goroutines.                                                         *)

\* An order ends with a message.
LEMMA ReplyKeeps ==
    ASSUME ConsoleInv, NEW s \in 1..MaxSlots, NEW ok \in BOOLEAN, NEW list \in Row,
           NEW plan \in SUBSET Item, Reply(s, ok, list, plan),
           UNCHANGED <<screen, asked>>, reported \subseteq reported',
           flight[s].op \in DoctorOrder => plan \subseteq reported',
           fleet' \in Row, backups' \subseteq User, drift' \subseteq Drifts
    PROVE  ConsoleInv'
<1>. DEFINE m == Message(flight[s].op, ok, list, plan)
<1>1. IsOrder(NoOrder) /\ NoOrder.op = "none" /\ "none" \in Ops /\ "none" \notin UserOrder
      /\ NoOrder.row = "none"
  BY DEF NoOrder, IsOrder, Ops, UserOrder
<1>2. /\ DOMAIN flight' = 1..MaxSlots /\ flight' = [t \in 1..MaxSlots |-> flight'[t]]
      /\ flight'[s] = NoOrder /\ \A t \in (1..MaxSlots) \ {s} : flight'[t] = flight[t]
      /\ \A t \in 1..MaxSlots : IsOrder(flight'[t]) /\ flight'[t].op \in Ops
  BY <1>1, OneSlot DEF Reply, ConsoleInv
<1>3. m \in Messages /\ m.op = flight[s].op /\ m.plan = plan
  BY DEF Message, Messages, ConsoleInv, Shape
<1>4. Sound \subseteq Sound' /\ m \in Sound'
  BY <1>3 DEF Sound, Messages
<1>5. inbox' \in Seq(Messages) /\ inbox' \in Seq(Sound')
  BY <1>3, <1>4, SeqGrows DEF Reply, ConsoleInv, Shape, Reports
<1>6. Shape'
  BY <1>2, <1>5 DEF ConsoleInv, Shape
<1>7. FlightsAsked'
  BY <1>1, <1>2 DEF ConsoleInv, FlightsAsked, OrderAsked
<1>8. Reports'
  BY <1>1, <1>2, <1>5 DEF ConsoleInv, Reports, ShowsReported
<1>. QED
  BY <1>6, <1>7, <1>8 DEF ConsoleInv

\* An order goes on, as it was asked, with no more repairs in its plan.
LEMMA ContinueKeeps ==
    ASSUME ConsoleInv, NEW s \in 1..MaxSlots, NEW o, flight' = [flight EXCEPT ![s] = o],
           IsOrder(o), o.op \in Ops, OrderAsked(o),
           o.op = "applyFixes" => flight[s].op = o.op /\ o.plan \subseteq flight[s].plan,
           UNCHANGED <<screen, asked, reported, inbox>>,
           fleet' \in Row, backups' \subseteq User, drift' \subseteq Drifts
    PROVE  ConsoleInv'
<1>1. /\ DOMAIN flight' = 1..MaxSlots /\ flight' = [t \in 1..MaxSlots |-> flight'[t]]
      /\ flight'[s] = o /\ \A t \in (1..MaxSlots) \ {s} : flight'[t] = flight[t]
      /\ \A t \in 1..MaxSlots : IsOrder(flight'[t]) /\ flight'[t].op \in Ops
  BY OneSlot DEF ConsoleInv
<1>2. Shape'
  BY <1>1 DEF ConsoleInv, Shape
<1>3. FlightsAsked'
  BY <1>1 DEF ConsoleInv, FlightsAsked, OrderAsked
<1>4. Sound' = Sound
  BY DEF Sound
<1>5. Reports'
  BY <1>1, <1>4 DEF ConsoleInv, Reports, ShowsReported
<1>. QED
  BY <1>2, <1>3, <1>5 DEF ConsoleInv

LEMMA SomeLists ==
    ASSUME ConsoleInv
    PROVE  fleet \in Row /\ Nobody \in Row /\ {} \in SUBSET Item /\ User \subseteq Item
BY DEF ConsoleInv, Shape, Nobody, Row, Item

\* An order of which one field changes.
LEMMA WithStatus ==
    ASSUME NEW r, IsOrder(r), NEW status
    PROVE  LET o == [r EXCEPT !.status = status]
           IN /\ IsOrder(o) /\ o.op = r.op /\ o.user = r.user /\ o.plan = r.plan
              /\ o.row = r.row /\ o.status = status
BY DEF IsOrder

LEMMA WithRow ==
    ASSUME NEW r, IsOrder(r), NEW row
    PROVE  LET o == [r EXCEPT !.row = row]
           IN /\ IsOrder(o) /\ o.op = r.op /\ o.user = r.user /\ o.plan = r.plan
              /\ o.row = row /\ o.status = r.status
BY DEF IsOrder

LEMMA WithTodo ==
    ASSUME NEW r, IsOrder(r), NEW todo
    PROVE  LET o == [r EXCEPT !.todo = todo]
           IN /\ IsOrder(o) /\ o.op = r.op /\ o.user = r.user /\ o.plan = r.plan
              /\ o.row = r.row /\ o.status = r.status
BY DEF IsOrder

\* The order in slot s has one more step behind it, and none of its results yet.
Proceeds(s) ==
    \E o :
        /\ flight' = [flight EXCEPT ![s] = o] /\ IsOrder(o)
        /\ OrderAsked(o) /\ o.user = flight[s].user /\ o.plan \subseteq flight[s].plan
        /\ o.op \in {"add", "toggle", "remove"} /\ flight[s].op \in UserOrder \ {"list"}
        /\ UNCHANGED <<screen, inbox>>

\* An order on a user reads its row, records it active, or turns into an Add.
LEMMA UserProceeds ==
    ASSUME ConsoleInv, NEW s \in 1..MaxSlots
    PROVE  /\ ReadUser(s) /\ ~(fleet[Of(s)] = "absent" /\ ~Is(s, "add")) => Proceeds(s)
           /\ RecordActive(s) => Proceeds(s)
           /\ Deactivate(s) => Proceeds(s)
           /\ Toggle(s) /\ Toggled(s) = "active" => Proceeds(s)
<1>1. IsOrder(flight[s]) /\ OrderAsked(flight[s]) /\ fleet \in Row
  BY DEF ConsoleInv, Shape, FlightsAsked
<1>2. ASSUME ReadUser(s), ~(fleet[Of(s)] = "absent" /\ ~Is(s, "add")) PROVE Proceeds(s)
  <2>. DEFINE row == fleet[Of(s)]
              o == [flight[s] EXCEPT !.row = row]
  <2>1. flight[s].op \in {"add", "toggle", "remove"}
    BY <1>2 DEF ReadUser, Is
  <2>2. flight[s].user \in User /\ row \in Status \cup {"absent"} /\ row # "none"
    BY <1>1, <2>1 DEF OrderAsked, UserOrder, Of, Row, Status
  <2>3. flight' = [flight EXCEPT ![s] = o] /\ UNCHANGED <<screen, inbox>>
    BY <1>2 DEF ReadUser
  <2>. HIDE DEF row
  <2>4. /\ IsOrder(o) /\ o.op = flight[s].op /\ o.user = flight[s].user
        /\ o.plan = flight[s].plan /\ o.row = row /\ o.status = flight[s].status
    BY <1>1, WithRow
  <2>. HIDE DEF o
  <2>5. OrderAsked(o)
    BY <1>1, <2>2, <2>4 DEF OrderAsked
  <2>. QED
    BY <2>1, <2>3, <2>4, <2>5 DEF Proceeds, UserOrder
<1>3. ASSUME NEW status, flight' = [flight EXCEPT ![s].status = status],
             UNCHANGED <<screen, inbox>>,
             \/ flight[s].op = "add" /\ flight[s].row # "none"
             \/ flight[s].op = "remove"
      PROVE  Proceeds(s)
  <2>. DEFINE o == [flight[s] EXCEPT !.status = status]
  <2>1. flight' = [flight EXCEPT ![s] = o]
    BY <1>3
  <2>2. /\ IsOrder(o) /\ o.op = flight[s].op /\ o.user = flight[s].user
        /\ o.plan = flight[s].plan /\ o.row = flight[s].row
    BY <1>1, WithStatus
  <2>. HIDE DEF o
  <2>3. OrderAsked(o)
    BY <1>1, <1>3, <2>2 DEF OrderAsked, UserOrder
  <2>. QED
    BY <1>3, <2>1, <2>2, <2>3 DEF Proceeds, UserOrder
<1>4. ASSUME Toggle(s), Toggled(s) = "active" PROVE Proceeds(s)
  <2>. DEFINE o == Order("add", flight[s].user, "none", {})
  <2>1. flight' = [flight EXCEPT ![s] = o] /\ UNCHANGED <<screen, inbox>>
    BY <1>4 DEF Toggle, Of
  <2>2. flight[s].op = "toggle" /\ flight[s].status = "paused"
    BY <1>4 DEF Toggle, Toggled, Is
  <2>3. IsOrder(o) /\ o.op = "add" /\ o.user = flight[s].user /\ o.plan = {}
        /\ o.row = "none" /\ o.status = "none"
    BY NoOrderIsOrder
  <2>. HIDE DEF o
  <2>4. OrderAsked(o)
    BY <1>1, <2>2, <2>3 DEF OrderAsked, UserOrder
  <2>. QED
    BY <2>1, <2>2, <2>3, <2>4 DEF Proceeds, UserOrder
<1>5. RecordActive(s) => Proceeds(s)
  BY <1>3 DEF RecordActive, Is
<1>6. Deactivate(s) => Proceeds(s)
  BY <1>3 DEF Deactivate, Is
<1>. QED
  BY <1>2, <1>4, <1>5, <1>6

\* Orders on users.
LEMMA UserWork ==
    ASSUME ConsoleInv, NEW s \in 1..MaxSlots,
           \/ ListUsers(s) \/ ReadUser(s) \/ RecordActive(s) \/ EnableUserGateway(s)
           \/ Toggle(s) \/ Deactivate(s) \/ RemoveUser(s)
           \/ CreateBackup(s) \/ ListBackups(s) \/ Restore(s)
    PROVE  ConsoleInv'
<1>1. flight[s].op \notin DoctorOrder /\ UNCHANGED <<screen, asked, reported, drift>>
  <2>1. UNCHANGED <<screen, asked, reported, drift>>
    BY DEF ListUsers, ReadUser, RecordActive, EnableUserGateway, Toggle, Deactivate, RemoveUser,
           CreateBackup, ListBackups, Restore, history, world
  <2>2. flight[s].op \notin DoctorOrder
    BY DEF ListUsers, ReadUser, RecordActive, EnableUserGateway, Recorded, Toggle, Deactivate,
           RemoveUser, CreateBackup, ListBackups, Restore, Is, DoctorOrder
  <2>. QED
    BY <2>1, <2>2
<1>2. drift' \subseteq Drifts /\ backups' \subseteq User
  <2>1. CASE RemoveUser(s) \/ CreateBackup(s)
    <3>1. Of(s) \in User
      BY <2>1 DEF RemoveUser, CreateBackup, Is, Of, UserOrder, ConsoleInv, FlightsAsked, OrderAsked
    <3>. QED
      BY <1>1, <2>1, <3>1 DEF RemoveUser, CreateBackup, ConsoleInv, Shape
  <2>2. CASE ~(RemoveUser(s) \/ CreateBackup(s))
    <3>1. UNCHANGED backups
      BY <2>2 DEF ListUsers, ReadUser, RecordActive, EnableUserGateway, Toggle, Deactivate,
                  ListBackups, Restore, world
    <3>. QED
      BY <1>1, <3>1 DEF ConsoleInv, Shape
  <2>. QED
    BY <2>1, <2>2
<1>3. fleet' \in Row
  <2>1. \E status \in Status \cup {"absent"} :
            fleet' = fleet \/ fleet' = [fleet EXCEPT ![Of(s)] = status]
    <3>1. CASE EnableUserGateway(s)
      <4>1. flight[s].row \in Status \cup {"absent"}
        BY <3>1 DEF EnableUserGateway, Recorded, Is, ConsoleInv, FlightsAsked, OrderAsked
      <4>. QED
        BY <3>1, <4>1 DEF EnableUserGateway, RolledBack
    <3>2. CASE Deactivate(s) \/ Toggle(s) \/ RecordActive(s) \/ RemoveUser(s)
      BY <3>2 DEF Deactivate, Toggle, RecordActive, RemoveUser, Paused, Status
    <3>3. CASE ListUsers(s) \/ ReadUser(s) \/ CreateBackup(s) \/ ListBackups(s) \/ Restore(s)
      BY <3>3 DEF ListUsers, ReadUser, CreateBackup, ListBackups, Restore, world
    <3>. QED
      BY <3>1, <3>2, <3>3
  <2>. QED
    BY <2>1 DEF ConsoleInv, Shape, Row
<1>4. ASSUME NEW ok \in BOOLEAN, NEW list \in Row, NEW plan \in SUBSET Item,
             Reply(s, ok, list, plan)
      PROVE  ConsoleInv'
  BY <1>1, <1>2, <1>3, <1>4, ReplyKeeps
<1>5. ASSUME Proceeds(s) PROVE ConsoleInv'
  <2>1. {"add", "toggle", "remove"} \subseteq Ops \ {"applyFixes"}
    BY DEF Ops, UserOrder
  <2>2. PICK o :
          /\ flight' = [flight EXCEPT ![s] = o] /\ IsOrder(o) /\ OrderAsked(o)
          /\ o.op \in {"add", "toggle", "remove"} /\ UNCHANGED inbox
    BY <1>5 DEF Proceeds
  <2>. QED
    BY <1>1, <1>2, <1>3, <2>1, <2>2, ContinueKeeps
<1>6. CASE \/ ListUsers(s) \/ EnableUserGateway(s) \/ RemoveUser(s)
           \/ Toggle(s) /\ Toggled(s) # "active"
           \/ ReadUser(s) /\ fleet[Of(s)] = "absent" /\ ~Is(s, "add")
  <2>1. PICK ok \in BOOLEAN, list \in Row : Reply(s, ok, list, {})
    BY <1>6, SomeLists DEF ListUsers, EnableUserGateway, Toggle, RemoveUser, ReadUser
  <2>. QED
    BY <1>4, <2>1, SomeLists
<1>7. CASE CreateBackup(s) \/ ListBackups(s) \/ Restore(s)
  <2>1. PICK ok \in BOOLEAN, plan \in SUBSET Item : Reply(s, ok, Nobody, plan)
    BY <1>7, SomeLists DEF CreateBackup, ListBackups, Restore, ConsoleInv, Shape
  <2>. QED
    BY <1>4, <2>1, SomeLists
<1>. QED
  BY <1>5, <1>6, <1>7, UserProceeds

\* Orders of the network and doctor screens.
LEMMA HostWork ==
    ASSUME ConsoleInv, NEW s \in 1..MaxSlots,
           \/ Look(s) \/ PlanWildcardDNS(s) \/ ApplyWildcardDNS(s) \/ PlanUFW(s) \/ ApplyUFW(s)
           \/ RunChecks(s) \/ RunOpenClawDoctor(s) \/ ApplyFixes(s)
    PROVE  ConsoleInv'
<1>1. IsOrder(flight[s]) /\ fleet \in Row /\ backups \subseteq User /\ drift \subseteq Drifts
      /\ OrderAsked(flight[s])
  BY DEF ConsoleInv, Shape, FlightsAsked
<1>2. ASSUME NEW ok \in BOOLEAN, NEW plan \in SUBSET Item, Reply(s, ok, Nobody, plan),
             UNCHANGED <<screen, asked, reported, fleet, backups, drift>>,
             flight[s].op \in DoctorOrder => plan \subseteq reported
      PROVE  ConsoleInv'
  BY <1>1, <1>2, ReplyKeeps, SomeLists
<1>3. CASE Look(s) \/ RunOpenClawDoctor(s)
  <2>1. /\ Reply(s, TRUE, Nobody, {})
        /\ UNCHANGED <<screen, asked, reported, fleet, backups, drift>>
    BY <1>3 DEF Look, RunOpenClawDoctor, world, history
  <2>. QED
    BY <1>2, <2>1, SomeLists
<1>4. CASE PlanWildcardDNS(s) \/ ApplyWildcardDNS(s)
  <2>1. PICK ok \in BOOLEAN, plan \in SUBSET {"create", "noop", "update"} :
            Reply(s, ok, Nobody, plan)
    BY <1>4 DEF PlanWildcardDNS, ApplyWildcardDNS
  <2>2. /\ UNCHANGED <<screen, asked, reported, fleet, backups, drift>>
        /\ flight[s].op \notin DoctorOrder
    BY <1>4 DEF PlanWildcardDNS, ApplyWildcardDNS, Is, DoctorOrder, world, history
  <2>. QED
    BY <1>2, <2>1, <2>2 DEF Item
<1>5. CASE PlanUFW(s)
  <2>1. /\ Reply(s, TRUE, Nobody, RequiredPorts) /\ RequiredPorts \subseteq User
        /\ UNCHANGED <<screen, asked, reported, fleet, backups, drift>>
        /\ flight[s].op \notin DoctorOrder
    BY <1>5 DEF PlanUFW, RequiredPorts, Is, DoctorOrder, world, history
  <2>. QED
    BY <1>2, <2>1 DEF Item
<1>6. CASE ApplyUFW(s)
  <2>1. /\ UNCHANGED <<screen, asked, reported, fleet, backups, drift>>
        /\ flight[s].op = "applyUFW" /\ "applyUFW" \notin DoctorOrder
    BY <1>6 DEF ApplyUFW, Is, DoctorOrder, history
  <2>5. ASSUME NEW o, flight' = [flight EXCEPT ![s] = o], UNCHANGED inbox, IsOrder(o),
               o.op = flight[s].op, o.user = flight[s].user, o.plan = flight[s].plan,
               o.row = flight[s].row
        PROVE  ConsoleInv'
    <3>1. OrderAsked(o) /\ o.op \in Ops /\ o.op # "applyFixes"
      BY <1>1, <2>1, <2>5 DEF OrderAsked, UserOrder, Ops, NetworkOrder
    <3>. QED
      BY <1>1, <2>1, <2>5, <3>1, ContinueKeeps
  <2>2. CASE flight[s].status # "none" /\ flight[s].todo = <<>>
    BY <1>2, <1>6, <2>1, <2>2, SomeLists DEF ApplyUFW
  <2>3. CASE flight[s].status = "none"
    <3>. DEFINE todo == FirewallCommands(host, flight[s].plan)
                read == [flight[s] EXCEPT !.status = "read"]
                o == [read EXCEPT !.todo = todo]
    <3>1. IsOrder(o) /\ o.op = flight[s].op /\ o.user = flight[s].user /\ o.plan = flight[s].plan
          /\ o.row = flight[s].row
      <4>1. IsOrder(read) /\ read.op = flight[s].op /\ read.user = flight[s].user
            /\ read.plan = flight[s].plan /\ read.row = flight[s].row
        BY <1>1, WithStatus
      <4>. HIDE DEF todo, read
      <4>. QED
        BY <4>1, WithTodo
    <3>2. flight' = [flight EXCEPT ![s] = o] /\ UNCHANGED inbox
      BY <1>6, <2>3 DEF ApplyUFW
    <3>. HIDE DEF o
    <3>. QED
      BY <2>5, <3>1, <3>2
  <2>4. CASE flight[s].status # "none" /\ flight[s].todo # <<>>
    <3>. DEFINE rest == Tail(flight[s].todo)
                o == [flight[s] EXCEPT !.todo = rest]
    <3>1. IsOrder(o) /\ o.op = flight[s].op /\ o.user = flight[s].user /\ o.plan = flight[s].plan
          /\ o.row = flight[s].row
      <4>. HIDE DEF rest
      <4>. QED
        BY <1>1, WithTodo
    <3>2. flight' = [flight EXCEPT ![s] = o] /\ UNCHANGED inbox
      BY <1>6, <2>4 DEF ApplyUFW
    <3>. HIDE DEF o
    <3>. QED
      BY <2>5, <3>1, <3>2
  <2>. QED
    BY <2>2, <2>3, <2>4
<1>7. CASE RunChecks(s)
  <2>1. /\ Reply(s, TRUE, Nobody, Fixable) /\ reported' = reported \cup Fixable
        /\ UNCHANGED <<screen, asked, fleet, backups, drift>>
    BY <1>7 DEF RunChecks, world
  <2>2. Fixable \in SUBSET Item
    BY <1>1, ConsoleAssumption DEF Fixable, Item
  <2>. QED
    BY <1>1, <2>1, <2>2, ReplyKeeps, SomeLists
<1>8. CASE ApplyFixes(s)
  <2>1. UNCHANGED <<screen, asked, reported, fleet, backups>> /\ flight[s].op = "applyFixes"
    BY <1>8 DEF ApplyFixes, Is, history
  <2>2. CASE \E ok \in BOOLEAN : Reply(s, ok, Nobody, {}) /\ UNCHANGED drift
    BY <1>2, <2>1, <2>2, SomeLists
  <2>3. CASE \E t \in flight[s].plan :
                 /\ drift' = drift \ {t}
                 /\ flight' = [flight EXCEPT ![s].plan = @ \ {t}]
                 /\ UNCHANGED inbox
    <3>1. PICK t \in flight[s].plan :
                 /\ drift' = drift \ {t}
                 /\ flight' = [flight EXCEPT ![s] = [flight[s] EXCEPT !.plan = @ \ {t}]]
                 /\ UNCHANGED inbox
      BY <2>3
    <3>. DEFINE o == [flight[s] EXCEPT !.plan = @ \ {t}]
    <3>2. IsOrder(o) /\ o.op = flight[s].op /\ o.user = flight[s].user
          /\ o.plan \subseteq flight[s].plan /\ o.row = flight[s].row
      BY <1>1 DEF IsOrder
    <3>3. drift' \subseteq Drifts /\ flight' = [flight EXCEPT ![s] = o] /\ UNCHANGED inbox
      BY <1>1, <3>1
    <3>. HIDE DEF o
    <3>4. OrderAsked(o) /\ o.op \in Ops
      BY <1>1, <2>1, <3>2 DEF OrderAsked, UserOrder, Ops, DoctorOrder
    <3>. QED
      BY <1>1, <2>1, <3>2, <3>3, <3>4, ContinueKeeps
  <2>. QED
    BY <1>8, <2>2, <2>3 DEF ApplyFixes
<1>. QED
  BY <1>3, <1>4, <1>5, <1>6, <1>7, <1>8

LEMMA FailKeeps ==
    ASSUME ConsoleInv, NEW s \in 1..MaxSlots, Fail(s)
    PROVE  ConsoleInv'
<1>1. /\ Reply(s, FALSE, Nobody, {})
      /\ UNCHANGED <<screen, asked, reported, backups, drift>>
      /\ \/ fleet' = fleet \/ fleet' = [fleet EXCEPT ![Of(s)] = "paused"]
         \/ Recorded(s) /\ fleet' = RolledBack(s)
  BY DEF Fail
<1>2. Recorded(s) => flight[s].row \in Status \cup {"absent"}
  BY DEF Recorded, Is, ConsoleInv, FlightsAsked, OrderAsked
<1>3. fleet' \in Row /\ backups' \subseteq User /\ drift' \subseteq Drifts
  BY <1>1, <1>2 DEF ConsoleInv, Shape, Row, Status, RolledBack
<1>. QED
  BY <1>1, <1>3, ReplyKeeps, SomeLists

-----------------------------------------------------------------------------
(* The screens.                                                            *)

\* A message leaves a screen whose plan and report hold what doctor reported.
LEMMA UsersScreen ==
    ASSUME IsScreen(screen), screen.name = "users", NEW m
    PROVE  IsScreen(UsersAfter(m)) /\ UsersAfter(m).name = "users"
<1>1. CASE m.op = "list"
  BY <1>1, Zenon DEF UsersAfter, IsScreen
<1>2. CASE m.op = "backups"
  BY <1>2, Zenon DEF UsersAfter, IsScreen
<1>3. CASE m.op \notin {"list", "backups"} /\ m.ok
  BY <1>3, Zenon DEF UsersAfter, IsScreen
<1>4. CASE m.op \notin {"list", "backups"} /\ ~m.ok
  BY <1>4, Zenon DEF UsersAfter, IsScreen
<1>. QED
  BY <1>1, <1>2, <1>3, <1>4

LEMMA NetworkScreen ==
    ASSUME IsScreen(screen), screen.name = "network", NEW m
    PROVE  IsScreen(NetworkAfter(m)) /\ NetworkAfter(m).name = "network"
<1>1. CASE ~m.ok \/ m.op = "look"
  BY <1>1, Zenon DEF NetworkAfter, IsScreen
<1>2. CASE ~(~m.ok \/ m.op = "look")
  BY <1>2, Zenon DEF NetworkAfter, IsScreen
<1>. QED
  BY <1>1, <1>2

LEMMA DoctorScreen ==
    ASSUME IsScreen(screen), ShowsReported(screen), screen.name = "doctor",
           NEW m, m.plan \subseteq reported
    PROVE  IsScreen(DoctorAfter(m)) /\ ShowsReported(DoctorAfter(m))
<1>1. CASE m.op = "applyFixes"
  <2>1. /\ IsScreen(DoctorAfter(m)) /\ DoctorAfter(m).name = screen.name
        /\ DoctorAfter(m).plan = screen.plan /\ DoctorAfter(m).report = screen.report
    BY <1>1, Zenon DEF DoctorAfter, IsScreen
  <2>. QED
    BY <2>1 DEF ShowsReported
<1>2. CASE m.op # "applyFixes"
  <2>1. /\ IsScreen(DoctorAfter(m)) /\ DoctorAfter(m).name = screen.name
        /\ DoctorAfter(m).plan = screen.plan /\ DoctorAfter(m).report = m.plan
    BY <1>2, Zenon DEF DoctorAfter, IsScreen
  <2>. QED
    BY <2>1 DEF ShowsReported
<1>. QED
  BY <1>1, <1>2

LEMMA NewScreen ==
    ASSUME NEW name, NEW mode
    PROVE  IsScreen(Shown(name, mode)) /\ ShowsReported(Shown(name, mode))
           /\ Shown(name, mode).plan = {} /\ Shown(name, mode).report = {}
BY DEF Shown, IsScreen, ShowsReported

LEMMA NextScreen ==
    ASSUME IsScreen(screen), ShowsReported(screen), NEW m \in Sound
    PROVE  IsScreen(ScreenAfter(m)) /\ ShowsReported(ScreenAfter(m))
<1>1. CASE m.op = "back"
  <2>1. ScreenAfter(m) = Shown("menu", "list")
    BY <1>1, ConsoleAssumption DEF ScreenAfter, Menu, UserOrder, NetworkOrder, DoctorOrder
  <2>. QED
    BY <2>1, NewScreen
<1>5. CASE m.op \in Screens
  <2>. DEFINE mode == IF m.op = "users" THEN "list" ELSE "report"
  <2>1. ScreenAfter(m) = Shown(m.op, mode)
    BY <1>5, ConsoleAssumption DEF ScreenAfter, UserOrder, NetworkOrder, DoctorOrder
  <2>. HIDE DEF mode
  <2>. QED
    BY <2>1, NewScreen
<1>2. CASE m.op \notin Screens \cup {"back"} /\ m.op \in UserOrder /\ screen.name = "users"
  BY <1>2, UsersScreen DEF ScreenAfter, ShowsReported
<1>3. CASE /\ m.op \notin Screens \cup {"back"} /\ m.op \in NetworkOrder /\ screen.name = "network"
  BY <1>3, NetworkScreen DEF ScreenAfter, ShowsReported
<1>4. CASE /\ m.op \notin Screens \cup {"back"} /\ m.op \in DoctorOrder /\ screen.name = "doctor"
  BY <1>4, DoctorScreen DEF ScreenAfter, Sound
<1>. QED
  BY <1>1, <1>5, <1>2, <1>3, <1>4 DEF ScreenAfter

\* A message is taken, and the next list asked for.
LEMMA DeliverKeeps ==
    ASSUME ConsoleInv, Deliver
    PROVE  ConsoleInv'
<1>1. PICK i \in 1..Len(inbox) :
        /\ screen' = ScreenAfter(inbox[i])
        /\ \/ Send(Order("list", "none", "none", {}))
           \/ UNCHANGED flight
        /\ inbox' = RemoveAt(inbox, i)
        /\ UNCHANGED <<fleet, backups, drift, asked, reported>>
  BY DEF Deliver, world, history
<1>2. inbox' \in Seq(Messages) /\ inbox' \in Seq(Sound) /\ inbox[i] \in Sound
  BY <1>1, Removed DEF ConsoleInv, Shape, Reports
<1>3. IsScreen(screen') /\ ShowsReported(screen')
  BY <1>1, <1>2, NextScreen DEF ConsoleInv, Shape, Reports
<1>4. Sound' = Sound
  BY <1>1 DEF Sound
<1>5. ShowsReported(screen)'
  BY <1>1, <1>3 DEF ShowsReported
<1>6. CASE UNCHANGED flight
  <2>1. Shape'
    BY <1>1, <1>2, <1>3, <1>6 DEF ConsoleInv, Shape
  <2>2. FlightsAsked'
    BY <1>1, <1>6 DEF ConsoleInv, FlightsAsked, OrderAsked
  <2>3. Reports'
    BY <1>1, <1>2, <1>4, <1>5, <1>6 DEF ConsoleInv, Reports
  <2>. QED
    BY <2>1, <2>2, <2>3 DEF ConsoleInv
<1>7. CASE Send(Order("list", "none", "none", {}))
  <2>. DEFINE o == Order("list", "none", "none", {})
  <2>1. o.op = "list" /\ IsOrder(o) /\ o.op \in Ops /\ o.row = "none"
    BY NoOrderIsOrder DEF Ops, UserOrder
  <2>2. FreeSlot \in 1..MaxSlots /\ flight' = [flight EXCEPT ![FreeSlot] = o]
    BY <1>7, FreeSlotIsSlot DEF Send
  <2>. HIDE DEF o
  <2>3. /\ DOMAIN flight' = 1..MaxSlots /\ flight' = [t \in 1..MaxSlots |-> flight'[t]]
        /\ flight'[FreeSlot] = o
        /\ \A t \in (1..MaxSlots) \ {FreeSlot} : flight'[t] = flight[t]
        /\ \A t \in 1..MaxSlots : IsOrder(flight'[t]) /\ flight'[t].op \in Ops
    BY <2>1, <2>2, OneSlot DEF ConsoleInv
  <2>4. Shape'
    BY <1>1, <1>2, <1>3, <2>3 DEF ConsoleInv, Shape
  <2>5. FlightsAsked'
    BY <1>1, <2>1, <2>3 DEF ConsoleInv, FlightsAsked, OrderAsked
  <2>6. Reports'
    BY <1>1, <1>2, <1>4, <1>5, <2>1, <2>3 DEF ConsoleInv, Reports
  <2>. QED
    BY <2>4, <2>5, <2>6 DEF ConsoleInv
<1>. QED
  BY <1>1, <1>6, <1>7

-----------------------------------------------------------------------------
(* Keys and the world.                                                     *)

\* Orders in flight, requests and reports stay; the screen may change.
LEMMA LookKeeps ==
    ASSUME ConsoleInv, UNCHANGED <<fleet, backups, flight, asked, reported>>,
           drift' \subseteq Drifts, IsScreen(screen'), ShowsReported(screen'),
           inbox' \in Seq(Sound)
    PROVE  ConsoleInv'
<1>1. Sound \subseteq Messages
  BY DEF Sound
<1>2. Sound' = Sound
  BY DEF Sound
<1>3. inbox' \in Seq(Messages)
  BY <1>1, SeqGrows
<1>4. Shape'
  BY <1>3 DEF ConsoleInv, Shape
<1>5. FlightsAsked'
  BY DEF ConsoleInv, FlightsAsked, OrderAsked
<1>6. Reports'
  BY <1>2 DEF ConsoleInv, Reports, ShowsReported
<1>. QED
  BY <1>4, <1>5, <1>6 DEF ConsoleInv

\* An order the administrator gives is asked for, and from a report.
LEMMA GivesKeeps ==
    ASSUME ConsoleInv, NEW o, NEW what, Gives(o, what), IsOrder(o), o.op \in Ops,
           OrderAsked(o)', o.op = "applyFixes" => o.plan \subseteq reported,
           IsScreen(screen'), ShowsReported(screen')
    PROVE  ConsoleInv'
<1>1. /\ FreeSlot \in 1..MaxSlots /\ flight' = [flight EXCEPT ![FreeSlot] = o]
      /\ asked \subseteq asked'
      /\ UNCHANGED <<fleet, backups, drift, inbox, reported>>
  BY FreeSlotIsSlot DEF Gives, Send, world
<1>2. /\ DOMAIN flight' = 1..MaxSlots /\ flight' = [t \in 1..MaxSlots |-> flight'[t]]
      /\ flight'[FreeSlot] = o
      /\ \A t \in (1..MaxSlots) \ {FreeSlot} : flight'[t] = flight[t]
      /\ \A t \in 1..MaxSlots : IsOrder(flight'[t]) /\ flight'[t].op \in Ops
  BY <1>1, OneSlot DEF ConsoleInv
<1>3. Shape'
  BY <1>1, <1>2 DEF ConsoleInv, Shape
<1>4. FlightsAsked'
  BY <1>1, <1>2 DEF ConsoleInv, FlightsAsked, OrderAsked
<1>5. Sound' = Sound
  BY <1>1 DEF Sound
<1>6. Reports'
  BY <1>1, <1>2, <1>5 DEF ConsoleInv, Reports, ShowsReported
<1>. QED
  BY <1>3, <1>4, <1>6 DEF ConsoleInv

\* A field of the screen that shows no plan and no report.
LEMMA WithField ==
    ASSUME NEW r, IsScreen(r), NEW v
    PROVE  \A s \in {[r EXCEPT !.mode = v], [r EXCEPT !.cursor = v], [r EXCEPT !.loading = v]} :
               IsScreen(s) /\ s.name = r.name /\ s.plan = r.plan /\ s.report = r.report
<1>1. LET s == [r EXCEPT !.mode = v]
      IN IsScreen(s) /\ s.name = r.name /\ s.plan = r.plan /\ s.report = r.report
  BY Zenon DEF IsScreen
<1>2. LET s == [r EXCEPT !.cursor = v]
      IN IsScreen(s) /\ s.name = r.name /\ s.plan = r.plan /\ s.report = r.report
  BY Zenon DEF IsScreen
<1>3. LET s == [r EXCEPT !.loading = v]
      IN IsScreen(s) /\ s.name = r.name /\ s.plan = r.plan /\ s.report = r.report
  BY Zenon DEF IsScreen
<1>. QED
  BY <1>1, <1>2, <1>3, Zenon

LEMMA BecomesKeeps ==
    ASSUME ConsoleInv, NEW next, Becomes(next), IsScreen(next), ShowsReported(next)
    PROVE  ConsoleInv'
<1>1. /\ UNCHANGED <<fleet, backups, flight, asked, reported, drift, inbox>>
      /\ screen' = next
  BY DEF Becomes, world, history
<1>2. ShowsReported(screen') /\ IsScreen(screen')
  BY <1>1
<1>. QED
  BY <1>1, <1>2, LookKeeps DEF ConsoleInv, Shape, Reports

\* Keys that only change the screen.
LEMMA ScreenKeys ==
    ASSUME ConsoleInv, \/ Move \/ Escape \/ ReviewFixes \/ (\E mode \in Mode : Prompt(mode))
    PROVE  ConsoleInv'
<1>1. IsScreen(screen) /\ ShowsReported(screen)
  BY DEF ConsoleInv, Shape, Reports
<1>2. CASE ReviewFixes
  <2>. DEFINE fix == [screen EXCEPT !.mode = "fix"]
              s == [fix EXCEPT !.plan = screen.report]
  <2>1. screen.name = "doctor" /\ Becomes(s)
    BY <1>2 DEF ReviewFixes, PlanFixes, On
  <2>2. IsScreen(fix) /\ fix.name = screen.name /\ fix.report = screen.report
    BY <1>1, WithField
  <2>3. IsScreen(s) /\ s.name = fix.name /\ s.plan = screen.report /\ s.report = fix.report
    <3>. HIDE DEF fix
    <3>. QED
      BY <2>2, Zenon DEF IsScreen
  <2>. HIDE DEF s, fix
  <2>. QED
    BY <1>1, <2>1, <2>2, <2>3, BecomesKeeps DEF ShowsReported
<1>3. CASE Move
  <2>1. PICK c : Becomes([screen EXCEPT !.cursor = c])
    BY <1>3 DEF Move
  <2>. DEFINE s == [screen EXCEPT !.cursor = c]
  <2>2. IsScreen(s) /\ s.name = screen.name /\ s.plan = screen.plan /\ s.report = screen.report
    BY <1>1, WithField
  <2>. HIDE DEF s
  <2>3. ShowsReported(s)
    BY <1>1, <2>2 DEF ShowsReported
  <2>. QED
    BY <2>1, <2>2, <2>3, BecomesKeeps DEF s
<1>4. CASE Escape \/ \E mode \in Mode : Prompt(mode)
  <2>1. PICK mode : Becomes([screen EXCEPT !.mode = mode])
    BY <1>4 DEF Escape, Prompt
  <2>. DEFINE s == [screen EXCEPT !.mode = mode]
  <2>2. IsScreen(s) /\ s.name = screen.name /\ s.plan = screen.plan /\ s.report = screen.report
    BY <1>1, WithField
  <2>. HIDE DEF s
  <2>3. ShowsReported(s)
    BY <1>1, <2>2 DEF ShowsReported
  <2>. QED
    BY <2>1, <2>2, <2>3, BecomesKeeps DEF s
<1>. QED
  BY <1>2, <1>3, <1>4

\* Keys that post a message to the root screen.
LEMMA PostKeeps ==
    ASSUME ConsoleInv, NEW op \in Screens \cup {"back"}, Post(op)
    PROVE  ConsoleInv'
<1>. DEFINE m == Message(op, TRUE, Nobody, {})
<1>1. m \in Messages /\ m.op = op /\ m.plan = {}
  BY DEF Message, Messages, Ops, Nobody, Row
<1>2. m \in Sound
  BY <1>1 DEF Sound
<1>3. inbox' \in Seq(Sound)
  <2>1. inbox \in Seq(Sound) /\ inbox' = Append(inbox, m)
    BY DEF Post, ConsoleInv, Reports
  <2>. HIDE DEF m
  <2>. QED
    BY <1>2, <2>1
<1>4. UNCHANGED <<fleet, backups, flight, asked, reported, drift, screen>>
  BY DEF Post, world, history
<1>. QED
  BY <1>3, <1>4, LookKeeps DEF ConsoleInv, Shape, Reports, ShowsReported

LEMMA SelectedAreUsers == Selected \subseteq User
<1>. SUFFICES ASSUME NEW u \in Selected PROVE u \in User
  OBVIOUS
<1>1. PICK i \in Rows(screen.list) : u = Sorted[i]
  BY DEF Selected
<1>. QED
  BY <1>1, ConsoleAssumption DEF Rows

\* Keys that send an order on a user.
LEMMA UserKeys ==
    ASSUME ConsoleInv,
           \/ PressToggle \/ PressBackup \/ EnterRestore
           \/ (\E u \in User : EnterAdd(u) \/ EnterRemove(u))
    PROVE  ConsoleInv'
<1>1. IsScreen(screen) /\ ShowsReported(screen) /\ Selected \subseteq User
  BY SelectedAreUsers DEF ConsoleInv, Shape, Reports
<1>2. UNCHANGED screen
  BY DEF PressToggle, PressBackup, EnterRestore, EnterAdd, EnterRemove
<1>3. ASSUME NEW op \in UserOrder, NEW u \in User, NEW status, NEW plan, NEW what,
             Gives(Order(op, u, status, plan), what), OrderAsked(Order(op, u, status, plan))'
      PROVE  ConsoleInv'
  <2>. DEFINE o == Order(op, u, status, plan)
  <2>1. o.op = op /\ IsOrder(o) /\ o.op \in Ops /\ op # "applyFixes"
    BY NoOrderIsOrder DEF Ops, UserOrder
  <2>2. IsScreen(screen') /\ ShowsReported(screen')
    BY <1>1, <1>2
  <2>. HIDE DEF o
  <2>. QED
    BY <1>3, <2>1, <2>2, GivesKeeps DEF o
<1>4. CASE PressToggle
  <2>1. PICK u \in User, status \in {screen.list[v] : v \in User} :
            Gives(Order("toggle", u, status, {}),
                  {<<IF status = "paused" THEN "active" ELSE "paused", u>>})
    BY <1>1, <1>4 DEF PressToggle
  <2>2. OrderAsked(Order("toggle", u, status, {}))'
    BY <2>1 DEF OrderAsked, Gives, Order
  <2>. QED
    BY <1>3, <2>1, <2>2 DEF UserOrder
<1>5. CASE PressBackup \/ EnterRestore
  <2>1. PICK u \in User, op \in {"backup", "backups", "restore"},
            plan \in {{}} \cup {{b} : b \in screen.plan} :
            Gives(Order(op, u, "none", plan), {})
    BY <1>1, <1>5 DEF PressBackup, EnterRestore
  <2>2. OrderAsked(Order(op, u, "none", plan))'
    BY <2>1 DEF OrderAsked, Order
  <2>. QED
    BY <1>3, <2>1, <2>2 DEF UserOrder
<1>6. CASE \E u \in User : EnterAdd(u)
  <2>1. PICK u \in User : Gives(Order("add", u, "none", {}), {<<"active", u>>})
    BY <1>6 DEF EnterAdd
  <2>2. OrderAsked(Order("add", u, "none", {}))'
    BY <2>1 DEF OrderAsked, Gives, Order
  <2>. QED
    BY <1>3, <2>1, <2>2 DEF UserOrder
<1>7. CASE \E u \in User : EnterRemove(u)
  <2>1. PICK u \in User, status \in {screen.list[v] : v \in User} :
            Gives(Order("remove", u, status, {}), {<<"absent", u>>, <<"paused", u>>})
    BY <1>1, <1>7 DEF EnterRemove, Confirmed
  <2>2. OrderAsked(Order("remove", u, status, {}))'
    BY <2>1 DEF OrderAsked, Gives, Order
  <2>. QED
    BY <1>3, <2>1, <2>2 DEF UserOrder
<1>. QED
  BY <1>4, <1>5, <1>6, <1>7

\* Keys that send an order of the network or doctor screen.
LEMMA HostKeys ==
    ASSUME ConsoleInv, PressReport \/ EnterReview
    PROVE  ConsoleInv'
<1>1. IsScreen(screen) /\ ShowsReported(screen)
  BY DEF ConsoleInv, Shape, Reports
<1>2. ASSUME NEW op \in NetworkOrder \cup DoctorOrder, NEW plan,
             Busy(Order(op, "none", "none", plan)),
             op = "applyFixes" => plan \subseteq reported
      PROVE  ConsoleInv'
  <2>. DEFINE o == Order(op, "none", "none", plan)
              s == [screen EXCEPT !.loading = TRUE]
  <2>1. o.op = op /\ o.plan = plan /\ IsOrder(o) /\ o.op \in Ops /\ op \notin UserOrder
        /\ o.row = "none"
    BY NoOrderIsOrder DEF Ops, UserOrder, NetworkOrder, DoctorOrder
  <2>2. IsScreen(s) /\ s.name = screen.name /\ s.plan = screen.plan /\ s.report = screen.report
    BY <1>1, WithField
  <2>3. Gives(o, {}) /\ screen' = s
    BY <1>2 DEF Busy
  <2>. HIDE DEF o, s
  <2>4. OrderAsked(o)'
    BY <2>1 DEF OrderAsked, UserOrder
  <2>5. IsScreen(screen') /\ ShowsReported(screen')
    BY <1>1, <2>2, <2>3 DEF ShowsReported
  <2>. QED
    BY <1>2, <2>1, <2>3, <2>4, <2>5, GivesKeeps
<1>3. CASE PressReport
  <2>1. PICK op \in {"look", "planDNS", "planUFW", "run", "openclaw"} :
            Busy(Order(op, "none", "none", {}))
    BY <1>3 DEF PressReport
  <2>. QED
    BY <1>2, <2>1 DEF NetworkOrder, DoctorOrder
<1>4. CASE /\ screen.name = "doctor" /\ Busy(Order("applyFixes", "none", "none", screen.plan))
  BY <1>1, <1>2, <1>4 DEF ShowsReported, DoctorOrder
<1>5. CASE \E op \in {"applyDNS", "applyUFW"} : Busy(Order(op, "none", "none", screen.plan))
  BY <1>2, <1>5 DEF NetworkOrder
<1>6. CASE Becomes([screen EXCEPT !.mode = "report"])
  <2>. DEFINE s == [screen EXCEPT !.mode = "report"]
  <2>1. IsScreen(s) /\ s.name = screen.name /\ s.plan = screen.plan /\ s.report = screen.report
    BY <1>1, WithField
  <2>. HIDE DEF s
  <2>2. ShowsReported(s)
    BY <1>1, <2>1 DEF ShowsReported
  <2>. QED
    BY <1>6, <2>1, <2>2, BecomesKeeps DEF s
<1>. QED
  BY <1>3, <1>4, <1>5, <1>6 DEF EnterReview, On

\* The program ends with its orders.
LEMMA QuitKeeps ==
    ASSUME ConsoleInv, Quit
    PROVE  ConsoleInv'
<1>1. /\ UNCHANGED <<fleet, backups, drift, asked, reported>>
      /\ screen' = Shown("menu", "list") /\ inbox' = <<>>
      /\ flight' = [s \in 1..MaxSlots |-> NoOrder]
  BY DEF Quit, world, history, Menu
<1>2. IsOrder(NoOrder) /\ NoOrder.op = "none" /\ "none" \in Ops /\ "none" \notin UserOrder
      /\ NoOrder.row = "none"
  BY DEF NoOrder, IsOrder, Ops, UserOrder
<1>3. IsScreen(screen') /\ screen'.plan = {} /\ screen'.report = {}
  BY <1>1, NewScreen
<1>4. Shape'
  BY <1>1, <1>2, <1>3 DEF ConsoleInv, Shape
<1>5. FlightsAsked'
  BY <1>1, <1>2 DEF FlightsAsked, OrderAsked
<1>6. Reports'
  BY <1>1, <1>2, <1>3 DEF Reports, ShowsReported
<1>. QED
  BY <1>4, <1>5, <1>6 DEF ConsoleInv

LEMMA MeddleKeeps ==
    ASSUME ConsoleInv, Meddle
    PROVE  ConsoleInv'
<1>1. /\ UNCHANGED <<fleet, backups, flight, asked, reported, screen, inbox>>
      /\ drift' \subseteq Drifts
  BY ConsoleAssumption DEF Meddle, history, ConsoleInv, Shape
<1>. QED
  BY <1>1, LookKeeps DEF ConsoleInv, Shape, Reports, ShowsReported

-----------------------------------------------------------------------------
(* The theorems.                                                           *)

LEMMA ConsoleInvInit == Init => ConsoleInv
<1>. SUFFICES ASSUME Init PROVE ConsoleInv
  OBVIOUS
<1>1. /\ fleet \in Row /\ backups \subseteq User /\ drift \subseteq Drifts
      /\ screen = Shown("menu", "list") /\ inbox = <<>>
      /\ flight = [s \in 1..MaxSlots |-> NoOrder]
  BY ConsoleAssumption DEF Init, Menu
<1>2. IsOrder(NoOrder) /\ NoOrder.op = "none" /\ "none" \in Ops /\ "none" \notin UserOrder
      /\ NoOrder.row = "none"
  BY DEF NoOrder, IsOrder, Ops, UserOrder
<1>3. IsScreen(screen) /\ screen.plan = {} /\ screen.report = {}
  BY <1>1, NewScreen
<1>4. Shape
  BY <1>1, <1>2, <1>3 DEF Shape
<1>5. FlightsAsked
  BY <1>1, <1>2 DEF FlightsAsked, OrderAsked
<1>6. Reports
  BY <1>1, <1>2, <1>3 DEF Reports, ShowsReported
<1>. QED
  BY <1>4, <1>5, <1>6 DEF ConsoleInv

LEMMA ConsoleInvNext == ConsoleInv /\ [Next]_vars => ConsoleInv'
<1>. SUFFICES ASSUME ConsoleInv, [Next]_vars PROVE ConsoleInv'
  OBVIOUS
<1>1. ASSUME NEW s \in 1..MaxSlots, Work(s) PROVE ConsoleInv'
  BY <1>1, UserWork, HostWork DEF Work
<1>2. ASSUME NEW s \in 1..MaxSlots, Fail(s) PROVE ConsoleInv'
  BY <1>2, FailKeeps
<1>3. CASE Deliver
  BY <1>3, DeliverKeeps
<1>4. CASE Back \/ \E name \in Screens : Open(name)
  BY <1>4, PostKeeps DEF Back, Open
<1>5. CASE \/ Move \/ Escape \/ ReviewFixes \/ (\E mode \in {"add", "remove"} : Prompt(mode))
  BY <1>5, ScreenKeys DEF Mode
<1>6. CASE \/ PressToggle \/ PressBackup \/ EnterRestore
           \/ (\E u \in User : EnterAdd(u) \/ EnterRemove(u))
  BY <1>6, UserKeys
<1>7. CASE PressReport \/ EnterReview
  BY <1>7, HostKeys
<1>8. CASE Quit
  BY <1>8, QuitKeeps
<1>9. CASE Meddle
  BY <1>9, MeddleKeeps
<1>10. CASE UNCHANGED vars
  <2>1. UNCHANGED <<fleet, backups, flight, asked, reported, drift, screen, inbox>>
    BY <1>10 DEF vars, world, history
  <2>. QED
    BY <2>1, LookKeeps DEF ConsoleInv, Shape, Reports, ShowsReported
<1>. QED
  BY <1>1, <1>2, <1>3, <1>4, <1>5, <1>6, <1>7, <1>8, <1>9, <1>10 DEF Next

\* Every order under way was asked for, and every repair under way was reported.
LEMMA Invariant == Spec => []ConsoleInv
BY ConsoleInvInit, ConsoleInvNext, PTL DEF Spec

\* Only an order that was given changes a row, as it was asked or to give up.
LEMMA StepAsked ==
    ASSUME ConsoleInv, [Next]_vars, NEW u \in User, fleet'[u] # fleet[u]
    PROVE  <<fleet'[u], u>> \in asked \/ \E s \in 1..MaxSlots : GivesUp(s, u)
<1>1. fleet \in Row
  BY DEF ConsoleInv, Shape
<1>2. PICK s \in 1..MaxSlots : Work(s) \/ Fail(s)
  <2>1. fleet' # fleet
    OBVIOUS
  <2>2. ~(Deliver \/ Back \/ Move \/ Escape \/ ReviewFixes \/ Quit \/ Meddle \/ UNCHANGED vars)
    BY <2>1 DEF Deliver, Back, Post, Move, Becomes, Escape, ReviewFixes, Quit, Meddle, vars, world
  <2>3. ~(PressToggle \/ PressBackup \/ EnterRestore \/ PressReport \/ EnterReview)
    BY <2>1 DEF PressToggle, PressBackup, EnterRestore, PressReport, EnterReview, Busy, Gives,
                Becomes, world
  <2>4. /\ \A name : ~Open(name)
        /\ \A mode : ~Prompt(mode)
        /\ \A v : ~EnterAdd(v) /\ ~EnterRemove(v)
    BY <2>1 DEF Open, Post, Prompt, Becomes, EnterAdd, EnterRemove, Gives, world
  <2>. QED
    BY <2>2, <2>3, <2>4 DEF Next
<1>3. OrderAsked(flight[s])
  BY DEF ConsoleInv, FlightsAsked
<1>4. CASE Reply(s, FALSE, Nobody, {}) /\ Recorded(s) /\ fleet' = RolledBack(s)
  <2>1. Of(s) = u /\ fleet'[u] = flight[s].row
    BY <1>1, <1>4 DEF RolledBack, Row
  <2>2. flight'[s] = NoOrder
    BY <1>4 DEF Reply, ConsoleInv, Shape
  <2>. QED
    BY <1>4, <2>1, <2>2 DEF GivesUp
<1>5. CASE RecordActive(s)
  BY <1>1, <1>3, <1>5 DEF RecordActive, Is, Of, OrderAsked, Row
<1>6. CASE Toggle(s)
  BY <1>1, <1>3, <1>6 DEF Toggle, Toggled, Paused, Is, Of, OrderAsked, Row
<1>7. CASE Deactivate(s) \/ RemoveUser(s)
  BY <1>1, <1>3, <1>7 DEF Deactivate, RemoveUser, Paused, Is, Of, OrderAsked, Row
<1>8. CASE Fail(s)
  <2>1. CASE Is(s, "remove") /\ fleet' = [fleet EXCEPT ![Of(s)] = "paused"]
    BY <1>1, <1>3, <2>1 DEF Is, Of, OrderAsked, Row
  <2>. QED
    BY <1>4, <1>8, <2>1 DEF Fail
<1>9. CASE EnableUserGateway(s)
  BY <1>4, <1>9 DEF EnableUserGateway
<1>10. CASE \/ ListUsers(s) \/ ReadUser(s) \/ CreateBackup(s) \/ ListBackups(s) \/ Restore(s)
            \/ Look(s) \/ PlanWildcardDNS(s) \/ ApplyWildcardDNS(s) \/ PlanUFW(s) \/ ApplyUFW(s)
            \/ RunChecks(s) \/ RunOpenClawDoctor(s) \/ ApplyFixes(s)
  BY <1>10 DEF ListUsers, ReadUser, CreateBackup, ListBackups, Restore, Look, PlanWildcardDNS,
               ApplyWildcardDNS, PlanUFW, ApplyUFW, RunChecks, RunOpenClawDoctor, ApplyFixes, world
<1>. QED
  BY <1>2, <1>5, <1>6, <1>7, <1>8, <1>9, <1>10 DEF Work

\* A user is activated, paused or removed only as the administrator asked, of that
\* user, or by an Add or Activate that gives up: whatever the order of the results,
\* and whatever the screen showed since.
THEOREM OnlyWhatWasAsked == Spec => NothingUnasked
<1>1. ConsoleInv /\ [Next]_vars
        => [\A u \in User : fleet'[u] # fleet[u] =>
               <<fleet'[u], u>> \in asked \/ \E s \in 1..MaxSlots : GivesUp(s, u)]_vars
  BY StepAsked
<1>. QED
  BY <1>1, Invariant, PTL DEF Spec, NothingUnasked

\* Only a doctor's order repairs, and only what its plan holds.
LEMMA StepReported ==
    ASSUME ConsoleInv, [Next]_vars
    PROVE  drift \ drift' \subseteq reported
<1>1. CASE \E s \in 1..MaxSlots : ApplyFixes(s)
  BY <1>1 DEF ApplyFixes, Is, ConsoleInv, Reports
<1>2. CASE Meddle
  BY <1>2 DEF Meddle, ConsoleInv, Shape, world
<1>3. ASSUME ~Meddle, \A s \in 1..MaxSlots : ~ApplyFixes(s) PROVE UNCHANGED drift
  <2>1. ASSUME NEW s \in 1..MaxSlots, Work(s) \/ Fail(s) PROVE UNCHANGED drift
    BY <1>3, <2>1 DEF Work, Fail, ListUsers, ReadUser, RecordActive, EnableUserGateway, Toggle,
        Deactivate, RemoveUser, CreateBackup,
           ListBackups, Restore, Look, PlanWildcardDNS, ApplyWildcardDNS, PlanUFW, ApplyUFW,
           RunChecks, RunOpenClawDoctor, world
  <2>2. CASE Deliver \/ Back \/ Move \/ Escape \/ ReviewFixes \/ Quit \/ UNCHANGED vars
    BY <2>2 DEF Deliver, Back, Post, Move, Becomes, Escape, ReviewFixes, Quit, vars, world
  <2>3. CASE PressToggle \/ PressBackup \/ EnterRestore \/ PressReport \/ EnterReview
    BY <2>3 DEF PressToggle, PressBackup, EnterRestore, PressReport, EnterReview, Busy, Gives,
                Becomes, world
  <2>4. ASSUME \/ \E name : Open(name)
               \/ \E mode : Prompt(mode)
               \/ \E v : EnterAdd(v) \/ EnterRemove(v)
        PROVE  UNCHANGED drift
    BY <2>4 DEF Open, Post, Prompt, Becomes, EnterAdd, EnterRemove, Gives, world
  <2>. QED
    BY <1>3, <2>1, <2>2, <2>3, <2>4 DEF Next
<1>. QED
  BY <1>1, <1>2, <1>3

\* Doctor repairs only what it has reported, also when a plan is older than the
\* report on the screen, or of an earlier visit to it.
THEOREM OnlyReportedRepairs == Spec => RepairsReported
<1>1. ConsoleInv /\ [Next]_vars => [drift \ drift' \subseteq reported]_vars
  BY StepReported
<1>. QED
  BY <1>1, Invariant, PTL DEF Spec, RepairsReported

-----------------------------------------------------------------------------
(* The types, the ports a plan opens, the indicator of a running order, and *)
(* the list of users.                                                       *)

Counted ==
    /\ host \subseteq {"firewall", "deny"} \cup User
    /\ dns \in {"absent", "tunnel", "other"}
    /\ opens \in 0..MaxOpens /\ orders \in 0..MaxOrders /\ budget \in 0..Budget
    /\ latest \in Row /\ overtaken \in BOOLEAN

Views == [name : Screens \cup {"menu"}, mode : Mode, list : Row, cursor : Nat \ {0},
          plan : SUBSET Item, report : SUBSET Item, loading : BOOLEAN]

OrderOps == UserOrder \cup NetworkOrder \cup DoctorOrder \cup {"none"}

Viewed ==
    /\ screen \in Views
    /\ screen.cursor <= Height(screen.list) \/ screen.cursor = 1
    /\ \A s \in 1..MaxSlots : flight[s].op \in OrderOps

\* A firewall plan is a set of ports where it is made, sent, shown and applied.
PortPlans ==
    /\ screen.name = "network" /\ screen.mode = "ufw" => screen.plan \subseteq User
    /\ \A i \in 1..Len(inbox) : inbox[i].op = "planUFW" => inbox[i].plan \subseteq User
    /\ \A s \in 1..MaxSlots : flight[s].op = "applyUFW" => flight[s].plan \subseteq User

UfwCommand == {"ufw deny", "ufw reload", "ufw allow outgoing", "ufw enable"}

\* What is not open yet is still to be opened, and before the firewall is turned on.
Opening(todo, plan) ==
    /\ todo \in Seq(UfwCommand \cup User)
    /\ \A p \in plan : p \in host \/ \E i \in 1..Len(todo) : todo[i] = p
    /\ "deny" \in host \/ \E i \in 1..Len(todo) : todo[i] = "ufw deny"
    /\ \A i \in 1..(Len(todo) - 1) : todo[i] # "ufw enable"

Openings ==
    \A s \in 1..MaxSlots :
        flight[s].op = "applyUFW" /\ flight[s].status # "none"
            => Opening(flight[s].todo, flight[s].plan)

Indicated ==
    /\ screen.loading => screen.name \in {"network", "doctor"}
    /\ BusyIsTrue

\* A message after which the users screen reads the list again.
Rereads(m) == m.op \in UserOrder \ {"list", "backups"} /\ m.ok

\* An order that reads the list, or that another reading or a failure follows.
Pending(o) ==
    \/ o.op = "list"
    \/ o.op = "remove" /\ fleet[o.user] # "absent"
    \/ o.op = "add" /\ o.status = "active"

\* The list on the screen is the fleet, or an older one came after it, or it is coming.
ShownOrComing(list) ==
    \/ list = fleet \/ overtaken
    \/ \E i \in 1..Len(inbox) : inbox[i].op = "list" /\ inbox[i].list = fleet

\* The list was read since the fleet has changed, or will be read again.
ListComing ==
    \/ latest = fleet /\ ShownOrComing(screen.list)
    \/ \E i \in 1..Len(inbox) : Rereads(inbox[i])
    \/ \E s \in 1..MaxSlots : Pending(flight[s])

Fresh == screen.name = "users" /\ ~unread => ListComing


LEMMA Joined ==
    ASSUME NEW S, NEW a \in Seq(S), NEW b \in Seq(S)
    PROVE  /\ a \o b \in Seq(S) /\ Len(a \o b) = Len(a) + Len(b)
           /\ \A k \in 1..(Len(a) + Len(b)) :
                  (a \o b)[k] = IF k <= Len(a) THEN a[k] ELSE b[k - Len(a)]
OBVIOUS

\* What is left of a sequence without its member i.
LEMMA Shifted ==
    ASSUME NEW S, NEW seq \in Seq(S), NEW i \in 1..Len(seq)
    PROVE  /\ Len(RemoveAt(seq, i)) = Len(seq) - 1
           /\ \A k \in 1..(Len(seq) - 1) :
                  RemoveAt(seq, i)[k] = IF k < i THEN seq[k] ELSE seq[k + 1]
<1>. DEFINE before == SubSeq(seq, 1, i - 1)
            after == SubSeq(seq, i + 1, Len(seq))
<1>1. /\ before \in Seq(S) /\ Len(before) = i - 1
      /\ \A k \in 1..(i - 1) : before[k] = seq[k]
  OBVIOUS
<1>2. /\ after \in Seq(S) /\ Len(after) = Len(seq) - i
      /\ \A k \in 1..(Len(seq) - i) : after[k] = seq[k + i]
  OBVIOUS
<1>3. RemoveAt(seq, i) = before \o after
  BY DEF RemoveAt
<1>. HIDE DEF before, after
<1>4. /\ Len(before \o after) = Len(before) + Len(after)
      /\ \A k \in 1..(Len(before) + Len(after)) :
             (before \o after)[k] = IF k <= Len(before) THEN before[k] ELSE after[k - Len(before)]
  BY <1>1, <1>2, Joined
<1>5. Len(before) + Len(after) = Len(seq) - 1 /\ Len(seq) \in Nat
  BY <1>1, <1>2
<1>6. ASSUME NEW k \in 1..(Len(seq) - 1)
      PROVE  (before \o after)[k] = IF k < i THEN seq[k] ELSE seq[k + 1]
  <2>1. CASE k < i
    BY <1>1, <1>4, <1>5, <2>1
  <2>2. CASE ~(k < i)
    <3>1. k - (i - 1) \in 1..(Len(seq) - i) /\ k - (i - 1) + i = k + 1
      BY <1>5, <2>2
    <3>2. (before \o after)[k] = after[k - (i - 1)]
      BY <1>1, <1>4, <1>5, <2>2
    <3>. QED
      BY <1>2, <2>2, <3>1, <3>2
  <2>. QED
    BY <2>1, <2>2
<1>. QED
  BY <1>3, <1>4, <1>5, <1>6

\* The members of the inbox that a step leaves in it.
LEMMA InboxGrows ==
    ASSUME Shape, NEW m, inbox' = Append(inbox, m)
    PROVE  /\ Len(inbox') = Len(inbox) + 1 /\ inbox'[Len(inbox) + 1] = m
           /\ \A i \in 1..Len(inbox) : inbox'[i] = inbox[i]
BY DEF Shape

LEMMA InboxShrinks ==
    ASSUME Shape, NEW i \in 1..Len(inbox), inbox' = RemoveAt(inbox, i)
    PROVE  /\ \A k \in 1..Len(inbox') : \E n \in (1..Len(inbox)) \ {i} : inbox'[k] = inbox[n]
           /\ \A n \in (1..Len(inbox)) \ {i} : \E k \in 1..Len(inbox') : inbox'[k] = inbox[n]
<1>1. /\ Len(inbox) \in Nat /\ Len(inbox') = Len(inbox) - 1
      /\ \A k \in 1..(Len(inbox) - 1) : inbox'[k] = IF k < i THEN inbox[k] ELSE inbox[k + 1]
  BY Shifted DEF Shape
<1>2. ASSUME NEW k \in 1..Len(inbox')
      PROVE  \E n \in (1..Len(inbox)) \ {i} : inbox'[k] = inbox[n]
  <2>1. CASE k < i
    BY <1>1, <2>1
  <2>2. CASE ~(k < i)
    BY <1>1, <2>2
  <2>. QED
    BY <2>1, <2>2
<1>3. ASSUME NEW n \in (1..Len(inbox)) \ {i}
      PROVE  \E k \in 1..Len(inbox') : inbox'[k] = inbox[n]
  <2>1. CASE n < i
    BY <1>1, <2>1
  <2>2. CASE ~(n < i)
    <3>1. n - 1 \in 1..Len(inbox') /\ ~(n - 1 < i) /\ inbox'[n - 1] = inbox[n]
      BY <1>1, <2>2
    <3>. QED
      BY <3>1
  <2>. QED
    BY <2>1, <2>2
<1>. QED
  BY <1>2, <1>3

-----------------------------------------------------------------------------
(* The kinds of steps, by what they do to orders, messages and the screen.  *)

Ends(s) ==
    \E ok \in BOOLEAN, list \in Row, plan \in SUBSET Item :
        /\ Reply(s, ok, list, plan)
        /\ flight[s].op = "planUFW" => plan \subseteq User
        /\ UNCHANGED screen

GoesOn(s) ==
    \E o :
        /\ flight' = [flight EXCEPT ![s] = o] /\ IsOrder(o)
        /\ o.op = flight[s].op \/ {o.op, flight[s].op} \subseteq UserOrder \ {"list"}
        /\ o.user = flight[s].user /\ o.plan \subseteq flight[s].plan
        /\ UNCHANGED <<screen, inbox>>

Given(op, u, status, plan) ==
    /\ \E what : Gives(Order(op, u, status, plan), what)
    /\ op = "applyUFW" => plan \subseteq User /\ status = "none"
    /\ \/ UNCHANGED screen
       \/ /\ screen' = [screen EXCEPT !.loading = TRUE]
          /\ \/ screen.name = "network" /\ op \in NetworkOrder
             \/ screen.name = "doctor" /\ op \in DoctorOrder

Turned(next) ==
    /\ Becomes(next) /\ next \in Views
    /\ next.name = screen.name /\ next.list = screen.list /\ next.loading = screen.loading
    /\ next.cursor <= Height(next.list) \/ next.cursor = screen.cursor
    /\ next.name = "network" => next.mode # "ufw"

LEMMA WorkKinds ==
    ASSUME ConsoleInv, NEW s \in 1..MaxSlots, Work(s) \/ Fail(s), flight[s].op \in OrderOps
    PROVE  Ends(s) \/ GoesOn(s)
<1>1. /\ IsOrder(flight[s]) /\ fleet \in Row /\ Nobody \in Row
      /\ {} \in SUBSET Item /\ User \subseteq Item /\ backups \subseteq User
      /\ drift \subseteq User \cup {"umask"}
  BY SomeLists, ConsoleAssumption DEF ConsoleInv, Shape
<1>2. UNCHANGED screen
  BY DEF Work, Fail, ListUsers, ReadUser, RecordActive, EnableUserGateway, Toggle, Deactivate,
      RemoveUser, CreateBackup, ListBackups,
         Restore, Look, PlanWildcardDNS, ApplyWildcardDNS, PlanUFW, ApplyUFW, RunChecks,
         RunOpenClawDoctor, ApplyFixes
<1>3. ASSUME NEW ok \in BOOLEAN, NEW list \in Row, NEW plan \in SUBSET Item,
             Reply(s, ok, list, plan),
             flight[s].op = "planUFW" => plan \subseteq User
      PROVE  Ends(s)
  BY <1>2, <1>3 DEF Ends
<1>4. CASE Fail(s)
  BY <1>1, <1>3, <1>4 DEF Fail
<1>5. CASE \/ ListUsers(s) \/ EnableUserGateway(s) \/ RemoveUser(s) \/ Look(s)
           \/ RunOpenClawDoctor(s) \/ (Toggle(s) /\ Toggled(s) # "active")
           \/ ReadUser(s) /\ fleet[Of(s)] = "absent" /\ ~Is(s, "add")
  <2>1. \E ok \in BOOLEAN, list \in Row : Reply(s, ok, list, {})
    BY <1>1, <1>5 DEF ListUsers, EnableUserGateway, Toggle, ReadUser, RemoveUser, Look,
                      RunOpenClawDoctor
  <2>. QED
    BY <1>1, <1>3, <2>1
<1>6. CASE \/ CreateBackup(s) \/ ListBackups(s) \/ Restore(s) \/ PlanWildcardDNS(s)
           \/ ApplyWildcardDNS(s) \/ PlanUFW(s) \/ RunChecks(s)
  <2>1. Fixable \in SUBSET Item /\ RequiredPorts \subseteq User
    BY <1>1 DEF Fixable, RequiredPorts, Item
  <2>2. \E ok \in BOOLEAN, plan \in SUBSET Item :
            /\ Reply(s, ok, Nobody, plan)
            /\ flight[s].op = "planUFW" => plan \subseteq User
    <3>1. CASE CreateBackup(s)
      BY <1>1, <3>1 DEF CreateBackup, Is
    <3>2. CASE ListBackups(s)
      <4>1. backups \cap {Of(s)} \in SUBSET Item
        BY <1>1 DEF Item
      <4>. QED
        BY <3>2, <4>1 DEF ListBackups, Is
    <3>3. CASE Restore(s)
      <4>1. (fleet[Of(s)] # "absent" /\ flight[s].plan = {Of(s)}) \in BOOLEAN
        OBVIOUS
      <4>. QED
        BY <1>1, <3>3, <4>1, Zenon DEF Restore, Is
    <3>4. CASE PlanWildcardDNS(s)
      BY <1>1, <3>4 DEF PlanWildcardDNS, Is, Item
    <3>5. CASE ApplyWildcardDNS(s)
      <4>1. PICK ok \in BOOLEAN : Reply(s, ok, Nobody, {})
        BY <3>5 DEF ApplyWildcardDNS
      <4>. QED
        BY <1>1, <3>5, <4>1 DEF ApplyWildcardDNS, Is
    <3>6. CASE PlanUFW(s) \/ RunChecks(s)
      BY <1>1, <2>1, <3>6 DEF PlanUFW, RunChecks, Is
    <3>. QED
      BY <1>6, <3>1, <3>2, <3>3, <3>4, <3>5, <3>6
  <2>. QED
    BY <1>1, <1>3, <2>2
<1>7. CASE Proceeds(s)
  <2>1. {"add", "toggle", "remove"} \subseteq UserOrder \ {"list"}
    BY DEF UserOrder
  <2>. QED
    BY <1>7, <2>1 DEF Proceeds, GoesOn
<1>8. CASE ApplyUFW(s)
  <2>1. CASE flight[s].status # "none" /\ flight[s].todo = <<>>
    BY <1>1, <1>3, <1>8, <2>1 DEF ApplyUFW, Is
  <2>2. CASE flight[s].status = "none"
    <3>. DEFINE todo == FirewallCommands(host, flight[s].plan)
                read == [flight[s] EXCEPT !.status = "read"]
                o == [read EXCEPT !.todo = todo]
    <3>1. IsOrder(read) /\ read.op = flight[s].op /\ read.user = flight[s].user
          /\ read.plan = flight[s].plan
      BY <1>1, WithStatus
    <3>2. IsOrder(o) /\ o.op = read.op /\ o.user = read.user /\ o.plan = read.plan
      <4>. HIDE DEF todo, read
      <4>. QED
        BY <3>1, WithTodo
    <3>3. flight' = [flight EXCEPT ![s] = o] /\ UNCHANGED inbox
      BY <1>8, <2>2 DEF ApplyUFW
    <3>. HIDE DEF o, read
    <3>. QED
      BY <1>2, <3>1, <3>2, <3>3 DEF GoesOn
  <2>3. CASE flight[s].status # "none" /\ flight[s].todo # <<>>
    <3>. DEFINE rest == Tail(flight[s].todo)
                o == [flight[s] EXCEPT !.todo = rest]
    <3>1. IsOrder(o) /\ o.op = flight[s].op /\ o.user = flight[s].user /\ o.plan = flight[s].plan
      <4>. HIDE DEF rest
      <4>. QED
        BY <1>1, WithTodo
    <3>2. flight' = [flight EXCEPT ![s] = o] /\ UNCHANGED inbox
      BY <1>8, <2>3 DEF ApplyUFW
    <3>. HIDE DEF o
    <3>. QED
      BY <1>2, <3>1, <3>2 DEF GoesOn
  <2>. QED
    BY <2>1, <2>2, <2>3
<1>9. CASE ApplyFixes(s)
  <2>1. CASE \E ok \in BOOLEAN : Reply(s, ok, Nobody, {})
    BY <1>1, <1>3, <1>9, <2>1 DEF ApplyFixes, Is
  <2>2. CASE \E t \in flight[s].plan :
                 flight' = [flight EXCEPT ![s].plan = @ \ {t}] /\ UNCHANGED inbox
    <3>1. PICK t \in flight[s].plan :
                 /\ flight' = [flight EXCEPT ![s] = [flight[s] EXCEPT !.plan = @ \ {t}]]
                 /\ UNCHANGED inbox
      BY <2>2
    <3>. DEFINE o == [flight[s] EXCEPT !.plan = @ \ {t}]
    <3>2. IsOrder(o) /\ o.op = flight[s].op /\ o.user = flight[s].user
          /\ o.plan \subseteq flight[s].plan
      BY <1>1 DEF IsOrder
    <3>3. flight' = [flight EXCEPT ![s] = o] /\ UNCHANGED inbox
      BY <3>1
    <3>. HIDE DEF o
    <3>. QED
      BY <1>2, <3>2, <3>3 DEF GoesOn
  <2>. QED
    BY <1>9, <2>1, <2>2 DEF ApplyFixes
<1>10. ReadUser(s) /\ ~(fleet[Of(s)] = "absent" /\ ~Is(s, "add")) => Proceeds(s)
  BY UserProceeds
<1>11. RecordActive(s) \/ Deactivate(s) => Proceeds(s)
  BY UserProceeds
<1>12. Toggle(s) /\ Toggled(s) = "active" => Proceeds(s)
  BY UserProceeds
<1>. QED
  BY <1>4, <1>5, <1>6, <1>7, <1>8, <1>9, <1>10, <1>11, <1>12 DEF Work


\* A key that only changes the screen turns it.
LEMMA TurnKinds ==
    ASSUME Viewed,
           \/ Move \/ Escape \/ ReviewFixes
           \/ (\E mode \in {"add", "remove"} : Prompt(mode))
           \/ (On("doctor", "fix") /\ Becomes([screen EXCEPT !.mode = "report"]))
    PROVE  \E next : Turned(next)
<1>1. screen \in Views
  BY DEF Viewed
<1>2. CASE Move
  <2>1. PICK c \in 1..Height(screen.list) : Becomes([screen EXCEPT !.cursor = c])
    BY <1>2 DEF Move
  <2>. DEFINE next == [screen EXCEPT !.cursor = c]
  <2>2. next \in Views /\ next.cursor = c /\ next.name = screen.name /\ next.list = screen.list
        /\ next.loading = screen.loading
    BY <1>1 DEF Views
  <2>3. screen.name = "users" /\ c <= Height(screen.list)
    BY <1>2, <2>1 DEF Move, On
  <2>. HIDE DEF next
  <2>. QED
    BY <2>1, <2>2, <2>3 DEF Turned, next
<1>3. CASE ReviewFixes
  <2>. DEFINE next == [screen EXCEPT !.mode = "fix", !.plan = PlanFixes(screen.report)]
  <2>1. Becomes(next)
    BY <1>3 DEF ReviewFixes
  <2>2. next \in Views /\ next.cursor = screen.cursor /\ next.name = screen.name
        /\ next.list = screen.list /\ next.loading = screen.loading /\ next.mode = "fix"
    BY <1>1 DEF Views, Mode, PlanFixes
  <2>. HIDE DEF next
  <2>. QED
    BY <2>1, <2>2 DEF Turned
<1>4. ASSUME NEW mode \in Mode \ {"ufw"}, Becomes([screen EXCEPT !.mode = mode])
      PROVE  \E next : Turned(next)
  <2>. DEFINE next == [screen EXCEPT !.mode = mode]
  <2>1. next \in Views /\ next.cursor = screen.cursor /\ next.name = screen.name
        /\ next.list = screen.list /\ next.loading = screen.loading /\ next.mode = mode
    BY <1>1 DEF Views
  <2>2. Becomes(next)
    BY <1>4
  <2>. HIDE DEF next
  <2>. QED
    BY <1>4, <2>1, <2>2 DEF Turned
<1>5. ASSUME \/ Escape \/ (\E mode \in {"add", "remove"} : Prompt(mode))
             \/ (On("doctor", "fix") /\ Becomes([screen EXCEPT !.mode = "report"]))
      PROVE  \E mode \in Mode \ {"ufw"} : Becomes([screen EXCEPT !.mode = mode])
  BY <1>5 DEF Escape, Prompt, Mode
<1>. QED
  BY <1>2, <1>3, <1>4, <1>5

\* A key that sends an order.
LEMMA GivenKinds ==
    ASSUME Viewed, PortPlans,
           \/ PressToggle \/ PressBackup \/ EnterRestore \/ PressReport
           \/ (EnterReview /\ ~(On("doctor", "fix") /\ Becomes([screen EXCEPT !.mode = "report"])))
           \/ (\E u \in User : EnterAdd(u) \/ EnterRemove(u))
    PROVE  \E op \in OrderOps \ {"none"} : \E u, status, plan : Given(op, u, status, plan)
<1>1. CASE PressToggle \/ PressBackup \/ EnterRestore \/ (\E u \in User : EnterAdd(u) \/ EnterRemove(u))
  <2>1. UNCHANGED screen /\ \E op \in UserOrder : \E u, status, plan, what :
                                Gives(Order(op, u, status, plan), what)
    BY <1>1 DEF PressToggle, PressBackup, EnterRestore, EnterAdd, EnterRemove, UserOrder
  <2>2. UserOrder \subseteq OrderOps \ {"none"} /\ "applyUFW" \notin UserOrder
    BY DEF UserOrder, OrderOps
  <2>. QED
    BY <2>1, <2>2 DEF Given
<1>2. CASE PressReport
  <2>1. \E op \in {"look", "planDNS", "planUFW", "run", "openclaw"} :
            /\ Busy(Order(op, "none", "none", {}))
            /\ \/ screen.name = "network" /\ op \in NetworkOrder
               \/ screen.name = "doctor" /\ op \in DoctorOrder
    BY <1>2 DEF PressReport, On, NetworkOrder, DoctorOrder
  <2>. QED
    BY <2>1 DEF Given, Busy, OrderOps, NetworkOrder, DoctorOrder
<1>3. CASE EnterReview /\ ~(On("doctor", "fix") /\ Becomes([screen EXCEPT !.mode = "report"]))
  <2>1. \E op \in {"applyDNS", "applyUFW", "applyFixes"} :
            /\ Busy(Order(op, "none", "none", screen.plan))
            /\ \/ screen.name = "network" /\ op \in NetworkOrder
               \/ screen.name = "doctor" /\ op \in DoctorOrder
            /\ op = "applyUFW" => screen.plan \subseteq User
    BY <1>3 DEF EnterReview, On, NetworkOrder, DoctorOrder, PortPlans
  <2>. QED
    BY <2>1 DEF Given, Busy, OrderOps, NetworkOrder, DoctorOrder
<1>. QED
  BY <1>1, <1>2, <1>3

LEMMA StepKinds ==
    ASSUME ConsoleInv, Viewed, PortPlans, [Next]_vars
    PROVE  \/ \E s \in 1..MaxSlots : (Work(s) \/ Fail(s)) /\ (Ends(s) \/ GoesOn(s))
           \/ /\ UNCHANGED <<fleet, host, unread, latest>>
              /\ \/ Deliver
                 \/ \E op \in OrderOps \ {"none"} : \E u, status, plan : Given(op, u, status, plan)
                 \/ \E next : Turned(next)
                 \/ \E op \in Screens \cup {"back"} : Post(op)
                 \/ Quit
                 \/ UNCHANGED <<screen, flight, inbox, overtaken>>
<1>1. ASSUME NEW s \in 1..MaxSlots, Work(s) \/ Fail(s) PROVE Ends(s) \/ GoesOn(s)
  BY <1>1, WorkKinds DEF Viewed
<1>2. Meddle \/ UNCHANGED vars => UNCHANGED <<screen, flight, inbox, fleet, host, unread, latest, overtaken>>
  BY DEF Meddle, vars, world, history
<1>3. ASSUME (\E name \in Screens : Open(name)) \/ Back
      PROVE  UNCHANGED <<fleet, host, unread, latest>> /\ \E op \in Screens \cup {"back"} : Post(op)
  BY <1>3 DEF Open, Back, Post, world, history
<1>4. (\E next : Turned(next)) => UNCHANGED <<fleet, host, unread, latest>>
  BY DEF Turned, Becomes, world, history
<1>5. (\E op, u, status, plan : Given(op, u, status, plan)) => UNCHANGED <<fleet, host, unread, latest>>
  BY DEF Given, Gives, world
<1>6. Deliver \/ Quit => UNCHANGED <<fleet, host, unread, latest>>
  BY DEF Deliver, Quit, world, history
<1>. QED
  BY <1>1, <1>2, <1>3, <1>4, <1>5, <1>6, TurnKinds, GivenKinds DEF Next

-----------------------------------------------------------------------------
(* The screen after a message.                                             *)

LEMMA HeightType == \A list : Height(list) \in Nat /\ (Rows(list) # {} => Height(list) # 0)
<1>. SUFFICES ASSUME NEW list PROVE Height(list) \in Nat /\ (Rows(list) # {} => Height(list) # 0)
  OBVIOUS
<1>1. Len(Sorted) \in Nat
  BY ConsoleAssumption
<1>2. IsFiniteSet(1..Len(Sorted)) /\ Rows(list) \in SUBSET (1..Len(Sorted))
  BY <1>1, FS_Interval DEF Rows
<1>3. IsFiniteSet(Rows(list))
  BY <1>2, FS_Subset
<1>. QED
  BY <1>3, FS_CardinalityType, FS_EmptySet DEF Height

\* What a message may make of the screen.
Shows(next, m) ==
    /\ next \in Views
    /\ next.cursor <= Height(next.list) \/ next.cursor = 1
    /\ next.name = "network" /\ next.mode = "ufw" => next.plan \subseteq User
    /\ next.loading =>
         /\ screen.loading /\ next.name = screen.name
         /\ ~(screen.name = "network" /\ m.op \in NetworkOrder)
         /\ ~(screen.name = "doctor" /\ m.op \in DoctorOrder)
    /\ next.name = "users" /\ m.op # "users" =>
         /\ screen.name = "users"
         /\ next.list = IF m.op = "list" THEN m.list ELSE screen.list

LEMMA UsersShows ==
    ASSUME Viewed, NEW m \in Messages, screen.name = "users", m.op \in UserOrder
    PROVE  Shows(UsersAfter(m), m)
<1>1. screen \in Views
  BY DEF Viewed
<1>2. CASE m.op = "list"
  <2>. DEFINE c == ClampedCursor(m.list)
              next == [screen EXCEPT !.list = m.list, !.cursor = c]
  <2>1. UsersAfter(m) = next
    BY <1>2 DEF UsersAfter
  <2>2. c \in Nat \ {0} /\ (c <= Height(m.list) \/ c = 1)
    <3>1. Height(m.list) \in Nat /\ (Rows(m.list) # {} => Height(m.list) # 0)
      BY HeightType
    <3>2. screen.cursor \in Nat \ {0}
      BY <1>1 DEF Views
    <3>. QED
      BY <3>1, <3>2 DEF ClampedCursor
  <2>. HIDE DEF c
  <2>3. next \in Views /\ next.cursor = c /\ next.list = m.list /\ next.name = screen.name
        /\ next.loading = screen.loading
    BY <1>1, <2>2 DEF Views, Messages
  <2>. QED
    BY <1>2, <2>1, <2>2, <2>3 DEF Shows, UserOrder
<1>3. CASE m.op = "backups"
  <2>. DEFINE mode == IF m.ok THEN "restore" ELSE screen.mode
              next == [screen EXCEPT !.plan = m.plan, !.mode = mode]
  <2>1. UsersAfter(m) = next
    BY <1>3 DEF UsersAfter
  <2>2. mode \in Mode
    BY <1>1 DEF Views, Mode
  <2>. HIDE DEF mode
  <2>3. next \in Views /\ next.cursor = screen.cursor /\ next.list = screen.list
        /\ next.name = screen.name /\ next.loading = screen.loading
    BY <1>1, <2>2 DEF Views, Messages
  <2>. QED
    BY <1>3, <2>1, <2>3 DEF Shows, UserOrder, Viewed
<1>4. CASE m.op \notin {"list", "backups"} /\ m.ok
  <2>. DEFINE next == [screen EXCEPT !.mode = "list"]
  <2>1. UsersAfter(m) = next
    BY <1>4 DEF UsersAfter
  <2>2. next \in Views /\ next.cursor = screen.cursor /\ next.list = screen.list
        /\ next.name = screen.name /\ next.loading = screen.loading
    BY <1>1 DEF Views, Mode
  <2>. QED
    BY <1>4, <2>1, <2>2 DEF Shows, UserOrder, Viewed
<1>5. CASE m.op \notin {"list", "backups"} /\ ~m.ok
  <2>1. UsersAfter(m) = screen
    BY <1>5 DEF UsersAfter
  <2>. QED
    BY <1>5, <2>1 DEF Shows, UserOrder, Viewed
<1>. QED
  BY <1>2, <1>3, <1>4, <1>5

LEMMA NetworkShows ==
    ASSUME Viewed, PortPlans, NEW m \in Messages, screen.name = "network", m.op \in NetworkOrder,
           m.op = "planUFW" => m.plan \subseteq User
    PROVE  Shows(NetworkAfter(m), m)
<1>1. screen \in Views
  BY DEF Viewed
<1>2. CASE ~m.ok \/ m.op = "look"
  <2>. DEFINE next == [screen EXCEPT !.loading = FALSE]
  <2>1. NetworkAfter(m) = next
    BY <1>2 DEF NetworkAfter
  <2>2. next \in Views /\ next.cursor = screen.cursor /\ next.list = screen.list
        /\ next.name = screen.name /\ ~next.loading /\ next.plan = screen.plan
        /\ next.mode = screen.mode
    BY <1>1 DEF Views
  <2>. QED
    BY <2>1, <2>2 DEF Shows, Viewed, PortPlans
<1>3. CASE m.ok /\ m.op # "look"
  <2>. DEFINE plan == IF m.op \in {"planDNS", "planUFW"} THEN m.plan ELSE screen.plan
              mode == CASE m.op = "planDNS" -> "dns" [] m.op = "planUFW" -> "ufw"
                        [] OTHER -> "report"
              next == [screen EXCEPT !.loading = FALSE, !.plan = plan, !.mode = mode]
  <2>1. NetworkAfter(m) = next
    BY <1>3 DEF NetworkAfter
  <2>2. plan \in SUBSET Item /\ mode \in Mode /\ (mode = "ufw" => plan \subseteq User)
    BY <1>1 DEF Views, Messages, Mode
  <2>. HIDE DEF plan, mode
  <2>3. next \in Views /\ next.cursor = screen.cursor /\ next.list = screen.list
        /\ next.name = screen.name /\ ~next.loading /\ next.plan = plan /\ next.mode = mode
    BY <1>1, <2>2 DEF Views
  <2>. HIDE DEF next
  <2>. QED
    BY <2>1, <2>2, <2>3 DEF Shows, Viewed
<1>. QED
  BY <1>2, <1>3

LEMMA DoctorShows ==
    ASSUME Viewed, NEW m \in Messages, screen.name = "doctor", m.op \in DoctorOrder
    PROVE  Shows(DoctorAfter(m), m)
<1>1. screen \in Views
  BY DEF Viewed
<1>2. CASE m.op = "applyFixes"
  <2>. DEFINE mode == IF m.ok THEN "report" ELSE screen.mode
              next == [screen EXCEPT !.loading = FALSE, !.mode = mode]
  <2>1. DoctorAfter(m) = next
    BY <1>2 DEF DoctorAfter
  <2>2. mode \in Mode
    BY <1>1 DEF Views, Mode
  <2>. HIDE DEF mode
  <2>3. next \in Views /\ next.cursor = screen.cursor /\ next.list = screen.list
        /\ next.name = screen.name /\ ~next.loading
    BY <1>1, <2>2 DEF Views
  <2>. QED
    BY <2>1, <2>3 DEF Shows, Viewed
<1>3. CASE m.op # "applyFixes"
  <2>. DEFINE next == [screen EXCEPT !.loading = FALSE, !.report = m.plan]
  <2>1. DoctorAfter(m) = next
    BY <1>3 DEF DoctorAfter
  <2>2. next \in Views /\ next.cursor = screen.cursor /\ next.list = screen.list
        /\ next.name = screen.name /\ ~next.loading
    BY <1>1 DEF Views, Messages
  <2>. QED
    BY <2>1, <2>2 DEF Shows, Viewed
<1>. QED
  BY <1>2, <1>3

LEMMA NewShows ==
    ASSUME NEW name \in Screens \cup {"menu"}, NEW mode \in Mode \ {"ufw"}
    PROVE  LET next == Shown(name, mode)
           IN next \in Views /\ next.cursor = 1 /\ ~next.loading /\ next.mode = mode
              /\ next.name = name
BY DEF Shown, Views, Nobody, Row

LEMMA MessageShows ==
    ASSUME Viewed, PortPlans, NEW m \in Messages, m.op = "planUFW" => m.plan \subseteq User
    PROVE  Shows(ScreenAfter(m), m)
<1>1. CASE m.op = "back"
  <2>1. ScreenAfter(m) = Shown("menu", "list")
    BY <1>1, ConsoleAssumption DEF ScreenAfter, Menu, UserOrder, NetworkOrder, DoctorOrder
  <2>2. "menu" \in Screens \cup {"menu"} /\ "list" \in Mode \ {"ufw"}
    BY DEF Mode
  <2>. QED
    BY <1>1, <2>1, <2>2, NewShows DEF Shows
<1>2. CASE m.op \in Screens
  <2>. DEFINE mode == IF m.op = "users" THEN "list" ELSE "report"
  <2>1. ScreenAfter(m) = Shown(m.op, mode)
    BY <1>2, ConsoleAssumption DEF ScreenAfter, UserOrder, NetworkOrder, DoctorOrder
  <2>2. mode \in Mode \ {"ufw"}
    BY DEF Mode
  <2>. HIDE DEF mode
  <2>. QED
    BY <1>2, <2>1, <2>2, NewShows DEF Shows
<1>3. CASE m.op \notin Screens \cup {"back"} /\ m.op \in UserOrder /\ screen.name = "users"
  BY <1>3, UsersShows DEF ScreenAfter
<1>4. CASE m.op \notin Screens \cup {"back"} /\ m.op \in NetworkOrder /\ screen.name = "network"
  BY <1>4, NetworkShows DEF ScreenAfter
<1>5. CASE m.op \notin Screens \cup {"back"} /\ m.op \in DoctorOrder /\ screen.name = "doctor"
  BY <1>5, DoctorShows DEF ScreenAfter
<1>6. CASE /\ m.op \notin Screens \cup {"back"}
           /\ ~(m.op \in UserOrder /\ screen.name = "users")
           /\ ~(m.op \in NetworkOrder /\ screen.name = "network")
           /\ ~(m.op \in DoctorOrder /\ screen.name = "doctor")
  <2>1. ScreenAfter(m) = screen
    BY <1>6 DEF ScreenAfter
  <2>. QED
    BY <1>6, <2>1 DEF Shows, Viewed, PortPlans, UserOrder
<1>. QED
  BY <1>1, <1>2, <1>3, <1>4, <1>5, <1>6


-----------------------------------------------------------------------------
(* What the kinds of steps leave in the slots and the inbox.               *)

LEMMA EndsFields ==
    ASSUME ConsoleInv, NEW s \in 1..MaxSlots, Ends(s)
    PROVE  /\ UNCHANGED screen /\ flight'[s] = NoOrder
           /\ \A t \in (1..MaxSlots) \ {s} : flight'[t] = flight[t]
           /\ \E m \in Messages :
                /\ inbox' = Append(inbox, m) /\ m.op = flight[s].op
                /\ m.op = "planUFW" => m.plan \subseteq User
<1>1. PICK ok \in BOOLEAN, list \in Row, plan \in SUBSET Item :
        /\ Reply(s, ok, list, plan)
        /\ flight[s].op = "planUFW" => plan \subseteq User
        /\ UNCHANGED screen
  BY DEF Ends
<1>. DEFINE m == Message(flight[s].op, ok, list, plan)
<1>2. m \in Messages /\ m.op = flight[s].op /\ m.plan = plan
  BY DEF Message, Messages, ConsoleInv, Shape
<1>3. inbox' = Append(inbox, m) /\ flight' = [flight EXCEPT ![s] = NoOrder]
  BY <1>1 DEF Reply
<1>4. flight'[s] = NoOrder /\ \A t \in (1..MaxSlots) \ {s} : flight'[t] = flight[t]
  BY <1>3 DEF ConsoleInv, Shape
<1>. HIDE DEF m
<1>. QED
  BY <1>1, <1>2, <1>3, <1>4

LEMMA GoesOnFields ==
    ASSUME ConsoleInv, NEW s \in 1..MaxSlots, GoesOn(s)
    PROVE  /\ UNCHANGED <<screen, inbox>>
           /\ \/ flight'[s].op = flight[s].op
              \/ {flight'[s].op, flight[s].op} \subseteq UserOrder \ {"list"}
           /\ flight'[s].user = flight[s].user /\ flight'[s].plan \subseteq flight[s].plan
           /\ \A t \in (1..MaxSlots) \ {s} : flight'[t] = flight[t]
<1>1. PICK o :
        /\ flight' = [flight EXCEPT ![s] = o]
        /\ o.op = flight[s].op \/ {o.op, flight[s].op} \subseteq UserOrder \ {"list"}
        /\ o.user = flight[s].user /\ o.plan \subseteq flight[s].plan
        /\ UNCHANGED <<screen, inbox>>
  BY DEF GoesOn
<1>2. flight'[s] = o /\ \A t \in (1..MaxSlots) \ {s} : flight'[t] = flight[t]
  BY <1>1 DEF ConsoleInv, Shape
<1>. QED
  BY <1>1, <1>2

LEMMA SendFields ==
    ASSUME ConsoleInv, NEW o, Send(o)
    PROVE  \E f \in 1..MaxSlots :
             /\ flight[f] = NoOrder /\ flight'[f] = o
             /\ \A t \in (1..MaxSlots) \ {f} : flight'[t] = flight[t]
<1>1. Free # {} /\ flight' = [flight EXCEPT ![FreeSlot] = o]
  BY DEF Send
<1>2. FreeSlot \in Free
  BY <1>1 DEF FreeSlot
<1>3. FreeSlot \in 1..MaxSlots /\ flight[FreeSlot] = NoOrder
  BY <1>2 DEF Free
<1>. QED
  BY <1>1, <1>3 DEF ConsoleInv, Shape

LEMMA GivenFields ==
    ASSUME ConsoleInv, NEW op, NEW u, NEW status, NEW plan, Given(op, u, status, plan)
    PROVE  /\ UNCHANGED inbox
           /\ \E f \in 1..MaxSlots :
                /\ flight[f] = NoOrder
                /\ flight'[f].op = op /\ flight'[f].user = u
                /\ flight'[f].status = status /\ flight'[f].plan = plan
                /\ \A t \in (1..MaxSlots) \ {f} : flight'[t] = flight[t]
<1>. DEFINE o == Order(op, u, status, plan)
<1>1. Send(o) /\ UNCHANGED inbox
  BY DEF Given, Gives
<1>2. o.op = op /\ o.user = u /\ o.status = status /\ o.plan = plan
  BY DEF Order
<1>. HIDE DEF o
<1>. QED
  BY <1>1, <1>2, SendFields

LEMMA DeliverFields ==
    ASSUME ConsoleInv, Deliver
    PROVE  \E i \in 1..Len(inbox) :
             /\ inbox[i] \in Messages /\ screen' = ScreenAfter(inbox[i])
             /\ inbox' = RemoveAt(inbox, i)
             /\ overtaken' = IF screen.name = "users" /\ inbox[i].op = "list"
                             THEN Overtakes(inbox[i], inbox') ELSE overtaken
             /\ \/ UNCHANGED flight /\ ~Reloads(inbox[i]) /\ inbox[i].op # "users"
                \/ \E f \in 1..MaxSlots :
                     /\ flight[f] = NoOrder /\ flight'[f].op = "list"
                     /\ \A t \in (1..MaxSlots) \ {f} : flight'[t] = flight[t]
<1>1. PICK i \in 1..Len(inbox) :
        /\ screen' = ScreenAfter(inbox[i])
        /\ IF Reloads(inbox[i]) \/ inbox[i].op = "users"
           THEN Send(Order("list", "none", "none", {})) ELSE UNCHANGED flight
        /\ inbox' = RemoveAt(inbox, i)
        /\ overtaken' = IF screen.name = "users" /\ inbox[i].op = "list"
                        THEN Overtakes(inbox[i], RemoveAt(inbox, i)) ELSE overtaken
  BY DEF Deliver
<1>2. inbox[i] \in Messages
  BY DEF ConsoleInv, Shape
<1>3. Order("list", "none", "none", {}).op = "list"
  BY DEF Order
<1>4. CASE Reloads(inbox[i]) \/ inbox[i].op = "users"
  <2>1. \E f \in 1..MaxSlots :
          /\ flight[f] = NoOrder /\ flight'[f] = Order("list", "none", "none", {})
          /\ \A t \in (1..MaxSlots) \ {f} : flight'[t] = flight[t]
    BY <1>1, <1>4, SendFields
  <2>. QED
    BY <1>1, <1>2, <1>3, <2>1
<1>5. CASE ~(Reloads(inbox[i]) \/ inbox[i].op = "users")
  BY <1>1, <1>2, <1>5
<1>. QED
  BY <1>4, <1>5

LEMMA PostFields ==
    ASSUME ConsoleInv, NEW op \in Screens \cup {"back"}, Post(op)
    PROVE  /\ UNCHANGED <<screen, flight>>
           /\ \E m \in Messages : inbox' = Append(inbox, m) /\ m.op = op
<1>. DEFINE m == Message(op, TRUE, Nobody, {})
<1>1. m \in Messages /\ m.op = op
  BY DEF Message, Messages, Ops, Nobody, Row
<1>2. inbox' = Append(inbox, m)
  BY DEF Post
<1>. HIDE DEF m
<1>. QED
  BY <1>1, <1>2 DEF Post

LEMMA NoOrderOp == NoOrder.op = "none" /\ "none" \notin UserOrder \cup NetworkOrder \cup DoctorOrder
BY DEF NoOrder, UserOrder, NetworkOrder, DoctorOrder

-----------------------------------------------------------------------------
(* Types and plans.                                                        *)

LEMMA InitViewed == Init => Viewed /\ Counted /\ PortPlans /\ Openings /\ Indicated /\ Fresh
<1>. SUFFICES ASSUME Init
              PROVE  Viewed /\ Counted /\ PortPlans /\ Openings /\ Indicated /\ Fresh
  OBVIOUS
<1>1. screen \in Views /\ screen.cursor = 1 /\ ~screen.loading /\ screen.name = "menu"
      /\ screen.mode = "list"
  <2>1. screen = Shown("menu", "list")
    BY DEF Init, Menu
  <2>2. "menu" \in Screens \cup {"menu"} /\ "list" \in Mode \ {"ufw"}
    BY DEF Mode
  <2>. QED
    BY <2>1, <2>2, NewShows
<1>2. \A s \in 1..MaxSlots : flight[s] = NoOrder
  BY DEF Init
<1>3. inbox = <<>>
  BY DEF Init
<1>4. Counted
  <2>1. host \subseteq {"firewall", "deny"} \cup User /\ dns \in {"absent", "tunnel", "other"}
    BY ConsoleAssumption DEF Init
  <2>2. opens \in 0..MaxOpens /\ orders \in 0..MaxOrders /\ budget \in 0..Budget
    BY ConsoleAssumption DEF Init
  <2>3. latest \in Row /\ overtaken \in BOOLEAN
    BY DEF Init, Nobody, Row
  <2>. QED
    BY <2>1, <2>2, <2>3 DEF Counted
<1>. QED
  BY <1>1, <1>2, <1>3, <1>4, NoOrderOp
  DEF Viewed, OrderOps, PortPlans, Openings, Indicated, BusyIsTrue, Fresh, NetworkOrder

\* A new order, message or screen is of the type the old ones were.
LEMMA ViewedStep ==
    ASSUME ConsoleInv, Viewed, PortPlans, [Next]_vars
    PROVE  Viewed' /\ PortPlans'
<1>. DEFINE Inbox == \A i \in 1..Len(inbox) : inbox[i].op = "planUFW" => inbox[i].plan \subseteq User
            Slots == \A s \in 1..MaxSlots :
                       /\ flight[s].op \in OrderOps
                       /\ flight[s].op = "applyUFW" => flight[s].plan \subseteq User
            View(sc) == /\ sc \in Views
                        /\ sc.cursor <= Height(sc.list) \/ sc.cursor = 1
                        /\ sc.name = "network" /\ sc.mode = "ufw" => sc.plan \subseteq User
<1>. SUFFICES Inbox' /\ Slots' /\ View(screen')
  BY DEF Viewed, PortPlans
<1>1. Inbox /\ Slots /\ View(screen) /\ Len(inbox) \in Nat
  BY DEF Viewed, PortPlans, ConsoleInv, Shape
<1>2. "none" \in OrderOps /\ NoOrder.op = "none" /\ "list" \in OrderOps
  BY NoOrderOp DEF OrderOps, UserOrder
<1>3. ASSUME NEW m, inbox' = Append(inbox, m), m.op = "planUFW" => m.plan \subseteq User
      PROVE  Inbox'
  BY <1>1, <1>3, InboxGrows DEF ConsoleInv
<1>4. ASSUME NEW s \in 1..MaxSlots, Ends(s) PROVE Inbox' /\ Slots' /\ View(screen')
  BY <1>1, <1>2, <1>3, <1>4, EndsFields
<1>5. ASSUME NEW s \in 1..MaxSlots, GoesOn(s) PROVE Inbox' /\ Slots' /\ View(screen')
  BY <1>1, <1>5, GoesOnFields DEF OrderOps, UserOrder
<1>6. CASE Deliver
  <2>1. PICK i \in 1..Len(inbox) :
             /\ inbox[i] \in Messages /\ screen' = ScreenAfter(inbox[i])
             /\ inbox' = RemoveAt(inbox, i)
             /\ \/ UNCHANGED flight
                \/ \E f \in 1..MaxSlots :
                     /\ flight'[f].op = "list"
                     /\ \A t \in (1..MaxSlots) \ {f} : flight'[t] = flight[t]
    BY <1>6, DeliverFields
  <2>2. Shows(screen', inbox[i])
    BY <1>1, <2>1, MessageShows
  <2>3. Inbox'
    <3>1. \A k \in 1..Len(inbox') : \E n \in 1..Len(inbox) : inbox'[k] = inbox[n]
      BY <2>1, InboxShrinks DEF ConsoleInv
    <3>. QED
      BY <1>1, <3>1
  <2>4. Slots'
    BY <1>1, <1>2, <2>1
  <2>. QED
    BY <2>2, <2>3, <2>4 DEF Shows
<1>7. ASSUME NEW op \in OrderOps \ {"none"}, NEW u, NEW status, NEW plan, Given(op, u, status, plan)
      PROVE  Inbox' /\ Slots' /\ View(screen')
  <2>1. Inbox' /\ Slots'
    BY <1>1, <1>7, GivenFields DEF Given
  <2>2. CASE UNCHANGED screen
    BY <1>1, <2>1, <2>2
  <2>3. CASE screen' = [screen EXCEPT !.loading = TRUE]
    <3>1. screen' \in Views /\ screen'.cursor = screen.cursor /\ screen'.list = screen.list
          /\ screen'.name = screen.name /\ screen'.mode = screen.mode /\ screen'.plan = screen.plan
      BY <1>1, <2>3 DEF Views
    <3>. QED
      BY <1>1, <2>1, <3>1
  <2>. QED
    BY <1>7, <2>2, <2>3 DEF Given
<1>8. ASSUME NEW next, Turned(next) PROVE Inbox' /\ Slots' /\ View(screen')
  BY <1>1, <1>8 DEF Turned, Becomes
<1>9. ASSUME NEW op \in Screens \cup {"back"}, Post(op) PROVE Inbox' /\ Slots' /\ View(screen')
  <2>1. op # "planUFW"
    BY ConsoleAssumption
  <2>. QED
    BY <1>1, <1>3, <1>9, <2>1, PostFields
<1>10. CASE Quit
  <2>1. screen' = Shown("menu", "list") /\ "menu" \in Screens \cup {"menu"}
        /\ "list" \in Mode \ {"ufw"} /\ inbox' = <<>> /\ \A s \in 1..MaxSlots : flight'[s] = NoOrder
    BY <1>10 DEF Quit, Menu, Mode
  <2>. QED
    BY <1>2, <2>1, NewShows
<1>11. CASE UNCHANGED <<screen, flight, inbox>>
  BY <1>1, <1>11
<1>. QED
  BY <1>4, <1>5, <1>6, <1>7, <1>8, <1>9, <1>10, <1>11, StepKinds

\* While a screen says that an order runs, the order or its result is there.
LEMMA IndicatedStep ==
    ASSUME ConsoleInv, Viewed, PortPlans, Indicated, [Next]_vars
    PROVE  Indicated'
<1>. DEFINE Family(name) == IF name = "network" THEN NetworkOrder ELSE DoctorOrder
            Runs == \/ \E s \in 1..MaxSlots : flight[s].op \in Family(screen.name)
                    \/ \E i \in 1..Len(inbox) : inbox[i].op \in Family(screen.name)
<1>1. Indicated <=> (screen.loading => screen.name \in {"network", "doctor"} /\ Runs)
  BY DEF Indicated, BusyIsTrue
<1>2. Indicated' <=> (screen'.loading => screen'.name \in {"network", "doctor"} /\ Runs')
  BY DEF Indicated, BusyIsTrue
<1>3. NoOrder.op \notin Family("network") \cup Family("doctor") /\ Len(inbox) \in Nat
  BY NoOrderOp DEF ConsoleInv, Shape
<1>4. ASSUME NEW s \in 1..MaxSlots, Ends(s) PROVE Indicated'
  <2>1. PICK m : inbox' = Append(inbox, m) /\ m.op = flight[s].op
    BY <1>4, EndsFields
  <2>2. UNCHANGED screen /\ \A t \in (1..MaxSlots) \ {s} : flight'[t] = flight[t]
    BY <1>4, EndsFields
  <2>3. /\ Len(inbox') = Len(inbox) + 1 /\ inbox'[Len(inbox) + 1].op = flight[s].op
        /\ \A i \in 1..Len(inbox) : inbox'[i] = inbox[i]
    BY <2>1, InboxGrows DEF ConsoleInv
  <2>4. Runs => Runs'
    <3>1. ASSUME NEW t \in 1..MaxSlots, flight[t].op \in Family(screen.name) PROVE Runs'
      <4>1. CASE t = s
        <5>1. Len(inbox) + 1 \in 1..Len(inbox')
          BY <1>3, <2>3
        <5>. QED
          BY <2>2, <2>3, <3>1, <4>1, <5>1
      <4>2. CASE t # s
        BY <2>2, <3>1, <4>2
      <4>. QED
        BY <4>1, <4>2
    <3>2. ASSUME NEW i \in 1..Len(inbox), inbox[i].op \in Family(screen.name) PROVE Runs'
      <4>1. i \in 1..Len(inbox')
        BY <1>3, <2>3
      <4>. QED
        BY <2>2, <2>3, <3>2, <4>1
    <3>. QED
      BY <3>1, <3>2
  <2>. QED
    BY <1>1, <1>2, <2>2, <2>4
<1>5. ASSUME NEW s \in 1..MaxSlots, GoesOn(s) PROVE Indicated'
  <2>1. UserOrder \cap (Family("network") \cup Family("doctor")) = {}
    BY DEF UserOrder, NetworkOrder, DoctorOrder
  <2>2. /\ UNCHANGED <<screen, inbox>>
        /\ flight'[s].op = flight[s].op \/ {flight'[s].op, flight[s].op} \subseteq UserOrder
        /\ \A t \in (1..MaxSlots) \ {s} : flight'[t] = flight[t]
    BY <1>5, GoesOnFields
  <2>3. SUFFICES ASSUME screen.loading, screen.name \in {"network", "doctor"}, Runs PROVE Runs'
    BY <1>1, <1>2, <2>2
  <2>4. \A t \in 1..MaxSlots :
            flight[t].op \in Family(screen.name) => flight'[t].op = flight[t].op
    BY <2>1, <2>2, <2>3
  <2>. QED
    BY <2>2, <2>3, <2>4
<1>6. CASE Deliver
  <2>1. PICK i \in 1..Len(inbox) :
             /\ inbox[i] \in Messages /\ screen' = ScreenAfter(inbox[i])
             /\ inbox' = RemoveAt(inbox, i)
             /\ \/ UNCHANGED flight
                \/ \E f \in 1..MaxSlots :
                     /\ flight[f] = NoOrder
                     /\ \A t \in (1..MaxSlots) \ {f} : flight'[t] = flight[t]
    BY <1>6, DeliverFields
  <2>2. Shows(screen', inbox[i])
    BY <2>1, MessageShows DEF PortPlans
  <2>3. SUFFICES ASSUME screen'.loading PROVE screen'.name \in {"network", "doctor"} /\ Runs'
    BY <1>2
  <2>4. /\ screen.name \in {"network", "doctor"} /\ Runs /\ screen'.name = screen.name
        /\ inbox[i].op \notin Family(screen.name)
    BY <1>1, <2>2, <2>3 DEF Shows
  <2>5. ASSUME NEW n \in 1..Len(inbox), inbox[n].op \in Family(screen.name) PROVE Runs'
    <3>1. n \in (1..Len(inbox)) \ {i}
      BY <2>4, <2>5
    <3>2. PICK k \in 1..Len(inbox') : inbox'[k] = inbox[n]
      BY <2>1, <3>1, InboxShrinks DEF ConsoleInv
    <3>. QED
      BY <2>4, <2>5, <3>2
  <2>6. ASSUME NEW t \in 1..MaxSlots, flight[t].op \in Family(screen.name) PROVE Runs'
    <3>1. flight[t] # NoOrder
      BY <1>3, <2>4, <2>6
    <3>2. flight'[t] = flight[t]
      BY <2>1, <3>1
    <3>. QED
      BY <2>4, <2>6, <3>2
  <2>. QED
    BY <2>4, <2>5, <2>6
<1>7. ASSUME NEW op \in OrderOps \ {"none"}, NEW u, NEW status, NEW plan, Given(op, u, status, plan)
      PROVE  Indicated'
  <2>1. UNCHANGED inbox
    BY <1>7, GivenFields
  <2>2. PICK f \in 1..MaxSlots :
          /\ flight[f] = NoOrder /\ flight'[f].op = op
          /\ \A t \in (1..MaxSlots) \ {f} : flight'[t] = flight[t]
    BY <1>7, GivenFields
  <2>3. CASE UNCHANGED screen
    <3>1. SUFFICES ASSUME screen.loading, screen.name \in {"network", "doctor"}, Runs PROVE Runs'
      BY <1>1, <1>2, <2>3
    <3>2. \A t \in 1..MaxSlots : flight[t].op \in Family(screen.name) => t # f
      BY <1>3, <2>2, <3>1
    <3>. QED
      BY <2>1, <2>2, <2>3, <3>1, <3>2
  <2>4. CASE /\ screen' = [screen EXCEPT !.loading = TRUE]
             /\ \/ screen.name = "network" /\ op \in NetworkOrder
                \/ screen.name = "doctor" /\ op \in DoctorOrder
    <3>1. screen'.name = screen.name
      BY <2>4 DEF Viewed, Views
    <3>. QED
      BY <1>2, <2>2, <2>4, <3>1
  <2>. QED
    BY <1>7, <2>3, <2>4 DEF Given
<1>8. ASSUME NEW next, Turned(next) PROVE Indicated'
  BY <1>1, <1>2, <1>8 DEF Turned, Becomes
<1>9. ASSUME NEW op \in Screens \cup {"back"}, Post(op) PROVE Indicated'
  <2>1. PICK m : inbox' = Append(inbox, m)
    BY <1>9, PostFields
  <2>2. /\ Len(inbox') = Len(inbox) + 1 /\ \A i \in 1..Len(inbox) : inbox'[i] = inbox[i]
    BY <2>1, InboxGrows DEF ConsoleInv
  <2>3. UNCHANGED <<screen, flight>>
    BY <1>9, PostFields
  <2>4. \A i \in 1..Len(inbox) : i \in 1..Len(inbox')
    BY <1>3, <2>2
  <2>. QED
    BY <1>1, <1>2, <2>2, <2>3, <2>4
<1>10. CASE Quit
  <2>1. screen' = Shown("menu", "list") /\ ~Shown("menu", "list").loading
    BY <1>10 DEF Quit, Menu, Shown
  <2>. QED
    BY <1>2, <2>1
<1>11. CASE UNCHANGED <<screen, flight, inbox>>
  BY <1>1, <1>2, <1>11
<1>. QED
  BY <1>4, <1>5, <1>6, <1>7, <1>8, <1>9, <1>10, <1>11, StepKinds

-----------------------------------------------------------------------------
(* The firewall.                                                           *)

LEMMA SetToSeqMembers ==
    ASSUME NEW S, IsFiniteSet(S)
    PROVE  LET q == SetToSeq(S)
           IN /\ q \in Seq(S) /\ Len(q) \in Nat /\ \A i \in 1..Len(q) : q[i] \in S
              /\ \A x \in S : \E i \in 1..Len(q) : q[i] = x
<1>. DEFINE n == Cardinality(S)
            q == SetToSeq(S)
<1>1. n \in Nat /\ Bijection(1..n, S) # {}
  BY FS_CardinalityType DEF ExistsBijection
<1>2. \E f \in [1..n -> S] : IsInjective(f)
  BY <1>1 DEF Bijection, Injection
<1>3. q \in [1..n -> S] /\ IsInjective(q)
  BY <1>2 DEF SetToSeq
<1>. HIDE DEF q
<1>4. q \in Injection(1..n, S)
  BY <1>3 DEF Injection
<1>5. Cardinality(1..n) = n
  BY <1>1, FS_Interval
<1>6. q \in Surjection(1..n, S)
  BY <1>4, <1>5, FS_Injection
<1>7. q \in Seq(S) /\ Len(q) = n
  BY <1>1, <1>3
<1>8. \A t \in S : \E i \in 1..n : q[i] = t
  BY <1>6 DEF Surjection
<1>9. \A i \in 1..n : q[i] \in S
  BY <1>3
<1>. QED
  BY <1>1, <1>7, <1>8, <1>9 DEF q

LEMMA HeadAndTail ==
    ASSUME NEW S, NEW q \in Seq(S), q # <<>>
    PROVE  /\ Len(q) \in Nat \ {0} /\ Head(q) = q[1] /\ q[1] \in S
           /\ Tail(q) \in Seq(S) /\ Len(Tail(q)) = Len(q) - 1
           /\ \A i \in 1..(Len(q) - 1) : Tail(q)[i] = q[i + 1]
           /\ Len(q) = 1 => \A i \in 1..Len(q) : q[i] = Head(q)
OBVIOUS

LEMMA UfwAfter ==
    ASSUME NEW h
    PROVE  /\ After("ufw deny", h) = h \cup {"deny"}
           /\ After("ufw enable", h) = h \cup {"firewall"}
           /\ After("ufw reload", h) = h /\ After("ufw allow outgoing", h) = h
BY DEF After, Fixes

LEMMA UserIsNoCommand == User \cap (UfwCommand \cup {"firewall", "deny"}) = {}
<1>1. {"ufw deny", "ufw enable"} \subseteq DOMAIN Fixes
  BY DEF Fixes
<1>2. UfwCommand \cup {"firewall", "deny"} \subseteq NoPort
  BY <1>1 DEF UfwCommand, NoPort
<1>3. User \cap NoPort = {}
  BY ConsoleAssumption
<1>. QED
  BY <1>2, <1>3, Zenon

LEMMA TwoThen ==
    ASSUME NEW S, NEW x \in S, NEW y \in S, NEW b \in Seq(S)
    PROVE  LET c == <<x, y>> \o b
           IN /\ c \in Seq(S) /\ Len(c) = Len(b) + 2 /\ Len(b) \in Nat
              /\ c[1] = x /\ 1 \in 1..Len(c)
              /\ \A k \in 1..Len(b) : k + 2 \in 1..Len(c) /\ c[k + 2] = b[k]
              /\ \A k \in 1..Len(c) : c[k] \in {x, y} \/ \E n \in 1..Len(b) : c[k] = b[n]
              /\ \A k \in 1..(Len(c) - 1) : k \in 1..Len(c)
<1>. DEFINE a == <<x, y>>
            c == a \o b
<1>1. a \in Seq(S) /\ Len(a) = 2 /\ a[1] = x /\ a[2] = y /\ Len(b) \in Nat
  OBVIOUS
<1>. HIDE DEF a
<1>2. /\ c \in Seq(S) /\ Len(c) = Len(a) + Len(b)
      /\ \A k \in 1..(Len(a) + Len(b)) : c[k] = IF k <= Len(a) THEN a[k] ELSE b[k - Len(a)]
  BY <1>1, Joined
<1>. HIDE DEF c
<1>3. Len(c) = Len(b) + 2 /\ 1 \in 1..Len(c) /\ c[1] = x /\ (2 \in 1..Len(c) => c[2] = y)
  BY <1>1, <1>2
<1>4. \A k \in 1..Len(b) : k + 2 \in 1..Len(c) /\ c[k + 2] = b[k]
  BY <1>1, <1>2
<1>5. ASSUME NEW k \in 1..Len(c) PROVE c[k] \in {x, y} \/ \E n \in 1..Len(b) : c[k] = b[n]
  <2>1. CASE k \in {1, 2}
    BY <1>3, <2>1
  <2>2. CASE k \notin {1, 2}
    <3>1. k - 2 \in 1..Len(b) /\ c[k] = b[k - 2]
      BY <1>1, <1>2, <2>2
    <3>. QED
      BY <3>1
  <2>. QED
    BY <2>1, <2>2
<1>6. \A k \in 1..(Len(c) - 1) : k \in 1..Len(c)
  BY <1>2, <1>3
<1>. QED
  BY <1>1, <1>2, <1>3, <1>4, <1>5, <1>6 DEF c, a

LEMMA ThenOne ==
    ASSUME NEW S, NEW x \in S, NEW a \in Seq(S)
    PROVE  LET c == a \o <<x>>
           IN /\ c \in Seq(S) /\ Len(c) - 1 = Len(a) /\ Len(a) \in Nat
              /\ \A k \in 1..Len(a) : k \in 1..Len(c) /\ c[k] = a[k]
<1>. DEFINE b == <<x>>
            c == a \o b
<1>1. b \in Seq(S) /\ Len(b) = 1 /\ Len(a) \in Nat
  OBVIOUS
<1>. HIDE DEF b
<1>2. /\ c \in Seq(S) /\ Len(c) = Len(a) + Len(b)
      /\ \A k \in 1..(Len(a) + Len(b)) : c[k] = IF k <= Len(a) THEN a[k] ELSE b[k - Len(a)]
  BY <1>1, Joined
<1>. HIDE DEF c
<1>. QED
  BY <1>1, <1>2 DEF c, b

\* Commands that first deny what comes in, then allow the ports that are not open.
LEMMA DenyThenAllow ==
    ASSUME NEW plan \in SUBSET User, NEW second \in {"ufw reload", "ufw allow outgoing"},
           NEW ports, ports \in Seq(UfwCommand \cup User),
           \A i \in 1..Len(ports) : ports[i] \in plan,
           \A p \in plan : p \in host \/ \E i \in 1..Len(ports) : ports[i] = p
    PROVE  LET todo == <<"ufw deny", second>> \o ports
           IN /\ Opening(todo, plan)
              /\ \A i \in 1..Len(todo) : todo[i] # "ufw enable"
<1>. DEFINE deny == "ufw deny"
            enable == "ufw enable"
            todo == <<deny, second>> \o ports
            Command == UfwCommand \cup User
            Allowed == {deny, second} \cup plan
<1>1. deny \in Command /\ second \in Command
  BY DEF UfwCommand
<1>2. enable \notin Allowed
  BY UserIsNoCommand DEF UfwCommand
<1>. HIDE DEF deny, enable, Command
<1>3. /\ todo \in Seq(Command) /\ Len(todo) = Len(ports) + 2 /\ Len(ports) \in Nat
      /\ todo[1] = deny /\ 1 \in 1..Len(todo)
      /\ \A k \in 1..Len(ports) : k + 2 \in 1..Len(todo) /\ todo[k + 2] = ports[k]
      /\ \A k \in 1..Len(todo) :
             todo[k] \in {deny, second} \/ \E n \in 1..Len(ports) : todo[k] = ports[n]
      /\ \A k \in 1..(Len(todo) - 1) : k \in 1..Len(todo)
  <2>1. ports \in Seq(Command)
    BY DEF Command
  <2>. QED
    BY <1>1, <2>1, TwoThen, Zenon
<1>. HIDE DEF todo
<1>4. \A k \in 1..Len(todo) : todo[k] \in Allowed
  BY <1>3
<1>. HIDE DEF Allowed
<1>5. \A k \in 1..Len(todo) : todo[k] # enable
  BY <1>2, <1>4, Zenon
<1>6. ASSUME NEW p \in plan, p \notin host PROVE \E i \in 1..Len(todo) : todo[i] = p
  <2>1. PICK i \in 1..Len(ports) : ports[i] = p
    BY <1>6
  <2>. QED
    BY <1>3, <2>1
<1>7. Opening(todo, plan)
  BY <1>3, <1>5, <1>6, Zenon DEF Opening, deny, enable, Command
<1>. QED
  BY <1>5, <1>7, Zenon DEF todo, deny, enable

\* The commands for a plan open what is not open, and turn the firewall on at the end.
LEMMA FirewallPlan ==
    ASSUME NEW plan \in SUBSET User
    PROVE  Opening(FirewallCommands(host, plan), plan)
<1>1. IsFiniteSet(plan) /\ IsFiniteSet(plan \ host)
  BY ConsoleAssumption, FS_Subset
<1>. DEFINE all == SetToSeq(plan)
            rest == SetToSeq(plan \ host)
            Command == UfwCommand \cup User
            todo == FirewallCommands(host, plan)
<1>2. /\ all \in Seq(plan) /\ Len(all) \in Nat /\ \A i \in 1..Len(all) : all[i] \in plan
      /\ \A p \in plan : \E i \in 1..Len(all) : all[i] = p
  BY <1>1, SetToSeqMembers
<1>3. /\ rest \in Seq(plan \ host) /\ Len(rest) \in Nat
      /\ \A i \in 1..Len(rest) : rest[i] \in plan \ host
      /\ \A p \in plan \ host : \E i \in 1..Len(rest) : rest[i] = p
  BY <1>1, SetToSeqMembers
<1>4. all \in Seq(Command) /\ rest \in Seq(Command)
  BY <1>2, <1>3, SeqGrows
<1>5. \A p \in plan : p # "ufw enable"
  BY UserIsNoCommand DEF UfwCommand
<1>. HIDE DEF all, rest
<1>6. CASE "firewall" \in host /\ "deny" \in host
  <2>1. todo = <<>> \o rest
    BY <1>6 DEF FirewallCommands, UnlessHeld, rest
  <2>2. todo = rest
    BY <1>3, <2>1
  <2>. HIDE DEF todo
  <2>3. \A i \in 1..(Len(rest) - 1) : i \in 1..Len(rest)
    BY <1>3
  <2>5. \A i \in 1..(Len(rest) - 1) : rest[i] # "ufw enable"
    BY <1>3, <1>5, <2>3, Zenon
  <2>4. \A p \in plan : p \in host \/ \E i \in 1..Len(rest) : rest[i] = p
    BY <1>3
  <2>. QED
    BY <1>4, <1>6, <2>2, <2>4, <2>5, Zenon DEF Opening, todo
<1>7. CASE "firewall" \in host /\ "deny" \notin host
  <2>1. todo = <<"ufw deny", "ufw reload">> \o rest
    BY <1>7 DEF FirewallCommands, UnlessHeld, rest
  <2>2. /\ \A i \in 1..Len(rest) : rest[i] \in plan
        /\ \A p \in plan : p \in host \/ \E i \in 1..Len(rest) : rest[i] = p
    BY <1>3
  <2>. QED
    BY <1>3, <1>4, <2>1, <2>2, DenyThenAllow
<1>8. CASE "firewall" \notin host
  <2>. DEFINE most == <<"ufw deny", "ufw allow outgoing">> \o all
  <2>1. todo = most \o <<"ufw enable">>
    BY <1>8 DEF FirewallCommands, all
  <2>2. Opening(most, plan) /\ \A i \in 1..Len(most) : most[i] # "ufw enable"
    BY <1>2, <1>4, DenyThenAllow
  <2>3. "ufw enable" \in Command /\ most \in Seq(Command)
    BY <2>2 DEF UfwCommand, Opening
  <2>. HIDE DEF most, Command, todo
  <2>4. /\ todo \in Seq(Command) /\ Len(todo) - 1 = Len(most)
        /\ \A k \in 1..Len(most) : k \in 1..Len(todo) /\ todo[k] = most[k]
    BY <2>1, <2>3, ThenOne
  <2>5. \A i \in 1..(Len(todo) - 1) : todo[i] # "ufw enable"
    BY <2>2, <2>4, Zenon
  <2>6. \A p : (\E i \in 1..Len(most) : most[i] = p) => \E i \in 1..Len(todo) : todo[i] = p
    BY <2>4
  <2>. QED
    BY <2>2, <2>4, <2>5, <2>6, Zenon DEF Opening, Command, todo
<1>. QED
  BY <1>6, <1>7, <1>8

\* A command opens its port, or keeps the promise of the rest.
LEMMA CommandDone ==
    ASSUME NEW todo, NEW plan \in SUBSET User, Opening(todo, plan), todo # <<>>,
           NEW command, command = Head(todo),
           host' = IF command \in User THEN host \cup {command} ELSE After(command, host),
           host \subseteq {"firewall", "deny"} \cup User
    PROVE  /\ host \subseteq host' /\ host' \subseteq {"firewall", "deny"} \cup User
           /\ "firewall" \in host' \ host => Len(todo) = 1 /\ command = "ufw enable"
           /\ Opening(Tail(todo), plan)'
<1>. DEFINE Command == UfwCommand \cup User
            rest == Tail(todo)
<1>1. todo \in Seq(Command)
  BY DEF Opening
<1>. HIDE DEF Command
<1>2. /\ Len(todo) \in Nat \ {0} /\ command = todo[1] /\ command \in Command
      /\ rest \in Seq(Command) /\ Len(rest) = Len(todo) - 1
      /\ \A i \in 1..(Len(todo) - 1) : rest[i] = todo[i + 1]
  BY <1>1, HeadAndTail
<1>. HIDE DEF rest
<1>3. /\ command \in User => host' = host \cup {command}
      /\ command = "ufw deny" => host' = host \cup {"deny"}
      /\ command = "ufw enable" => host' = host \cup {"firewall"}
      /\ command \in {"ufw reload", "ufw allow outgoing"} => host' = host
  <2>1. command \in UfwCommand => command \notin User
    BY UserIsNoCommand
  <2>2. command \in UfwCommand => host' = After(command, host)
    BY <2>1
  <2>. QED
    BY <2>2, UfwAfter DEF UfwCommand
<1>4. host \subseteq host' /\ host' \subseteq {"firewall", "deny"} \cup User
  BY <1>2, <1>3 DEF Command, UfwCommand
<1>5. "firewall" \in host' \ host => command = "ufw enable"
  BY <1>2, <1>3, UserIsNoCommand DEF Command, UfwCommand
<1>6. command = "ufw enable" => Len(todo) = 1
  <2>1. \A i \in 1..(Len(todo) - 1) : todo[i] # "ufw enable"
    BY DEF Opening
  <2>2. Len(todo) # 1 => 1 \in 1..(Len(todo) - 1)
    BY <1>2
  <2>. QED
    BY <1>2, <2>1, <2>2, Zenon
<1>7. \A k \in 1..Len(todo) : k = 1 \/ (k - 1 \in 1..Len(rest) /\ rest[k - 1] = todo[k])
  BY <1>2
<1>8. ASSUME NEW p \in plan, p \notin host' PROVE \E i \in 1..Len(rest) : rest[i] = p
  <2>1. p \notin host
    BY <1>4, <1>8
  <2>2. PICK k \in 1..Len(todo) : todo[k] = p
    BY <2>1 DEF Opening
  <2>3. k # 1
    <3>1. ASSUME command = p PROVE FALSE
      <4>1. CASE command \in User
        BY <1>3, <1>8, <3>1, <4>1
      <4>. QED
        BY <1>8, <3>1, <4>1
    <3>. QED
      BY <1>2, <2>2, <3>1
  <2>. QED
    BY <1>7, <2>2, <2>3
<1>9. "deny" \in host' \/ \E i \in 1..Len(rest) : rest[i] = "ufw deny"
  <2>1. CASE "deny" \in host
    BY <1>4, <2>1
  <2>2. CASE "deny" \notin host
    <3>1. PICK k \in 1..Len(todo) : todo[k] = "ufw deny"
      BY <2>2 DEF Opening
    <3>. QED
      BY <1>2, <1>3, <1>7, <3>1
  <2>. QED
    BY <2>1, <2>2
<1>10. \A i \in 1..(Len(rest) - 1) : rest[i] # "ufw enable"
  <2>1. \A i \in 1..(Len(todo) - 1) : todo[i] # "ufw enable"
    BY DEF Opening
  <2>2. \A i \in 1..(Len(rest) - 1) : i + 1 \in 1..(Len(todo) - 1) /\ rest[i] = todo[i + 1]
    BY <1>2
  <2>. QED
    BY <2>1, <2>2
<1>11. Opening(rest, plan)'
  BY <1>2, <1>8, <1>9, <1>10 DEF Opening, Command
<1>. QED
  BY <1>4, <1>5, <1>6, <1>11 DEF rest

\* A plan that is carried out leaves its ports open.
LEMMA PlanDone ==
    ASSUME NEW plan \in SUBSET User, NEW todo, Opening(todo, plan),
           todo = <<>> \/ (Len(todo) = 1 /\ Head(todo) = "ufw enable")
    PROVE  plan \subseteq host /\ "deny" \in host
<1>1. \A i \in 1..Len(todo) : todo[i] = "ufw enable"
  <2>1. CASE todo = <<>>
    <3>1. 1..Len(todo) = {}
      BY <2>1
    <3>. QED
      BY <3>1, Zenon
  <2>2. CASE Len(todo) = 1 /\ Head(todo) = "ufw enable" /\ todo # <<>>
    <3>1. todo \in Seq(UfwCommand \cup User)
      BY DEF Opening
    <3>2. \A i \in 1..Len(todo) : todo[i] = Head(todo)
      BY <2>2, <3>1, HeadAndTail, Zenon
    <3>. QED
      BY <2>2, <3>2, Zenon
  <2>. QED
    BY <2>1, <2>2
<1>2. "ufw enable" \notin plan /\ "ufw enable" # "ufw deny"
  BY UserIsNoCommand DEF UfwCommand
<1>. QED
  BY <1>1, <1>2, Zenon DEF Opening

LEMMA ApplyUFWFields ==
    ASSUME ConsoleInv, Counted, PortPlans, Openings, NEW s \in 1..MaxSlots, ApplyUFW(s)
    PROVE  /\ flight[s].op = "applyUFW" /\ flight[s].plan \subseteq User
           /\ host \subseteq host' /\ host' \subseteq {"firewall", "deny"} \cup User
           /\ \A t \in (1..MaxSlots) \ {s} : flight'[t] = flight[t]
           /\ \/ /\ flight'[s] = NoOrder
                 /\ host' = host /\ flight[s].plan \subseteq host /\ "deny" \in host
              \/ /\ flight'[s].op = "applyUFW" /\ UNCHANGED inbox
                 /\ Opening(flight[s].todo, flight[s].plan)'
                 /\ "firewall" \in host' \ host => flight[s].plan \subseteq host /\ "deny" \in host
<1>1. flight[s].op = "applyUFW" /\ flight[s].plan \in SUBSET User /\ IsOrder(flight[s])
      /\ host \subseteq {"firewall", "deny"} \cup User
  BY DEF ApplyUFW, Is, PortPlans, ConsoleInv, Shape, Counted
<1>2. flight[s].status # "none" => Opening(flight[s].todo, flight[s].plan)
  BY <1>1 DEF Openings
<1>3. CASE flight[s].status # "none" /\ flight[s].todo = <<>>
  <2>1. host' = host /\ flight' = [flight EXCEPT ![s] = NoOrder]
    BY <1>3 DEF ApplyUFW, Reply
  <2>2. flight'[s] = NoOrder /\ \A t \in (1..MaxSlots) \ {s} : flight'[t] = flight[t]
    BY <2>1 DEF ConsoleInv, Shape
  <2>3. flight[s].plan \subseteq host /\ "deny" \in host
    BY <1>1, <1>2, <1>3, PlanDone
  <2>. QED
    BY <1>1, <2>1, <2>2, <2>3
<1>4. CASE flight[s].status = "none"
  <2>. DEFINE todo == FirewallCommands(host, flight[s].plan)
              read == [flight[s] EXCEPT !.status = "read"]
              o == [read EXCEPT !.todo = todo]
  <2>1. IsOrder(read) /\ read.op = flight[s].op /\ read.plan = flight[s].plan
    BY <1>1, WithStatus
  <2>2. o.op = read.op /\ o.plan = read.plan /\ o.todo = todo
    <3>. HIDE DEF todo, read
    <3>. QED
      BY <2>1 DEF IsOrder
  <2>3. flight' = [flight EXCEPT ![s] = o] /\ UNCHANGED <<host, inbox>>
    BY <1>4 DEF ApplyUFW
  <2>4. Opening(todo, flight[s].plan)
    BY <1>1, FirewallPlan
  <2>. HIDE DEF o, read, todo
  <2>5. flight'[s] = o /\ \A t \in (1..MaxSlots) \ {s} : flight'[t] = flight[t]
    BY <2>3 DEF ConsoleInv, Shape
  <2>6. flight'[s].todo = todo /\ flight'[s].plan = flight[s].plan /\ flight'[s].op = flight[s].op
    BY <2>1, <2>2, <2>5
  <2>7. Opening(flight[s].todo, flight[s].plan)'
    BY <2>3, <2>4, <2>6, Zenon DEF Opening
  <2>. QED
    BY <1>1, <2>3, <2>5, <2>6, <2>7
<1>5. CASE flight[s].status # "none" /\ flight[s].todo # <<>>
  <2>1. PICK todo, plan : todo = flight[s].todo /\ plan = flight[s].plan
    OBVIOUS
  <2>. DEFINE command == Head(todo)
              rest == Tail(todo)
              o == [flight[s] EXCEPT !.todo = rest]
  <2>2. /\ host' = IF command \in User THEN host \cup {command} ELSE After(command, host)
        /\ flight' = [flight EXCEPT ![s] = o] /\ UNCHANGED inbox
    BY <1>5, <2>1 DEF ApplyUFW
  <2>3. Opening(todo, plan) /\ todo # <<>> /\ plan \in SUBSET User
    BY <1>1, <1>2, <1>5, <2>1
  <2>4. /\ host \subseteq host' /\ host' \subseteq {"firewall", "deny"} \cup User
        /\ "firewall" \in host' \ host => Len(todo) = 1 /\ command = "ufw enable"
        /\ Opening(rest, plan)'
    <3>. HIDE DEF command
    <3>. QED
      BY <1>1, <2>2, <2>3, CommandDone DEF command
  <2>5. "firewall" \in host' \ host => plan \subseteq host /\ "deny" \in host
    BY <2>3, <2>4, PlanDone
  <2>6. o.op = flight[s].op /\ o.plan = flight[s].plan /\ o.todo = rest
    <3>. HIDE DEF rest
    <3>. QED
      BY <1>1 DEF IsOrder
  <2>. HIDE DEF o, rest
  <2>7. flight'[s] = o /\ \A t \in (1..MaxSlots) \ {s} : flight'[t] = flight[t]
    BY <2>2 DEF ConsoleInv, Shape
  <2>8. flight'[s].todo = rest /\ flight'[s].plan = plan /\ flight'[s].op = flight[s].op
    BY <2>1, <2>6, <2>7
  <2>9. Opening(flight[s].todo, flight[s].plan)'
    BY <2>4, <2>8, Zenon DEF Opening, rest
  <2>. QED
    BY <1>1, <2>1, <2>2, <2>4, <2>5, <2>7, <2>8, <2>9
<1>. QED
  BY <1>3, <1>4, <1>5

\* The firewall only opens up, and the counters stay within their bounds.
LEMMA CountedStep ==
    ASSUME ConsoleInv, Counted, PortPlans, Openings, [Next]_vars
    PROVE  Counted'
<1>1. /\ host \subseteq {"firewall", "deny"} \cup User /\ dns \in {"absent", "tunnel", "other"}
      /\ latest \in Row /\ overtaken \in BOOLEAN
      /\ opens \in 0..MaxOpens /\ orders \in 0..MaxOrders /\ budget \in 0..Budget
      /\ MaxOpens \in Nat /\ MaxOrders \in Nat /\ Budget \in Nat
  BY ConsoleAssumption DEF Counted
<1>2. ASSUME NEW s \in 1..MaxSlots, ApplyUFW(s) PROVE Counted'
  <2>1. host' \subseteq {"firewall", "deny"} \cup User
    BY <1>2, ApplyUFWFields
  <2>2. UNCHANGED <<dns, opens, orders, budget, latest, overtaken>>
    BY <1>2 DEF ApplyUFW, bounds, history
  <2>. QED
    BY <1>1, <2>1, <2>2 DEF Counted
<1>3. ASSUME NEW s \in 1..MaxSlots, ApplyWildcardDNS(s) PROVE Counted'
  <2>1. dns' = "tunnel" \/ dns' = dns
    BY <1>3 DEF ApplyWildcardDNS
  <2>2. UNCHANGED <<host, opens, orders, budget, latest, overtaken>>
    BY <1>3 DEF ApplyWildcardDNS, bounds, history
  <2>. QED
    BY <1>1, <2>1, <2>2 DEF Counted
<1>4. ASSUME NEW s \in 1..MaxSlots, Work(s), ~ApplyUFW(s), ~ApplyWildcardDNS(s)
      PROVE  /\ UNCHANGED <<host, dns, opens, orders, budget, overtaken>>
             /\ latest' = latest \/ latest' = fleet
  BY <1>4 DEF Work, ListUsers, ReadUser, RecordActive, EnableUserGateway, Toggle, Deactivate,
      RemoveUser, CreateBackup, ListBackups,
         Restore, Look, PlanWildcardDNS, PlanUFW, RunChecks, RunOpenClawDoctor, ApplyFixes,
         world, bounds, history
<1>5. ASSUME UNCHANGED <<host, dns, opens, orders, budget, overtaken>>,
             latest' = latest \/ latest' = fleet
      PROVE  Counted'
  BY <1>1, <1>5 DEF Counted, ConsoleInv, Shape
<1>6. ASSUME NEW s \in 1..MaxSlots, Fail(s) PROVE Counted'
  <2>1. budget > 0 /\ budget' = budget - 1 /\ UNCHANGED <<host, dns, opens, orders, latest, overtaken>>
    BY <1>6 DEF Fail
  <2>. QED
    BY <1>1, <2>1 DEF Counted
<1>7. CASE Quit \/ Meddle
  <2>1. budget > 0 /\ budget' = budget - 1 /\ UNCHANGED <<host, opens, orders, latest, overtaken>>
    BY <1>7 DEF Quit, Meddle, world, history
  <2>2. dns' \in {"absent", "tunnel", "other"}
    BY <1>1, <1>7 DEF Quit, Meddle, world
  <2>. QED
    BY <1>1, <2>1, <2>2 DEF Counted
<1>8. CASE Back \/ \E name \in Screens : Open(name)
  <2>1. UNCHANGED <<host, dns, orders, budget, latest, overtaken>>
    BY <1>8 DEF Back, Open, Post, world, history
  <2>2. opens' = opens \/ (opens < MaxOpens /\ opens' = opens + 1)
    BY <1>8 DEF Back, Open
  <2>. QED
    BY <1>1, <2>1, <2>2 DEF Counted
<1>9. ASSUME NEW order, NEW what, Gives(order, what) PROVE Counted'
  <2>1. /\ orders < MaxOrders /\ orders' = orders + 1
        /\ UNCHANGED <<host, dns, opens, budget, latest, overtaken>>
    BY <1>9 DEF Gives, world
  <2>. QED
    BY <1>1, <2>1 DEF Counted
<1>10. ASSUME NEW next, Becomes(next) PROVE Counted'
  BY <1>5, <1>10 DEF Becomes, world, bounds, history
<1>11. CASE PressToggle \/ PressBackup \/ EnterRestore \/ (\E u \in User : EnterAdd(u) \/ EnterRemove(u))
  BY <1>9, <1>11 DEF PressToggle, PressBackup, EnterRestore, EnterAdd, EnterRemove
<1>12. CASE PressReport \/ EnterReview
  BY <1>9, <1>10, <1>12 DEF PressReport, EnterReview, Busy
<1>13. CASE Move \/ Escape \/ ReviewFixes \/ (\E mode \in {"add", "remove"} : Prompt(mode))
  BY <1>10, <1>13 DEF Move, Escape, ReviewFixes, Prompt
<1>14. CASE UNCHANGED vars
  BY <1>5, <1>14 DEF vars, world, bounds, history
<1>15. CASE Deliver
  <2>1. UNCHANGED <<host, dns, opens, orders, budget, latest>>
    BY <1>15 DEF Deliver, world, bounds
  <2>2. overtaken' \in BOOLEAN
    BY <1>1, <1>15 DEF Deliver, Overtakes
  <2>. QED
    BY <1>1, <2>1, <2>2 DEF Counted
<1>. QED
  BY <1>2, <1>3, <1>4, <1>5, <1>6, <1>7, <1>8, <1>11, <1>12, <1>13, <1>14, <1>15 DEF Next

\* A firewall order under way opens what is left of its plan.
LEMMA OpeningsStep ==
    ASSUME ConsoleInv, Viewed, Counted, PortPlans, Openings, [Next]_vars
    PROVE  Openings'
<1>. DEFINE Applies(s) == flight[s].op = "applyUFW" /\ flight[s].status # "none"
            Holds(s) == Opening(flight[s].todo, flight[s].plan)
<1>1. \A s \in 1..MaxSlots : Applies(s) => Holds(s)
  BY DEF Openings
<1>2. SUFFICES ASSUME NEW s \in 1..MaxSlots, Applies(s)' PROVE Holds(s)'
  BY DEF Openings
<1>3. NoOrder.op # "applyUFW"
  BY DEF NoOrder
<1>4. CASE \E t \in 1..MaxSlots : ApplyUFW(t)
  <2>1. PICK t \in 1..MaxSlots : ApplyUFW(t)
    BY <1>4
  <2>2. CASE t = s
    BY <1>2, <1>3, <2>1, <2>2, ApplyUFWFields
  <2>3. CASE t # s
    <3>1. flight'[s] = flight[s] /\ host \subseteq host'
      BY <2>1, <2>3, ApplyUFWFields
    <3>2. Holds(s)
      BY <1>1, <1>2, <3>1
    <3>. QED
      BY <3>1, <3>2 DEF Opening
  <2>. QED
    BY <2>2, <2>3
<1>5. ASSUME flight'[s] = flight[s], UNCHANGED host PROVE Holds(s)'
  <2>1. Holds(s)
    BY <1>1, <1>2, <1>5
  <2>. QED
    BY <1>5, <2>1 DEF Opening
<1>6. ASSUME NEW t \in 1..MaxSlots, Work(t) \/ Fail(t), ~ApplyUFW(t) PROVE Holds(s)'
  <2>1. UNCHANGED host
    BY <1>6 DEF Work, Fail, ListUsers, ReadUser, RecordActive, EnableUserGateway, Toggle,
        Deactivate, RemoveUser, CreateBackup,
           ListBackups, Restore, Look, PlanWildcardDNS, ApplyWildcardDNS, PlanUFW, RunChecks,
           RunOpenClawDoctor, ApplyFixes, world
  <2>2. CASE t # s
    <3>1. flight'[s] = flight[s]
      BY <1>6, <2>2, WorkKinds, EndsFields, GoesOnFields DEF Viewed
    <3>. QED
      BY <1>5, <2>1, <3>1
  <2>3. CASE t = s
    <3>1. CASE Fail(t)
      BY <1>2, <1>3, <2>3, <3>1 DEF Fail, Reply, ConsoleInv, Shape
    <3>2. CASE Work(t)
      <4>1. flight[t].op # "applyUFW"
        BY <1>6, <3>2 DEF Work, Is, Recorded, ListUsers, ReadUser, RecordActive, EnableUserGateway,
            Toggle, Deactivate, RemoveUser, CreateBackup,
               ListBackups, Restore, Look, PlanWildcardDNS, ApplyWildcardDNS, PlanUFW, RunChecks,
               RunOpenClawDoctor, ApplyFixes
      <4>2. flight'[t] = NoOrder \/ flight'[t].op # "applyUFW"
        BY <1>6, <4>1, WorkKinds, EndsFields, GoesOnFields DEF Viewed, UserOrder
      <4>. QED
        BY <1>2, <1>3, <2>3, <4>1, <4>2
    <3>. QED
      BY <1>6, <3>1, <3>2
  <2>. QED
    BY <2>2, <2>3
<1>7. CASE Deliver /\ UNCHANGED host
  <2>1. flight'[s] = flight[s] \/ flight'[s].op = "list"
    BY <1>7, DeliverFields
  <2>. QED
    BY <1>2, <1>5, <1>7, <2>1
<1>8. ASSUME NEW op, NEW u, NEW status, NEW plan, Given(op, u, status, plan), UNCHANGED host
      PROVE  Holds(s)'
  <2>1. flight'[s] = flight[s] \/ (flight'[s].op = op /\ flight'[s].status = status)
    BY <1>8, GivenFields
  <2>2. op = "applyUFW" => status = "none"
    BY <1>8 DEF Given
  <2>. QED
    BY <1>2, <1>5, <1>8, <2>1, <2>2
<1>9. ASSUME NEW next, Turned(next), UNCHANGED host PROVE Holds(s)'
  BY <1>5, <1>9 DEF Turned, Becomes
<1>10. ASSUME NEW op \in Screens \cup {"back"}, Post(op), UNCHANGED host PROVE Holds(s)'
  BY <1>5, <1>10, PostFields
<1>11. CASE Quit
  BY <1>2, <1>3, <1>11 DEF Quit
<1>12. CASE UNCHANGED <<screen, flight, inbox>> /\ UNCHANGED host
  BY <1>5, <1>12
<1>. QED
  BY <1>4, <1>6, <1>7, <1>8, <1>9, <1>10, <1>11, <1>12, StepKinds

-----------------------------------------------------------------------------
(* The theorems about the screens and the firewall.                        *)

ScreensInv == ConsoleInv /\ Viewed /\ Counted /\ PortPlans /\ Openings /\ Indicated

LEMMA ScreensInvNext == ScreensInv /\ [Next]_vars => ScreensInv'
BY ConsoleInvNext, ViewedStep, CountedStep, OpeningsStep, IndicatedStep DEF ScreensInv

LEMMA ScreensInvariant == Spec => []ScreensInv
<1>1. Init => ScreensInv
  BY ConsoleInvInit, InitViewed DEF ScreensInv
<1>. QED
  BY <1>1, ScreensInvNext, PTL DEF Spec

\* The variables keep their types, and the cursor is on a row of the list that is
\* shown, whatever the list was when it was moved there.
THEOREM ConsoleTypes == Spec => []TypeOK
<1>1. ScreensInv => TypeOK
  <2>. SUFFICES ASSUME ScreensInv PROVE TypeOK
    OBVIOUS
  <2>1. fleet \in Row /\ backups \subseteq User /\ drift \subseteq Drifts
    BY DEF ScreensInv, ConsoleInv, Shape
  <2>2. Counted /\ Viewed
    BY DEF ScreensInv
  <2>3. \A s \in 1..MaxSlots : flight[s].row \in Status \cup {"absent", "none"}
    BY DEF ScreensInv, ConsoleInv, FlightsAsked, OrderAsked
  <2>. QED
    BY <2>1, <2>2, <2>3 DEF TypeOK, Counted, Viewed, Views, OrderOps
<1>. QED
  BY <1>1, ScreensInvariant, PTL

\* A screen says that an order runs only while the order, or its result, is there:
\* no failure, and no return to the screen, leaves the indicator on.
THEOREM TrueIndicator == Spec => []BusyIsTrue
<1>1. ScreensInv => BusyIsTrue
  BY DEF ScreensInv, Indicated
<1>. QED
  BY <1>1, ScreensInvariant, PTL

\* Only the firewall's order changes the firewall.
LEMMA OnlyApplyOpens ==
    ASSUME ScreensInv, [Next]_vars, host' # host
    PROVE  \E s \in 1..MaxSlots : ApplyUFW(s)
<1>1. ASSUME NEW s \in 1..MaxSlots, Work(s) \/ Fail(s), ~ApplyUFW(s) PROVE UNCHANGED host
  BY <1>1 DEF Work, Fail, ListUsers, ReadUser, RecordActive, EnableUserGateway, Toggle, Deactivate,
      RemoveUser, CreateBackup,
         ListBackups, Restore, Look, PlanWildcardDNS, ApplyWildcardDNS, PlanUFW, RunChecks,
         RunOpenClawDoctor, ApplyFixes, world
<1>. QED
  BY <1>1, StepKinds DEF ScreensInv

LEMMA StepPlanned ==
    ASSUME ScreensInv, [Next]_vars, NEW s \in 1..MaxSlots, Is(s, "applyUFW"),
           \/ inbox' = Append(inbox, Message("applyUFW", TRUE, Nobody, {})) /\ flight'[s] = NoOrder
           \/ "firewall" \in host' \ host /\ flight'[s] # flight[s]
    PROVE  flight[s].plan \subseteq host' /\ "deny" \in host'
<1>. USE DEF ScreensInv
<1>1. flight[s].op = "applyUFW" /\ NoOrder.op # "applyUFW"
  BY DEF Is, NoOrder
<1>2. ASSUME ApplyUFW(s) PROVE flight[s].plan \subseteq host' /\ "deny" \in host'
  <2>1. host \subseteq host'
    BY <1>2, ApplyUFWFields
  <2>2. CASE flight'[s] = NoOrder
    BY <1>1, <1>2, <2>1, <2>2, ApplyUFWFields
  <2>3. CASE flight'[s] # NoOrder
    <3>1. "firewall" \in host' \ host
      BY <2>3
    <3>. QED
      BY <1>2, <2>1, <2>3, <3>1, ApplyUFWFields
  <2>. QED
    BY <2>2, <2>3
<1>3. CASE "firewall" \in host' \ host /\ flight'[s] # flight[s]
  <2>1. PICK t \in 1..MaxSlots : ApplyUFW(t)
    BY <1>3, OnlyApplyOpens
  <2>2. t = s
    BY <1>3, <2>1, ApplyUFWFields
  <2>. QED
    BY <1>2, <2>1, <2>2
<1>4. CASE /\ inbox' = Append(inbox, Message("applyUFW", TRUE, Nobody, {}))
           /\ flight'[s] = NoOrder
  <2>1. Len(inbox') = Len(inbox) + 1 /\ inbox'[Len(inbox) + 1].ok = TRUE /\ Len(inbox) \in Nat
    BY <1>4, InboxGrows DEF ConsoleInv, Shape, Message
  <2>2. flight'[s] # flight[s]
    BY <1>1, <1>4
  <2>3. ~Quit
    BY <2>1 DEF Quit
  <2>4. ~(UNCHANGED inbox)
    BY <2>1
  <2>5. ~Deliver
    <3>1. SUFFICES ASSUME NEW i \in 1..Len(inbox), inbox' = RemoveAt(inbox, i) PROVE FALSE
      BY DEF Deliver
    <3>2. Len(inbox') = Len(inbox) - 1
      BY <3>1, Shifted DEF ConsoleInv, Shape
    <3>. QED
      BY <2>1, <3>2
  <2>6. ~(\E op \in OrderOps \ {"none"} : \E u, status, plan : Given(op, u, status, plan))
    BY <2>4, GivenFields
  <2>7. ~(\E next : Turned(next)) /\ ~(\E op \in Screens \cup {"back"} : Post(op))
    BY <2>2, <2>4, PostFields DEF Turned, Becomes
  <2>8. PICK t \in 1..MaxSlots : (Work(t) \/ Fail(t)) /\ (Ends(t) \/ GoesOn(t))
    BY <2>3, <2>4, <2>5, <2>6, <2>7, StepKinds
  <2>9. t = s
    BY <2>2, <2>8, EndsFields, GoesOnFields
  <2>10. ~Fail(s)
    <3>1. SUFFICES ASSUME inbox' = Append(inbox, Message(flight[s].op, FALSE, Nobody, {})) PROVE FALSE
      BY DEF Fail, Reply
    <3>2. inbox'[Len(inbox) + 1].ok = FALSE
      BY <3>1, InboxGrows DEF ConsoleInv, Message
    <3>. QED
      BY <2>1, <3>2
  <2>11. ApplyUFW(s)
    BY <1>1, <2>8, <2>9, <2>10 DEF Work, Is, Recorded, ListUsers, ReadUser, RecordActive,
        EnableUserGateway, Toggle, Deactivate, RemoveUser,
           CreateBackup, ListBackups, Restore, Look, PlanWildcardDNS, ApplyWildcardDNS, PlanUFW,
           RunChecks, RunOpenClawDoctor, ApplyFixes
  <2>. QED
    BY <1>2, <2>11
<1>. QED
  BY <1>3, <1>4

\* When a firewall order reports success, or turns the firewall on, the ports of its
\* plan are open: whatever other firewall orders run meanwhile, and however often
\* this one was given.
THEOREM PlannedPortsAreOpen == Spec => PlannedPortsOpen
<1>1. ScreensInv /\ [Next]_vars =>
        [\A s \in 1..MaxSlots :
            Is(s, "applyUFW")
            /\ \/ inbox' = Append(inbox, Message("applyUFW", TRUE, Nobody, {})) /\ flight'[s] = NoOrder
               \/ "firewall" \in host' \ host /\ flight'[s] # flight[s]
            => flight[s].plan \subseteq host' /\ "deny" \in host']_vars
  BY StepPlanned
<1>. QED
  BY <1>1, ScreensInvariant, PTL DEF Spec, PlannedPortsOpen

-----------------------------------------------------------------------------
(* The list of users on the screen.                                        *)

\* The messages that were there are there, and nothing new about the list is needed.
LEMMA ListComes ==
    ASSUME ListComing, UNCHANGED <<fleet, latest, overtaken>>, screen'.list = screen.list,
           \A i \in 1..Len(inbox) : \E k \in 1..Len(inbox') : inbox'[k] = inbox[i],
           \A s \in 1..MaxSlots : Pending(flight[s]) => Pending(flight[s])'
    PROVE  ListComing'
<1>1. CASE latest = fleet /\ ShownOrComing(screen.list)
  <2>1. CASE screen.list = fleet \/ overtaken
    BY <1>1, <2>1 DEF ListComing, ShownOrComing
  <2>2. CASE \E i \in 1..Len(inbox) : inbox[i].op = "list" /\ inbox[i].list = fleet
    <3>1. \E k \in 1..Len(inbox') : inbox'[k].op = "list" /\ inbox'[k].list = fleet'
      BY <2>2
    <3>. QED
      BY <1>1, <3>1 DEF ListComing, ShownOrComing
  <2>. QED
    BY <1>1, <2>1, <2>2 DEF ShownOrComing
<1>2. CASE \E i \in 1..Len(inbox) : Rereads(inbox[i])
  <2>1. \E k \in 1..Len(inbox') : Rereads(inbox'[k])
    BY <1>2 DEF Rereads
  <2>. QED
    BY <2>1 DEF ListComing, Rereads
<1>3. CASE \E s \in 1..MaxSlots : Pending(flight[s])
  BY <1>3 DEF ListComing
<1>. QED
  BY <1>1, <1>2, <1>3 DEF ListComing

\* Messages of a step that appends at most one.
LEMMA InboxKept ==
    ASSUME ConsoleInv, UNCHANGED inbox \/ \E m : inbox' = Append(inbox, m)
    PROVE  \A i \in 1..Len(inbox) : \E k \in 1..Len(inbox') : inbox'[k] = inbox[i]
<1>1. Len(inbox) \in Nat
  BY DEF ConsoleInv, Shape
<1>2. ASSUME NEW m, inbox' = Append(inbox, m), NEW i \in 1..Len(inbox)
      PROVE  i \in 1..Len(inbox') /\ inbox'[i] = inbox[i]
  BY <1>1, <1>2, InboxGrows DEF ConsoleInv
<1>. QED
  BY <1>2

\* The last message of the inbox.
LEMMA LastMessage ==
    ASSUME ConsoleInv, NEW m, inbox' = Append(inbox, m)
    PROVE  Len(inbox') \in 1..Len(inbox') /\ inbox'[Len(inbox')] = m
<1>1. Len(inbox) \in Nat /\ Len(inbox') = Len(inbox) + 1 /\ inbox'[Len(inbox) + 1] = m
  BY InboxGrows DEF ConsoleInv, Shape
<1>. QED
  BY <1>1

\* A step of an order of which the list need not hear.
LEMMA QuietWork ==
    ASSUME ScreensInv, Fresh, NEW s \in 1..MaxSlots, Ends(s) \/ GoesOn(s),
           UNCHANGED <<fleet, latest, overtaken>>, ~unread' => ~unread,
           Pending(flight[s]) => Pending(flight[s])'
    PROVE  Fresh'
<1>. SUFFICES ASSUME screen'.name = "users", ~unread' PROVE ListComing'
  BY DEF Fresh
<1>1. UNCHANGED screen
  BY EndsFields, GoesOnFields DEF ScreensInv
<1>2. ListComing
  BY <1>1 DEF Fresh
<1>3. \A t \in (1..MaxSlots) \ {s} : flight'[t] = flight[t]
  BY EndsFields, GoesOnFields DEF ScreensInv
<1>4. \A t \in 1..MaxSlots : Pending(flight[t]) => Pending(flight[t])'
  BY <1>3 DEF Pending
<1>5. UNCHANGED inbox \/ \E m : inbox' = Append(inbox, m)
  BY EndsFields, GoesOnFields DEF ScreensInv
<1>6. \A i \in 1..Len(inbox) : \E k \in 1..Len(inbox') : inbox'[k] = inbox[i]
  BY <1>5, InboxKept DEF ScreensInv
<1>. QED
  BY <1>1, <1>2, <1>4, <1>6, ListComes

\* An order on a user succeeds: the list will be read again.
LEMMA FreshSuccess ==
    ASSUME ConsoleInv, NEW s \in 1..MaxSlots, Reply(s, TRUE, Nobody, {}),
           flight[s].op \in UserOrder \ {"list", "backups"}
    PROVE  Fresh'
<1>. DEFINE m == Message(flight[s].op, TRUE, Nobody, {})
<1>1. inbox' = Append(inbox, m)
  BY DEF Reply
<1>2. Rereads(m)
  BY DEF Rereads, Message
<1>. HIDE DEF m
<1>3. \E i \in 1..Len(inbox') : Rereads(inbox'[i])
  BY <1>1, <1>2, LastMessage
<1>. QED
  BY <1>3 DEF Fresh, ListComing, Rereads

\* An order on a user goes on, to what another reading or a failure follows.
LEMMA FreshPending ==
    ASSUME NEW s \in 1..MaxSlots, Pending(flight[s])'
    PROVE  Fresh'
BY DEF Fresh, ListComing

LEMMA FreshWork ==
    ASSUME ScreensInv, Fresh, NEW s \in 1..MaxSlots, Work(s) \/ Fail(s), Ends(s) \/ GoesOn(s)
    PROVE  Fresh'
<1>. USE DEF ScreensInv
<1>0. IsOrder(flight[s]) /\ OrderAsked(flight[s]) /\ fleet \in Row
  BY DEF ConsoleInv, Shape, FlightsAsked
<1>1. CASE ListUsers(s)
  <2>. DEFINE m == Message(flight[s].op, TRUE, fleet, {})
  <2>1. inbox' = Append(inbox, m) /\ UNCHANGED fleet /\ flight[s].op = "list" /\ latest' = fleet
    BY <1>1 DEF ListUsers, Reply, Is, world
  <2>2. m.op = "list" /\ m.list = fleet
    BY <2>1 DEF Message
  <2>. HIDE DEF m
  <2>3. \E i \in 1..Len(inbox') : inbox'[i].op = "list" /\ inbox'[i].list = fleet'
    BY <2>1, <2>2, LastMessage
  <2>4. ListComing'
    BY <2>1, <2>3 DEF ListComing, ShownOrComing
  <2>. QED
    BY <2>4 DEF Fresh
<1>2. CASE ReadUser(s)
  <2>1. UNCHANGED <<fleet, unread, latest, overtaken>>
    BY <1>2 DEF ReadUser, world, history
  <2>2. CASE fleet[Of(s)] = "absent" /\ ~Is(s, "add")
    <3>1. ~Pending(flight[s])
      BY <1>2, <2>2 DEF ReadUser, Pending, Is, Of
    <3>. QED
      BY <2>1, <3>1, QuietWork
  <2>3. CASE ~(fleet[Of(s)] = "absent" /\ ~Is(s, "add"))
    <3>. DEFINE row == fleet[Of(s)]
                o == [flight[s] EXCEPT !.row = row]
    <3>1. flight' = [flight EXCEPT ![s] = o]
      BY <1>2, <2>3 DEF ReadUser
    <3>2. o.op = flight[s].op /\ o.user = flight[s].user /\ o.status = flight[s].status
      <4>. HIDE DEF row
      <4>. QED
        BY <1>0, WithRow
    <3>. HIDE DEF o
    <3>3. flight'[s] = o
      BY <3>1 DEF ConsoleInv, Shape
    <3>4. Pending(flight[s]) => Pending(flight[s])'
      BY <2>1, <3>2, <3>3 DEF Pending
    <3>. QED
      BY <2>1, <3>4, QuietWork
  <2>. QED
    BY <2>2, <2>3
<1>3. ASSUME NEW status, flight' = [flight EXCEPT ![s].status = status]
      PROVE  flight'[s].op = flight[s].op /\ flight'[s].user = flight[s].user
             /\ flight'[s].status = status
  <2>. DEFINE o == [flight[s] EXCEPT !.status = status]
  <2>1. flight' = [flight EXCEPT ![s] = o]
    BY <1>3
  <2>2. o.op = flight[s].op /\ o.user = flight[s].user /\ o.status = status
    BY <1>0, WithStatus
  <2>. HIDE DEF o
  <2>3. flight'[s] = o
    BY <2>1 DEF ConsoleInv, Shape
  <2>. QED
    BY <2>2, <2>3
<1>4. CASE RecordActive(s)
  <2>1. flight[s].op = "add" /\ flight' = [flight EXCEPT ![s].status = "active"]
    BY <1>4 DEF RecordActive, Is
  <2>2. Pending(flight[s])'
    BY <1>3, <2>1 DEF Pending
  <2>. QED
    BY <2>2, FreshPending
<1>5. CASE EnableUserGateway(s)
  <2>1. CASE unread'
    BY <2>1 DEF Fresh
  <2>2. CASE ~unread'
    <3>1. Reply(s, TRUE, Nobody, {}) /\ flight[s].op = "add"
      BY <1>5, <2>2 DEF EnableUserGateway, Recorded, Is
    <3>. QED
      BY <3>1, FreshSuccess DEF UserOrder
  <2>. QED
    BY <2>1, <2>2
<1>6. CASE Toggle(s)
  <2>1. flight[s].op = "toggle"
    BY <1>6 DEF Toggle, Is
  <2>2. CASE Toggled(s) = "active"
    <3>1. UNCHANGED <<fleet, unread, latest, overtaken>>
      BY <1>6, <2>2 DEF Toggle, history
    <3>. QED
      BY <2>1, <3>1, QuietWork DEF Pending
  <2>3. CASE Toggled(s) # "active"
    <3>1. Reply(s, TRUE, Nobody, {})
      BY <1>6, <2>3 DEF Toggle
    <3>. QED
      BY <2>1, <3>1, FreshSuccess DEF UserOrder
  <2>. QED
    BY <2>2, <2>3
<1>7. CASE Deactivate(s)
  <2>1. /\ flight[s].op = "remove" /\ fleet' = Paused(s) /\ flight[s].user \in User
        /\ flight' = [flight EXCEPT ![s].status = "paused"]
        /\ UNCHANGED <<unread, latest, overtaken>>
    BY <1>0, <1>7 DEF Deactivate, Is, OrderAsked, UserOrder, history
  <2>2. flight'[s].op = "remove" /\ flight'[s].user = flight[s].user
    BY <1>3, <2>1
  <2>3. CASE fleet' = fleet
    <3>1. Pending(flight[s]) => Pending(flight[s])'
      BY <2>1, <2>2, <2>3 DEF Pending
    <3>. QED
      BY <2>1, <2>3, <3>1, QuietWork
  <2>4. CASE fleet' # fleet
    <3>1. fleet' = [fleet EXCEPT ![flight[s].user] = "paused"]
      BY <2>1, <2>4 DEF Paused, Of
    <3>2. fleet'[flight'[s].user] = "paused"
      BY <1>0, <2>1, <2>2, <3>1 DEF Row
    <3>3. Pending(flight[s])'
      BY <2>2, <3>2 DEF Pending
    <3>. QED
      BY <3>3, FreshPending
  <2>. QED
    BY <2>3, <2>4
<1>8. CASE RemoveUser(s)
  <2>1. flight[s].op = "remove"
    BY <1>8 DEF RemoveUser, Is
  <2>2. CASE fleet[Of(s)] # "absent"
    <3>1. Reply(s, TRUE, Nobody, {})
      BY <1>8, <2>2 DEF RemoveUser
    <3>. QED
      BY <2>1, <3>1, FreshSuccess DEF UserOrder
  <2>3. CASE fleet[Of(s)] = "absent"
    <3>1. UNCHANGED <<fleet, unread, latest, overtaken>>
      BY <1>8, <2>3 DEF RemoveUser, history
    <3>. QED
      BY <2>1, <2>3, <3>1, QuietWork DEF Pending, Of
  <2>. QED
    BY <2>2, <2>3
<1>9. CASE Fail(s)
  <2>1. CASE unread'
    BY <2>1 DEF Fresh
  <2>2. CASE ~unread'
    <3>1. /\ UNCHANGED <<fleet, latest, overtaken>>
          /\ unread' = (unread \/ flight[s].op \in {"list", "remove"} \/ Recorded(s))
      BY <1>9, <2>2 DEF Fail
    <3>2. ~unread /\ flight[s].op \notin {"list", "remove"} /\ ~Recorded(s)
      BY <2>2, <3>1
    <3>3. ~Pending(flight[s])
      BY <3>2 DEF Pending, Recorded, Is
    <3>. QED
      BY <3>1, <3>2, <3>3, QuietWork
  <2>. QED
    BY <2>1, <2>2
<1>10. CASE \/ CreateBackup(s) \/ ListBackups(s) \/ Restore(s) \/ Look(s) \/ PlanWildcardDNS(s)
            \/ ApplyWildcardDNS(s) \/ PlanUFW(s) \/ ApplyUFW(s) \/ RunChecks(s)
            \/ RunOpenClawDoctor(s) \/ ApplyFixes(s)
  <2>1. UNCHANGED <<fleet, unread, latest, overtaken>>
    BY <1>10 DEF CreateBackup, ListBackups, Restore, Look, PlanWildcardDNS, ApplyWildcardDNS,
           PlanUFW, ApplyUFW, RunChecks, RunOpenClawDoctor, ApplyFixes, history, world
  <2>2. flight[s].op \notin {"list", "remove", "add"}
    BY <1>10 DEF CreateBackup, ListBackups, Restore, Look, PlanWildcardDNS, ApplyWildcardDNS,
           PlanUFW, ApplyUFW, RunChecks, RunOpenClawDoctor, ApplyFixes, Is
  <2>. QED
    BY <2>1, <2>2, QuietWork DEF Pending
<1>. QED
  BY <1>1, <1>2, <1>4, <1>5, <1>6, <1>7, <1>8, <1>9, <1>10 DEF Work

\* A result is taken: it becomes the list, is overtaken, or has the list read again.
LEMMA FreshDeliver ==
    ASSUME ScreensInv, Fresh, Deliver, UNCHANGED <<fleet, unread, latest>>
    PROVE  Fresh'
<1>. USE DEF ScreensInv
<1>1. PICK i \in 1..Len(inbox) :
        /\ inbox[i] \in Messages /\ screen' = ScreenAfter(inbox[i])
        /\ inbox' = RemoveAt(inbox, i)
        /\ overtaken' = IF screen.name = "users" /\ inbox[i].op = "list"
                        THEN Overtakes(inbox[i], inbox') ELSE overtaken
        /\ \/ UNCHANGED flight /\ ~Reloads(inbox[i]) /\ inbox[i].op # "users"
           \/ \E f \in 1..MaxSlots : flight'[f].op = "list"
  BY DeliverFields
<1>2. CASE \E f \in 1..MaxSlots : flight'[f].op = "list"
  BY <1>2 DEF Fresh, ListComing, Pending
<1>3. CASE UNCHANGED flight /\ ~Reloads(inbox[i]) /\ inbox[i].op # "users"
  <2>1. PICK m \in Messages : m = inbox[i]
    BY <1>1
  <2>2. SUFFICES ASSUME screen'.name = "users", ~unread' PROVE ListComing'
    BY DEF Fresh
  <2>3. Shows(screen', m)
    BY <1>1, <2>1, MessageShows DEF PortPlans
  <2>4. screen.name = "users" /\ screen'.list = IF m.op = "list" THEN m.list ELSE screen.list
    BY <1>3, <2>1, <2>2, <2>3 DEF Shows
  <2>5. ListComing /\ ~Rereads(m)
    BY <1>3, <2>1, <2>2, <2>4 DEF Fresh, Rereads, Reloads
  <2>6. \A n \in 1..Len(inbox) : inbox[n] # m => \E k \in 1..Len(inbox') : inbox'[k] = inbox[n]
    BY <1>1, <2>1, InboxShrinks DEF ConsoleInv
  <2>7. CASE latest = fleet /\ ShownOrComing(screen.list)
    <3>1. CASE m.op = "list" /\ m.list = latest
      BY <2>4, <2>7, <3>1 DEF ListComing, ShownOrComing
    <3>2. CASE m.op = "list" /\ m.list # latest
      <4>1. CASE overtaken'
        BY <2>7, <4>1 DEF ListComing, ShownOrComing
      <4>2. CASE ~overtaken'
        <5>1. \E k \in 1..Len(inbox') : inbox'[k].op = "list" /\ inbox'[k].list = latest
          BY <1>1, <2>1, <2>4, <3>2, <4>2 DEF Overtakes
        <5>. QED
          BY <2>7, <5>1 DEF ListComing, ShownOrComing
      <4>. QED
        BY <4>1, <4>2
    <3>3. CASE m.op # "list"
      <4>1. screen'.list = screen.list /\ overtaken' = overtaken
        BY <1>1, <2>1, <2>4, <3>3
      <4>2. CASE screen.list = fleet \/ overtaken
        BY <2>7, <4>1, <4>2 DEF ListComing, ShownOrComing
      <4>3. CASE \E n \in 1..Len(inbox) : inbox[n].op = "list" /\ inbox[n].list = fleet
        <5>1. \E k \in 1..Len(inbox') : inbox'[k].op = "list" /\ inbox'[k].list = fleet'
          BY <2>6, <3>3, <4>3
        <5>. QED
          BY <2>7, <5>1 DEF ListComing, ShownOrComing
      <4>. QED
        BY <2>7, <4>2, <4>3 DEF ShownOrComing
    <3>. QED
      BY <3>1, <3>2, <3>3
  <2>8. CASE \E n \in 1..Len(inbox) : Rereads(inbox[n])
    <3>1. PICK n \in 1..Len(inbox) : Rereads(inbox[n])
      BY <2>8
    <3>2. inbox[n] # m
      BY <2>5, <3>1
    <3>3. \E k \in 1..Len(inbox') : Rereads(inbox'[k])
      BY <2>6, <3>1, <3>2
    <3>. QED
      BY <3>3 DEF ListComing, Rereads
  <2>9. CASE \E s \in 1..MaxSlots : Pending(flight[s])
    BY <1>3, <2>9 DEF ListComing, Pending
  <2>. QED
    BY <2>5, <2>7, <2>8, <2>9 DEF ListComing
<1>. QED
  BY <1>1, <1>2, <1>3

LEMMA FreshNext ==
    ASSUME ScreensInv, Fresh, [Next]_vars
    PROVE  Fresh'
<1>. USE DEF ScreensInv
<1>1. ~Pending(NoOrder)
  BY DEF NoOrder, Pending
<1>2. ASSUME screen'.name = screen.name, screen'.list = screen.list,
             UNCHANGED <<fleet, unread, latest, overtaken>>,
             UNCHANGED inbox \/ \E m : inbox' = Append(inbox, m),
             \A s \in 1..MaxSlots : flight[s] = NoOrder \/ flight'[s] = flight[s]
      PROVE  Fresh'
  <2>1. SUFFICES ASSUME screen'.name = "users", ~unread' PROVE ListComing'
    BY DEF Fresh
  <2>2. ListComing
    BY <1>2, <2>1 DEF Fresh
  <2>3. \A s \in 1..MaxSlots : Pending(flight[s]) => Pending(flight[s])'
    <3>. SUFFICES ASSUME NEW s \in 1..MaxSlots, Pending(flight[s]) PROVE Pending(flight[s])'
      OBVIOUS
    <3>1. flight'[s] = flight[s]
      BY <1>1, <1>2
    <3>. QED
      BY <1>2, <3>1 DEF Pending
  <2>4. \A i \in 1..Len(inbox) : \E k \in 1..Len(inbox') : inbox'[k] = inbox[i]
    BY <1>2, InboxKept
  <2>. QED
    BY <1>2, <2>2, <2>3, <2>4, ListComes
<1>3. ASSUME NEW op, NEW u, NEW status, NEW plan, Given(op, u, status, plan)
      PROVE  Fresh'
  <2>1. UNCHANGED inbox /\ \A s \in 1..MaxSlots : flight[s] = NoOrder \/ flight'[s] = flight[s]
    BY <1>3, GivenFields
  <2>2. screen'.name = screen.name /\ screen'.list = screen.list
    <3>1. CASE UNCHANGED screen
      BY <3>1
    <3>2. CASE screen' = [screen EXCEPT !.loading = TRUE]
      BY <3>2 DEF Viewed, Views
    <3>. QED
      BY <1>3, <3>1, <3>2 DEF Given
  <2>3. UNCHANGED <<fleet, unread, latest, overtaken>>
    BY <1>3 DEF Given, Gives, world
  <2>. QED
    BY <1>2, <2>1, <2>2, <2>3
<1>4. ASSUME NEW next, Turned(next) PROVE Fresh'
  BY <1>2, <1>4 DEF Turned, Becomes, world, history
<1>5. ASSUME NEW op \in Screens \cup {"back"}, Post(op) PROVE Fresh'
  <2>1. UNCHANGED <<screen, flight, fleet, unread, latest, overtaken>>
    BY <1>5 DEF Post, world, history
  <2>. QED
    BY <1>2, <1>5, <2>1, PostFields
<1>6. CASE Quit
  <2>1. screen'.name = "menu"
    BY <1>6 DEF Quit, Menu, Shown
  <2>. QED
    BY <2>1 DEF Fresh
<1>7. CASE UNCHANGED <<screen, flight, inbox, overtaken, fleet, unread, latest>>
  BY <1>2, <1>7
<1>. QED
  BY <1>3, <1>4, <1>5, <1>6, <1>7, FreshWork, FreshDeliver, StepKinds

\* When nothing is under way, no failure hid a change and no older list came after a
\* newer one, the list on the screen is the fleet: for any number of users, of orders
\* that overlap or give up and put rows back, of results that come in any order and of
\* results no screen took.
THEOREM ShownListIsTheFleet == Spec => []ListCurrent
<1>1. Init => ScreensInv /\ Fresh
  BY ConsoleInvInit, InitViewed DEF ScreensInv
<1>2. ScreensInv /\ Fresh /\ [Next]_vars => (ScreensInv /\ Fresh)'
  BY ScreensInvNext, FreshNext
<1>3. ScreensInv /\ Fresh => ListCurrent
  <2>. SUFFICES ASSUME ScreensInv, Fresh, screen.name = "users", Quiet, ~unread, ~overtaken
                PROVE  screen.list = fleet
    BY DEF ListCurrent
  <2>1. ListComing /\ inbox = <<>>
    BY DEF Fresh, Quiet
  <2>2. \A s \in 1..MaxSlots : flight[s].op = "none"
    BY NoOrderOp DEF Quiet, Free
  <2>3. 1..Len(inbox) = {}
    BY <2>1
  <2>. QED
    BY <2>1, <2>2, <2>3, Zenon DEF ListComing, ShownOrComing, Pending
<1>. QED
  BY <1>1, <1>2, <1>3, PTL DEF Spec
=============================================================================
