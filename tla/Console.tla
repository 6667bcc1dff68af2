------------------------------- MODULE Console ------------------------------
(***************************************************************************)
(* The administrator's console: the root screen (tui/app.go) with its user *)
(* management, network and doctor screens (tui/users.go, network.go,       *)
(* doctor.go), and what the network manager and the doctor do to the host  *)
(* for them.                                                               *)
(*                                                                         *)
(* A key never waits: it sends an order to a goroutine (a tea.Cmd), which  *)
(* reads and changes the fleet and the host meanwhile, and whose result    *)
(* comes back as a message to the screen that is shown then, perhaps a     *)
(* newer one of the same kind; every other screen drops it.  Results come  *)
(* in any order, and nothing keeps the administrator from giving more      *)
(* orders or from leaving.                                                 *)
(*                                                                         *)
(* Abstractions.  The list of users is the table of their status, in the   *)
(* order of the names; a name is typed as it is confirmed.  Only the live  *)
(* screen has state, the others start anew when they are opened.  A user   *)
(* has one backup at most, and one gateway port, which is its name in the  *)
(* plan of the firewall.  What the orders on a user do to the host is      *)
(* module UserLifecycle and module Backup: here they read and change the   *)
(* row, or fail; Remove, after the Deactivate the screen sends before it,  *)
(* is one step.  The three modes doctor repairs for a user are one.        *)
(* Statistics, probes and the report of the network are shown and not      *)
(* used: "look" stands for both.  The wizard is module Install; the        *)
(* terminal is left out.                                                   *)
(***************************************************************************)
EXTENDS Provisioning, FiniteSets, SequencesExt

CONSTANTS
    User,         \* the usernames, strings
    Sorted,       \* the same, in their order
    Screens,      \* the screens the administrator opens
    Fleets,       \* the tables of users the console may find
    Hosts,        \* the firewalls the console may find
    Drifts,       \* the files whose mode or content may drift: users, "umask"
    MaxSlots, MaxInbox, MaxOpens, MaxOrders,
    Budget        \* failures, quits and changes by others

VARIABLES
    fleet,       \* fleet[u]: the row of u: absent, active or paused
    backups,     \* the users with a recorded backup
    host,        \* facts of the firewall, and the ports it allows
    dns,         \* the wildcard record: absent, tunnel or other
    drift,       \* the files that have drifted
    screen,      \* the screen that is shown, with its state
    flight,      \* the orders under way
    inbox,       \* the messages for the root screen
    asked,       \* what the administrator has asked for, of whom
    reported,    \* the drifts doctor has reported
    unread,      \* a failure changed a row, or hid the list, after the last reading
    latest,      \* the list that was read last
    overtaken,   \* an older list was shown after it
    opens, orders, budget

world == <<fleet, backups, host, dns, drift>>
history == <<asked, reported, unread, latest, overtaken>>
bounds == <<opens, orders, budget>>
vars == <<world, screen, flight, inbox, history, bounds>>

Status == {"active", "paused"}
Row == [User -> Status \cup {"absent"}]
Nobody == [u \in User |-> "absent"]
\* A username stands for its port in a plan, among the commands and on the host: it
\* is none of their other members.
NoPort == {"umask", "create", "update", "noop", "firewall", "deny", "ufw allow outgoing",
           "ufw reload"} \cup DOMAIN Fixes
ASSUME ConsoleAssumption ==
    /\ Fleets \subseteq Row
    /\ User \cap NoPort = {} /\ Sorted \in Seq(User)
    /\ IsFiniteSet(User) /\ ToSet(Sorted) = User /\ Len(Sorted) = Cardinality(User)
    /\ Screens \subseteq {"users", "network", "doctor"}
    /\ Hosts \subseteq SUBSET {"firewall", "deny"} /\ Drifts \subseteq User \cup {"umask"}
    /\ {MaxSlots, MaxInbox, MaxOpens, MaxOrders, Budget} \subseteq Nat

Mode == {"list", "add", "remove", "restore", "report", "dns", "ufw", "fix"}
Item == User \cup {"umask", "create", "update", "noop"}

UserOrder == {"list", "add", "toggle", "backup", "backups", "restore", "remove"}
NetworkOrder == {"look", "planDNS", "planUFW", "applyDNS", "applyUFW"}
DoctorOrder == {"run", "openclaw", "applyFixes"}

Shown(name, mode) ==
    [name |-> name, mode |-> mode, list |-> Nobody, cursor |-> 1, plan |-> {},
     report |-> {}, loading |-> FALSE]
Menu == Shown("menu", "list")

\* The rows of a list, by the places of their users in the order of the names, and
\* the user in the row under the cursor.
Rows(list) == {i \in 1..Len(Sorted) : list[Sorted[i]] # "absent"}
Height(list) == Cardinality(Rows(list))
Selected == LET rows == Rows(screen.list)
            IN {Sorted[i] : i \in {r \in rows : Cardinality(rows \cap 1..r) = screen.cursor}}

\* status: the row on the screen, or how far the order is; row: the row it has found.
NoOrder == [op |-> "none", user |-> "none", status |-> "none", row |-> "none", plan |-> {},
            todo |-> <<>>]
Order(op, u, status, plan) ==
    [op |-> op, user |-> u, status |-> status, row |-> "none", plan |-> plan, todo |-> <<>>]
Message(op, ok, list, plan) == [op |-> op, ok |-> ok, list |-> list, plan |-> plan]

TypeOK ==
    /\ fleet \in Row /\ backups \subseteq User
    /\ host \subseteq {"firewall", "deny"} \cup User
    /\ dns \in {"absent", "tunnel", "other"} /\ drift \subseteq Drifts
    /\ screen \in [name : Screens \cup {"menu"}, mode : Mode, list : Row,
                   cursor : Nat \ {0}, plan : SUBSET Item, report : SUBSET Item, loading : BOOLEAN]
    /\ screen.cursor <= Height(screen.list) \/ screen.cursor = 1
    /\ \A s \in 1..MaxSlots :
         /\ flight[s].op \in UserOrder \cup NetworkOrder \cup DoctorOrder \cup {"none"}
         /\ flight[s].row \in Status \cup {"absent", "none"}
    /\ latest \in Row /\ overtaken \in BOOLEAN
    /\ opens \in 0..MaxOpens /\ orders \in 0..MaxOrders /\ budget \in 0..Budget

Init ==
    /\ fleet \in Fleets /\ backups = User
    /\ host \in Hosts /\ dns = "other" /\ drift = Drifts
    /\ screen = Menu
    /\ flight = [s \in 1..MaxSlots |-> NoOrder] /\ inbox = <<>>
    /\ asked = {} /\ reported = {} /\ unread = FALSE /\ latest = Nobody /\ overtaken = FALSE
    /\ opens = 0 /\ orders = 0 /\ budget = Budget

Free == {s \in 1..MaxSlots : flight[s] = NoOrder}
FreeSlot == CHOOSE s \in Free : TRUE

Send(order) == Free # {} /\ flight' = [flight EXCEPT ![FreeSlot] = order]

-----------------------------------------------------------------------------
(* The goroutines.                                                         *)

\* The order in slot s ends with a message.
Reply(s, ok, list, plan) ==
    /\ flight' = [flight EXCEPT ![s] = NoOrder]
    /\ inbox' = Append(inbox, Message(flight[s].op, ok, list, plan))

Is(s, op) == flight[s].op = op
Of(s) == flight[s].user

ListUsers(s) ==
    /\ Is(s, "list")
    /\ Reply(s, TRUE, fleet, {})
    /\ unread' = FALSE /\ latest' = fleet
    /\ UNCHANGED <<world, screen, asked, reported, overtaken, bounds>>

\* Manager.Add, Deactivate and Activate begin with GetUser; Add also serves a user
\* that is not there.
ReadUser(s) ==
    /\ Is(s, "add") \/ Is(s, "toggle") \/ (Is(s, "remove") /\ flight[s].status = "active")
    /\ flight[s].row = "none"
    /\ IF fleet[Of(s)] = "absent" /\ ~Is(s, "add") THEN Reply(s, FALSE, Nobody, {})
       ELSE /\ flight' = [flight EXCEPT ![s].row = fleet[Of(s)]]
            /\ UNCHANGED inbox
    /\ UNCHANGED <<world, screen, history, bounds>>

\* Add has set the user up and records it, before it has the route.
RecordActive(s) ==
    /\ Is(s, "add") /\ flight[s].row # "none" /\ flight[s].status # "active"
    /\ fleet' = [fleet EXCEPT ![Of(s)] = "active"]
    /\ flight' = [flight EXCEPT ![s].status = "active"]
    /\ UNCHANGED <<backups, host, dns, drift, screen, inbox, history, bounds>>

Recorded(s) == Is(s, "add") /\ flight[s].status = "active"

\* The row Add found, however old, takes the place of the one it recorded.
RolledBack(s) == [fleet EXCEPT ![Of(s)] = flight[s].row]

\* The route; the daemon refuses one for a user that is gone, and the failure has
\* nothing on the screen read again.
EnableUserGateway(s) ==
    /\ Recorded(s)
    /\ IF fleet[Of(s)] = "absent"
       THEN fleet' = RolledBack(s) /\ unread' = TRUE /\ Reply(s, FALSE, Nobody, {})
       ELSE UNCHANGED <<fleet, unread>> /\ Reply(s, TRUE, Nobody, {})
    /\ UNCHANGED <<backups, host, dns, drift, screen, asked, reported, latest, overtaken, bounds>>

\* Mutant: the order looks at the row when it runs.
ToggledLate(s) == IF fleet[Of(s)] = "paused" THEN "active" ELSE "paused"

\* toggleCmd goes by the row that was on the screen.
Toggled(s) == IF flight[s].status = "paused" THEN "active" ELSE "paused"

\* Deactivate writes the row it has read, paused, or nothing when it was.
Paused(s) ==
    IF flight[s].row = "paused" THEN fleet ELSE [fleet EXCEPT ![Of(s)] = "paused"]

\* Activate is Add for a user that was there.
Toggle(s) ==
    /\ Is(s, "toggle") /\ flight[s].row # "none"
    /\ IF Toggled(s) = "active"
       THEN /\ flight' = [flight EXCEPT ![s] = Order("add", Of(s), "none", {})]
            /\ UNCHANGED <<fleet, inbox>>
       ELSE fleet' = Paused(s) /\ Reply(s, TRUE, Nobody, {})
    /\ UNCHANGED <<backups, host, dns, drift, screen, history, bounds>>

\* removeCmd: Deactivate when the row shown was active, then Remove, which
\* deactivates what is still active and makes a backup first.
Deactivate(s) ==
    /\ Is(s, "remove") /\ flight[s].status = "active" /\ flight[s].row # "none"
    /\ fleet' = Paused(s)
    /\ flight' = [flight EXCEPT ![s].status = "paused"]
    /\ UNCHANGED <<backups, host, dns, drift, screen, inbox, history, bounds>>

RemoveUser(s) ==
    /\ Is(s, "remove") /\ flight[s].status # "active"
    /\ IF fleet[Of(s)] = "absent" THEN UNCHANGED <<fleet, backups>> /\ Reply(s, FALSE, Nobody, {})
       ELSE /\ fleet' = [fleet EXCEPT ![Of(s)] = "absent"]
            /\ backups' = backups \cup {Of(s)}
            /\ Reply(s, TRUE, Nobody, {})
    /\ UNCHANGED <<host, dns, drift, screen, history, bounds>>

CreateBackup(s) ==
    /\ Is(s, "backup")
    /\ LET there == fleet[Of(s)] # "absent" IN
       /\ backups' = IF there THEN backups \cup {Of(s)} ELSE backups
       /\ Reply(s, there, Nobody, {})
    /\ UNCHANGED <<fleet, host, dns, drift, screen, history, bounds>>

ListBackups(s) ==
    /\ Is(s, "backups")
    /\ Reply(s, TRUE, Nobody, backups \cap {Of(s)})
    /\ UNCHANGED <<world, screen, history, bounds>>

\* Restore refuses the backup of another user.
Restore(s) ==
    /\ Is(s, "restore")
    /\ Reply(s, fleet[Of(s)] # "absent" /\ flight[s].plan = {Of(s)}, Nobody, {})
    /\ UNCHANGED <<world, screen, history, bounds>>

\* Snapshot and Probe.
Look(s) ==
    /\ Is(s, "look")
    /\ Reply(s, TRUE, Nobody, {})
    /\ UNCHANGED <<world, screen, history, bounds>>

\* A report of its own, in which nothing is fixable.
RunOpenClawDoctor(s) ==
    /\ Is(s, "openclaw")
    /\ Reply(s, TRUE, Nobody, {})
    /\ UNCHANGED <<world, screen, history, bounds>>

PlanWildcardDNS(s) ==
    /\ Is(s, "planDNS")
    /\ Reply(s, TRUE, Nobody, {CASE dns = "absent" -> "create" [] dns = "tunnel" -> "noop"
                                 [] OTHER -> "update"})
    /\ UNCHANGED <<world, screen, history, bounds>>

\* Cloudflare refuses to create a record that exists and to update one that does not.
ApplyWildcardDNS(s) ==
    /\ Is(s, "applyDNS")
    /\ LET done == \/ flight[s].plan = {"create"} /\ dns = "absent"
                   \/ flight[s].plan = {"update"} /\ dns # "absent" IN
       /\ dns' = IF done THEN "tunnel" ELSE dns
       /\ Reply(s, done \/ flight[s].plan = {"noop"}, Nobody, {})
    /\ UNCHANGED <<fleet, backups, host, drift, screen, history, bounds>>

\* The ports of the enabled routes: those of the active users.
RequiredPorts == {u \in User : fleet[u] = "active"}

PlanUFW(s) ==
    /\ Is(s, "planUFW")
    /\ Reply(s, TRUE, Nobody, RequiredPorts)
    /\ UNCHANGED <<world, screen, history, bounds>>

\* ApplyUFW is EnsureUFW with the ports of the plan, a command at a time.
ApplyUFW(s) ==
    /\ Is(s, "applyUFW")
    /\ IF flight[s].status = "none"
       THEN /\ flight' = [flight EXCEPT ![s].status = "read",
                              ![s].todo = FirewallCommands(host, flight[s].plan)]
            /\ UNCHANGED <<host, inbox>>
       ELSE IF flight[s].todo = <<>>
       THEN UNCHANGED host /\ Reply(s, TRUE, Nobody, {})
       ELSE LET command == Head(flight[s].todo) IN
            /\ host' = IF command \in User THEN host \cup {command} ELSE After(command, host)
            /\ flight' = [flight EXCEPT ![s].todo = Tail(@)]
            /\ UNCHANGED inbox
    /\ UNCHANGED <<fleet, backups, dns, drift, screen, history, bounds>>

\* What filesystemChecks finds fixable: of the users that are there, and the umask.
Fixable == {t \in drift : t \in User => fleet[t] # "absent"}

RunChecks(s) ==
    /\ Is(s, "run")
    /\ Reply(s, TRUE, Nobody, Fixable)
    /\ reported' = reported \cup Fixable
    /\ UNCHANGED <<world, screen, asked, unread, latest, overtaken, bounds>>

\* ApplyFixes, one fix at a time; it stops at the first that fails.
ApplyFixes(s) ==
    /\ Is(s, "applyFixes")
    /\ IF flight[s].plan = {} THEN UNCHANGED drift /\ Reply(s, TRUE, Nobody, {})
       ELSE \E t \in flight[s].plan :
            IF t \in User /\ fleet[t] = "absent"
            THEN UNCHANGED drift /\ Reply(s, FALSE, Nobody, {})
            ELSE /\ drift' = drift \ {t}
                 /\ flight' = [flight EXCEPT ![s].plan = @ \ {t}]
                 /\ UNCHANGED inbox
    /\ UNCHANGED <<fleet, backups, host, dns, screen, history, bounds>>

\* An order fails; Remove may have deactivated the user by then.  Add puts back the
\* row it found, if it can: it does not look whether it could.
Fail(s) ==
    /\ flight[s] # NoOrder /\ budget > 0 /\ budget' = budget - 1
    /\ Reply(s, FALSE, Nobody, {})
    /\ \/ /\ UNCHANGED fleet
          /\ unread' = (unread \/ flight[s].op \in {"list", "remove"} \/ Recorded(s))
       \/ /\ Is(s, "remove") /\ fleet[Of(s)] = "active"
          /\ fleet' = [fleet EXCEPT ![Of(s)] = "paused"]
          /\ unread' = TRUE
       \/ Recorded(s) /\ fleet' = RolledBack(s) /\ unread' = TRUE
    /\ UNCHANGED <<backups, host, dns, drift, screen, asked, reported, latest, overtaken,
                   opens, orders>>

Work(s) ==
    \/ ListUsers(s) \/ ReadUser(s) \/ RecordActive(s) \/ EnableUserGateway(s)
    \/ Toggle(s) \/ Deactivate(s) \/ RemoveUser(s)
    \/ CreateBackup(s) \/ ListBackups(s) \/ Restore(s)
    \/ Look(s) \/ PlanWildcardDNS(s) \/ ApplyWildcardDNS(s) \/ PlanUFW(s) \/ ApplyUFW(s)
    \/ RunChecks(s) \/ RunOpenClawDoctor(s) \/ ApplyFixes(s)

-----------------------------------------------------------------------------
(* Update on a message.                                                    *)

\* Mutant: the cursor stays where it was.
UnclampedCursor(list) == screen.cursor

ClampedCursor(list) ==
    IF screen.cursor > Height(list) /\ Rows(list) # {} THEN Height(list)
    ELSE IF Rows(list) = {} THEN 1 ELSE screen.cursor

\* The screen after message m, which is for the screen that is shown.
UsersAfter(m) ==
    CASE m.op = "list" -> [screen EXCEPT !.list = m.list, !.cursor = ClampedCursor(m.list)]
      [] m.op = "backups" -> [screen EXCEPT !.plan = m.plan,
                                            !.mode = IF m.ok THEN "restore" ELSE @]
      [] m.op \notin {"list", "backups"} /\ m.ok ->
             [screen EXCEPT !.mode = "list"]
      [] OTHER -> screen

\* Mutant: the indicator of a running order stays after an error.
NetworkStaysBusy(m) ==
    IF ~m.ok THEN screen
    ELSE [screen EXCEPT !.loading = FALSE,
                        !.plan = IF m.op \in {"planDNS", "planUFW"} THEN m.plan ELSE @,
                        !.mode = CASE m.op = "planDNS" -> "dns" [] m.op = "planUFW" -> "ufw"
                                   [] m.op = "look" -> @ [] OTHER -> "report"]

NetworkAfter(m) ==
    IF ~m.ok \/ m.op = "look" THEN [screen EXCEPT !.loading = FALSE]
    ELSE [screen EXCEPT !.loading = FALSE,
                        !.plan = IF m.op \in {"planDNS", "planUFW"} THEN m.plan ELSE @,
                        !.mode = CASE m.op = "planDNS" -> "dns" [] m.op = "planUFW" -> "ufw"
                                   [] OTHER -> "report"]

\* A report takes the place of the last one also when the run failed.
DoctorAfter(m) ==
    IF m.op = "applyFixes"
    THEN [screen EXCEPT !.loading = FALSE, !.mode = IF m.ok THEN "report" ELSE @]
    ELSE [screen EXCEPT !.loading = FALSE, !.report = m.plan]

\* Mutant: the list is not read again after an operation.
NeverReloads(m) == FALSE

Reloads(m) == screen.name = "users" /\ m.op \in UserOrder \ {"list", "backups"} /\ m.ok

ScreenAfter(m) ==
    CASE m.op = "back" -> Menu
      [] m.op \in Screens -> Shown(m.op, IF m.op = "users" THEN "list" ELSE "report")
      [] m.op \in UserOrder /\ screen.name = "users" -> UsersAfter(m)
      [] m.op \in NetworkOrder /\ screen.name = "network" -> NetworkAfter(m)
      [] m.op \in DoctorOrder /\ screen.name = "doctor" -> DoctorAfter(m)
      [] OTHER -> screen

\* Result m shows an older list than the one that was read last, which has been
\* shown and is not among the results to come.
Overtakes(m, rest) ==
    /\ m.list # latest
    /\ \A i \in 1..Len(rest) : rest[i].op = "list" => rest[i].list # latest

\* Each result is sent by a goroutine of its own: they come in any order.
Deliver ==
    \E i \in 1..Len(inbox) :
        /\ screen' = ScreenAfter(inbox[i])
        /\ IF Reloads(inbox[i]) \/ inbox[i].op = "users"
           THEN Send(Order("list", "none", "none", {})) ELSE UNCHANGED flight
        /\ inbox' = RemoveAt(inbox, i)
        /\ overtaken' = IF screen.name = "users" /\ inbox[i].op = "list"
                        THEN Overtakes(inbox[i], RemoveAt(inbox, i)) ELSE overtaken
        /\ UNCHANGED <<world, asked, reported, unread, latest, bounds>>

-----------------------------------------------------------------------------
(* Keys.                                                                   *)

On(name, mode) == screen.name = name /\ screen.mode = mode

\* A key that only changes the screen.
Becomes(next) ==
    /\ next # screen
    /\ screen' = next
    /\ UNCHANGED <<world, flight, inbox, history, bounds>>

\* A key that sends an order, and what the administrator asks for with it.
Gives(order, what) ==
    /\ orders < MaxOrders /\ orders' = orders + 1
    /\ Send(order)
    /\ asked' = asked \cup what
    /\ UNCHANGED <<world, inbox, reported, unread, latest, overtaken, opens, budget>>

Post(op) ==
    /\ Len(inbox) < MaxInbox
    /\ inbox' = Append(inbox, Message(op, TRUE, Nobody, {}))
    /\ UNCHANGED <<world, screen, flight, history, orders, budget>>

Open(name) ==
    /\ screen.name = "menu" /\ opens < MaxOpens /\ opens' = opens + 1
    /\ Post(name)

Back ==
    /\ On("users", "list") \/ On("network", "report") \/ On("doctor", "report")
    /\ Post("back") /\ UNCHANGED opens

\* up and down, around the ends of the list.
Move ==
    /\ On("users", "list")
    /\ \E c \in 1..Height(screen.list) : Becomes([screen EXCEPT !.cursor = c])

Prompt(mode) ==
    /\ On("users", "list") /\ mode \in {"add", "remove"}
    /\ mode = "remove" => Selected # {}
    /\ Becomes([screen EXCEPT !.mode = mode])

Escape ==
    \/ /\ screen.mode \in {"add", "remove", "restore"}
       /\ Becomes([screen EXCEPT !.mode = "list"])
    \/ /\ screen.mode \in {"dns", "ufw", "fix"}
       /\ Becomes([screen EXCEPT !.mode = "report"])

PressToggle ==
    /\ On("users", "list")
    /\ \E u \in Selected : Gives(Order("toggle", u, screen.list[u], {}),
           {<<IF screen.list[u] = "paused" THEN "active" ELSE "paused", u>>})
    /\ UNCHANGED screen

PressBackup ==
    /\ On("users", "list")
    /\ \E u \in Selected, op \in {"backup", "backups"} : Gives(Order(op, u, "none", {}), {})
    /\ UNCHANGED screen

EnterAdd(typed) ==
    /\ On("users", "add")
    /\ Gives(Order("add", typed, "none", {}), {<<"active", typed>>})
    /\ UNCHANGED screen

\* The name typed is compared with the row under the cursor at that moment.
Confirmed(typed, u) == typed = u

EnterRemove(typed) ==
    /\ On("users", "remove")
    /\ \E u \in Selected :
         /\ Confirmed(typed, u)
         /\ Gives(Order("remove", u, screen.list[u], {}),
                  {<<"absent", typed>>, <<"paused", typed>>})
    /\ UNCHANGED screen

EnterRestore ==
    /\ On("users", "restore")
    /\ \E u \in Selected, b \in screen.plan : Gives(Order("restore", u, "none", {b}), {})
    /\ UNCHANGED screen

\* An order of the network or doctor screen, which shows that it runs.
Busy(order) == Gives(order, {}) /\ screen' = [screen EXCEPT !.loading = TRUE]

PressReport ==
    \/ /\ On("network", "report")
       /\ \E op \in {"look", "planDNS", "planUFW"} : Busy(Order(op, "none", "none", {}))
    \/ /\ On("doctor", "report")
       /\ \E op \in {"run", "openclaw"} : Busy(Order(op, "none", "none", {}))

\* Mutant: the plan of the doctor has every file it knows.
PlansAll(report) == Drifts

\* PlanFixes, from the last report.
PlanFixes(report) == report

ReviewFixes ==
    /\ On("doctor", "report")
    /\ Becomes([screen EXCEPT !.mode = "fix", !.plan = PlanFixes(screen.report)])

EnterReview ==
    \/ On("network", "dns") /\ Busy(Order("applyDNS", "none", "none", screen.plan))
    \/ On("network", "ufw") /\ Busy(Order("applyUFW", "none", "none", screen.plan))
    \/ On("doctor", "fix") /\ screen.plan # {} /\ Busy(Order("applyFixes", "none", "none", screen.plan))
    \/ On("doctor", "fix") /\ screen.plan = {} /\ Becomes([screen EXCEPT !.mode = "report"])

-----------------------------------------------------------------------------
(* The world.                                                              *)

\* ctrl+c: the program ends with its goroutines, and is started again.
Quit ==
    /\ budget > 0 /\ budget' = budget - 1
    /\ screen' = Menu /\ inbox' = <<>>
    /\ flight' = [s \in 1..MaxSlots |-> NoOrder]
    /\ UNCHANGED <<world, history, opens, orders>>

\* Somebody edits the record, or a tenant the mode of a file.
Meddle ==
    /\ budget > 0 /\ budget' = budget - 1
    /\ \/ dns' \in {"absent", "other"} \ {dns} /\ UNCHANGED drift
       \/ drift # Drifts /\ drift' = Drifts /\ UNCHANGED dns
    /\ UNCHANGED <<fleet, backups, host, screen, flight, inbox, history, opens, orders>>

Next ==
    \/ \E s \in 1..MaxSlots : Work(s) \/ Fail(s)
    \/ Deliver
    \/ \E name \in Screens : Open(name)
    \/ Back \/ Move \/ Escape \/ PressToggle \/ PressBackup
    \/ \E mode \in {"add", "remove"} : Prompt(mode)
    \/ \E u \in User : EnterAdd(u) \/ EnterRemove(u)
    \/ EnterRestore
    \/ PressReport \/ ReviewFixes \/ EnterReview
    \/ Quit \/ Meddle

Spec == Init /\ [][Next]_vars

-----------------------------------------------------------------------------
(* Properties.                                                             *)

Quiet == inbox = <<>> /\ Free = 1..MaxSlots

\* When nothing is under way, the list on the screen is the fleet: orders that
\* overlap, results for an earlier visit to the screen and results that nobody
\* took notwithstanding.  Two exceptions, which the code has: after a failure that
\* changed a row or hid the list nobody reads it again, and an older list may come
\* after a newer one and stay.
ListCurrent == screen.name = "users" /\ Quiet /\ ~unread /\ ~overtaken => screen.list = fleet

\* An Add or Activate of user u gives up and puts back the row it found.
GivesUp(s, u) ==
    /\ Recorded(s) /\ Of(s) = u
    /\ flight'[s] = NoOrder /\ fleet'[u] = flight[s].row

\* A user is activated, paused or removed only if the administrator asked for just
\* that, of that user, at a screen that showed it: two keys in a row, a list that
\* moves under the cursor and a stale row never turn one request into another.  Only
\* an Add or Activate that fails changes a row otherwise, and only back to what it
\* had found of that user, which need not be what another order has left there since.
NothingUnasked ==
    [][\A u \in User : fleet'[u] # fleet[u] =>
           <<fleet'[u], u>> \in asked \/ \E s \in 1..MaxSlots : GivesUp(s, u)]_vars

\* Whenever an order of the firewall plan turns the firewall on, or reports
\* success, every port of its plan is open.
PlannedPortsOpen ==
    [][\A s \in 1..MaxSlots :
        Is(s, "applyUFW")
        /\ \/ inbox' = Append(inbox, Message("applyUFW", TRUE, Nobody, {})) /\ flight'[s] = NoOrder
           \/ "firewall" \in host' \ host /\ flight'[s] # flight[s]
        => flight[s].plan \subseteq host' /\ "deny" \in host']_vars

\* Doctor repairs only what it has reported.
RepairsReported == [][drift \ drift' \subseteq reported]_vars

\* A screen says that an order runs only while one does, or its result is coming:
\* also for the order given on an earlier visit, and after one that failed.
BusyIsTrue ==
    LET family == IF screen.name = "network" THEN NetworkOrder ELSE DoctorOrder IN
    screen.loading => \/ \E s \in 1..MaxSlots : flight[s].op \in family
                      \/ \E i \in 1..Len(inbox) : inbox[i].op \in family
=============================================================================
