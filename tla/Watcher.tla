------------------------------ MODULE Watcher -------------------------------
(***************************************************************************)
(* openclaw-overlay-watcher of one user (internal/watcher/service.go,      *)
(* snapshot.go, config.go, fsnotify.go, openclaw.go and its main): it      *)
(* reads the callbacks the tenant declares in openclaw.json, publishes a   *)
(* route for each through openclaw-overlay-api, writes the URL and the     *)
(* port back into the file, and remembers in watcher.state what it did.    *)
(*                                                                         *)
(* The tenant edits the file at any moment.  systemd restarts the process  *)
(* when it ends with an error, and Add starts it before the user's row     *)
(* exists in state.db.                                                     *)
(*                                                                         *)
(* Abstractions.  A callback is one key of the snapshot: a plugin and its  *)
(* hint, which alone makes the hostname; the two config keys never change. *)
(* The URL is written into the file but not kept here: nothing reads it.   *)
(* A call to the API is one step.  Events of the file are coalesced into   *)
(* one, as the debounce timer does.  WriteFile of the snapshot is atomic.  *)
(* Nobody else changes the plugin routes of the user.  The openclaw CLI,   *)
(* inotify and systemd are external.                                       *)
(***************************************************************************)
EXTENDS Naturals, FiniteSets

CONSTANTS
    Callback,     \* the callbacks a tenant may declare
    Host,         \* the hostname of each, two with the same hint share one
    Port,         \* the ports a plugin may declare
    MaxEdits,     \* edits of openclaw.json by the tenant in a behaviour
    Budget        \* failures and kills in a behaviour

ASSUME WatcherAssumption ==
    /\ IsFiniteSet(Callback) /\ Port \subseteq Nat \ {0}
    /\ MaxEdits \in Nat /\ Budget \in Nat

VARIABLES
    entry,        \* openclaw.json: what it holds of each callback
    readable,     \* the file exists and parses, with all ports in range
    account,      \* the user's row exists in state.db
    row,          \* the port of each plugin route in state.db, 0 without a row
    snapshot,     \* watcher.state: the port it holds per callback, 0 for none
    proc,         \* the process: its program counter and the locals of Sync
    notified,     \* a file event has not been taken from the channel
    pending,      \* the debounce timer is armed
    ok,           \* the last sync returned no error
    unread,       \* the file has changed since the last sync read it
    unsaved,      \* the callbacks whose row the watcher has changed since
                  \* watcher.state last took up a change of theirs
    edits,        \* edits so far
    budget,       \* failures left
    calm          \* in this behaviour nothing fails, nothing is killed, and the
                  \* file does not become unreadable while a sync writes it

file == <<entry, readable, unread, edits>>
loop == <<notified, pending, ok>>
vars == <<file, account, row, snapshot, unsaved, proc, loop, budget, calm>>

PortOrNone == Port \cup {0}
Ports == [Callback -> PortOrNone]

\* overlay is overlay.callback.local_port (or its legacy name), conf is
\* config.callbackPort.
NoEntry == [overlay |-> 0, conf |-> 0]

\* The port of callbackRoute: the overlay's own key first.
Declared(c) == IF entry[c].overlay # 0 THEN entry[c].overlay ELSE entry[c].conf
Discovered == [c \in Callback |-> Declared(c)]

Nowhere == [c \in Callback |-> 0]
Down == [pc |-> "down", first |-> TRUE, snap |-> Nowhere, found |-> Nowhere,
         drop |-> {}, put |-> {}, cur |-> {}]
Idle == [Down EXCEPT !.pc = "idle", !.first = FALSE]

TypeOK ==
    /\ entry \in [Callback -> [overlay : PortOrNone, conf : PortOrNone]]
    /\ row \in Ports /\ snapshot \in Ports /\ unsaved \subseteq Callback
    /\ {readable, account, notified, pending, ok, unread, calm} \subseteq BOOLEAN
    /\ edits \in 0..MaxEdits /\ budget \in 0..Budget
    /\ proc \in [pc : {"down", "read", "sync", "url", "port", "idle"}, first : BOOLEAN,
                 snap : Ports, found : Ports, drop : SUBSET Callback,
                 put : SUBSET Callback, cur : SUBSET Callback]

Init ==
    /\ entry = [c \in Callback |-> NoEntry] /\ readable = TRUE
    /\ account = FALSE
    /\ row = Nowhere /\ snapshot = Nowhere /\ unsaved = {}
    /\ proc = Down
    /\ notified = FALSE /\ pending = FALSE /\ ok = FALSE /\ unread = FALSE
    /\ edits = 0 /\ budget = Budget
    /\ calm \in BOOLEAN

-----------------------------------------------------------------------------
(* Start.  The directory is watched before the first sync.                 *)

\* Mutant: events reach the loop only from the end of the first sync on.
HeardAfterSync == proc.pc # "down" /\ ~proc.first

\* The directory is watched: a change of the file becomes an event.
Heard == proc.pc # "down"

Raise == notified' = (notified \/ Heard)

Boot ==
    /\ proc.pc = "down"
    /\ proc' = [Down EXCEPT !.pc = "read"]
    /\ notified' = FALSE /\ pending' = FALSE /\ ok' = FALSE
    /\ UNCHANGED <<file, account, row, snapshot, unsaved, budget, calm>>

-----------------------------------------------------------------------------
(* Sync.                                                                   *)

\* Mutant: an entry whose port changed counts as unchanged.
DiffByKey(snap, found) ==
    [put |-> {c \in Callback : found[c] # 0 /\ snap[c] = 0},
     drop |-> {c \in Callback : snap[c] # 0 /\ found[c] = 0}]

DiffSnapshot(snap, found) ==
    [put |-> {c \in Callback : found[c] # 0 /\ found[c] # snap[c]},
     drop |-> {c \in Callback : snap[c] # 0 /\ found[c] = 0}]

Read ==
    /\ proc.pc = "read" /\ readable
    /\ LET diff == DiffSnapshot(snapshot, Discovered)
       IN proc' = [proc EXCEPT !.pc = "sync", !.snap = snapshot, !.found = Discovered,
                               !.drop = diff.drop, !.put = diff.put]
    /\ unread' = FALSE
    /\ UNCHANGED <<entry, readable, edits, account, row, snapshot, unsaved, loop, budget, calm>>

\* The route is retired; the API answers 404 when it has no such row.
Retire(c) ==
    /\ proc.pc = "sync" /\ c \in proc.drop
    /\ account /\ row[c] # 0
    /\ row' = [row EXCEPT ![c] = 0] /\ unsaved' = unsaved \cup {c}
    /\ proc' = [proc EXCEPT !.drop = @ \ {c}, !.snap[c] = 0]
    /\ UNCHANGED <<file, account, snapshot, loop, budget, calm>>

\* routes.hostname is UNIQUE: the insert fails while another row has the hostname.
Refused(c) == \E d \in Callback \ {c} : Host[d] = Host[c] /\ row[d] # 0

Publish(c) ==
    /\ proc.pc = "sync" /\ proc.drop = {} /\ c \in proc.put
    /\ account /\ ~Refused(c)
    /\ row' = [row EXCEPT ![c] = proc.found[c]] /\ unsaved' = unsaved \cup {c}
    /\ proc' = [proc EXCEPT !.pc = "url", !.cur = {c}]
    /\ UNCHANGED <<file, account, snapshot, loop, budget, calm>>

\* SetCallback: openclaw config set, first the URL, then the port.
TellUrl(c) ==
    /\ proc.pc = "url" /\ c \in proc.cur /\ readable
    /\ unread' = TRUE /\ Raise
    /\ proc' = [proc EXCEPT !.pc = "port"]
    /\ UNCHANGED <<entry, readable, edits, account, row, snapshot, unsaved, pending, ok, budget, calm>>

TellPort(c) ==
    /\ proc.pc = "port" /\ c \in proc.cur /\ readable
    /\ entry' = [entry EXCEPT ![c].conf = proc.found[c]]
    /\ unread' = TRUE /\ Raise
    /\ proc' = [proc EXCEPT !.pc = "sync", !.put = @ \ {c}, !.cur = {},
                            !.snap[c] = proc.found[c]]
    /\ UNCHANGED <<readable, edits, account, row, snapshot, unsaved, pending, ok, budget, calm>>

\* SaveSnapshot: once, after all calls.
Save ==
    /\ proc.pc = "sync" /\ proc.drop = {} /\ proc.put = {}
    /\ snapshot' = proc.snap
    /\ unsaved' = {c \in unsaved : proc.snap[c] = snapshot[c]}
    /\ proc' = Idle /\ ok' = TRUE
    /\ UNCHANGED <<file, account, row, notified, pending, budget, calm>>

\* What makes the step at hand fail whatever happens.
Obstructed ==
    \/ proc.pc \in {"read", "url", "port"} /\ ~readable
    \/ proc.pc = "sync" /\ proc.drop # {} /\ (~account \/ \E c \in proc.drop : row[c] = 0)
    \/ proc.pc = "sync" /\ proc.put # {} /\ ~account
    \/ proc.pc = "sync" /\ proc.drop = {} /\ \E c \in proc.put : Refused(c)

\* What a call reported as failed may have done to the rows all the same.
LostAnswers ==
    {row}
    \cup {[row EXCEPT ![c] = 0] : c \in IF proc.pc = "sync" THEN proc.drop ELSE {}}
    \cup {[row EXCEPT ![c] = proc.found[c]] :
            c \in IF proc.pc = "sync" /\ proc.drop = {}
                  THEN {d \in proc.put : ~Refused(d)} ELSE {}}

\* An error ends the process on its first sync and is reported on a later one,
\* which is not tried again before the next event.
SyncFails ==
    /\ proc.pc \in {"read", "sync", "url", "port"}
    /\ \/ Obstructed /\ UNCHANGED <<row, budget>>
       \/ /\ ~calm /\ budget > 0 /\ budget' = budget - 1
          /\ account \/ proc.pc = "read"
          /\ row' \in LostAnswers
    /\ unsaved' = unsaved \cup {c \in Callback : row'[c] # row[c]}
    /\ proc' = IF proc.first THEN Down ELSE Idle
    /\ ok' = FALSE
    /\ unread' = (unread /\ proc.pc # "read")
    /\ UNCHANGED <<entry, readable, edits, account, snapshot, notified, pending, calm>>

\* SIGTERM, a crash, a reboot.
Kill ==
    /\ proc.pc # "down" /\ ~calm /\ budget > 0
    /\ budget' = budget - 1
    /\ proc' = Down
    /\ notified' = FALSE /\ pending' = FALSE /\ ok' = FALSE
    /\ UNCHANGED <<file, account, row, snapshot, unsaved, calm>>

-----------------------------------------------------------------------------
(* The loop: an event arms the timer, the timer starts a sync.             *)

\* Mutant: a failed sync ends the loop's attention to events.
NoticeAfterSuccess ==
    /\ proc.pc = "idle" /\ notified /\ ok
    /\ notified' = FALSE /\ pending' = TRUE
    /\ UNCHANGED <<file, account, row, snapshot, unsaved, proc, ok, budget, calm>>

Notice ==
    /\ proc.pc = "idle" /\ notified
    /\ notified' = FALSE /\ pending' = TRUE
    /\ UNCHANGED <<file, account, row, snapshot, unsaved, proc, ok, budget, calm>>

TimerFires ==
    /\ proc.pc = "idle" /\ pending
    /\ pending' = FALSE
    /\ proc' = [Idle EXCEPT !.pc = "read"]
    /\ UNCHANGED <<file, account, row, snapshot, unsaved, notified, ok, budget, calm>>

-----------------------------------------------------------------------------
(* The tenant and the administrator.                                       *)

\* Mutant: callbackRoute takes a port out of range.
OfferedOutOfRange == PortOrNone \cup {65536}

\* What a file that DiscoverCallbacks accepts may hold of a port.
Offered == PortOrNone

Edited(e, r) ==
    /\ edits < MaxEdits
    /\ entry' = e /\ readable' = r
    /\ <<e, r>> # <<entry, readable>>
    /\ edits' = edits + 1
    /\ unread' = TRUE /\ Raise
    /\ UNCHANGED <<account, row, snapshot, unsaved, proc, pending, ok, budget, calm>>

SetOverlay(c) == \E p \in Offered : Edited([entry EXCEPT ![c].overlay = p], readable)
SetConf(c) == \E p \in Offered : Edited([entry EXCEPT ![c].conf = p], readable)
RemoveEntry(c) == Edited([entry EXCEPT ![c] = NoEntry], readable)
Syncing == proc.pc \in {"sync", "url", "port"}
Break == (calm => ~Syncing) /\ Edited(entry, FALSE)
Repair == Edited(entry, TRUE)

\* The file is written with the content it has, or its mode changes.
Touch ==
    /\ Heard /\ notified' = TRUE
    /\ UNCHANGED <<file, account, row, snapshot, unsaved, proc, pending, ok, budget, calm>>

\* Add saves the user's row, after it started the watcher.
RecordAccount ==
    /\ ~account /\ account' = TRUE
    /\ UNCHANGED <<file, row, snapshot, unsaved, proc, loop, budget, calm>>

-----------------------------------------------------------------------------
Works ==
    \/ Boot \/ Read \/ Save \/ SyncFails \/ Notice \/ TimerFires
    \/ \E c \in Callback : Retire(c) \/ Publish(c) \/ TellUrl(c) \/ TellPort(c)

Next ==
    \/ Works \/ Kill \/ Break \/ Repair \/ Touch \/ RecordAccount
    \/ \E c \in Callback : SetOverlay(c) \/ SetConf(c) \/ RemoveEntry(c)

Spec == Init /\ [][Next]_vars

\* The process is scheduled and restarted, Add ends, and the file rests for the
\* debounce time now and then, so that the timer fires though events reset it.
FairSpec == Spec /\ WF_vars(Works) /\ WF_vars(TimerFires) /\ WF_vars(RecordAccount)

-----------------------------------------------------------------------------
(* Properties.                                                             *)

Settled == proc.pc = "idle" /\ ~notified /\ ~pending /\ ok

\* What the watcher has recorded of a callback is what it did: once it rests
\* after a sync without error, every callback has a route to the port the file
\* declares, and none when it declares none, whatever was edited during the syncs
\* and whichever steps failed or were repeated after a restart.  Left out are the
\* callbacks a sync published or retired and then ended before it saved, until a
\* sync deals with them again: DeclaredPortServed says what may become of those.
SettledInSync == Settled => \A c \in Callback \ unsaved : row[c] = Declared(c)

\* What the repository says of a rest after a success (docs/phases/
\* phase-7-overlay-watcher.md, T06: a changed local port updates the route), with
\* no exception.  It fails when a sync publishes a new port and ends before the
\* save, and the tenant goes back to the port the snapshot still holds.
DeclaredPortServed ==
    Settled => \A c \in Callback : Declared(c) # 0 => row[c] = Declared(c)

\* No edit goes unseen: a file that no sync has read yet has an event or an
\* armed timer that leads to one, or the process is about to read it.
NoMissedEdit == unread => notified \/ pending \/ proc.pc \in {"down", "read"}

\* A snapshot entry without a row, left by a sync that ended between a delete and
\* the save: every later delete of it is answered 404 and ends the sync.
Stranded == \E c \in Callback : snapshot[c] # 0 /\ row[c] = 0

\* A callback whose hostname another row has: the daemon refuses it for ever.
Clashing == \E c \in Callback : Declared(c) # 0 /\ Refused(c)

\* Once the edits are over, the file is readable and the account exists, the
\* rows come to reflect the file and stay so.  Without failures this takes no
\* further event, unless the first sync ended before the account existed; with
\* failures, or in that case, it takes a touch of the file now and then, as a
\* sync that failed is not tried again.  A stranded entry or a clash of hostnames
\* stands in the way for ever.
Converges ==
    /\ <>[](readable /\ account)
    /\ [](calm /\ (account \/ proc.first)) \/ []<>notified
    => <>[](Stranded \/ Clashing \/ \A c \in Callback \ unsaved : row[c] = Declared(c))

\* What the repository says of every callback the file declares (docs/phases/
\* phase-7-overlay-watcher.md, T06: the initial sync publishes discovered callback
\* routes).  It fails for two plugins with the same hint, such as the default.
DiscoveredPublished ==
    \A c \in Callback :
        <>[](readable /\ account /\ Declared(c) # 0) /\ []<>notified => <>(row[c] # 0)
=============================================================================
