----------------------------- MODULE StateStore -----------------------------
(***************************************************************************)
(* The users and routes tables of state.db (internal/state).               *)
(*                                                                         *)
(* Every statement of the store that the rest of the system issues against *)
(* these two tables is one action here, with the constraints of the schema *)
(* as its guard: users.port and routes.hostname are UNIQUE, routes.username *)
(* is a foreign key with ON DELETE CASCADE.  A statement whose guard is    *)
(* false is one that SQLite rejects; the callers model that error, and the *)
(* statements that fail for another reason                                 *)
(* (SQLITE_BUSY: two processes share the file and no busy_timeout is set). *)
(*                                                                         *)
(* Modules of the programs that use the store extend this one, and their   *)
(* specifications imply StoreSpec: they reach the tables by no other way.  *)
(***************************************************************************)
EXTENDS Naturals

CONSTANTS
    User,         \* usernames accepted by ValidateUsername
    Port,         \* the local ports in play, all positive
    Uid,          \* the uids useradd hands out, all positive
    RouteId,      \* canonical route ids, "gateway:<u>" and "plugin:<u>:<p>:<h>"
    GatewayId,    \* GatewayId[u] is the id "gateway:<u>"
    Owner,        \* Owner[id] is the username inside the id
    Host          \* Host[id] is the hostname derived from the id

ASSUME StoreAssumption ==
    /\ Port \subseteq Nat \ {0}
    /\ Uid \subseteq Nat \ {0} /\ Uid # {}
    /\ GatewayId \in [User -> RouteId]
    /\ Owner \in [RouteId -> User]
    /\ \A u \in User : Owner[GatewayId[u]] = u
    /\ DOMAIN Host = RouteId

VARIABLES
    users,        \* users[u]: the row of u, NoUser when there is none
    routes        \* routes[id]: the row of id, NoRoute when there is none

storeVars == <<users, routes>>

PluginId == RouteId \ {GatewayId[u] : u \in User}
Hostname == {Host[id] : id \in RouteId}
RoutesOf(u) == {id \in RouteId : Owner[id] = u}

-----------------------------------------------------------------------------
(* Rows.  The manager and the daemon write no row without a port or a uid. *)

UserRow == [status : {"active", "paused"}, port : Port, linger : BOOLEAN, uid : Uid]
NoUser  == [status |-> "none", port |-> 0, linger |-> FALSE, uid |-> 0]

RouteRow == [state : {"enabled", "disabled"}, port : Port]
NoRoute  == [state |-> "none", port |-> 0]

UserExists(u) == users[u].status # "none"
RouteExists(id) == routes[id].state # "none"
Enabled(id) == routes[id].state = "enabled"

-----------------------------------------------------------------------------
(* Statements.                                                             *)

PortFree(u, p) == \A v \in User \ {u} : users[v].port # p

\* Mutant: routes.hostname is not UNIQUE.
AnyHost(id) == TRUE

HostFree(id) ==
    \A other \in RouteId \ {id} : Host[other] = Host[id] => ~RouteExists(other)

\* INSERT INTO users ... ON CONFLICT(username) DO UPDATE.
UpsertUser(u, row) ==
    /\ PortFree(u, row.port)
    /\ users' = [users EXCEPT ![u] = row]
    /\ UNCHANGED routes

\* DELETE FROM users: the foreign key deletes the user's routes with the row.
DeleteUser(u) ==
    /\ UserExists(u)
    /\ users' = [users EXCEPT ![u] = NoUser]
    /\ routes' = [id \in RouteId |-> IF Owner[id] = u THEN NoRoute ELSE routes[id]]

\* INSERT INTO routes ... ON CONFLICT(id) DO UPDATE; both callers enable it.
UpsertRoute(id, p) ==
    /\ UserExists(Owner[id])
    /\ HostFree(id)
    /\ routes' = [routes EXCEPT ![id] = [state |-> "enabled", port |-> p]]
    /\ UNCHANGED users

\* DELETE FROM routes WHERE id = ?; ErrNoRoute when no row matched.
DeleteRoute(id) ==
    /\ RouteExists(id)
    /\ routes' = [routes EXCEPT ![id] = NoRoute]
    /\ UNCHANGED users

\* UPDATE routes SET enabled = ? WHERE username = ?; no row need match.
SetRoutesEnabled(u, on) ==
    /\ routes' = [id \in RouteId |->
                    IF Owner[id] = u /\ RouteExists(id)
                    THEN [routes[id] EXCEPT !.state = IF on THEN "enabled" ELSE "disabled"]
                    ELSE routes[id]]
    /\ UNCHANGED users

-----------------------------------------------------------------------------
StoreInit ==
    /\ users = [u \in User |-> NoUser]
    /\ routes = [id \in RouteId |-> NoRoute]

StoreNext ==
    \/ \E u \in User, row \in UserRow : UpsertUser(u, row)
    \/ \E u \in User : DeleteUser(u)
    \/ \E id \in RouteId, p \in Port : UpsertRoute(id, p)
    \/ \E id \in RouteId : DeleteRoute(id)
    \/ \E u \in User, on \in BOOLEAN : SetRoutesEnabled(u, on)

StoreSpec == StoreInit /\ [][StoreNext]_storeVars

-----------------------------------------------------------------------------
StoreTypeOK ==
    /\ users \in [User -> UserRow \cup {NoUser}]
    /\ routes \in [RouteId -> RouteRow \cup {NoRoute}]

\* No two rows of users hold the same gateway port.
PortsDistinct ==
    \A u, v \in User : u # v /\ UserExists(u) => users[u].port # users[v].port

\* No two rows of routes claim the same hostname.
HostsDistinct ==
    \A i, j \in RouteId : i # j /\ RouteExists(i) /\ RouteExists(j) => Host[i] # Host[j]

\* Every route row has its owner's row, so a deleted user leaves none behind.
OwnersExist ==
    \A id \in RouteId : RouteExists(id) => UserExists(Owner[id])

\* What the constraints of the schema keep true of the tables together.
Integrity == PortsDistinct /\ HostsDistinct /\ OwnersExist
=============================================================================
