--------------------------- MODULE MCUserLifecycle ---------------------------
(* Instances of UserLifecycle for TLC. *)
EXTENDS UserLifecycle, TLC

CONSTANTS alice, bob

\* One user, with a plugin that has a callback.
OneUser == {alice}
OneUserIds == {"gateway:alice", "plugin:alice:mail:cb"}
OneUserGateway == alice :> "gateway:alice"
OneUserOwner == [id \in OneUserIds |-> alice]
OneUserHost == [id \in OneUserIds |-> id]

\* Two users, alice with a plugin.
BothUsers == {alice, bob}
BothUsersIds == {"gateway:alice", "gateway:bob", "plugin:alice:mail:cb"}
BothUsersGateway == (alice :> "gateway:alice") @@ (bob :> "gateway:bob")
BothUsersOwner == [id \in BothUsersIds |-> IF id = "gateway:bob" THEN bob ELSE alice]
BothUsersHost == [id \in BothUsersIds |-> id]

\* Two users without plugins.
TwoUsers == {alice, bob}
TwoUserIds == {"gateway:alice", "gateway:bob"}
TwoUserGateway == (alice :> "gateway:alice") @@ (bob :> "gateway:bob")
TwoUserOwner == ("gateway:alice" :> alice) @@ ("gateway:bob" :> bob)
TwoUserHost == [id \in TwoUserIds |-> id]

\* useradd gives a user its old uid again, or may not.
Uids == {1001, 1002, 1003}
OneUid == [u \in User |-> IF u = alice THEN {1001} ELSE {1002}]
FreshUid == [u \in User |-> IF u = alice THEN {1001, 1003} ELSE {1002}]

\* The steps at which an Add that fails leaves services running, and the others.
LateSteps == {"install", "onboard", "units", "startGateway", "startWatcher", "ready",
              "record", "route", "undo"}
EarlySteps == Steps \ (LateSteps \cup {"idle"})
AnyStep == EarlySteps \cup LateSteps
NoStep == {}
=============================================================================
