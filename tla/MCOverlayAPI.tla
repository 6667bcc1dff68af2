---------------------------- MODULE MCOverlayAPI ----------------------------
(* Instances of OverlayAPI for TLC. *)
EXTENDS OverlayAPI, TLC

CONSTANTS alice, bob, catchAll

\* One user whose two plugins ask for the same hostname hint.
OneUser == {alice}
OneUserIds == {"gateway:alice", "plugin:alice:mail:cb", "plugin:alice:cal:cb"}
OneUserGateway == alice :> "gateway:alice"
OneUserOwner == [id \in OneUserIds |-> alice]
OneUserHost == [id \in OneUserIds |-> IF id = "gateway:alice" THEN "gateway-alice" ELSE "cb.alice"]

\* Two users, each with a plugin; the names of the users have the same slug, so
\* the plugins claim the same hostname.
TwoUsers == {alice, bob}
TwoUserIds == {"gateway:alice", "gateway:bob", "plugin:alice:mail:cb", "plugin:bob:mail:cb"}
TwoUserGateway == (alice :> "gateway:alice") @@ (bob :> "gateway:bob")
TwoUserOwner == [id \in TwoUserIds |->
                    IF id \in {"gateway:alice", "plugin:alice:mail:cb"} THEN alice ELSE bob]
TwoUserHost == [id \in TwoUserIds |->
                    IF id \in {"gateway:alice", "gateway:bob"} THEN id ELSE "cb.a-b"]

\* What clients send: to the serial daemon what the administrator may send
\* about alice, her watcher, and bob to have a plugin and to delete anyone's; to
\* the one that fails and dies anything the administrator may send; to the
\* concurrent ones the upserts of two plugins, each with a port of its own, or
\* upserts and disable of one user.
AliceAndBob(o) ==
    \/ o.by = Admin /\ o.user = alice /\ (o.kind = "upsertPlugin" => o.port = 1)
    \/ o.by = bob /\ o.user = bob /\ o.kind = "upsertPlugin" /\ o.port = 2
    \/ o.by = bob /\ o.kind = "deletePlugin" /\ o.id \in PluginId
    \/ o.by = alice /\ o.user = alice /\ o.kind = "enable"
PluginPort(id) == IF id = "plugin:alice:mail:cb" THEN 1 ELSE 2
UpsertsOfPlugins(o) == o.kind = "upsertPlugin" /\ o.by = o.user /\ o.port = PluginPort(o.id)
AnythingOfAlice(o) == o.by = Admin /\ o.port \in {0, 1}
UpsertsAndDisable(o) ==
    o.by = Admin /\ o.kind \in {"upsertGateway", "upsertPlugin", "disable"} /\ o.port \in {0, 1}

\* A gateway and a plugin, for interleaving handlers.
FewIds == {"gateway:alice", "plugin:alice:mail:cb"}
FewGateway == alice :> "gateway:alice"
FewOwner == [id \in FewIds |-> alice]
FewHost == [id \in FewIds |-> id]

Handlers == Permutations(Request)

Existing == {catchAll}
Absent == {}
=============================================================================
