------------------------------ MODULE MCWatcher -----------------------------
(* Instances of Watcher for TLC: callbacks with a hostname each, callbacks that *)
(* share one, as those of plugins without a hint do, and both together.         *)
EXTENDS Watcher, TLC

CONSTANTS mail, chat, news, hostA, hostB

TwoCallbacks == {mail, chat}
ThreeCallbacks == {mail, chat, news}
OwnHosts == mail :> hostA @@ chat :> hostB
OneHost == mail :> hostA @@ chat :> hostA
MixedHosts == mail :> hostA @@ chat :> hostA @@ news :> hostB
OnePort == {1}
TwoPorts == {1, 2}
=============================================================================
