------------------------------ MODULE MCConsole -----------------------------
(* Instances of Console for TLC: two users, all screens. *)
EXTENDS Console

TwoUsers == {"alice", "bob"}
InOrder == <<"alice", "bob">>
SomeFleets == {[alice |-> "active", bob |-> "absent"]}
AllScreens == {"users", "network", "doctor"}
SomeFirewalls == {{}, {"firewall"}}
SomeFiles == {"alice", "umask"}
=============================================================================
