------------------------------- MODULE MCBackup -----------------------------
(* Instances of Backup for TLC: two tenants, the screen and the timer. *)
EXTENDS Backup, TLC

CONSTANTS alice, bob, screen, timer

Tenants == {alice, bob}
Slots == {screen, timer}

Symmetry == Permutations(Tenants)

\* The user screen runs as the administrator, the timer as root.
TimerReads == {timer}
ScreenOnly == {screen}

\* No coincidence happens.
Spaced == {}
\* Two jobs may find no key at once.
FirstKeys == {"firstKey"}
=============================================================================
