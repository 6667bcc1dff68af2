-------------------------- MODULE AtomicPublication --------------------------
(***************************************************************************)
(* What the publication of the route table promises to cloudflared: the    *)
(* file on disk and the rules being served move together, from one         *)
(* rendering of the table to a later one, or not at all.  There is no      *)
(* temporary file, no validation and no rollback here; a publication that  *)
(* fails somewhere in between is one that aborts.                          *)
(*                                                                         *)
(* OverlayAPI implements this when one handler runs at a time, config.yml  *)
(* exists, and the write of the rollback succeeds (Publication there).     *)
(***************************************************************************)
CONSTANTS
    Rendering(_), \* Rendering(t): the file that stands for the table t
    None          \* no publication is under way

VARIABLES
    table,        \* the rows the file is rendered from
    listed,       \* the rendering a publication under way wants to install
    file,         \* the configuration to fall back to
    served        \* the rules cloudflared serves

pubVars == <<table, listed, file, served>>

Init == listed = None /\ file = served

Change == table' # table /\ UNCHANGED <<listed, file, served>>

Begin ==
    /\ listed = None
    /\ listed' = Rendering(table)
    /\ UNCHANGED <<table, file, served>>

Commit ==
    /\ listed # None
    /\ file' = listed
    /\ served' = listed
    /\ listed' = None
    /\ UNCHANGED table

Abort ==
    /\ listed # None
    /\ listed' = None
    /\ UNCHANGED <<table, file, served>>

Next == Change \/ Begin \/ Commit \/ Abort

Spec == Init /\ [][Next]_pubVars
==============================================================================
