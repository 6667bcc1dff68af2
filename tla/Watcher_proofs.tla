--------------------------- MODULE Watcher_proofs ---------------------------
(***************************************************************************)
(* Proofs about Watcher for any set of callbacks, any number of edits and  *)
(* of failures: types, that no edit of the file goes unseen, and that a    *)
(* watcher at rest after a success has published what the file declares.   *)
(***************************************************************************)
EXTENDS Watcher, TLAPS

\* A sync starts, and the process ends, with the event in hand or another ahead:
\* no edit between the start of the watch and the end of a sync is lost.
THEOREM MissesNoEdit == Spec => []NoMissedEdit
<1>. DEFINE Inv == NoMissedEdit
<1>1. Init => Inv
  BY DEF Init, NoMissedEdit
<1>2. Inv /\ [Next]_vars => Inv'
  <2>. SUFFICES ASSUME NoMissedEdit, [Next]_vars PROVE NoMissedEdit'
    OBVIOUS
  <2>1. CASE Boot
    BY <2>1 DEF NoMissedEdit, Boot, Down, file
  <2>2. CASE Read
    BY <2>2 DEF NoMissedEdit, Read
  <2>3. CASE Save
    BY <2>3 DEF NoMissedEdit, Save, Idle, Down, file
  <2>4. CASE SyncFails
    BY <2>4 DEF NoMissedEdit, SyncFails, Idle, Down
  <2>5. CASE Notice
    BY <2>5 DEF NoMissedEdit, Notice, file
  <2>6. CASE TimerFires
    BY <2>6 DEF NoMissedEdit, TimerFires, Idle, Down, file
  <2>7. CASE Kill
    BY <2>7 DEF NoMissedEdit, Kill, Down, file
  <2>8. CASE Touch
    BY <2>8 DEF NoMissedEdit, Touch, file
  <2>9. CASE RecordAccount
    BY <2>9 DEF NoMissedEdit, RecordAccount, file, loop
  <2>10. ASSUME NEW e, NEW r, Edited(e, r) PROVE NoMissedEdit'
    BY <2>10 DEF NoMissedEdit, Edited, Raise, Heard
  <2>11. ASSUME NEW c \in Callback, SetOverlay(c) \/ SetConf(c) \/ RemoveEntry(c)
         PROVE NoMissedEdit'
    BY <2>10, <2>11 DEF SetOverlay, SetConf, RemoveEntry
  <2>12. CASE Break \/ Repair
    BY <2>10, <2>12 DEF Break, Repair
  <2>13. ASSUME NEW c \in Callback, Retire(c) \/ Publish(c) PROVE NoMissedEdit'
    BY <2>13 DEF NoMissedEdit, Retire, Publish, file, loop
  <2>14. ASSUME NEW c \in Callback, TellUrl(c) \/ TellPort(c) PROVE NoMissedEdit'
    BY <2>14 DEF NoMissedEdit, TellUrl, TellPort, Raise, Heard
  <2>15. CASE UNCHANGED vars
    BY <2>15 DEF NoMissedEdit, vars, file, loop
  <2>. QED
    BY <2>1, <2>2, <2>3, <2>4, <2>5, <2>6, <2>7, <2>8, <2>9, <2>11, <2>12, <2>13, <2>14, <2>15
       DEF Next, Works
<1>. QED
  BY <1>1, <1>2, PTL DEF Spec

-----------------------------------------------------------------------------
(* What holds of each callback.                                            *)

Undone(c) == c \in proc.drop \cup proc.put

\* What a running sync has read, still has to do, and has done: its copy of the
\* snapshot takes the port it found as soon as the callback is dealt with.
Planned(c) ==
    /\ proc.pc \notin {"url", "port"} => proc.cur = {}
    /\ Syncing =>
        /\ c \in proc.drop => proc.found[c] = 0 /\ snapshot[c] # 0
        /\ c \in proc.put => proc.found[c] # 0 /\ proc.found[c] # snapshot[c]
        /\ proc.snap[c] = IF Undone(c) THEN snapshot[c] ELSE proc.found[c]
        /\ ~Undone(c) /\ proc.found[c] # snapshot[c] => row[c] = proc.found[c]
        /\ c \in proc.cur => c \in proc.put /\ row[c] = proc.found[c] /\ proc.cur = {c}
        /\ proc.pc # "sync" => proc.drop = {}
        /\ ~unread => Declared(c) = proc.found[c]

\* The snapshot knows the row of every callback but those it has not been saved for.
Saved(c) == c \notin unsaved => row[c] = snapshot[c]

Rested(c) == proc.pc = "idle" /\ ok /\ ~unread /\ c \notin unsaved => row[c] = Declared(c)

Kept(c) == Planned(c) /\ Saved(c) /\ Rested(c)

SyncInv == TypeOK /\ \A c \in Callback : Kept(c)

-----------------------------------------------------------------------------
(* Types.                                                                  *)

Process == [pc : {"down", "read", "sync", "url", "port", "idle"}, first : BOOLEAN,
            snap : Ports, found : Ports, drop : SUBSET Callback,
            put : SUBSET Callback, cur : SUBSET Callback]

LEMMA PortFacts == PortOrNone \subseteq Nat /\ 0 \in PortOrNone /\ Nowhere \in Ports
BY WatcherAssumption DEF PortOrNone, Nowhere, Ports

LEMMA ProcessTypes ==
    /\ Down \in Process /\ Idle \in Process
    /\ [Down EXCEPT !.pc = "read"] \in Process /\ [Idle EXCEPT !.pc = "read"] \in Process
BY PortFacts DEF Down, Idle, Process

LEMMA DeclaredPort ==
    ASSUME TypeOK
    PROVE  Discovered \in Ports /\ \A c \in Callback : Declared(c) \in PortOrNone
BY DEF TypeOK, Discovered, Declared, Ports

LEMMA TypesInit == Init => TypeOK
<1>. SUFFICES ASSUME Init PROVE TypeOK
  OBVIOUS
<1>1. proc \in Process /\ row \in Ports /\ snapshot \in Ports
  BY PortFacts, ProcessTypes DEF Init
<1>2. entry \in [Callback -> [overlay : PortOrNone, conf : PortOrNone]]
  BY PortFacts DEF Init, NoEntry
<1>3. edits \in 0..MaxEdits /\ budget \in 0..Budget
  BY WatcherAssumption DEF Init
<1>. QED
  BY <1>1, <1>2, <1>3 DEF Init, TypeOK, Process

LEMMA TypesSync ==
    ASSUME TypeOK, NEW c,
           \/ Boot \/ Read \/ Save
           \/ c \in Callback /\ (Retire(c) \/ Publish(c) \/ TellUrl(c) \/ TellPort(c))
    PROVE  TypeOK'
<1>1. CASE Boot
  BY <1>1, ProcessTypes DEF Boot, TypeOK, Process, file
<1>2. CASE Read
  <2>1. proc' \in Process
    BY <1>2, DeclaredPort DEF Read, TypeOK, Process, DiffSnapshot
  <2>. QED
    BY <1>2, <2>1 DEF Read, TypeOK, Process, loop
<1>3. CASE c \in Callback /\ Retire(c)
  <2>1. proc' \in Process /\ row' \in Ports
    BY <1>3, PortFacts DEF Retire, TypeOK, Process, Ports
  <2>. QED
    BY <1>3, <2>1 DEF Retire, TypeOK, Process, file, loop
<1>4. CASE c \in Callback /\ Publish(c)
  <2>1. proc' \in Process /\ row' \in Ports
    BY <1>4 DEF Publish, TypeOK, Process, Ports
  <2>. QED
    BY <1>4, <2>1 DEF Publish, TypeOK, Process, file, loop
<1>5. CASE c \in Callback /\ TellUrl(c)
  <2>1. proc' \in Process
    BY <1>5 DEF TellUrl, TypeOK, Process
  <2>. QED
    BY <1>5, <2>1 DEF TellUrl, TypeOK, Process, Raise, Heard
<1>6. CASE c \in Callback /\ TellPort(c)
  <2>1. proc' \in Process
    BY <1>6 DEF TellPort, TypeOK, Process, Ports
  <2>2. entry' \in [Callback -> [overlay : PortOrNone, conf : PortOrNone]]
    BY <1>6 DEF TellPort, TypeOK, Ports
  <2>. QED
    BY <1>6, <2>1, <2>2 DEF TellPort, TypeOK, Process, Raise, Heard
<1>7. CASE Save
  BY <1>7, ProcessTypes DEF Save, TypeOK, Process, file
<1>. QED
  BY <1>1, <1>2, <1>3, <1>4, <1>5, <1>6, <1>7

LEMMA TypesLoop ==
    ASSUME TypeOK, SyncFails \/ Kill \/ Notice \/ TimerFires \/ Touch \/ RecordAccount
    PROVE  TypeOK'
<1>1. CASE SyncFails
  <2>1. \A r \in LostAnswers : r \in Ports
    BY PortFacts DEF LostAnswers, TypeOK, Ports
  <2>2. row' \in Ports /\ budget' \in 0..Budget
    BY <1>1, <2>1, WatcherAssumption DEF SyncFails, TypeOK
  <2>3. proc' \in Process
    BY <1>1, ProcessTypes DEF SyncFails
  <2>. QED
    BY <1>1, <2>2, <2>3 DEF SyncFails, TypeOK, Process
<1>2. CASE Kill
  <2>1. proc' \in Process /\ budget' \in 0..Budget
    BY <1>2, ProcessTypes, WatcherAssumption DEF Kill, TypeOK
  <2>. QED
    BY <1>2, <2>1 DEF Kill, TypeOK, Process, file
<1>3. CASE Notice
  BY <1>3 DEF Notice, TypeOK, file
<1>4. CASE TimerFires
  BY <1>4, ProcessTypes DEF TimerFires, TypeOK, Process, file
<1>5. CASE Touch
  BY <1>5 DEF Touch, TypeOK, file
<1>6. CASE RecordAccount
  BY <1>6 DEF RecordAccount, TypeOK, file, loop
<1>. QED
  BY <1>1, <1>2, <1>3, <1>4, <1>5, <1>6

\* What the tenant may do to the entry of one callback.
Entries == [Callback -> [overlay : PortOrNone, conf : PortOrNone]]

LEMMA TypesEdited ==
    ASSUME TypeOK, NEW e \in Entries, NEW r \in BOOLEAN, Edited(e, r)
    PROVE  TypeOK'
BY WatcherAssumption DEF Edited, TypeOK, Entries, Raise, Heard

\* Every edit of the tenant leaves a file of the same shape.
LEMMA EditForms ==
    ASSUME TypeOK, NEW c \in Callback,
           SetOverlay(c) \/ SetConf(c) \/ RemoveEntry(c) \/ Break \/ Repair
    PROVE  \E e \in Entries, r \in BOOLEAN : Edited(e, r)
<1>. USE DEF Entries
<1>1. entry \in Entries /\ readable \in BOOLEAN
  BY DEF TypeOK
<1>2. NoEntry \in [overlay : PortOrNone, conf : PortOrNone]
  BY PortFacts DEF NoEntry
<1>3. CASE SetOverlay(c)
  <2>1. PICK p \in PortOrNone : Edited([entry EXCEPT ![c].overlay = p], readable)
    BY <1>3 DEF SetOverlay, Offered
  <2>2. [entry EXCEPT ![c].overlay = p] \in Entries
    BY <1>1
  <2>. QED
    BY <1>1, <2>1, <2>2
<1>4. CASE SetConf(c)
  <2>1. PICK p \in PortOrNone : Edited([entry EXCEPT ![c].conf = p], readable)
    BY <1>4 DEF SetConf, Offered
  <2>2. [entry EXCEPT ![c].conf = p] \in Entries
    BY <1>1
  <2>. QED
    BY <1>1, <2>1, <2>2
<1>5. CASE RemoveEntry(c)
  <2>1. [entry EXCEPT ![c] = NoEntry] \in Entries
    BY <1>1, <1>2
  <2>. QED
    BY <1>1, <1>5, <2>1 DEF RemoveEntry
<1>6. CASE Break \/ Repair
  BY <1>1, <1>6 DEF Break, Repair
<1>. QED
  BY <1>3, <1>4, <1>5, <1>6

LEMMA TypesNext == TypeOK /\ [Next]_vars => TypeOK'
<1>. SUFFICES ASSUME TypeOK, [Next]_vars PROVE TypeOK'
  OBVIOUS
<1>1. ASSUME NEW c \in Callback, SetOverlay(c) \/ SetConf(c) \/ RemoveEntry(c) PROVE TypeOK'
  BY <1>1, EditForms, TypesEdited
<1>2. CASE Break \/ Repair
  BY <1>2, TypesEdited DEF Break, Repair, TypeOK, Entries
<1>3. CASE UNCHANGED vars
  BY <1>3 DEF vars, file, loop, TypeOK
<1>. QED
  BY <1>1, <1>2, <1>3, TypesSync, TypesLoop DEF Next, Works

\* The rows, the snapshot and the locals of a sync hold ports in range or none.
THEOREM WatcherTypes == Spec => []TypeOK
BY TypesInit, TypesNext, PTL DEF Spec

-----------------------------------------------------------------------------
(* Every step keeps what holds of a callback.                              *)

\* The fields the invariant compares, as numbers and sets.
LEMMA Fields ==
    ASSUME TypeOK, NEW c \in Callback
    PROVE  /\ entry[c].overlay \in Nat /\ entry[c].conf \in Nat
           /\ Declared(c) \in Nat /\ snapshot[c] \in Nat /\ row[c] \in Nat
           /\ proc \in Process /\ proc.found[c] \in Nat /\ proc.snap[c] \in Nat
           /\ Discovered[c] = Declared(c)
<1>1. /\ entry[c].overlay \in PortOrNone /\ entry[c].conf \in PortOrNone
      /\ snapshot[c] \in PortOrNone /\ row[c] \in PortOrNone /\ proc \in Process
  BY DEF TypeOK, Ports, Process
<1>2. proc.found[c] \in PortOrNone /\ proc.snap[c] \in PortOrNone
  BY <1>1 DEF Process, Ports
<1>. QED
  BY <1>1, <1>2, PortFacts DEF Declared, Discovered

LEMMA InitKept == ASSUME Init, NEW c \in Callback PROVE Kept(c)
BY DEF Init, Kept, Planned, Saved, Rested, Syncing, Down, Nowhere

\* The plan of a sync that starts is the difference between file and snapshot.
LEMMA ReadKept ==
    ASSUME TypeOK, NEW d \in Callback, Kept(d), Read
    PROVE  Kept(d)'
<1>1. /\ Syncing' /\ proc'.pc = "sync" /\ ~unread' /\ proc'.cur = {}
      /\ proc'.found[d] = Declared(d) /\ proc'.snap[d] = snapshot[d]
      /\ d \in proc'.put <=> Declared(d) # 0 /\ Declared(d) # snapshot[d]
      /\ d \in proc'.drop <=> snapshot[d] # 0 /\ Declared(d) = 0
  BY Fields DEF Read, Syncing, Process, DiffSnapshot, Discovered, Kept, Planned
<1>2. /\ row' = row /\ snapshot' = snapshot /\ unsaved' = unsaved
      /\ Declared(d)' = Declared(d)
  BY DEF Read, Declared
<1>. QED
  BY <1>1, <1>2, Fields DEF Kept, Planned, Saved, Rested, Undone

LEMMA RetireKept ==
    ASSUME TypeOK, NEW c \in Callback, NEW d \in Callback, Kept(c), Kept(d), Retire(c)
    PROVE  Kept(d)'
<1>1. /\ Syncing /\ Syncing' /\ proc.pc = "sync" /\ proc'.pc = "sync" /\ c \in proc.drop
      /\ proc'.found = proc.found /\ proc'.put = proc.put /\ proc'.cur = proc.cur
      /\ proc'.drop = proc.drop \ {c}
      /\ proc'.snap[d] = IF d = c THEN 0 ELSE proc.snap[d]
  BY Fields DEF Retire, Syncing, Process, Ports
<1>2. /\ row'[d] = IF d = c THEN 0 ELSE row[d]
      /\ unsaved' = unsaved \cup {c} /\ unread' = unread /\ snapshot' = snapshot
      /\ Declared(d)' = Declared(d)
  BY DEF Retire, file, TypeOK, Ports, Declared
<1>3. proc.found[c] = 0 /\ snapshot[c] # 0 /\ c \notin proc.put /\ proc.cur = {}
  BY <1>1 DEF Kept, Planned
<1>. QED
  BY <1>1, <1>2, <1>3, Fields DEF Kept, Planned, Saved, Rested, Undone

LEMMA PublishKept ==
    ASSUME TypeOK, NEW c \in Callback, NEW d \in Callback, Kept(c), Kept(d), Publish(c)
    PROVE  Kept(d)'
<1>1. /\ Syncing /\ Syncing' /\ proc.pc = "sync" /\ proc'.pc = "url"
      /\ c \in proc.put /\ proc.drop = {} /\ proc'.cur = {c}
      /\ proc'.found = proc.found /\ proc'.put = proc.put /\ proc'.drop = proc.drop
      /\ proc'.snap = proc.snap
  BY Fields DEF Publish, Syncing, Process
<1>2. /\ row'[d] = IF d = c THEN proc.found[d] ELSE row[d]
      /\ unsaved' = unsaved \cup {c} /\ unread' = unread /\ snapshot' = snapshot
      /\ Declared(d)' = Declared(d)
  BY DEF Publish, file, TypeOK, Ports, Declared
<1>3. proc.found[c] # 0 /\ proc.found[c] # snapshot[c] /\ proc.cur = {}
  BY <1>1 DEF Kept, Planned
<1>. QED
  BY <1>1, <1>2, <1>3, Fields DEF Kept, Planned, Saved, Rested, Undone

\* The callback in hand is dealt with once its port is in the file.
LEMMA TellKept ==
    ASSUME TypeOK, NEW c \in Callback, NEW d \in Callback, Kept(c), Kept(d),
           TellUrl(c) \/ TellPort(c)
    PROVE  Kept(d)'
<1>1. /\ Syncing /\ Syncing' /\ c \in proc.cur /\ proc.pc # "sync"
      /\ proc'.found = proc.found /\ proc'.drop = proc.drop
  BY Fields DEF TellUrl, TellPort, Syncing, Process
<1>2. unread' /\ row' = row /\ snapshot' = snapshot /\ unsaved' = unsaved
  BY DEF TellUrl, TellPort
<1>3. /\ c \in proc.put /\ proc.cur = {c} /\ proc.drop = {}
      /\ proc.found[c] # 0 /\ proc.found[c] # snapshot[c] /\ row[c] = proc.found[c]
  BY <1>1 DEF Kept, Planned
<1>4. CASE TellUrl(c)
  <2>1. /\ proc'.pc = "port" /\ proc'.put = proc.put /\ proc'.snap = proc.snap
        /\ proc'.cur = proc.cur
    BY <1>4, Fields DEF TellUrl, Process
  <2>. QED
    BY <1>1, <1>2, <1>3, <2>1 DEF Kept, Planned, Saved, Rested, Undone
<1>5. CASE TellPort(c)
  <2>1. /\ proc'.pc = "sync" /\ proc'.put = proc.put \ {c} /\ proc'.cur = {}
        /\ proc'.snap[d] = (IF d = c THEN proc.found[d] ELSE proc.snap[d])
    BY <1>5, Fields DEF TellPort, Process, Ports
  <2>. QED
    BY <1>1, <1>2, <1>3, <2>1, Fields DEF Kept, Planned, Saved, Rested, Undone
<1>. QED
  BY <1>4, <1>5

\* The save makes the snapshot of every callback what the sync found: a callback
\* whose row a former sync left behind keeps its mark, unless this one dealt with it.
LEMMA SaveKept ==
    ASSUME TypeOK, NEW d \in Callback, Kept(d), Save
    PROVE  Kept(d)'
<1>1. /\ Syncing /\ ~Syncing' /\ proc.pc = "sync" /\ proc'.pc = "idle"
      /\ proc.drop = {} /\ proc.put = {} /\ proc'.cur = {}
  BY DEF Save, Syncing, Idle, Down
<1>2. proc.snap[d] = proc.found[d] /\ (~unread => Declared(d) = proc.found[d])
  BY <1>1 DEF Kept, Planned, Undone
<1>3. proc.found[d] # snapshot[d] => row[d] = proc.found[d]
  BY <1>1 DEF Kept, Planned, Undone
<1>4. /\ unread' = unread /\ row' = row /\ snapshot'[d] = proc.found[d]
      /\ d \in unsaved' <=> d \in unsaved /\ proc.snap[d] = snapshot[d]
      /\ Declared(d)' = Declared(d)
  BY <1>2 DEF Save, file, Declared
<1>5. Saved(d)'
  BY <1>2, <1>3, <1>4 DEF Kept, Saved
<1>6. Rested(d)'
  BY <1>2, <1>4, <1>5 DEF Saved, Rested
<1>. QED
  BY <1>1, <1>5, <1>6 DEF Kept, Planned

\* Outside a sync nothing is in hand: what the process holds is not looked at.
LEMMA OutsideKept ==
    ASSUME NEW d \in Callback, Kept(d), ~Syncing', proc'.cur = {},
           entry' = entry, snapshot' = snapshot,
           d \in unsaved => d \in unsaved',
           row'[d] = row[d] \/ d \in unsaved',
           proc'.pc = "idle" /\ ok' => proc.pc = "idle" /\ ok,
           unread' = unread \/ ~ok'
    PROVE  Kept(d)'
<1>1. Declared(d)' = Declared(d)
  BY DEF Declared
<1>. QED
  BY <1>1 DEF Kept, Planned, Saved, Rested

LEMMA StopsKept ==
    ASSUME TypeOK, NEW d \in Callback, Kept(d), Boot \/ SyncFails \/ Kill \/ TimerFires
    PROVE  Kept(d)'
<1>1. /\ Down.cur = {} /\ Down.pc = "down" /\ Idle.cur = {} /\ Idle.pc = "idle"
      /\ [Down EXCEPT !.pc = "read"].cur = {} /\ [Down EXCEPT !.pc = "read"].pc = "read"
      /\ [Idle EXCEPT !.pc = "read"].cur = {} /\ [Idle EXCEPT !.pc = "read"].pc = "read"
  BY DEF Down, Idle
<1>2. ~Syncing' /\ proc'.cur = {}
  BY <1>1 DEF Boot, SyncFails, Kill, TimerFires, Syncing
<1>3. /\ entry' = entry /\ snapshot' = snapshot
      /\ d \in unsaved => d \in unsaved'
      /\ row'[d] = row[d] \/ d \in unsaved'
  BY DEF Boot, SyncFails, Kill, TimerFires, file
<1>4. proc'.pc # "idle" \/ ~ok'
  BY <1>1 DEF Boot, SyncFails, Kill, TimerFires
<1>5. unread' = unread \/ ~ok'
  BY DEF Boot, SyncFails, Kill, TimerFires, file
<1>. QED
  BY <1>2, <1>3, <1>4, <1>5, OutsideKept

LEMMA WorldKept ==
    ASSUME NEW d \in Callback, Kept(d),
           Notice \/ Touch \/ RecordAccount \/ UNCHANGED vars
    PROVE  Kept(d)'
<1>1. /\ entry' = entry /\ snapshot' = snapshot /\ unsaved' = unsaved
      /\ row' = row /\ proc' = proc /\ unread' = unread /\ ok' = ok
  BY DEF Notice, Touch, RecordAccount, vars, file, loop
<1>. QED
  BY <1>1 DEF Kept, Planned, Saved, Rested, Undone, Syncing, Declared

\* An edit sets unread, so neither a rest nor a plan says anything of the file.
LEMMA EditedKept ==
    ASSUME NEW d \in Callback, Kept(d), NEW e, NEW r, Edited(e, r)
    PROVE  Kept(d)'
<1>1. /\ unread' /\ snapshot' = snapshot /\ unsaved' = unsaved
      /\ row' = row /\ proc' = proc
  BY DEF Edited
<1>. QED
  BY <1>1 DEF Kept, Planned, Saved, Rested, Undone, Syncing

LEMMA KeptNext == SyncInv /\ [Next]_vars => SyncInv'
<1>. SUFFICES ASSUME SyncInv, [Next]_vars, NEW d \in Callback PROVE Kept(d)'
  BY TypesNext DEF SyncInv
<1>1. TypeOK /\ \A c \in Callback : Kept(c)
  BY DEF SyncInv
<1>2. CASE Boot \/ Read \/ Save \/ SyncFails \/ Kill \/ TimerFires
  BY <1>1, <1>2, ReadKept, SaveKept, StopsKept
<1>3. CASE Notice \/ Touch \/ RecordAccount \/ UNCHANGED vars
  BY <1>1, <1>3, WorldKept
<1>4. ASSUME NEW c \in Callback, Retire(c) \/ Publish(c) \/ TellUrl(c) \/ TellPort(c)
      PROVE  Kept(d)'
  BY <1>1, <1>4, RetireKept, PublishKept, TellKept
<1>5. ASSUME NEW c \in Callback, SetOverlay(c) \/ SetConf(c) \/ RemoveEntry(c) \/ Break \/ Repair
      PROVE  Kept(d)'
  BY <1>1, <1>5, EditForms, EditedKept
<1>6. CASE Break \/ Repair
  BY <1>5, <1>6
<1>. QED
  BY <1>2, <1>3, <1>4, <1>5, <1>6 DEF Next, Works

\* A watcher at rest after a success has published what the file declares, but for
\* the callbacks a sync changed and did not save, whatever the tenant edited, failed
\* or was killed, and whichever callbacks share a hostname.
THEOREM RestsInSync == Spec => []SettledInSync
<1>1. Init => SyncInv
  BY TypesInit, InitKept DEF SyncInv
<1>2. SyncInv /\ NoMissedEdit => SettledInSync
  BY DEF SyncInv, Kept, Rested, NoMissedEdit, SettledInSync, Settled
<1>. QED
  BY <1>1, <1>2, KeptNext, MissesNoEdit, PTL DEF Spec
=============================================================================
