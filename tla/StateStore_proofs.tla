-------------------------- MODULE StateStore_proofs --------------------------
(* Proofs about the tables of StateStore, for every set of users and ids.  *)
EXTENDS StateStore, TLAPS

LEMMA StoreInitOK == StoreInit => StoreTypeOK /\ Integrity
BY DEF StoreInit, StoreTypeOK, Integrity, PortsDistinct, HostsDistinct, OwnersExist,
       UserExists, RouteExists, NoUser, NoRoute

LEMMA UpsertUserOK ==
    ASSUME StoreTypeOK, Integrity, NEW u \in User, NEW row \in UserRow, UpsertUser(u, row)
    PROVE  StoreTypeOK' /\ Integrity'
<1>1. StoreTypeOK'
  BY DEF StoreTypeOK, UpsertUser
<1>2. PortsDistinct'
  BY DEF StoreTypeOK, Integrity, PortsDistinct, UpsertUser, PortFree, UserExists
<1>3. HostsDistinct'
  BY DEF Integrity, HostsDistinct, UpsertUser, RouteExists
<1>4. OwnersExist'
  BY StoreAssumption DEF StoreTypeOK, Integrity, OwnersExist, UpsertUser, RouteExists, UserExists,
      UserRow
<1>. QED
  BY <1>1, <1>2, <1>3, <1>4 DEF Integrity

LEMMA DeleteUserOK ==
    ASSUME StoreTypeOK, Integrity, NEW u \in User, DeleteUser(u)
    PROVE  StoreTypeOK' /\ Integrity'
<1>1. StoreTypeOK'
  BY DEF StoreTypeOK, DeleteUser
<1>2. PortsDistinct'
  BY StoreAssumption DEF StoreTypeOK, Integrity, PortsDistinct, DeleteUser, UserExists, NoUser,
      UserRow
<1>3. HostsDistinct'
  BY DEF Integrity, HostsDistinct, DeleteUser, RouteExists, NoRoute
<1>4. OwnersExist'
  BY StoreAssumption DEF StoreTypeOK, Integrity, OwnersExist, DeleteUser, RouteExists, UserExists,
      NoRoute
<1>. QED
  BY <1>1, <1>2, <1>3, <1>4 DEF Integrity

LEMMA UpsertRouteOK ==
    ASSUME StoreTypeOK, Integrity, NEW id \in RouteId, NEW p \in Port, UpsertRoute(id, p)
    PROVE  StoreTypeOK' /\ Integrity'
<1>1. StoreTypeOK'
  BY DEF StoreTypeOK, UpsertRoute, RouteRow
<1>2. PortsDistinct'
  BY DEF Integrity, PortsDistinct, UpsertRoute, UserExists
<1>3. HostsDistinct'
  BY DEF StoreTypeOK, Integrity, HostsDistinct, UpsertRoute, HostFree, RouteExists
<1>4. OwnersExist'
  BY DEF StoreTypeOK, Integrity, OwnersExist, UpsertRoute, RouteExists, UserExists
<1>. QED
  BY <1>1, <1>2, <1>3, <1>4 DEF Integrity

LEMMA DeleteRouteOK ==
    ASSUME StoreTypeOK, Integrity, NEW id \in RouteId, DeleteRoute(id)
    PROVE  StoreTypeOK' /\ Integrity'
<1>1. StoreTypeOK'
  BY DEF StoreTypeOK, DeleteRoute
<1>2. PortsDistinct'
  BY DEF Integrity, PortsDistinct, DeleteRoute, UserExists
<1>3. HostsDistinct'
  BY DEF StoreTypeOK, Integrity, HostsDistinct, DeleteRoute, RouteExists, NoRoute
<1>4. OwnersExist'
  BY DEF StoreTypeOK, Integrity, OwnersExist, DeleteRoute, RouteExists, UserExists, NoRoute
<1>. QED
  BY <1>1, <1>2, <1>3, <1>4 DEF Integrity

LEMMA SetRoutesEnabledOK ==
    ASSUME StoreTypeOK, Integrity, NEW u \in User, NEW on \in BOOLEAN, SetRoutesEnabled(u, on)
    PROVE  StoreTypeOK' /\ Integrity'
<1>. DEFINE row(id) == [routes[id] EXCEPT !.state = IF on THEN "enabled" ELSE "disabled"]
<1>0. \A id \in RouteId : RouteExists(id)' <=> RouteExists(id)
  BY DEF StoreTypeOK, SetRoutesEnabled, RouteExists, RouteRow, NoRoute
<1>1. StoreTypeOK'
  <2>1. \A id \in RouteId : RouteExists(id) => row(id) \in RouteRow
    BY DEF StoreTypeOK, RouteExists, RouteRow, NoRoute
  <2>. QED
    BY <2>1 DEF StoreTypeOK, SetRoutesEnabled
<1>2. PortsDistinct'
  BY DEF Integrity, PortsDistinct, SetRoutesEnabled, UserExists
<1>3. HostsDistinct'
  BY <1>0 DEF Integrity, HostsDistinct
<1>4. OwnersExist'
  BY <1>0 DEF Integrity, OwnersExist, SetRoutesEnabled, UserExists
<1>. QED
  BY <1>1, <1>2, <1>3, <1>4 DEF Integrity

LEMMA StoreNextOK == StoreTypeOK /\ Integrity /\ [StoreNext]_storeVars => StoreTypeOK' /\ Integrity'
<1>1. ASSUME StoreTypeOK, Integrity, StoreNext
      PROVE  StoreTypeOK' /\ Integrity'
  BY <1>1, UpsertUserOK, DeleteUserOK, UpsertRouteOK, DeleteRouteOK, SetRoutesEnabledOK DEF StoreNext
<1>2. StoreTypeOK /\ Integrity /\ UNCHANGED storeVars => StoreTypeOK' /\ Integrity'
  BY DEF storeVars, StoreTypeOK, Integrity, PortsDistinct, HostsDistinct, OwnersExist,
         UserExists, RouteExists
<1>. QED
  BY <1>1, <1>2

(* The tables keep their types and the constraints of the schema whatever  *)
(* sequence of statements is run on them.                                  *)
THEOREM StoreIntegrity == StoreSpec => [](StoreTypeOK /\ Integrity)
<1>1. StoreInit => StoreTypeOK /\ Integrity
  BY StoreInitOK
<1>2. (StoreTypeOK /\ Integrity) /\ [StoreNext]_storeVars => (StoreTypeOK /\ Integrity)'
  BY StoreNextOK
<1>. QED
  BY <1>1, <1>2, PTL DEF StoreSpec
==============================================================================
