--------------------------- MODULE SessionProofs ---------------------------
(***************************************************************************)
(* Proofs about Session, for any ids, connections and bounds.              *)
(***************************************************************************)
EXTENDS Session, TLAPS

(* A connection's object has the uuid of the connection, or its client's   *)
(* id from the login on; it is registered under that id at most, only      *)
(* while its task lives, and a task on its way out has still to remove     *)
(* whatever it is registered under.                                        *)
OwnId ==
    /\ \A c \in Conns : peerId[c] \in {c, LoginId[c]}
    /\ \A c \in Conns : pc[c] = "unborn" => peerId[c] = c
    /\ \A c \in Conns : pc[c] \in {"claim", "insert", "save"} => peerId[c] = LoginId[c]
    /\ \A c \in Conns : c \in ended => pc[c] \in {"remove", "close", "row", "done"}
    /\ \A k \in Keys : registry[k] # None =>
          /\ k = LoginId[registry[k]]
          /\ peerId[registry[k]] = k
          /\ pc[registry[k]] \notin {"unborn", "done"}
          /\ registry[k] \in ended => k \in doomed[registry[k]]

(* A server that is down has neither tasks nor clients; a login that has    *)
(* claimed its ghost stays without one until the client is registered.     *)
GhostClaimed ==
    /\ server = "down" =>
          /\ \A k \in Keys : registry[k] = None
          /\ \A c \in Conns : pc[c] \in {"unborn", "done"}
    /\ \A c \in Conns : pc[c] = "insert" => peerId[c] \notin ghosts
    /\ \A k \in Keys : registry[k] # None => k \notin ghosts

-----------------------------------------------------------------------------
(* Every step keeps the shape of the state.                                *)
LEMMA TypeStep == ASSUME TypeOK, [Next]_vars PROVE TypeOK'
<1> USE DEF Keys
<1>1. ASSUME NEW c \in Conns, Accept(c)
      PROVE  TypeOK'
  BY <1>1, ConstantsAssumption
  DEF Accept, Rivals, TypeOK, TaskTypeOK, StateTypeOK, Goto, serverVars, tokenVars,
      removeVars, janitorVars, peerVars, storeVars
<1>2. ASSUME NEW c \in Conns, LoginKnown(c)
      PROVE  TypeOK'
  <2>1. logins[c] \in 0 .. MaxLogins /\ logins[c] < MaxLogins
    BY <1>2, Zenon DEF LoginKnown, TypeOK, TaskTypeOK
  <2>2. logins[c] + 1 \in 0 .. MaxLogins
    BY <2>1, ConstantsAssumption
  <2>3. logins' \in [Conns -> 0 .. MaxLogins]
    BY <1>2, <2>2, Zenon DEF LoginKnown, TypeOK, TaskTypeOK
  <2>4. TaskTypeOK'
    BY <1>2, <2>3, ConstantsAssumption, Zenon
    DEF LoginKnown, TypeOK, TaskTypeOK, StateTypeOK, Goto, serverVars, tokenVars, removeVars, janitorVars, peerVars, storeVars
  <2>5. StateTypeOK'
    BY <1>2, Zenon
    DEF LoginKnown, TypeOK, TaskTypeOK, StateTypeOK, Goto, serverVars,
        tokenVars, removeVars, janitorVars, peerVars, storeVars
  <2> QED
    BY <2>4, <2>5, Zenon DEF TypeOK
<1>3. ASSUME NEW c \in Conns, LoginNew(c)
      PROVE  TypeOK'
  <2>1. logins[c] \in 0 .. MaxLogins /\ logins[c] < MaxLogins
    BY <1>3, Zenon DEF LoginNew, TypeOK, TaskTypeOK
  <2>2. logins[c] + 1 \in 0 .. MaxLogins
    BY <2>1, ConstantsAssumption
  <2>3. logins' \in [Conns -> 0 .. MaxLogins]
    BY <1>3, <2>2, Zenon DEF LoginNew, TypeOK, TaskTypeOK
  <2>4. TaskTypeOK'
    BY <1>3, <2>3, ConstantsAssumption, ZenonT(40)
    DEF LoginNew, TypeOK, TaskTypeOK, StateTypeOK, Goto, serverVars, tokenVars, removeVars, janitorVars, peerVars, storeVars
  <2>5. StateTypeOK'
    BY <1>3, Zenon
    DEF LoginNew, TypeOK, TaskTypeOK, StateTypeOK, Goto, serverVars, tokenVars,
        removeVars, janitorVars, peerVars, storeVars
  <2> QED
    BY <2>4, <2>5, Zenon DEF TypeOK
<1>4. ASSUME NEW c \in Conns, ClaimGhost(c)
      PROVE  TypeOK'
  BY <1>4, ConstantsAssumption
  DEF ClaimGhost, TypeOK, TaskTypeOK, StateTypeOK, Goto, serverVars, tokenVars,
      removeVars, janitorVars, peerVars, storeVars
<1>5. ASSUME NEW c \in Conns, AddClient(c)
      PROVE  TypeOK'
  BY <1>5, ConstantsAssumption
  DEF AddClient, TypeOK, TaskTypeOK, StateTypeOK, Goto, serverVars, tokenVars,
      removeVars, janitorVars, peerVars, storeVars
<1>6. ASSUME NEW c \in Conns, SaveState(c)
      PROVE  TypeOK'
  BY <1>6, ConstantsAssumption
  DEF SaveState, Save, RepoSave, OrFails, TypeOK, TaskTypeOK, StateTypeOK, Goto, serverVars, tokenVars,
      removeVars, janitorVars, peerVars, storeVars
<1>7. ASSUME NEW c \in Conns, NEW F \in SUBSET Ids, CastFails(c, F)
      PROVE  TypeOK'
  BY <1>7, ConstantsAssumption, SMTT(30)
  DEF CastFails, TypeOK, TaskTypeOK, StateTypeOK, Goto, serverVars, tokenVars,
      removeVars, janitorVars, peerVars, storeVars
<1>8. ASSUME NEW c \in Conns, EndLoop(c)
      PROVE  TypeOK'
  BY <1>8, ConstantsAssumption
  DEF EndLoop, TypeOK, TaskTypeOK, StateTypeOK, Goto, serverVars, tokenVars,
      removeVars, janitorVars, peerVars, storeVars
<1>9. ASSUME NEW c \in Conns, NEW i \in doomed[c], RemoveNobody(c, i)
      PROVE  TypeOK'
  BY <1>9, ConstantsAssumption, SMTT(30)
  DEF RemoveNobody, TypeOK, TaskTypeOK, StateTypeOK, Onward, Goto, serverVars,
      tokenVars, removeVars, janitorVars, peerVars, storeVars
<1>10. ASSUME NEW c \in Conns, NEW i \in doomed[c], RemoveClient(c, i)
      PROVE  TypeOK'
  BY <1>10, ConstantsAssumption
  DEF RemoveClient, TypeOK, TaskTypeOK, StateTypeOK, Goto, serverVars,
      tokenVars, removeVars, janitorVars, peerVars, storeVars
<1>11. ASSUME NEW c \in Conns, CloseVictim(c)
      PROVE  TypeOK'
  BY <1>11, ConstantsAssumption
  DEF CloseVictim, TypeOK, TaskTypeOK, StateTypeOK, Goto, serverVars,
      tokenVars, removeVars, janitorVars, peerVars, storeVars
<1>12. ASSUME NEW c \in Conns, RemoveState(c)
      PROVE  TypeOK'
  BY <1>12, ConstantsAssumption
  DEF RemoveState, Remove, RepoRemove, OrFails, TypeOK, TaskTypeOK, StateTypeOK, Onward, Goto, serverVars,
      tokenVars, removeVars, janitorVars, peerVars, storeVars
<1>13. ASSUME NEW c \in Conns, Disconnect(c)
      PROVE  TypeOK'
  BY <1>13, ConstantsAssumption, Zenon
  DEF Disconnect, TypeOK, TaskTypeOK, StateTypeOK, serverVars, tokenVars,
      removeVars, janitorVars, peerVars, storeVars
<1>14. ASSUME NEW S \in SUBSET Ids, TakeInactive(S)
      PROVE  TypeOK'
  BY <1>14, ConstantsAssumption, Zenon
  DEF TakeInactive, TypeOK, TaskTypeOK, StateTypeOK, serverVars, tokenVars,
      removeVars, janitorVars, peerVars, storeVars
<1>15. ASSUME NEW i \in Ids, RemoveInactive(i)
      PROVE  TypeOK'
  BY <1>15, ConstantsAssumption, Zenon
  DEF RemoveInactive, TypeOK, TaskTypeOK, StateTypeOK, serverVars, tokenVars,
      removeVars, janitorVars, peerVars, storeVars
<1>16. ASSUME CloseInactive
      PROVE  TypeOK'
  BY <1>16, ConstantsAssumption, Zenon
  DEF CloseInactive, TypeOK, TaskTypeOK, StateTypeOK, serverVars, tokenVars,
      removeVars, janitorVars, peerVars, storeVars
<1>17. ASSUME NEW E \in SUBSET rows, TakeExpired(E)
      PROVE  TypeOK'
  BY <1>17, ConstantsAssumption
  DEF TakeExpired, TakeExpiredGhosts, RepoTakeExpired, OrFails, TypeOK, TaskTypeOK, StateTypeOK, serverVars, tokenVars,
      removeVars, janitorVars, peerVars, storeVars
<1>18. ASSUME NEW i \in Ids, RemoveGhost(i)
      PROVE  TypeOK'
  BY <1>18, ConstantsAssumption, Zenon
  DEF RemoveGhost, TypeOK, TaskTypeOK, StateTypeOK, serverVars, tokenVars,
      removeVars, janitorVars, peerVars, storeVars
<1>19. ASSUME NEW k \in Keys, CancelClient(k)
      PROVE  TypeOK'
  BY <1>19, ConstantsAssumption
  DEF CancelClient, TypeOK, TaskTypeOK, StateTypeOK, serverVars, tokenVars,
      removeVars, janitorVars, peerVars, storeVars
<1>20. ASSUME Shutdown
      PROVE  TypeOK'
  BY <1>20, ConstantsAssumption, Zenon
  DEF Shutdown, TypeOK, TaskTypeOK, StateTypeOK, Sessions, serverVars,
      tokenVars, removeVars, janitorVars, peerVars, storeVars
<1>21. ASSUME Stop
      PROVE  TypeOK'
  BY <1>21, ConstantsAssumption
  DEF Stop, TypeOK, TaskTypeOK, StateTypeOK, Sessions, serverVars, tokenVars,
      removeVars, janitorVars, peerVars, storeVars
<1>22. ASSUME Restart
      PROVE  TypeOK'
  BY <1>22, ConstantsAssumption
  DEF Restart, LoadAll, RepoLoadAll, AddGhosts, OrFails, TypeOK, TaskTypeOK, StateTypeOK, serverVars, tokenVars,
      removeVars, janitorVars, peerVars, storeVars
<1>23. ASSUME UNCHANGED vars
      PROVE  TypeOK'
  BY <1>23, ConstantsAssumption, Zenon
  DEF TypeOK, TaskTypeOK, StateTypeOK, vars, serverVars, tokenVars, removeVars,
      janitorVars, peerVars, storeVars
<1> QED
  BY <1>1, <1>2, <1>3, <1>4, <1>5, <1>6, <1>7, <1>8, <1>9, <1>10, <1>11, <1>12, <1>13, <1>14, <1>15, <1>16, <1>17, <1>18, <1>19, <1>20, <1>21, <1>22, <1>23, Zenon
  DEF Next, Receive, Proceed, Janitor

(* Every variable of the session model keeps its shape (TypeOK), whatever  *)
(* logins, removals, sweeps, stops and restarts come.                      *)
THEOREM TypeCorrect == Spec => []TypeOK
<1>1. Init => TypeOK
  BY ConstantsAssumption DEF Init, TypeOK, TaskTypeOK, StateTypeOK, Keys
<1> QED
  BY <1>1, TypeStep, PTL DEF Spec

-----------------------------------------------------------------------------
(* Every step keeps OwnId: a login registers the object under the id it    *)
(* just took, and a task's last act removes that id.                       *)
LEMMA OwnIdStep == ASSUME TypeOK, OwnId, [Next]_vars PROVE OwnId'
<1> USE DEF Keys
<1>1. ASSUME NEW c \in Conns, Accept(c)
      PROVE  OwnId'
  BY <1>1, ConstantsAssumption
  DEF Accept, Rivals, OwnId, TypeOK, TaskTypeOK, StateTypeOK, Goto, serverVars,
      tokenVars, removeVars, janitorVars, peerVars, storeVars
<1>2. ASSUME NEW c \in Conns, LoginKnown(c)
      PROVE  OwnId'
  BY <1>2, ConstantsAssumption, Zenon
  DEF LoginKnown, OwnId, TypeOK, TaskTypeOK, StateTypeOK, Goto, serverVars,
      tokenVars, removeVars, janitorVars, peerVars, storeVars
<1>3. ASSUME NEW c \in Conns, LoginNew(c)
      PROVE  OwnId'
  BY <1>3, ConstantsAssumption
  DEF LoginNew, OwnId, TypeOK, TaskTypeOK, StateTypeOK, Goto, serverVars,
      tokenVars, removeVars, janitorVars, peerVars, storeVars
<1>4. ASSUME NEW c \in Conns, ClaimGhost(c)
      PROVE  OwnId'
  BY <1>4, ConstantsAssumption
  DEF ClaimGhost, OwnId, TypeOK, TaskTypeOK, StateTypeOK, Goto, serverVars,
      tokenVars, removeVars, janitorVars, peerVars, storeVars
<1>5. ASSUME NEW c \in Conns, AddClient(c)
      PROVE  OwnId'
  BY <1>5, ConstantsAssumption, SMTT(30)
  DEF AddClient, OwnId, TypeOK, TaskTypeOK, StateTypeOK, Goto, serverVars,
      tokenVars, removeVars, janitorVars, peerVars, storeVars
<1>6. ASSUME NEW c \in Conns, SaveState(c)
      PROVE  OwnId'
  BY <1>6, ConstantsAssumption
  DEF SaveState, Save, RepoSave, OrFails, OwnId, TypeOK, TaskTypeOK, StateTypeOK, Goto, serverVars,
      tokenVars, removeVars, janitorVars, peerVars, storeVars
<1>7. ASSUME NEW c \in Conns, NEW F \in SUBSET Ids, CastFails(c, F)
      PROVE  OwnId'
  BY <1>7, ConstantsAssumption, SMTT(30)
  DEF CastFails, OwnId, TypeOK, TaskTypeOK, StateTypeOK, Goto, serverVars,
      tokenVars, removeVars, janitorVars, peerVars, storeVars
<1>8. ASSUME NEW c \in Conns, EndLoop(c)
      PROVE  OwnId'
  BY <1>8, ConstantsAssumption
  DEF EndLoop, OwnId, TypeOK, TaskTypeOK, StateTypeOK, Goto, serverVars,
      tokenVars, removeVars, janitorVars, peerVars, storeVars
<1>9. ASSUME NEW c \in Conns, NEW i \in doomed[c], RemoveNobody(c, i)
      PROVE  OwnId'
  BY <1>9, ConstantsAssumption, SMTT(30)
  DEF RemoveNobody, OwnId, TypeOK, TaskTypeOK, StateTypeOK, Onward, Goto,
      serverVars, tokenVars, removeVars, janitorVars, peerVars, storeVars
<1>10. ASSUME NEW c \in Conns, NEW i \in doomed[c], RemoveClient(c, i)
      PROVE  OwnId'
  BY <1>10, ConstantsAssumption
  DEF RemoveClient, OwnId, TypeOK, TaskTypeOK, StateTypeOK, Goto, serverVars,
      tokenVars, removeVars, janitorVars, peerVars, storeVars
<1>11. ASSUME NEW c \in Conns, CloseVictim(c)
      PROVE  OwnId'
  BY <1>11, ConstantsAssumption
  DEF CloseVictim, OwnId, TypeOK, TaskTypeOK, StateTypeOK, Goto, serverVars,
      tokenVars, removeVars, janitorVars, peerVars, storeVars
<1>12. ASSUME NEW c \in Conns, RemoveState(c)
      PROVE  OwnId'
  BY <1>12, ConstantsAssumption
  DEF RemoveState, Remove, RepoRemove, OrFails, OwnId, TypeOK, TaskTypeOK, StateTypeOK, Onward, Goto,
      serverVars, tokenVars, removeVars, janitorVars, peerVars, storeVars
<1>13. ASSUME NEW c \in Conns, Disconnect(c)
      PROVE  OwnId'
  BY <1>13, ConstantsAssumption, Zenon
  DEF Disconnect, OwnId, TypeOK, TaskTypeOK, StateTypeOK, serverVars,
      tokenVars, removeVars, janitorVars, peerVars, storeVars
<1>14. ASSUME NEW S \in SUBSET Ids, TakeInactive(S)
      PROVE  OwnId'
  BY <1>14, ConstantsAssumption, Zenon
  DEF TakeInactive, OwnId, TypeOK, TaskTypeOK, StateTypeOK, serverVars,
      tokenVars, removeVars, janitorVars, peerVars, storeVars
<1>15. ASSUME NEW i \in Ids, RemoveInactive(i)
      PROVE  OwnId'
  BY <1>15, ConstantsAssumption, Zenon
  DEF RemoveInactive, OwnId, TypeOK, TaskTypeOK, StateTypeOK, serverVars,
      tokenVars, removeVars, janitorVars, peerVars, storeVars
<1>16. ASSUME CloseInactive
      PROVE  OwnId'
  BY <1>16, ConstantsAssumption, Zenon
  DEF CloseInactive, OwnId, TypeOK, TaskTypeOK, StateTypeOK, serverVars,
      tokenVars, removeVars, janitorVars, peerVars, storeVars
<1>17. ASSUME NEW E \in SUBSET rows, TakeExpired(E)
      PROVE  OwnId'
  BY <1>17, ConstantsAssumption, Zenon
  DEF TakeExpired, TakeExpiredGhosts, RepoTakeExpired, OrFails, OwnId, TypeOK, TaskTypeOK, StateTypeOK, serverVars,
      tokenVars, removeVars, janitorVars, peerVars, storeVars
<1>18. ASSUME NEW i \in Ids, RemoveGhost(i)
      PROVE  OwnId'
  BY <1>18, ConstantsAssumption, Zenon
  DEF RemoveGhost, OwnId, TypeOK, TaskTypeOK, StateTypeOK, serverVars,
      tokenVars, removeVars, janitorVars, peerVars, storeVars
<1>19. ASSUME NEW k \in Keys, CancelClient(k)
      PROVE  OwnId'
  BY <1>19, ConstantsAssumption, Zenon
  DEF CancelClient, OwnId, TypeOK, TaskTypeOK, StateTypeOK, serverVars,
      tokenVars, removeVars, janitorVars, peerVars, storeVars
<1>20. ASSUME Shutdown
      PROVE  OwnId'
  BY <1>20, ConstantsAssumption, Zenon
  DEF Shutdown, OwnId, TypeOK, TaskTypeOK, StateTypeOK, Sessions, serverVars,
      tokenVars, removeVars, janitorVars, peerVars, storeVars
<1>21. ASSUME Stop
      PROVE  OwnId'
  BY <1>21, ConstantsAssumption, Zenon
  DEF Stop, OwnId, TypeOK, TaskTypeOK, StateTypeOK, Sessions, serverVars,
      tokenVars, removeVars, janitorVars, peerVars, storeVars
<1>22. ASSUME Restart
      PROVE  OwnId'
  BY <1>22, ConstantsAssumption, Zenon
  DEF Restart, LoadAll, RepoLoadAll, AddGhosts, OrFails, OwnId, TypeOK, TaskTypeOK, StateTypeOK, serverVars, tokenVars,
      removeVars, janitorVars, peerVars, storeVars
<1>23. ASSUME UNCHANGED vars
      PROVE  OwnId'
  BY <1>23, ConstantsAssumption, Zenon
  DEF OwnId, TypeOK, TaskTypeOK, StateTypeOK, vars, serverVars, tokenVars,
      removeVars, janitorVars, peerVars, storeVars
<1> QED
  BY <1>1, <1>2, <1>3, <1>4, <1>5, <1>6, <1>7, <1>8, <1>9, <1>10, <1>11, <1>12, <1>13, <1>14, <1>15, <1>16, <1>17, <1>18, <1>19, <1>20, <1>21, <1>22, <1>23, Zenon
  DEF Next, Receive, Proceed, Janitor

(* The object of a finished connection is not left in the registry         *)
(* (NoDeadSession): the remove_client that ends every connection task      *)
(* finds it under the id it has then.                                      *)
THEOREM NoneLeftBehind == Spec => []NoDeadSession
<1>1. Init => OwnId
  BY ConstantsAssumption, ZenonT(40) DEF Init, OwnId, Keys
<1>2. OwnId => NoDeadSession
  BY Zenon DEF OwnId, NoDeadSession
<1> QED
  BY <1>1, <1>2, OwnIdStep, TypeCorrect, PTL DEF Spec

-----------------------------------------------------------------------------
(* Every step keeps GhostClaimed.                                          *)
LEMMA GhostStep == ASSUME TypeOK, GhostClaimed, [Next]_vars PROVE GhostClaimed'
<1> USE DEF Keys
<1>1. ASSUME NEW c \in Conns, Accept(c)
      PROVE  GhostClaimed'
  BY <1>1, ConstantsAssumption
  DEF Accept, Rivals, GhostClaimed, TypeOK, TaskTypeOK, StateTypeOK, Goto, serverVars,
      tokenVars, removeVars, janitorVars, peerVars, storeVars
<1>2. ASSUME NEW c \in Conns, LoginKnown(c)
      PROVE  GhostClaimed'
  BY <1>2, ConstantsAssumption, Zenon
  DEF LoginKnown, GhostClaimed, TypeOK, TaskTypeOK, StateTypeOK, Goto,
      serverVars, tokenVars, removeVars, janitorVars, peerVars, storeVars
<1>3. ASSUME NEW c \in Conns, LoginNew(c)
      PROVE  GhostClaimed'
  BY <1>3, ConstantsAssumption
  DEF LoginNew, GhostClaimed, TypeOK, TaskTypeOK, StateTypeOK, Goto,
      serverVars, tokenVars, removeVars, janitorVars, peerVars, storeVars
<1>4. ASSUME NEW c \in Conns, ClaimGhost(c)
      PROVE  GhostClaimed'
  BY <1>4, ConstantsAssumption
  DEF ClaimGhost, GhostClaimed, TypeOK, TaskTypeOK, StateTypeOK, Goto,
      serverVars, tokenVars, removeVars, janitorVars, peerVars, storeVars
<1>5. ASSUME NEW c \in Conns, AddClient(c)
      PROVE  GhostClaimed'
  BY <1>5, ConstantsAssumption
  DEF AddClient, GhostClaimed, TypeOK, TaskTypeOK, StateTypeOK, Goto,
      serverVars, tokenVars, removeVars, janitorVars, peerVars, storeVars
<1>6. ASSUME NEW c \in Conns, SaveState(c)
      PROVE  GhostClaimed'
  BY <1>6, ConstantsAssumption
  DEF SaveState, Save, RepoSave, OrFails, GhostClaimed, TypeOK, TaskTypeOK, StateTypeOK, Goto,
      serverVars, tokenVars, removeVars, janitorVars, peerVars, storeVars
<1>7. ASSUME NEW c \in Conns, NEW F \in SUBSET Ids, CastFails(c, F)
      PROVE  GhostClaimed'
  BY <1>7, ConstantsAssumption, SMTT(30)
  DEF CastFails, GhostClaimed, TypeOK, TaskTypeOK, StateTypeOK, Goto,
      serverVars, tokenVars, removeVars, janitorVars, peerVars, storeVars
<1>8. ASSUME NEW c \in Conns, EndLoop(c)
      PROVE  GhostClaimed'
  BY <1>8, ConstantsAssumption
  DEF EndLoop, GhostClaimed, TypeOK, TaskTypeOK, StateTypeOK, Goto, serverVars,
      tokenVars, removeVars, janitorVars, peerVars, storeVars
<1>9. ASSUME NEW c \in Conns, NEW i \in doomed[c], RemoveNobody(c, i)
      PROVE  GhostClaimed'
  BY <1>9, ConstantsAssumption, SMTT(30)
  DEF RemoveNobody, GhostClaimed, TypeOK, TaskTypeOK, StateTypeOK, Onward,
      Goto, serverVars, tokenVars, removeVars, janitorVars, peerVars,
      storeVars
<1>10. ASSUME NEW c \in Conns, NEW i \in doomed[c], RemoveClient(c, i)
      PROVE  GhostClaimed'
  BY <1>10, ConstantsAssumption
  DEF RemoveClient, GhostClaimed, TypeOK, TaskTypeOK, StateTypeOK, Goto,
      serverVars, tokenVars, removeVars, janitorVars, peerVars, storeVars
<1>11. ASSUME NEW c \in Conns, CloseVictim(c)
      PROVE  GhostClaimed'
  BY <1>11, ConstantsAssumption
  DEF CloseVictim, GhostClaimed, TypeOK, TaskTypeOK, StateTypeOK, Goto,
      serverVars, tokenVars, removeVars, janitorVars, peerVars, storeVars
<1>12. ASSUME NEW c \in Conns, RemoveState(c)
      PROVE  GhostClaimed'
  BY <1>12, ConstantsAssumption
  DEF RemoveState, Remove, RepoRemove, OrFails, GhostClaimed, TypeOK, TaskTypeOK, StateTypeOK, Onward, Goto,
      serverVars, tokenVars, removeVars, janitorVars, peerVars, storeVars
<1>13. ASSUME NEW c \in Conns, Disconnect(c)
      PROVE  GhostClaimed'
  BY <1>13, ConstantsAssumption, Zenon
  DEF Disconnect, GhostClaimed, TypeOK, TaskTypeOK, StateTypeOK, serverVars,
      tokenVars, removeVars, janitorVars, peerVars, storeVars
<1>14. ASSUME NEW S \in SUBSET Ids, TakeInactive(S)
      PROVE  GhostClaimed'
  BY <1>14, ConstantsAssumption, Zenon
  DEF TakeInactive, GhostClaimed, TypeOK, TaskTypeOK, StateTypeOK, serverVars,
      tokenVars, removeVars, janitorVars, peerVars, storeVars
<1>15. ASSUME NEW i \in Ids, RemoveInactive(i)
      PROVE  GhostClaimed'
  BY <1>15, ConstantsAssumption, Zenon
  DEF RemoveInactive, GhostClaimed, TypeOK, TaskTypeOK, StateTypeOK,
      serverVars, tokenVars, removeVars, janitorVars, peerVars, storeVars
<1>16. ASSUME CloseInactive
      PROVE  GhostClaimed'
  BY <1>16, ConstantsAssumption, Zenon
  DEF CloseInactive, GhostClaimed, TypeOK, TaskTypeOK, StateTypeOK, serverVars,
      tokenVars, removeVars, janitorVars, peerVars, storeVars
<1>17. ASSUME NEW E \in SUBSET rows, TakeExpired(E)
      PROVE  GhostClaimed'
  BY <1>17, ConstantsAssumption, Zenon
  DEF TakeExpired, TakeExpiredGhosts, RepoTakeExpired, OrFails, GhostClaimed, TypeOK, TaskTypeOK, StateTypeOK, serverVars,
      tokenVars, removeVars, janitorVars, peerVars, storeVars
<1>18. ASSUME NEW i \in Ids, RemoveGhost(i)
      PROVE  GhostClaimed'
  BY <1>18, ConstantsAssumption, Zenon
  DEF RemoveGhost, GhostClaimed, TypeOK, TaskTypeOK, StateTypeOK, serverVars,
      tokenVars, removeVars, janitorVars, peerVars, storeVars
<1>19. ASSUME NEW k \in Keys, CancelClient(k)
      PROVE  GhostClaimed'
  BY <1>19, ConstantsAssumption, Zenon
  DEF CancelClient, GhostClaimed, TypeOK, TaskTypeOK, StateTypeOK, serverVars,
      tokenVars, removeVars, janitorVars, peerVars, storeVars
<1>20. ASSUME Shutdown
      PROVE  GhostClaimed'
  BY <1>20, ConstantsAssumption, Zenon
  DEF Shutdown, GhostClaimed, TypeOK, TaskTypeOK, StateTypeOK, Sessions,
      serverVars, tokenVars, removeVars, janitorVars, peerVars, storeVars
<1>21. ASSUME Stop
      PROVE  GhostClaimed'
  BY <1>21, ConstantsAssumption, Zenon
  DEF Stop, GhostClaimed, TypeOK, TaskTypeOK, StateTypeOK, Sessions,
      serverVars, tokenVars, removeVars, janitorVars, peerVars, storeVars
<1>22. ASSUME Restart
      PROVE  GhostClaimed'
  BY <1>22, ConstantsAssumption, Zenon
  DEF Restart, LoadAll, RepoLoadAll, AddGhosts, OrFails, GhostClaimed, TypeOK, TaskTypeOK, StateTypeOK, serverVars,
      tokenVars, removeVars, janitorVars, peerVars, storeVars
<1>23. ASSUME UNCHANGED vars
      PROVE  GhostClaimed'
  BY <1>23, ConstantsAssumption, Zenon
  DEF GhostClaimed, TypeOK, TaskTypeOK, StateTypeOK, vars, serverVars,
      tokenVars, removeVars, janitorVars, peerVars, storeVars
<1> QED
  BY <1>1, <1>2, <1>3, <1>4, <1>5, <1>6, <1>7, <1>8, <1>9, <1>10, <1>11, <1>12, <1>13, <1>14, <1>15, <1>16, <1>17, <1>18, <1>19, <1>20, <1>21, <1>22, <1>23, Zenon
  DEF Next, Receive, Proceed, Janitor

(* A live client always wins over a ghost of its id (NoGhostWhileLive):    *)
(* add_client claims the ghost first, and ghosts are made only by          *)
(* open_server, before anybody is registered.                              *)
THEOREM LiveWins == Spec => []NoGhostWhileLive
<1>1. Init => GhostClaimed
  BY Zenon DEF Init, GhostClaimed
<1>2. GhostClaimed => NoGhostWhileLive
  BY Zenon DEF GhostClaimed, NoGhostWhileLive
<1> QED
  BY <1>1, <1>2, GhostStep, TypeCorrect, PTL DEF Spec

-----------------------------------------------------------------------------
(* A connection that overlaps no other of its client is the client's only  *)
(* one, and its object never writes to another connection than its own.    *)
OneConnection ==
    /\ \A c, d \in Conns :
          /\ c \notin overlapped
          /\ LoginId[c] = LoginId[d]
          /\ pc[c] \notin {"unborn", "done"}
          /\ pc[d] \notin {"unborn", "done"}
          => c = d
    /\ \A c \in Conns \ overlapped : sender[c] = c

(* LoggedInIsRegistered, also for a connection in the midst of a login or   *)
(* of a cast's removals.                                                   *)
Routed ==
    \A c \in Conns \ overlapped :
        /\ pc[c] \in {"reading", "save", "remove", "close", "row"}
        /\ c \notin ended
        /\ peerId[c] \in Ids
        /\ c \in open
        => \/ registry[peerId[c]] = c
           \/ closing = c
           \/ \E d \in Conns : victim[d] = c

(* Every step keeps OneConnection: a second Login finds the connection's    *)
(* own object.                                                             *)
LEMMA OneConnectionStep ==
    ASSUME TypeOK, OwnId, OneConnection, [Next]_vars
    PROVE  OneConnection'
<1> USE DEF Keys
<1>1. ASSUME NEW c \in Conns, Accept(c)
      PROVE  OneConnection'
  BY <1>1, ConstantsAssumption
  DEF Accept, Rivals, OneConnection, OwnId, TypeOK, TaskTypeOK, StateTypeOK, Goto, serverVars,
      tokenVars, removeVars, janitorVars, peerVars, storeVars
<1>2. ASSUME NEW c \in Conns, LoginKnown(c)
      PROVE  OneConnection'
  <2> DEFINE k == LoginId[c]
  <2>1. k \in Keys /\ registry[k] # None /\ registry[k] \in Conns /\ pc[c] = "reading"
    BY <1>2, ConstantsAssumption, Zenon DEF LoginKnown, TypeOK, StateTypeOK
  <2>2. LoginId[registry[k]] = k /\ pc[registry[k]] \notin {"unborn", "done"}
    BY <2>1, Zenon DEF OwnId
  <2>3. registry[k] \notin overlapped => registry[k] = c
    BY <2>1, <2>2, Zenon DEF OneConnection
  <2>4. sender' = [sender EXCEPT ![registry[k]] = sender[c]]
    BY <1>2, Zenon DEF LoginKnown
  <2>5. \A d \in Conns \ overlapped : sender'[d] = sender[d]
    BY <2>1, <2>3, <2>4, Zenon DEF TypeOK, TaskTypeOK
  <2> QED
    BY <1>2, <2>5, Zenon DEF LoginKnown, OneConnection, serverVars
<1>3. ASSUME NEW c \in Conns, LoginNew(c)
      PROVE  OneConnection'
  BY <1>3, ConstantsAssumption
  DEF LoginNew, OneConnection, OwnId, TypeOK, TaskTypeOK, StateTypeOK, Goto,
      serverVars, tokenVars, removeVars, janitorVars, peerVars, storeVars
<1>4. ASSUME NEW c \in Conns, ClaimGhost(c)
      PROVE  OneConnection'
  BY <1>4, ConstantsAssumption
  DEF ClaimGhost, OneConnection, OwnId, TypeOK, TaskTypeOK, StateTypeOK, Goto,
      serverVars, tokenVars, removeVars, janitorVars, peerVars, storeVars
<1>5. ASSUME NEW c \in Conns, AddClient(c)
      PROVE  OneConnection'
  BY <1>5, ConstantsAssumption
  DEF AddClient, OneConnection, OwnId, TypeOK, TaskTypeOK, StateTypeOK, Goto,
      serverVars, tokenVars, removeVars, janitorVars, peerVars, storeVars
<1>6. ASSUME NEW c \in Conns, SaveState(c)
      PROVE  OneConnection'
  BY <1>6, ConstantsAssumption
  DEF SaveState, Save, RepoSave, OrFails, OneConnection, OwnId, TypeOK, TaskTypeOK, StateTypeOK, Goto,
      serverVars, tokenVars, removeVars, janitorVars, peerVars, storeVars
<1>7. ASSUME NEW c \in Conns, NEW F \in SUBSET Ids, CastFails(c, F)
      PROVE  OneConnection'
  BY <1>7, ConstantsAssumption, SMTT(30)
  DEF CastFails, OneConnection, OwnId, TypeOK, TaskTypeOK, StateTypeOK, Goto,
      serverVars, tokenVars, removeVars, janitorVars, peerVars, storeVars
<1>8. ASSUME NEW c \in Conns, EndLoop(c)
      PROVE  OneConnection'
  BY <1>8, ConstantsAssumption
  DEF EndLoop, OneConnection, OwnId, TypeOK, TaskTypeOK, StateTypeOK, Goto, serverVars,
      tokenVars, removeVars, janitorVars, peerVars, storeVars
<1>9. ASSUME NEW c \in Conns, NEW i \in doomed[c], RemoveNobody(c, i)
      PROVE  OneConnection'
  BY <1>9, ConstantsAssumption, SMTT(30)
  DEF RemoveNobody, OneConnection, OwnId, TypeOK, TaskTypeOK, StateTypeOK, Onward,
      Goto, serverVars, tokenVars, removeVars, janitorVars, peerVars,
      storeVars
<1>10. ASSUME NEW c \in Conns, NEW i \in doomed[c], RemoveClient(c, i)
      PROVE  OneConnection'
  BY <1>10, ConstantsAssumption
  DEF RemoveClient, OneConnection, OwnId, TypeOK, TaskTypeOK, StateTypeOK, Goto,
      serverVars, tokenVars, removeVars, janitorVars, peerVars, storeVars
<1>11. ASSUME NEW c \in Conns, CloseVictim(c)
      PROVE  OneConnection'
  BY <1>11, ConstantsAssumption
  DEF CloseVictim, OneConnection, OwnId, TypeOK, TaskTypeOK, StateTypeOK, Goto,
      serverVars, tokenVars, removeVars, janitorVars, peerVars, storeVars
<1>12. ASSUME NEW c \in Conns, RemoveState(c)
      PROVE  OneConnection'
  BY <1>12, ConstantsAssumption
  DEF RemoveState, Remove, RepoRemove, OrFails, OneConnection, OwnId, TypeOK, TaskTypeOK, StateTypeOK, Onward, Goto,
      serverVars, tokenVars, removeVars, janitorVars, peerVars, storeVars
<1>13. ASSUME NEW c \in Conns, Disconnect(c)
      PROVE  OneConnection'
  BY <1>13, ConstantsAssumption, Zenon
  DEF Disconnect, OneConnection, OwnId, TypeOK, TaskTypeOK, StateTypeOK, serverVars,
      tokenVars, removeVars, janitorVars, peerVars, storeVars
<1>14. ASSUME NEW S \in SUBSET Ids, TakeInactive(S)
      PROVE  OneConnection'
  BY <1>14, ConstantsAssumption, Zenon
  DEF TakeInactive, OneConnection, OwnId, TypeOK, TaskTypeOK, StateTypeOK, serverVars,
      tokenVars, removeVars, janitorVars, peerVars, storeVars
<1>15. ASSUME NEW i \in Ids, RemoveInactive(i)
      PROVE  OneConnection'
  BY <1>15, ConstantsAssumption, Zenon
  DEF RemoveInactive, OneConnection, OwnId, TypeOK, TaskTypeOK, StateTypeOK,
      serverVars, tokenVars, removeVars, janitorVars, peerVars, storeVars
<1>16. ASSUME CloseInactive
      PROVE  OneConnection'
  BY <1>16, ConstantsAssumption, Zenon
  DEF CloseInactive, OneConnection, OwnId, TypeOK, TaskTypeOK, StateTypeOK, serverVars,
      tokenVars, removeVars, janitorVars, peerVars, storeVars
<1>17. ASSUME NEW E \in SUBSET rows, TakeExpired(E)
      PROVE  OneConnection'
  BY <1>17, ConstantsAssumption, Zenon
  DEF TakeExpired, TakeExpiredGhosts, RepoTakeExpired, OrFails, OneConnection, OwnId, TypeOK, TaskTypeOK, StateTypeOK, serverVars,
      tokenVars, removeVars, janitorVars, peerVars, storeVars
<1>18. ASSUME NEW i \in Ids, RemoveGhost(i)
      PROVE  OneConnection'
  BY <1>18, ConstantsAssumption, Zenon
  DEF RemoveGhost, OneConnection, OwnId, TypeOK, TaskTypeOK, StateTypeOK, serverVars,
      tokenVars, removeVars, janitorVars, peerVars, storeVars
<1>19. ASSUME NEW k \in Keys, CancelClient(k)
      PROVE  OneConnection'
  BY <1>19, ConstantsAssumption, Zenon
  DEF CancelClient, OneConnection, OwnId, TypeOK, TaskTypeOK, StateTypeOK, serverVars,
      tokenVars, removeVars, janitorVars, peerVars, storeVars
<1>20. ASSUME Shutdown
      PROVE  OneConnection'
  BY <1>20, ConstantsAssumption, Zenon
  DEF Shutdown, OneConnection, OwnId, TypeOK, TaskTypeOK, StateTypeOK, Sessions,
      serverVars, tokenVars, removeVars, janitorVars, peerVars, storeVars
<1>21. ASSUME Stop
      PROVE  OneConnection'
  BY <1>21, ConstantsAssumption, Zenon
  DEF Stop, OneConnection, OwnId, TypeOK, TaskTypeOK, StateTypeOK, Sessions,
      serverVars, tokenVars, removeVars, janitorVars, peerVars, storeVars
<1>22. ASSUME Restart
      PROVE  OneConnection'
  BY <1>22, ConstantsAssumption, Zenon
  DEF Restart, LoadAll, RepoLoadAll, AddGhosts, OrFails, OneConnection, OwnId, TypeOK, TaskTypeOK, StateTypeOK, serverVars,
      tokenVars, removeVars, janitorVars, peerVars, storeVars
<1>23. ASSUME UNCHANGED vars
      PROVE  OneConnection'
  BY <1>23, ConstantsAssumption, ZenonT(40)
  DEF OneConnection, OwnId, TypeOK, TaskTypeOK, StateTypeOK, vars, serverVars,
      tokenVars, removeVars, janitorVars, peerVars, storeVars
<1> QED
  BY <1>1, <1>2, <1>3, <1>4, <1>5, <1>6, <1>7, <1>8, <1>9, <1>10, <1>11, <1>12, <1>13, <1>14, <1>15, <1>16, <1>17, <1>18, <1>19, <1>20, <1>21, <1>22, <1>23, Zenon
  DEF Next, Receive, Proceed, Janitor

(* Every step keeps Routed.                                                *)
LEMMA RoutedStep ==
    ASSUME TypeOK, OwnId, OneConnection, Routed, [Next]_vars
    PROVE  Routed'
<1> USE DEF Keys
<1>1. ASSUME NEW c \in Conns, Accept(c)
      PROVE  Routed'
  BY <1>1, ConstantsAssumption
  DEF Accept, Rivals, Routed, OneConnection, OwnId, TypeOK, TaskTypeOK, StateTypeOK, Goto, serverVars,
      tokenVars, removeVars, janitorVars, peerVars, storeVars
<1>2. ASSUME NEW c \in Conns, LoginKnown(c)
      PROVE  Routed'
  BY <1>2, ConstantsAssumption
  DEF LoginKnown, Routed, OneConnection, OwnId, TypeOK, TaskTypeOK, StateTypeOK, Goto,
      serverVars, tokenVars, removeVars, janitorVars, peerVars, storeVars
<1>3. ASSUME NEW c \in Conns, LoginNew(c)
      PROVE  Routed'
  BY <1>3, ConstantsAssumption
  DEF LoginNew, Routed, OneConnection, OwnId, TypeOK, TaskTypeOK, StateTypeOK, Goto,
      serverVars, tokenVars, removeVars, janitorVars, peerVars, storeVars
<1>4. ASSUME NEW c \in Conns, ClaimGhost(c)
      PROVE  Routed'
  BY <1>4, ConstantsAssumption
  DEF ClaimGhost, Routed, OneConnection, OwnId, TypeOK, TaskTypeOK, StateTypeOK, Goto,
      serverVars, tokenVars, removeVars, janitorVars, peerVars, storeVars
<1>5. ASSUME NEW c \in Conns, AddClient(c)
      PROVE  Routed'
  <2> SUFFICES ASSUME NEW d \in Conns \ overlapped,
                      pc'[d] \in {"reading", "save", "remove", "close", "row"},
                      d \notin ended, peerId[d] \in Ids, d \in open
               PROVE  \/ registry'[peerId[d]] = d
                      \/ closing = d
                      \/ \E e \in Conns : victim[e] = d
    BY <1>5, Zenon DEF AddClient, Routed, serverVars, tokenVars, removeVars,
        janitorVars, peerVars
  <2>1. /\ pc[c] = "insert" /\ peerId[c] = LoginId[c]
        /\ registry' = [registry EXCEPT ![peerId[c]] = c]
        /\ pc' = [pc EXCEPT ![c] = "save"]
    BY <1>5, Zenon DEF AddClient, Goto, OwnId
  <2>2. registry \in [Keys -> Conns \cup {None}] /\ DOMAIN pc = Conns
    BY Zenon DEF TypeOK, StateTypeOK, TaskTypeOK
  <2>3. CASE d = c
    BY <2>1, <2>2, <2>3, Zenon
  <2>4. CASE d # c
    <3>1. pc[d] = pc'[d]
      BY <2>1, <2>2, <2>4, ZenonT(40)
    <3>2. peerId[d] = LoginId[d]
      BY ConstantsAssumption DEF OwnId
    <3>3. peerId[d] # peerId[c]
      BY <2>1, <2>4, <3>1, <3>2, Zenon DEF OneConnection
    <3> QED
      BY <2>1, <2>2, <3>1, <3>3, Zenon DEF Routed
  <2> QED
    BY <2>3, <2>4, Zenon
<1>6. ASSUME NEW c \in Conns, SaveState(c)
      PROVE  Routed'
  BY <1>6, ConstantsAssumption
  DEF SaveState, Save, RepoSave, OrFails, Routed, OneConnection, OwnId, TypeOK, TaskTypeOK, StateTypeOK, Goto,
      serverVars, tokenVars, removeVars, janitorVars, peerVars, storeVars
<1>7. ASSUME NEW c \in Conns, NEW F \in SUBSET Ids, CastFails(c, F)
      PROVE  Routed'
  BY <1>7, ConstantsAssumption, SMTT(30)
  DEF CastFails, Routed, OneConnection, OwnId, TypeOK, TaskTypeOK, StateTypeOK, Goto,
      serverVars, tokenVars, removeVars, janitorVars, peerVars, storeVars
<1>8. ASSUME NEW c \in Conns, EndLoop(c)
      PROVE  Routed'
  BY <1>8, ConstantsAssumption
  DEF EndLoop, Routed, OneConnection, OwnId, TypeOK, TaskTypeOK, StateTypeOK, Goto, serverVars,
      tokenVars, removeVars, janitorVars, peerVars, storeVars
<1>9. ASSUME NEW c \in Conns, NEW i \in doomed[c], RemoveNobody(c, i)
      PROVE  Routed'
  BY <1>9, ConstantsAssumption, SMTT(30)
  DEF RemoveNobody, Routed, OneConnection, OwnId, TypeOK, TaskTypeOK, StateTypeOK, Onward,
      Goto, serverVars, tokenVars, removeVars, janitorVars, peerVars,
      storeVars
<1>10. ASSUME NEW c \in Conns, NEW i \in doomed[c], RemoveClient(c, i)
      PROVE  Routed'
  BY <1>10, ConstantsAssumption
  DEF RemoveClient, Routed, OneConnection, OwnId, TypeOK, TaskTypeOK, StateTypeOK, Goto,
      serverVars, tokenVars, removeVars, janitorVars, peerVars, storeVars
<1>11. ASSUME NEW c \in Conns, CloseVictim(c)
      PROVE  Routed'
  BY <1>11, ConstantsAssumption
  DEF CloseVictim, Routed, OneConnection, OwnId, TypeOK, TaskTypeOK, StateTypeOK, Goto,
      serverVars, tokenVars, removeVars, janitorVars, peerVars, storeVars
<1>12. ASSUME NEW c \in Conns, RemoveState(c)
      PROVE  Routed'
  BY <1>12, ConstantsAssumption
  DEF RemoveState, Remove, RepoRemove, OrFails, Routed, OneConnection, OwnId, TypeOK, TaskTypeOK, StateTypeOK, Onward, Goto,
      serverVars, tokenVars, removeVars, janitorVars, peerVars, storeVars
<1>13. ASSUME NEW c \in Conns, Disconnect(c)
      PROVE  Routed'
  BY <1>13, ConstantsAssumption
  DEF Disconnect, Routed, OneConnection, OwnId, TypeOK, TaskTypeOK, StateTypeOK, serverVars,
      tokenVars, removeVars, janitorVars, peerVars, storeVars
<1>14. ASSUME NEW S \in SUBSET Ids, TakeInactive(S)
      PROVE  Routed'
  BY <1>14, ConstantsAssumption, SMTT(30)
  DEF TakeInactive, Routed, OneConnection, OwnId, TypeOK, TaskTypeOK, StateTypeOK, serverVars,
      tokenVars, removeVars, janitorVars, peerVars, storeVars
<1>15. ASSUME NEW i \in Ids, RemoveInactive(i)
      PROVE  Routed'
  BY <1>15, ConstantsAssumption
  DEF RemoveInactive, Routed, OneConnection, OwnId, TypeOK, TaskTypeOK, StateTypeOK,
      serverVars, tokenVars, removeVars, janitorVars, peerVars, storeVars
<1>16. ASSUME CloseInactive
      PROVE  Routed'
  BY <1>16, ConstantsAssumption, SMTT(30)
  DEF CloseInactive, Routed, OneConnection, OwnId, TypeOK, TaskTypeOK, StateTypeOK, serverVars,
      tokenVars, removeVars, janitorVars, peerVars, storeVars
<1>17. ASSUME NEW E \in SUBSET rows, TakeExpired(E)
      PROVE  Routed'
  BY <1>17, ConstantsAssumption
  DEF TakeExpired, TakeExpiredGhosts, RepoTakeExpired, OrFails, Routed, OneConnection, OwnId, TypeOK, TaskTypeOK, StateTypeOK, serverVars,
      tokenVars, removeVars, janitorVars, peerVars, storeVars
<1>18. ASSUME NEW i \in Ids, RemoveGhost(i)
      PROVE  Routed'
  BY <1>18, ConstantsAssumption
  DEF RemoveGhost, Routed, OneConnection, OwnId, TypeOK, TaskTypeOK, StateTypeOK, serverVars,
      tokenVars, removeVars, janitorVars, peerVars, storeVars
<1>19. ASSUME NEW k \in Keys, CancelClient(k)
      PROVE  Routed'
  BY <1>19, ConstantsAssumption, ZenonT(40)
  DEF CancelClient, Routed, OneConnection, OwnId, TypeOK, TaskTypeOK, StateTypeOK, serverVars,
      tokenVars, removeVars, janitorVars, peerVars, storeVars
<1>20. ASSUME Shutdown
      PROVE  Routed'
  BY <1>20, ConstantsAssumption
  DEF Shutdown, Routed, OneConnection, OwnId, TypeOK, TaskTypeOK, StateTypeOK, Sessions,
      serverVars, tokenVars, removeVars, janitorVars, peerVars, storeVars
<1>21. ASSUME Stop
      PROVE  Routed'
  BY <1>21, ConstantsAssumption, Zenon
  DEF Stop, Routed, OneConnection, OwnId, TypeOK, TaskTypeOK, StateTypeOK, Sessions,
      serverVars, tokenVars, removeVars, janitorVars, peerVars, storeVars
<1>22. ASSUME Restart
      PROVE  Routed'
  BY <1>22, ConstantsAssumption
  DEF Restart, LoadAll, RepoLoadAll, AddGhosts, OrFails, Routed, OneConnection, OwnId, TypeOK, TaskTypeOK, StateTypeOK, serverVars,
      tokenVars, removeVars, janitorVars, peerVars, storeVars
<1>23. ASSUME UNCHANGED vars
      PROVE  Routed'
  BY <1>23, ConstantsAssumption
  DEF Routed, OneConnection, OwnId, TypeOK, TaskTypeOK, StateTypeOK, vars, serverVars,
      tokenVars, removeVars, janitorVars, peerVars, storeVars
<1> QED
  BY <1>1, <1>2, <1>3, <1>4, <1>5, <1>6, <1>7, <1>8, <1>9, <1>10, <1>11, <1>12, <1>13, <1>14, <1>15, <1>16, <1>17, <1>18, <1>19, <1>20, <1>21, <1>22, <1>23, ZenonT(40)
  DEF Next, Receive, Proceed, Janitor

(* A logged-in client whose connection works, and never overlapped another *)
(* of its own, is registered, or is about to be disconnected               *)
(* (LoggedInIsRegistered): no                                              *)
(* removal forgets to close what it removed, and no login replaces another. *)
THEOREM ConnectedIsRouted == Spec => []LoggedInIsRegistered
<1>1. Init => OneConnection /\ Routed /\ OwnId
  BY ConstantsAssumption, Zenon DEF Init, OneConnection, Routed, OwnId, Keys
<1>2. OwnId /\ Routed => LoggedInIsRegistered
  BY Zenon DEF OwnId, Routed, LoggedInIsRegistered
<1>3. TypeOK /\ OwnId /\ OneConnection /\ Routed /\ [Next]_vars
      => OwnId' /\ OneConnection' /\ Routed'
  BY OwnIdStep, OneConnectionStep, RoutedStep, Zenon
<1> QED
  BY <1>1, <1>2, <1>3, TypeCorrect, PTL DEF Spec
=============================================================================
