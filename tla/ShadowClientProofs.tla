------------------------- MODULE ShadowClientProofs -------------------------
(* Proofs about ShadowClient for every set of moves and every reach.        *)
EXTENDS ShadowClient, TLAPS

(* Nothing moves before connect is over, and a blocking move is the tool    *)
(* that runs.                                                               *)
ToolInv ==
  /\ toolPc \in {"off", "connect upload", "connect poll"} => \A m \in Move : ~Active(m)
  /\ \A m \in Blocking : Active(m) => toolPc = "move"
  /\ \A m, n \in Blocking : Active(m) /\ Active(n) => m = n

(* What a move knows of the simulator on its way to the real robot. *)
GateInv ==
  \A m \in Move :
    /\ movePc[m] \in {"new", "sim upload", "sim poll", "real upload"} => driver["real"] # m
    /\ movePc[m] = "sim poll" => arm["sim"] \in visited[m]
    /\ movePc[m] \in {"real upload", "real poll"} => Target[m] \in visited[m]
    /\ driver["real"] = m => Target[m] \in visited[m]

(* Where an arm will be when its controller has run what it has. *)
End(r) == IF driver[r] \in Move \union {Sync} THEN Goal(r) ELSE arm[r]

AlonePart ==
  /\ \A m, n \in Move : Active(m) /\ Active(n) => m = n
  /\ \A m \in Move : Active(m) => toolPc \in {"idle", "move"}
  /\ driver["real"] = Hand => toolPc \in {"free", "freed"}
  /\ toolPc \notin {"stop sim", "sim asked", "stop real", "real asked", "hung"}
SyncPart ==
  toolPc \in {"connect upload", "connect poll", "sync upload", "sync poll"} =>
    /\ driver["real"] = Nobody /\ syncGoal = arm["real"]
    /\ toolPc \in {"connect poll", "sync poll"} =>
         \/ driver["sim"] = Sync
         \/ driver["sim"] = Nobody /\ arm["sim"] = syncGoal
MovePart ==
  \A m \in Move :
    /\ movePc[m] \in {"sim poll", "real upload", "real poll"} => End("sim") = Target[m]
    /\ movePc[m] = "real poll" => End("real") = Target[m]
RestPart ==
  toolPc = "idle" /\ (\A m \in Move : ~Active(m)) => End("sim") = End("real")
DriftInv == ~disturbed => AlonePart /\ SyncPart /\ MovePart /\ RestPart

ShadowInv == TypeOK /\ ToolInv /\ GateInv /\ DriftInv

-----------------------------------------------------------------------------
(* One step towards another place stays within reach. *)
LEMMA OneStep ==
  ASSUME NEW a \in 0..Reach, NEW g \in 0..Reach, a # g
  PROVE  (IF a < g THEN a + 1 ELSE a - 1) \in 0..Reach
PROOF
<1>1. CASE a < g  BY <1>1, ReachAssumption
<1>2. CASE ~(a < g)  BY <1>2, ReachAssumption
<1>3. QED  BY <1>1, <1>2

(* Every step keeps the types. *)
LEMMA TypeStep ==
  ASSUME TypeOK, [Next]_vars
  PROVE  TypeOK'
PROOF
<1> USE ReachAssumption, MoveAssumption DEF TypeOK, MovePcs, ToolPcs, Move, Place, vars, robotVars, moveVars, toolVars, Robot
<1>1. ASSUME NEW m \in Move, MoveBegins(m) PROVE TypeOK'
  BY <1>1 DEF MoveBegins, MoveGoes, Active, Running
<1>2. ASSUME NEW m \in Move, SimUploads(m) PROVE TypeOK'
  BY <1>2 DEF SimUploads, MoveGoes, Upload
<1>3. ASSUME NEW m \in Move, SimReaches(m) PROVE TypeOK'
  BY <1>3 DEF SimReaches, MoveGoes, SimReached
<1>4. ASSUME NEW m \in Move, RealUploads(m) PROVE TypeOK'
  BY <1>4 DEF RealUploads, MoveGoes, Upload
<1>5. ASSUME NEW m \in Move, RealReaches(m) PROVE TypeOK'
  BY <1>5 DEF RealReaches, MoveEnds
<1>6. ASSUME NEW m \in Move, MoveRaises(m) PROVE TypeOK'
  BY <1>6 DEF MoveRaises, MoveEnds, Active
<1>7. ASSUME NEW r \in Robot, Advance(r) PROVE TypeOK'
  <2>1. Goal(r) \in Place
    BY <1>7 DEF Advance, Goal
  <2>2. arm' \in [Robot -> Place]
    <3>1. (IF arm[r] < Goal(r) THEN arm[r] + 1 ELSE arm[r] - 1) \in Place
      <4>1. arm[r] \in 0..Reach /\ Goal(r) \in 0..Reach /\ arm[r] # Goal(r)
        BY <1>7, <2>1 DEF Advance
      <4>2. QED  BY <4>1, OneStep DEF Place
    <3>2. QED  BY <1>7, <3>1 DEF Advance, Goes
  <2>3. visited' \in [Move -> SUBSET Place]
    BY <1>7, <2>2, ZenonT(30) DEF Advance, Goes
  <2>4. QED  BY <1>7, <2>2, <2>3, ZenonT(30) DEF Advance
<1>8. ASSUME NEW r \in Robot, ProgramEnds(r) PROVE TypeOK'
  BY <1>8 DEF ProgramEnds, Upload, Goal
<1>9. CASE Pushed
  <2>1. PICK place \in Place : Goes("real", place)  BY <1>9 DEF Pushed
  <2>2. visited' \in [Move -> SUBSET Place]  BY <2>1 DEF Goes
  <2>3. arm' \in [Robot -> Place]  BY <2>1 DEF Goes
  <2>4. QED  BY <1>9, <2>2, <2>3 DEF Pushed
<1>10. CASE SyncReads
  BY <1>10 DEF SyncReads, Running
<1>11. CASE SyncUploads
  BY <1>11 DEF SyncUploads, ToolGoes, Upload
<1>12. CASE SyncReaches
  BY <1>12 DEF SyncReaches
<1>13. CASE SyncRaises
  BY <1>13 DEF SyncRaises
<1>14. CASE FreeBegins
  BY <1>14 DEF FreeBegins, ToolGoes, Upload, RealIsReleased, Running
<1>15. CASE FreeEnds
  BY <1>15 DEF FreeEnds, ToolGoes, Resync
<1>16. CASE FreeRaises
  BY <1>16 DEF FreeRaises, ToolGoes
<1>17. CASE StopBegins
  BY <1>17 DEF StopBegins, ToolGoes, Running
<1>18. CASE StopSim \/ StopSimEnds
  BY <1>18 DEF StopSim, StopSimEnds, ToolGoes, Upload
<1>19. CASE StopReal \/ StopEnds \/ StopHangs
  BY <1>19 DEF StopReal, StopEnds, StopHangs, ToolGoes, Upload
<1>20. CASE UNCHANGED vars
  BY <1>20
<1>21. QED
  BY <1>1, <1>2, <1>3, <1>4, <1>5, <1>6, <1>7, <1>8, <1>9, <1>10, <1>11, <1>12, <1>13, <1>14, <1>15, <1>16, <1>17, <1>18, <1>19, <1>20 DEF Next, Controller, Tools, StopSteps, MoveSteps

(* Every step keeps what runs within its tool. *)
LEMMA ToolStep ==
  ASSUME TypeOK, ToolInv, [Next]_vars
  PROVE  ToolInv'
PROOF
<1> USE ReachAssumption, MoveAssumption DEF TypeOK, ToolInv, Active, Move, vars, robotVars, moveVars, toolVars, Robot
<1>1. ASSUME NEW m \in Move, MoveBegins(m) PROVE ToolInv'
  <2>1. \A n \in Move \ {m} : Active(n)' <=> Active(n)
    BY <1>1 DEF MoveBegins, MoveGoes
  <2>2. toolPc' \notin {"off", "connect upload", "connect poll"}
    BY <1>1 DEF MoveBegins
  <2>3. CASE m \in Queued
    <3>1. m \notin Blocking /\ toolPc' = toolPc
      BY <1>1, <2>3 DEF MoveBegins
    <3>2. QED  BY <2>1, <2>2, <3>1
  <2>4. CASE m \notin Queued
    <3>1. toolPc = "idle" /\ toolPc' = "move"
      BY <1>1, <2>4 DEF MoveBegins
    <3>2. \A n \in Blocking \ {m} : ~Active(n)'
      BY <2>1, <3>1
    <3>3. QED  BY <2>2, <3>1, <3>2
  <2>5. QED  BY <2>3, <2>4
<1>2. ASSUME NEW m \in Move, SimUploads(m) PROVE ToolInv'
  BY <1>2 DEF SimUploads, MoveGoes, Upload
<1>3. ASSUME NEW m \in Move, SimReaches(m) PROVE ToolInv'
  BY <1>3 DEF SimReaches, MoveGoes, SimReached
<1>4. ASSUME NEW m \in Move, RealUploads(m) PROVE ToolInv'
  BY <1>4 DEF RealUploads, MoveGoes, Upload
<1>5. ASSUME NEW m \in Move, RealReaches(m) PROVE ToolInv'
  BY <1>5 DEF RealReaches, MoveEnds
<1>6. ASSUME NEW m \in Move, MoveRaises(m) PROVE ToolInv'
  BY <1>6 DEF MoveRaises, MoveEnds, Active
<1>7. ASSUME NEW r \in Robot, Advance(r) PROVE ToolInv'
  BY <1>7 DEF Advance, Goes, Goal, Active
<1>8. ASSUME NEW r \in Robot, ProgramEnds(r) PROVE ToolInv'
  BY <1>8 DEF ProgramEnds, Upload, Goal
<1>9. CASE Pushed
  BY <1>9 DEF Pushed, Goes, Active
<1>10. CASE SyncReads
  BY <1>10 DEF SyncReads, Running
<1>11. CASE SyncUploads
  BY <1>11 DEF SyncUploads, ToolGoes, Upload
<1>12. CASE SyncReaches
  BY <1>12 DEF SyncReaches
<1>13. CASE SyncRaises
  BY <1>13 DEF SyncRaises
<1>14. CASE FreeBegins
  BY <1>14 DEF FreeBegins, ToolGoes, Upload, RealIsReleased, Running
<1>15. CASE FreeEnds
  BY <1>15 DEF FreeEnds, ToolGoes, Resync
<1>16. CASE FreeRaises
  BY <1>16 DEF FreeRaises, ToolGoes
<1>17. CASE StopBegins
  BY <1>17 DEF StopBegins, ToolGoes, Running
<1>18. CASE StopSim \/ StopSimEnds
  BY <1>18 DEF StopSim, StopSimEnds, ToolGoes, Upload
<1>19. CASE StopReal \/ StopEnds \/ StopHangs
  BY <1>19 DEF StopReal, StopEnds, StopHangs, ToolGoes, Upload
<1>20. CASE UNCHANGED vars
  BY <1>20
<1>21. QED
  BY <1>1, <1>2, <1>3, <1>4, <1>5, <1>6, <1>7, <1>8, <1>9, <1>10, <1>11, <1>12, <1>13, <1>14, <1>15, <1>16, <1>17, <1>18, <1>19, <1>20 DEF Next, Controller, Tools, StopSteps, MoveSteps

(* Every step keeps the gate closed to what the simulator has not done. *)
LEMMA GateStep ==
  ASSUME TypeOK, ToolInv, GateInv, [Next]_vars
  PROVE  GateInv'
PROOF
<1> USE ReachAssumption, MoveAssumption DEF TypeOK, GateInv, Active, Move, vars, robotVars, moveVars, toolVars, Robot
<1>1. ASSUME NEW m \in Move, MoveBegins(m) PROVE GateInv'
  BY <1>1 DEF MoveBegins, MoveGoes, Active, Running
<1>2. ASSUME NEW m \in Move, SimUploads(m) PROVE GateInv'
  BY <1>2 DEF SimUploads, MoveGoes, Upload
<1>3. ASSUME NEW m \in Move, SimReaches(m) PROVE GateInv'
  BY <1>3 DEF SimReaches, MoveGoes, SimReached
<1>4. ASSUME NEW m \in Move, RealUploads(m) PROVE GateInv'
  BY <1>4 DEF RealUploads, MoveGoes, Upload
<1>5. ASSUME NEW m \in Move, RealReaches(m) PROVE GateInv'
  BY <1>5 DEF RealReaches, MoveEnds
<1>6. ASSUME NEW m \in Move, MoveRaises(m) PROVE GateInv'
  BY <1>6 DEF MoveRaises, MoveEnds, Active
<1>7. ASSUME NEW r \in Robot, Advance(r) PROVE GateInv'
  BY <1>7 DEF Advance, Goes, Goal, Active
<1>8. ASSUME NEW r \in Robot, ProgramEnds(r) PROVE GateInv'
  BY <1>8 DEF ProgramEnds, Upload, Goal
<1>9. CASE Pushed
  <2>1. PICK place \in Place : Goes("real", place)  BY <1>9 DEF Pushed
  <2>2. \A m \in Move : visited[m] \subseteq visited'[m]  BY <2>1 DEF Goes
  <2>3. arm'["sim"] = arm["sim"]  BY <2>1 DEF Goes
  <2>4. UNCHANGED <<driver, movePc>>  BY <1>9 DEF Pushed
  <2>5. QED  BY <2>2, <2>3, <2>4
<1>10. CASE SyncReads
  BY <1>10 DEF SyncReads, Running
<1>11. CASE SyncUploads
  BY <1>11 DEF SyncUploads, ToolGoes, Upload
<1>12. CASE SyncReaches
  BY <1>12 DEF SyncReaches
<1>13. CASE SyncRaises
  BY <1>13 DEF SyncRaises
<1>14. CASE FreeBegins
  BY <1>14 DEF FreeBegins, ToolGoes, Upload, RealIsReleased, Running
<1>15. CASE FreeEnds
  BY <1>15 DEF FreeEnds, ToolGoes, Resync
<1>16. CASE FreeRaises
  BY <1>16 DEF FreeRaises, ToolGoes
<1>17. CASE StopBegins
  BY <1>17 DEF StopBegins, ToolGoes, Running
<1>18. CASE StopSim \/ StopSimEnds
  BY <1>18 DEF StopSim, StopSimEnds, ToolGoes, Upload
<1>19. CASE StopReal \/ StopEnds \/ StopHangs
  BY <1>19 DEF StopReal, StopEnds, StopHangs, ToolGoes, Upload
<1>20. CASE UNCHANGED vars
  BY <1>20
<1>21. QED
  BY <1>1, <1>2, <1>3, <1>4, <1>5, <1>6, <1>7, <1>8, <1>9, <1>10, <1>11, <1>12, <1>13, <1>14, <1>15, <1>16, <1>17, <1>18, <1>19, <1>20 DEF Next, Controller, Tools, StopSteps, MoveSteps

(* Every step that is not disturbed leaves the arms on their way to the    *)
(* same place.                                                              *)
LEMMA DriftStep ==
  ASSUME ShadowInv, [Next]_vars
  PROVE  DriftInv'
PROOF
<1> USE ReachAssumption, MoveAssumption DEF ShadowInv, TypeOK, ToolInv, DriftInv, AlonePart, SyncPart, MovePart, RestPart, End, Goal, Active, Running, Move, Place, vars, robotVars, moveVars, toolVars, Robot
<1>1. ASSUME NEW m \in Move, MoveBegins(m) PROVE DriftInv'
  BY <1>1 DEF MoveBegins, MoveGoes, Active, Running
<1>2. ASSUME NEW m \in Move, SimUploads(m) PROVE DriftInv'
  <2> SUFFICES ASSUME ~disturbed' PROVE (AlonePart /\ SyncPart /\ MovePart /\ RestPart)'
    OBVIOUS
  <2>1. /\ ~disturbed /\ Active(m) /\ Active(m)' /\ toolPc \in {"idle", "move"}
        /\ UNCHANGED <<toolPc, arm, syncGoal>>
        /\ \A n \in Move \ {m} : ~Active(n) /\ ~Active(n)'
    BY <1>2 DEF SimUploads, MoveGoes
  <2>2. driver'["sim"] = m /\ m # Sync
    BY <1>2 DEF SimUploads, Upload
  <2>3. movePc'[m] = "sim poll" /\ End("sim")' = Target[m]
    BY <1>2, <2>2 DEF SimUploads, MoveGoes
  <2>4. driver'["real"] = driver["real"]
    BY <1>2 DEF SimUploads, Upload
  <2>5. (AlonePart /\ SyncPart /\ RestPart)'  BY <2>1, <2>4
  <2>6. MovePart'  BY <2>1, <2>3, <2>4
  <2>7. QED  BY <2>5, <2>6
<1>3. ASSUME NEW m \in Move, SimReaches(m) PROVE DriftInv'
  BY <1>3 DEF SimReaches, MoveGoes, SimReached
<1>4. ASSUME NEW m \in Move, RealUploads(m) PROVE DriftInv'
  BY <1>4, ZenonT(30) DEF RealUploads, MoveGoes, Upload
<1>5. ASSUME NEW m \in Move, RealReaches(m) PROVE DriftInv'
  BY <1>5, ZenonT(30) DEF RealReaches, MoveEnds
<1>6. ASSUME NEW m \in Move, MoveRaises(m) PROVE DriftInv'
  BY <1>6 DEF MoveRaises, MoveEnds, Active
<1>7. ASSUME NEW r \in Robot, Advance(r) PROVE DriftInv'
  BY <1>7 DEF Advance, Goes, Goal, Active
<1>8. ASSUME NEW r \in Robot, ProgramEnds(r) PROVE DriftInv'
  BY <1>8, ZenonT(30) DEF ProgramEnds, Upload, Goal
<1>9. CASE Pushed
  BY <1>9 DEF Pushed, Goes, Active
<1>10. CASE SyncReads
  BY <1>10 DEF SyncReads, Running
<1>11. CASE SyncUploads
  BY <1>11 DEF SyncUploads, ToolGoes, Upload
<1>12. CASE SyncReaches
  BY <1>12 DEF SyncReaches
<1>13. CASE SyncRaises
  BY <1>13 DEF SyncRaises
<1>14. CASE FreeBegins
  BY <1>14 DEF FreeBegins, ToolGoes, Upload, RealIsReleased, Running
<1>15. CASE FreeEnds
  BY <1>15 DEF FreeEnds, ToolGoes, Resync
<1>16. CASE FreeRaises
  BY <1>16 DEF FreeRaises, ToolGoes
<1>17. CASE StopBegins
  BY <1>17 DEF StopBegins, ToolGoes, Running
<1>18. CASE StopSim \/ StopSimEnds
  BY <1>18 DEF StopSim, StopSimEnds, ToolGoes, Upload
<1>19. CASE StopReal \/ StopEnds \/ StopHangs
  BY <1>19 DEF StopReal, StopEnds, StopHangs, ToolGoes, Upload
<1>20. CASE UNCHANGED vars
  BY <1>20
<1>21. QED
  BY <1>1, <1>2, <1>3, <1>4, <1>5, <1>6, <1>7, <1>8, <1>9, <1>10, <1>11, <1>12, <1>13, <1>14, <1>15, <1>16, <1>17, <1>18, <1>19, <1>20 DEF Next, Controller, Tools, StopSteps, MoveSteps

(* The invariant holds in every behaviour. *)
LEMMA ShadowInvariant == SafeSpec => []ShadowInv
PROOF
<1>1. Init => ShadowInv
  <2> SUFFICES ASSUME Init PROVE ShadowInv  OBVIOUS
  <2> USE ReachAssumption, MoveAssumption DEF Init, Active, Move, Place, Robot
  <2>1. TypeOK
    <3>1. syncGoal \in Place /\ arm \in [Robot -> Place]  OBVIOUS
    <3>2. driver \in [Robot -> Move \union {Nobody, Sync, Stopj, Hand}]  OBVIOUS
    <3>3. driver["sim"] # Hand /\ driver["real"] # Sync  OBVIOUS
    <3>4. movePc \in [Move -> MovePcs] /\ toolPc \in ToolPcs  BY DEF MovePcs, ToolPcs
    <3>5. visited \in [Move -> SUBSET Place]  OBVIOUS
    <3>6. QED  BY <3>1, <3>2, <3>3, <3>4, <3>5 DEF TypeOK
  <2>2. ToolInv  BY DEF ToolInv
  <2>3. GateInv  BY DEF GateInv
  <2>4. DriftInv  BY DEF DriftInv, AlonePart, SyncPart, MovePart, RestPart
  <2>5. QED  BY <2>1, <2>2, <2>3, <2>4 DEF ShadowInv
<1>2. ShadowInv /\ [Next]_vars => ShadowInv'
  BY TypeStep, ToolStep, GateStep, DriftStep DEF ShadowInv
<1>3. QED  BY <1>1, <1>2, PTL DEF SafeSpec

(* The variables of the shadow client keep their types; above all no        *)
(* motion leaves the reach, and only the real arm is ever let loose.        *)
THEOREM TypeCorrect == SafeSpec => []TypeOK
PROOF
<1>1. ShadowInv => TypeOK  BY DEF ShadowInv
<1>2. QED  BY <1>1, ShadowInvariant, PTL

(* The pre-flight gate of shadow_client.py: the real robot runs a verified  *)
(* move only if the simulator has been at its target during that same call. *)
THEOREM Gate == SafeSpec => []GatedBySim
PROOF
<1>1. ShadowInv => GatedBySim  BY DEF ShadowInv, GateInv, GatedBySim
<1>2. QED  BY <1>1, ShadowInvariant, PTL

(* The two robots drift apart only through a call that raised, was stopped  *)
(* or overlapped another.                                                   *)
THEOREM Drift == SafeSpec => []DriftHasACause
PROOF
<1>1. ShadowInv => DriftHasACause
  <2> SUFFICES ASSUME ShadowInv, toolPc = "idle", Running = {}, ~disturbed,
                      \A r \in Robot : driver[r] = Nobody
               PROVE  arm["sim"] = arm["real"]
    BY DEF DriftHasACause
  <2>1. RestPart  BY DEF ShadowInv, DriftInv
  <2>2. End("sim") = End("real")  BY <2>1 DEF RestPart, Running
  <2>3. \A r \in Robot : End(r) = arm[r]  BY MoveAssumption DEF End
  <2>4. QED  BY <2>2, <2>3 DEF Robot
<1>2. QED  BY <1>1, ShadowInvariant, PTL

=============================================================================
