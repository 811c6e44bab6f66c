---------------------------- MODULE ShadowClient ----------------------------
(***************************************************************************)
(* case1/shadow_client.py with a real robot configured: every move runs on *)
(* the simulator first and is replayed on the real robot when the          *)
(* simulator got there.  The queue's commands run on threads of their own, *)
(* everything else is a tool, and tools run one at a time.  Both robots are*)
(* reached through URClient: what is uploaded last preempts.               *)
(*                                                                         *)
(* An arm is somewhere in 0..Reach and moves one unit at a time, so that   *)
(* an interrupted motion leaves it on the way.                             *)
(***************************************************************************)
EXTENDS Naturals

CONSTANTS Queued,    (* verified moves that are the fn of a queued command *)
          Blocking,  (* verified moves that are a blocking tool            *)
          Target,    (* where a move goes                                  *)
          Reach,
          Nobody, Sync, Stopj, Hand   (* owners of what a robot runs       *)

Move  == Queued \union Blocking
Robot == {"sim", "real"}
Place == 0..Reach

ASSUME ReachAssumption == Reach \in Nat /\ Target \in [Move -> Place]
ASSUME MoveAssumption ==
  /\ Queued \intersect Blocking = {}
  /\ {Nobody, Sync, Stopj, Hand} \intersect Move = {}
  /\ Nobody \notin {Sync, Stopj, Hand} /\ Sync \notin {Stopj, Hand} /\ Stopj # Hand

VARIABLES
  arm,       (* where each arm is                                          *)
  driver,    (* whose program each controller runs                         *)
  movePc,    (* where a verified move is in _verify_then_replay            *)
  flagged,   (* queued moves whose command a stop_robot cancelled          *)
  toolPc,    (* where the tool in progress is; "off" before connect        *)
  syncGoal,  (* real_q, the pose the simulator is driven to                *)
  visited,   (* history: where the simulator has been during the move      *)
  disturbed  (* history: since the last sync a call raised, was stopped or *)
             (* overlapped another                                         *)

robotVars == <<arm, driver>>
moveVars  == <<movePc, flagged, visited>>
toolVars  == <<toolPc, syncGoal>>
vars == <<robotVars, moveVars, toolVars, disturbed>>

Active(m) == movePc[m] \notin {"new", "over"}
Running == {m \in Move : Active(m)}

Init ==
  /\ arm \in [Robot -> Place]
  /\ driver = [r \in Robot |-> Nobody]
  /\ movePc = [m \in Move |-> "new"]
  /\ flagged = {}
  /\ toolPc = "off"
  /\ syncGoal = 0
  /\ visited = [m \in Move |-> {}]
  /\ disturbed = FALSE

-----------------------------------------------------------------------------
(* The controllers. *)

Upload(r, who) == driver' = [driver EXCEPT ![r] = who]

Goal(r) == IF driver[r] = Sync THEN syncGoal ELSE Target[driver[r]]

(* The arm moves, and what the simulator passes through is remembered. *)
Goes(r, place) ==
  /\ arm' = [arm EXCEPT ![r] = place]
  /\ visited' = [m \in Move |-> visited[m] \union
                   (IF r = "sim" /\ Active(m) THEN {place} ELSE {})]

Advance(r) ==
  /\ driver[r] \in Move \union {Sync} /\ arm[r] # Goal(r)
  /\ Goes(r, IF arm[r] < Goal(r) THEN arm[r] + 1 ELSE arm[r] - 1)
  /\ UNCHANGED <<driver, movePc, flagged, toolVars, disturbed>>

ProgramEnds(r) ==
  /\ driver[r] \in {Stopj, Hand} \/ (driver[r] \in Move \union {Sync} /\ arm[r] = Goal(r))
  /\ Upload(r, Nobody)
  /\ UNCHANGED <<arm, moveVars, toolVars, disturbed>>

(* freedrive_mode: a human pushes the real arm. *)
Pushed ==
  /\ driver["real"] = Hand
  /\ \E place \in Place : Goes("real", place)
  /\ UNCHANGED <<driver, movePc, flagged, toolVars, disturbed>>

Controller == Pushed \/ \E r \in Robot : Advance(r) \/ ProgramEnds(r)

-----------------------------------------------------------------------------
(* A verified move, queued or blocking. *)

MoveGoes(m, before, after) ==
  movePc[m] = before /\ movePc' = [movePc EXCEPT ![m] = after]

(* The queue starts a command when the one before is over or was cancelled, *)
(* a blocking tool starts when no other tool runs.                          *)
MoveBegins(m) ==
  /\ toolPc \notin {"off", "connect upload", "connect poll"}
  /\ MoveGoes(m, "new", "sim upload")
  /\ IF m \in Queued THEN \A n \in Queued : Active(n) => n \in flagged
                     ELSE toolPc = "idle"
  /\ toolPc' = IF m \in Blocking THEN "move" ELSE toolPc
  /\ disturbed' = (disturbed \/ Running # {} \/ toolPc # "idle")
  /\ UNCHANGED <<robotVars, flagged, visited, syncGoal>>

SimUploads(m) ==
  /\ MoveGoes(m, "sim upload", "sim poll")
  /\ Upload("sim", m)
  /\ visited' = [visited EXCEPT ![m] = {arm["sim"]}]
  /\ UNCHANGED <<arm, flagged, toolVars, disturbed>>

(* Mutant: the simulator's answer is not waited for. *)
SimAnswers(m) == TRUE
(* The poll of sim.move_joint finds the simulator at the target. *)
SimReached(m) == arm["sim"] = Target[m]

SimReaches(m) ==
  /\ MoveGoes(m, "sim poll", "real upload")
  /\ SimReached(m)
  /\ UNCHANGED <<robotVars, flagged, visited, toolVars, disturbed>>

RealUploads(m) ==
  /\ MoveGoes(m, "real upload", "real poll")
  /\ Upload("real", m)
  /\ UNCHANGED <<arm, flagged, visited, toolVars, disturbed>>

MoveEnds(m) ==
  /\ movePc' = [movePc EXCEPT ![m] = "over"]
  /\ toolPc' = IF m \in Blocking THEN "idle" ELSE toolPc
  /\ UNCHANGED <<robotVars, flagged, visited, syncGoal>>

RealReaches(m) ==
  /\ movePc[m] = "real poll" /\ arm["real"] = Target[m]
  /\ MoveEnds(m)
  /\ UNCHANGED disturbed

(* Not RUNNING, no connection or not there in time, on either robot. *)
MoveRaises(m) ==
  /\ Active(m)
  /\ MoveEnds(m)
  /\ disturbed' = TRUE

MoveSteps(m) ==
  \/ MoveBegins(m) \/ SimUploads(m) \/ SimReaches(m) \/ RealUploads(m)
  \/ RealReaches(m) \/ MoveRaises(m)

-----------------------------------------------------------------------------
(* sync_sim_to_real, as a tool, in connect and after free_drive. *)

ToolGoes(before, after) == toolPc = before /\ toolPc' = after

(* connect after both robots answered, or the tool: real.get_state(). *)
SyncReads ==
  /\ toolPc \in {"off", "idle", "freed"}
  /\ toolPc' = IF toolPc = "off" THEN "connect upload" ELSE "sync upload"
  /\ syncGoal' = arm["real"]
  /\ disturbed' = (Running # {} \/ driver["real"] # Nobody)
  /\ UNCHANGED <<robotVars, moveVars>>

SyncUploads ==
  /\ ToolGoes("sync upload", "sync poll") \/ ToolGoes("connect upload", "connect poll")
  /\ Upload("sim", Sync)
  /\ UNCHANGED <<arm, moveVars, syncGoal, disturbed>>

SyncReaches ==
  /\ toolPc \in {"sync poll", "connect poll"} /\ arm["sim"] = syncGoal
  /\ toolPc' = "idle"
  /\ UNCHANGED <<robotVars, moveVars, syncGoal, disturbed>>

(* A connect that raises ends the server, which is then started again. *)
SyncRaises ==
  /\ \/ toolPc \in {"sync upload", "sync poll"} /\ toolPc' = "idle"
     \/ toolPc \in {"connect upload", "connect poll"} /\ toolPc' = "off"
  /\ disturbed' = TRUE
  /\ UNCHANGED <<robotVars, moveVars, syncGoal>>

-----------------------------------------------------------------------------
(* free_drive: the real robot only, then a sync. *)

(* Mutant: the simulator is released, not the arm. *)
SimIsReleased == "sim"
(* (self.real or self.sim).free_drive *)
RealIsReleased == "real"

FreeBegins ==
  /\ ToolGoes("idle", "free")
  /\ Upload(RealIsReleased, Hand)
  /\ disturbed' = (disturbed \/ Running # {})
  /\ UNCHANGED <<arm, moveVars, syncGoal>>

(* Mutant: free_drive returns without the sync. *)
NoResync == "idle"
(* free_drive goes on to sync_sim_to_real. *)
Resync == "freed"

(* The time is up: whether the program has ended by then is not looked at.  *)
FreeEnds ==
  /\ ToolGoes("free", Resync)
  /\ UNCHANGED <<robotVars, moveVars, syncGoal, disturbed>>

(* No state to be read after free_drive, or none to sync to.                *)
FreeRaises ==
  /\ ToolGoes("free", "idle") \/ ToolGoes("freed", "idle")
  /\ disturbed' = TRUE
  /\ UNCHANGED <<robotVars, moveVars, syncGoal>>

-----------------------------------------------------------------------------
(* stop_robot: cancel_all, then stop() on both robots, each in a try block  *)
(* of its own: upload stopj, wait a fixed time, read the state.             *)

StopBegins ==
  /\ ToolGoes("idle", "stop sim")
  /\ flagged' = flagged \union (Running \intersect Queued)
  /\ disturbed' = TRUE
  /\ UNCHANGED <<robotVars, movePc, visited, syncGoal>>

StopSim ==
  /\ \/ ToolGoes("stop sim", "sim asked") /\ Upload("sim", Stopj)
     \/ ToolGoes("stop sim", "stop real") /\ UNCHANGED driver
  /\ UNCHANGED <<arm, moveVars, syncGoal, disturbed>>

(* The simulator's state, or an exception that is kept for the end.         *)
StopSimEnds ==
  /\ ToolGoes("sim asked", "stop real")
  /\ UNCHANGED <<robotVars, moveVars, syncGoal, disturbed>>

StopReal ==
  /\ \/ ToolGoes("stop real", "real asked") /\ Upload("real", Stopj)
     \/ ToolGoes("stop real", "idle") /\ UNCHANGED driver
  /\ UNCHANGED <<arm, moveVars, syncGoal, disturbed>>

(* The answer, or the RuntimeError that collects what failed. *)
StopEnds ==
  /\ ToolGoes("real asked", "idle")
  /\ UNCHANGED <<robotVars, moveVars, syncGoal, disturbed>>

(* The robot closes the connection inside a header: the read never ends.    *)
StopHangs ==
  /\ ToolGoes("sim asked", "hung") \/ ToolGoes("real asked", "hung")
  /\ UNCHANGED <<robotVars, moveVars, syncGoal, disturbed>>

StopSteps == StopSim \/ StopSimEnds \/ StopReal \/ StopEnds \/ StopHangs
Tools == \/ SyncReads \/ SyncUploads \/ SyncReaches \/ SyncRaises
         \/ FreeBegins \/ FreeEnds \/ FreeRaises \/ StopBegins \/ StopSteps

Next == Controller \/ Tools \/ \E m \in Move : MoveSteps(m)

SafeSpec == Init /\ [][Next]_vars

(* A stop goes on as long as its reads end. *)
Spec == SafeSpec /\ WF_vars(Controller) /\ WF_vars(StopSteps)

-----------------------------------------------------------------------------
(* Type invariant. *)
MovePcs == {"new", "sim upload", "sim poll", "real upload", "real poll", "over"}
ToolPcs == {"off", "idle", "move", "connect upload", "connect poll",
            "sync upload", "sync poll", "free", "freed", "stop sim",
            "sim asked", "stop real", "real asked", "hung"}
TypeOK ==
  /\ arm \in [Robot -> Place]
  /\ driver \in [Robot -> Move \union {Nobody, Sync, Stopj, Hand}]
  /\ driver["sim"] # Hand /\ driver["real"] # Sync
  /\ movePc \in [Move -> MovePcs]
  /\ flagged \subseteq Queued
  /\ toolPc \in ToolPcs
  /\ syncGoal \in Place
  /\ visited \in [Move -> SUBSET Place]
  /\ disturbed \in BOOLEAN

(* The pre-flight gate: while the real robot runs a verified move, the      *)
(* simulator has been at that move's target during that same call.          *)
GatedBySim ==
  \A m \in Move : driver["real"] = m => Target[m] \in visited[m]

(* Between calls the simulator stands where the real robot stands, unless   *)
(* since the last sync some call raised, was stopped or overlapped another: *)
(* connect, free_drive and the replay leave no other way to drift apart.    *)
DriftHasACause ==
  /\ toolPc = "idle" /\ Running = {} /\ \A r \in Robot : driver[r] = Nobody
  /\ ~disturbed
  => arm["sim"] = arm["real"]

(* "a stop must never be gated behind another command's outcome"            *)
(* (shadow_client.py:21): a stop that begins gets to the real robot's try   *)
(* block.  The simulator's stop, which reads its state, may keep it away.   *)
StopReachesReal == toolPc = "stop sim" ~> toolPc = "stop real"
=============================================================================
