--------------------------- MODULE MotionPlanner ---------------------------
(***************************************************************************)
(* case1/motion_planner.py and the four tools of server.py that use it:    *)
(* obstacles are added to and removed from the planning scene of MoveIt's  *)
(* move_group, and check_path asks it about a goal.  move_group is         *)
(* external: it serves the requests about the scene in the order they were *)
(* sent, those of callers that have given up too; it answers or it does    *)
(* not; and it may fail to find a path that is there.                      *)
(*                                                                         *)
(* Space is a line: an obstacle or the arm is at one of its places.  The   *)
(* tools run one after the other, on the server's tool thread.             *)
(***************************************************************************)
EXTENDS Integers, Sequences

CONSTANTS Obstacle,    (* the ids in use                                   *)
          Location,    (* the places, natural numbers                      *)
          MaxRequests  (* bound: scene requests not served yet             *)

ASSUME PlannerAssumption == Location \subseteq Nat /\ MaxRequests \in Nat

Absent == -1   (* no such obstacle *)

VARIABLES
  connected,  (* _planner is not None                                      *)
  joints,     (* _joint_state, the last message                            *)
  armAt,      (* where the arm is                                          *)
  world,      (* the planning scene: where each obstacle is                *)
  requests,   (* ApplyPlanningScene requests move_group has not served     *)
  planPc,     (* where the tool is                                         *)
  asked,      (* its obstacle and place, or its goal                       *)
  result,     (* how its request was served                                *)
  known,      (* history: where each obstacle is, by the last answer about  *)
              (* it that no later call has withdrawn                       *)
  checked     (* history: the last feasible answer, from and to            *)

moveGroup == <<world, requests>>
robotSide == <<connected, joints, armAt>>
call == <<planPc, asked, result>>
plannerVars == <<robotSide, moveGroup, call, known, checked>>

NothingAsked == [id |-> "none", place |-> Absent]
NotChecked == [from |-> Absent, to |-> Absent]

PlannerInit ==
  /\ connected = FALSE /\ joints = Absent /\ armAt \in Location
  /\ world = [o \in Obstacle |-> Absent] /\ requests = <<>>
  /\ planPc = "idle" /\ asked = NothingAsked /\ result = "none"
  /\ known = [o \in Obstacle |-> Absent] /\ checked = NotChecked

(* Commands move the arm, and /joint_states tells, once it is subscribed.   *)
ArmMoves ==
  /\ armAt' \in Location
  /\ UNCHANGED <<connected, joints, moveGroup, call, known, checked>>
OnJointState ==
  /\ connected /\ joints' = armAt
  /\ UNCHANGED <<connected, armAt, moveGroup, call, known, checked>>
(* _get_planner: connect returns once the services and a joint state are    *)
(* there; when it raises, nothing is kept and the next call tries again.    *)
Connects ==
  /\ ~connected /\ planPc = "idle"
  /\ connected' = TRUE /\ joints' = armAt
  /\ UNCHANGED <<armAt, moveGroup, call, known, checked>>
(* disconnect, at the end of the server; another one starts. *)
Disconnects ==
  /\ connected /\ planPc = "idle"
  /\ connected' = FALSE /\ joints' = Absent
  /\ known' = [o \in Obstacle |-> Absent] /\ checked' = NotChecked
  /\ UNCHANGED <<armAt, moveGroup, call>>

PlanGoes(from, to) ==
  planPc = from /\ planPc' = to /\ UNCHANGED <<robotSide, moveGroup>>
(* The tool answers or raises. *)
Ends ==
  /\ planPc' = "idle" /\ asked' = NothingAsked /\ result' = "none"
  /\ UNCHANGED <<robotSide, moveGroup>>

-----------------------------------------------------------------------------
(* add_obstacle and remove_obstacle: one diff of the scene, then a listing. *)

Apply(o, p) ==
  /\ connected /\ planPc = "idle" /\ Len(requests) < MaxRequests
  /\ planPc' = "apply" /\ asked' = [id |-> o, place |-> p]
  /\ requests' = Append(requests, [id |-> o, place |-> p, live |-> TRUE])
  /\ known' = [known EXCEPT ![o] = Absent]
  /\ UNCHANGED <<robotSide, world, result, checked>>
AddObstacle == \E o \in Obstacle, p \in Location : Apply(o, p)
RemoveObstacle == \E o \in Obstacle : Apply(o, Absent)

(* move_group serves the oldest request; a diff may be rejected. *)
MoveGroupServes ==
  /\ requests # <<>> /\ requests' = Tail(requests)
  /\ LET r == Head(requests) IN
       \E ok \in BOOLEAN :
         /\ world' = IF ok THEN [world EXCEPT ![r.id] = r.place] ELSE world
         /\ result' = IF ~r.live THEN result ELSE IF ok THEN "applied" ELSE "rejected"
  /\ UNCHANGED <<robotSide, planPc, asked, known, checked>>

(* Mutant: _wait returns at its deadline instead of raising. *)
ServedOrTimeout == TRUE
(* future.done(), and result.success in _apply_scene. *)
Served == result = "applied"
(* The listing is answered: the tool returns "added" or "removed".          *)
ListsObstacles ==
  /\ planPc = "apply" /\ Served
  /\ known' = [known EXCEPT ![asked.id] = asked.place]
  /\ Ends /\ UNCHANGED checked
(* Rejected: RuntimeError.  Late, or the listing is: TimeoutError, and the  *)
(* request may still be served.                                             *)
ApplyRaises ==
  /\ planPc = "apply"
  /\ planPc' = "idle" /\ asked' = NothingAsked /\ result' = "none"
  /\ requests' = [i \in 1..Len(requests) |-> [requests[i] EXCEPT !.live = FALSE]]
  /\ UNCHANGED <<robotSide, world, known, checked>>

-----------------------------------------------------------------------------
(* check_path: is the goal itself free, and is there a path from here?      *)

Taken(p) == \E o \in Obstacle : world[o] = p
Span(a, b) == IF a < b THEN a..b ELSE b..a

CheckPath(goal) ==
  /\ connected /\ planPc = "idle"
  /\ planPc' = "validity" /\ asked' = [id |-> "none", place |-> goal]
  /\ UNCHANGED <<robotSide, moveGroup, result, known, checked>>
GoalIsClear ==
  /\ ~Taken(asked.place)
  /\ PlanGoes("validity", "plan")
  /\ UNCHANGED <<asked, result, known, checked>>
GoalCollides ==
  /\ planPc = "validity" /\ Taken(asked.place)
  /\ Ends /\ UNCHANGED <<known, checked>>
(* The plan starts from the last joint state. *)
PathFound ==
  /\ planPc = "plan" /\ \A p \in Span(joints, asked.place) : ~Taken(p)
  /\ checked' = [from |-> joints, to |-> asked.place]
  /\ Ends /\ UNCHANGED known
(* No path, or either service does not answer in time. *)
CheckFails ==
  /\ planPc \in {"validity", "plan"}
  /\ Ends /\ UNCHANGED <<known, checked>>

PlannerNext == \/ ArmMoves \/ OnJointState \/ Connects \/ Disconnects
               \/ AddObstacle \/ RemoveObstacle
               \/ MoveGroupServes \/ ListsObstacles \/ ApplyRaises
               \/ \E p \in Location : CheckPath(p)
               \/ GoalIsClear \/ GoalCollides \/ PathFound \/ CheckFails

-----------------------------------------------------------------------------
(* Once add_obstacle has answered "added", check_path never finds a way     *)
(* through that obstacle until another call about it, although requests     *)
(* whose callers gave up are still served later: a removal that timed out   *)
(* cannot undo an addition that was answered (motion_planner.py:167-176).   *)
FeasibleAvoidsObstacles ==
  [][checked' # checked /\ checked' # NotChecked =>
       \A o \in Obstacle : known[o] \notin Span(checked'.from, checked'.to)]_plannerVars
=============================================================================
