---------------------------- MODULE MCWorldView ----------------------------
(* What the server sees the world through: three views, the ROS2 context of *)
(* its nodes, and the hands for which the arm is stopped.  They share       *)
(* nothing, so a behaviour exercises one of them.  The arm starts at 0.     *)
EXTENDS EnvironmentShadow, ObjectApproach, MotionPlanner, Ros2Context, Perception

VARIABLE part

worldVars == <<part, shadowVars, approachVars, plannerVars, contextVars, vars>>

WorldInit ==
  /\ part \in {"shadow", "approach", "planner", "context", "hands"}
  /\ ShadowInit /\ ApproachInit /\ PlannerInit /\ ContextInit /\ Init
  /\ path = <<0>> /\ armAt = 0
  /\ part # "hands" => ~hand /\ since = 0

HandsStep(action) ==
  /\ part = "hands" /\ action
  /\ UNCHANGED <<part, shadowVars, approachVars, plannerVars, contextVars>>

WorldNext ==
  \/ /\ part = "shadow" /\ ShadowNext
     /\ UNCHANGED <<part, approachVars, plannerVars, contextVars, vars>>
  \/ /\ part = "approach" /\ ApproachNext
     /\ UNCHANGED <<part, shadowVars, plannerVars, contextVars, vars>>
  \/ /\ part = "planner" /\ PlannerNext
     /\ UNCHANGED <<part, shadowVars, approachVars, contextVars, vars>>
  \/ /\ part = "context" /\ ContextNext
     /\ UNCHANGED <<part, shadowVars, approachVars, plannerVars, vars>>
  \/ HandsStep(Next)

(* The fairness of Perception.Spec; the other parts need none. *)
WorldSpec ==
  /\ WorldInit /\ [][WorldNext]_worldVars
  /\ WF_worldVars(HandsStep(Tick)) /\ WF_worldVars(HandsStep(SafetyNode))
  /\ \A p \in Publisher : WF_worldVars(HandsStep(Publishes(p)))
=============================================================================
