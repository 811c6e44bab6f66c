----------------------------- MODULE Ros2Client -----------------------------
(***************************************************************************)
(* ros2_ur_driver/ros2_client.py behind the command queue: what stop_robot *)
(* can and cannot cancel.  move_joint sends a FollowJointTrajectory goal,  *)
(* keeps its handle in _active_goal_handle while it waits for the result   *)
(* and clears it in a finally; stop() cancels whatever handle it finds.    *)
(* All threads share that one field, without a lock.                       *)
(*                                                                         *)
(* A thread is the fn of one queued command, one move_joint per leg, or    *)
(* one call of move_through_waypoints, whose move_waypoints is a single    *)
(* goal that is awaited in the same way; each leg is one goal.  The        *)
(* controller is outside the repository; of it we assume only that one     *)
(* goal executes at a time, that a newly accepted goal ends the one        *)
(* before, and that it may never answer.                                   *)
(***************************************************************************)
EXTENDS Naturals

CONSTANTS Thread,  (* the moves that are started, each on its thread       *)
          Legs,    (* how many goals each sends: more than one for programs *)
          NoGoal   (* None, for _active_goal_handle                        *)

ASSUME LegsAssumption == Legs \in [Thread -> Nat \ {0}]
Goal == UNION {{t} \X (1..Legs[t]) : t \in Thread}
ASSUME NoGoalAssumption == NoGoal \notin Goal

VARIABLES
  pc,          (* where a thread is in move_joint                          *)
  leg,         (* which move it makes                                      *)
  seen,        (* the status it found in the result, "none" on timeout     *)
  goal,        (* the controller's status of each goal                     *)
  asked,       (* goals whose cancellation was asked for                   *)
  handle,      (* _active_goal_handle                                      *)
  took,        (* history: for a thread that waits for its result, who has *)
               (* overwritten or cleared the handle since it put its own   *)
  queued,      (* the threads started as commands of the queue; nothing    *)
               (* but the stop can cancel the others                       *)
  stopPc,      (* where the stop_robot or set_gripper in progress is       *)
  flagged      (* commands cancelled by a stop_robot or an override        *)

threadVars == <<pc, leg, seen>>
ctrlVars   == <<goal, asked>>
fieldVars  == <<handle, took>>
vars == <<threadVars, ctrlVars, fieldVars, queued, stopPc, flagged>>

GoalOf(t) == <<t, leg[t]>>
Active(t) == pc[t] \notin {"new", "over"}
Ended == {"succeeded", "canceled", "aborted"}

Init ==
  /\ pc = [t \in Thread |-> "new"]
  /\ leg = [t \in Thread |-> 1]
  /\ seen = [t \in Thread |-> "none"]
  /\ goal = [g \in Goal |-> "none"]
  /\ asked = {}
  /\ handle = NoGoal
  /\ took = [t \in Thread |-> {}]
  /\ queued = {}
  /\ stopPc = "idle"
  /\ flagged = {}

-----------------------------------------------------------------------------
(* The controller's action server. *)

(* A goal is accepted, and ends the one that executes. *)
Accept(g) ==
  /\ goal[g] = "sent"
  /\ \E end \in {"canceled", "aborted"} :
       goal' = [h \in Goal |-> IF h = g THEN "executing"
                               ELSE IF goal[h] = "executing" THEN end ELSE goal[h]]
  /\ UNCHANGED <<threadVars, asked, fieldVars, stopPc, flagged, queued>>

GoalGoes(g, from, to) ==
  /\ goal[g] = from
  /\ goal' = [goal EXCEPT ![g] = to]
  /\ UNCHANGED <<threadVars, asked, fieldVars, stopPc, flagged, queued>>

Controller ==
  \E g \in Goal :
    \/ Accept(g) \/ GoalGoes(g, "sent", "rejected")
    \/ GoalGoes(g, "executing", "succeeded") \/ GoalGoes(g, "executing", "aborted")
    \/ g \in asked /\ GoalGoes(g, "executing", "canceled")

-----------------------------------------------------------------------------
(* move_joint on thread t. *)

ThreadGoes(t, from, to) == pc[t] = from /\ pc' = [pc EXCEPT ![t] = to]

(* Mutant: the running command is not flagged. *)
FlagNone == flagged
(* cancel_all and override flag the command that runs. *)
FlagRunning == flagged \union {t \in queued : Active(t)}

(* Mutant: the queue goes on when the goal has ended, not the fn.           *)
GoalsAreOver == \A u \in queued : Active(u) => u \in flagged \/ goal[GoalOf(u)] \in Ended
(* The commands before are over or cancelled.                               *)
QueueIsFree == \A u \in queued : Active(u) => u \in flagged

(* The worker starts a command, also beside a set_gripper; a stop_robot in  *)
(* progress has emptied the list.                                           *)
Begins(t) ==
  /\ ThreadGoes(t, "new", "mode")
  /\ stopPc \in {"idle", "grip"}
  /\ QueueIsFree
  /\ queued' = queued \union {t}
  /\ UNCHANGED <<leg, seen, ctrlVars, fieldVars, stopPc, flagged>>

(* submit with mode "override": what runs is cancelled, and the new command *)
(* is the next that the worker starts.                                      *)
Overrides ==
  /\ stopPc = "idle"
  /\ flagged' = FlagRunning
  /\ UNCHANGED <<threadVars, ctrlVars, fieldVars, queued, stopPc>>

(* move_through_waypoints, beside which the other tools go on, or the      *)
(* blocking move_joint of a tool, beside which none does.                  *)
ToolCalls(t) ==
  /\ Legs[t] = 1
  /\ ThreadGoes(t, "new", "mode")
  /\ stopPc = "idle"
  /\ UNCHANGED <<leg, seen, ctrlVars, fieldVars, stopPc, flagged, queued>>

(* get_state says RUNNING; otherwise RuntimeError. *)
ChecksMode(t) ==
  /\ ThreadGoes(t, "mode", "send") \/ ThreadGoes(t, "mode", "over")
  /\ UNCHANGED <<leg, seen, ctrlVars, fieldVars, stopPc, flagged, queued>>

(* send_goal_async *)
Sends(t) ==
  /\ ThreadGoes(t, "send", "await")
  /\ goal' = [goal EXCEPT ![GoalOf(t)] = "sent"]
  /\ UNCHANGED <<leg, seen, asked, fieldVars, stopPc, flagged, queued>>

SeesAccepted(t) ==
  /\ ThreadGoes(t, "await", "track")
  /\ goal[GoalOf(t)] \in Ended \union {"executing"}
  /\ UNCHANGED <<leg, seen, ctrlVars, fieldVars, stopPc, flagged, queued>>

(* Mutant: the answer to send_goal is waited for without a deadline. *)
OnlyIfRejected(t) == goal[GoalOf(t)] = "rejected"
(* Rejected, or no answer before the deadline: RuntimeError either way.     *)
MayGiveUp(t) == TRUE

GivesUp(t) ==
  /\ ThreadGoes(t, "await", "over")
  /\ MayGiveUp(t)
  /\ UNCHANGED <<leg, seen, ctrlVars, fieldVars, stopPc, flagged, queued>>

(* The threads that wait for a result learn who touched the field.          *)
Touches(t) ==
  took' = [u \in Thread |-> IF u # t /\ pc[u] = "result" THEN took[u] \union {t} ELSE {}]

Tracks(t) ==
  /\ ThreadGoes(t, "track", "result")
  /\ handle' = GoalOf(t)
  /\ Touches(t)
  /\ UNCHANGED <<leg, seen, ctrlVars, stopPc, flagged, queued>>

(* The wait for the result is over: the goal ended, or the deadline passed. *)
SeesResult(t) ==
  /\ ThreadGoes(t, "result", "clear")
  /\ \/ goal[GoalOf(t)] \in Ended /\ seen' = [seen EXCEPT ![t] = goal[GoalOf(t)]]
     \/ seen' = [seen EXCEPT ![t] = "none"]
  /\ UNCHANGED <<leg, ctrlVars, fieldVars, stopPc, flagged, queued>>

(* Mutant: the handle is cleared only when there is a result. *)
ClearIfResult(t) == IF seen[t] = "none" THEN handle ELSE NoGoal
(* finally: the field is cleared, whatever is in it by now.                 *)
Clear(t) == NoGoal

LegsLeft(t) == leg[t] < Legs[t]

(* A canceled goal returns like one that succeeded, and the program's loop  *)
(* goes on to its next leg; a timeout, an abort or a joint off target       *)
(* raises.  The goal of a call that timed out is left alone.                *)
Clears(t) ==
  /\ pc[t] = "clear"
  /\ handle' = Clear(t)
  /\ Touches(t)
  /\ \/ /\ seen[t] \in {"succeeded", "canceled"} /\ LegsLeft(t)
        /\ leg' = [leg EXCEPT ![t] = @ + 1]
        /\ pc' = [pc EXCEPT ![t] = "mode"]
     \/ /\ seen[t] # "canceled" \/ ~LegsLeft(t)
        /\ pc' = [pc EXCEPT ![t] = "over"]
        /\ UNCHANGED leg
  /\ seen' = [seen EXCEPT ![t] = "none"]
  /\ UNCHANGED <<ctrlVars, stopPc, flagged, queued>>

MoveJoint(t) == \/ ChecksMode(t) \/ Sends(t) \/ SeesAccepted(t) \/ GivesUp(t)
                \/ Tracks(t) \/ SeesResult(t) \/ Clears(t)

-----------------------------------------------------------------------------
(* stop_robot. *)

StopGoes(from, to) == stopPc = from /\ stopPc' = to

StopBegins ==
  /\ StopGoes("idle", "read")
  /\ flagged' = FlagRunning
  /\ UNCHANGED <<threadVars, ctrlVars, fieldVars, queued>>

(* handle = self._active_goal_handle; cancel_goal_async if there is one.    *)
StopCancels ==
  /\ StopGoes("read", "wait")
  /\ asked' = asked \union ({handle} \ {NoGoal})
  /\ UNCHANGED <<threadVars, goal, fieldVars, flagged, queued>>

(* Two seconds are enough, with or without an answer.                       *)
WaitIsOver == TRUE

StopReturns ==
  /\ StopGoes("wait", "idle")
  /\ WaitIsOver
  /\ UNCHANGED <<threadVars, ctrlVars, fieldVars, flagged, queued>>

(* set_gripper: a service of the driver, which has five seconds to appear   *)
(* and five to answer; the goal that executes is not touched.               *)
GripperCalls ==
  /\ StopGoes("idle", "grip")
  /\ UNCHANGED <<threadVars, ctrlVars, fieldVars, flagged, queued>>
GripperReturns ==
  /\ StopGoes("grip", "idle")
  /\ UNCHANGED <<threadVars, ctrlVars, fieldVars, flagged, queued>>

ToolSteps == StopCancels \/ StopReturns \/ GripperReturns

Next ==
  \/ Controller
  \/ \E t \in Thread : Begins(t) \/ ToolCalls(t) \/ MoveJoint(t)
  \/ Overrides \/ StopBegins \/ GripperCalls \/ ToolSteps

SafeSpec == Init /\ [][Next]_vars

(* Every wait of the client has a deadline; the controller owes nothing.    *)
Spec ==
  /\ SafeSpec
  /\ WF_vars(ToolSteps)
  /\ \A t \in Thread : WF_vars(MoveJoint(t))

-----------------------------------------------------------------------------
(* Type invariant. *)
TypeOK ==
  /\ pc \in [Thread -> {"new", "mode", "send", "await", "track", "result",
                        "clear", "over"}]
  /\ leg \in [Thread -> Nat] /\ \A t \in Thread : GoalOf(t) \in Goal
  /\ seen \in [Thread -> Ended \union {"none"}]
  /\ goal \in [Goal -> Ended \union {"none", "sent", "rejected", "executing"}]
  /\ asked \subseteq Goal
  /\ handle \in Goal \union {NoGoal}
  /\ took \in [Thread -> SUBSET Thread]
  /\ stopPc \in {"idle", "read", "wait", "grip"}
  /\ flagged \subseteq queued /\ queued \subseteq Thread

(* The handle is never stale: it names the goal of a call that has not left *)
(* its wait, whichever thread wrote or cleared the field last.              *)
HandleIsTracked ==
  handle # NoGoal =>
    \E t \in Thread : handle = GoalOf(t) /\ pc[t] \in {"result", "clear"}

(* While a command that nobody cancelled waits for its result, its handle   *)
(* is overwritten or cleared only by threads of commands that an override   *)
(* or a stop cancelled and by tool calls; as long as none of them has been  *)
(* there, stop_robot finds the goal of the motion in progress.              *)
HandleLostToFlagged ==
  \A t \in queued \ flagged : pc[t] = "result" =>
    /\ took[t] \subseteq flagged \union (Thread \ queued)
    /\ took[t] = {} => handle = GoalOf(t)

(* stop_robot cancels the goals of commands that the queue has cancelled    *)
(* too, never of one that the queue still counts as running.                *)
StopAgreesWithQueue == \A g \in asked : g[1] \in queued => g[1] \in flagged

(* Every call ends, the moves' and so their threads, stop_robot and         *)
(* set_gripper, even if the controller never answers (_wait, 550-556).      *)
CallsEnd ==
  /\ \A t \in Thread : pc[t] = "mode" ~> pc[t] = "over"
  /\ stopPc # "idle" ~> stopPc = "idle"
=============================================================================
