---------------------------- MODULE MotionServer ----------------------------
(***************************************************************************)
(* case1/server.py on the socket backend: the tools that move or stop the  *)
(* arm, the CommandQueue behind the non-blocking ones, URClient            *)
(* (case1/ur_client.py) as the fn of every command, and the controller.    *)
(*                                                                         *)
(* Tool calls of one chat turn run one at a time, so the tools are one     *)
(* process.  The queue's worker, every throwaway thread and the worker     *)
(* thread of move_through_waypoints run beside it, and each of them talks  *)
(* to the controller on its own: whatever is uploaded last preempts what   *)
(* the controller was running.                                             *)
(***************************************************************************)
EXTENDS CommandQueue

CONSTANTS Pose,      (* the poses that occur as targets                    *)
          Home,      (* where the arm is when the server starts            *)
          Between,   (* the arm is at none of them                         *)
          Legs,      (* the targets of a request in order: one for         *)
                     (* move_robot_queued, several for program_start       *)
          ToolMoves, (* those of the blocking move tools, likewise: several *)
                     (* for move_robot_linear_sequence                     *)
          Paths,     (* the waypoints of move_through_waypoints            *)
          Tool,      (* owner of what a blocking move tool uploads         *)
          Path,      (* owner of what move_through_waypoints uploads       *)
          Hand,      (* owner of the free-drive program                    *)
          Grip,      (* owner of the program that sets the gripper         *)
          Holds,     (* the owners of the last two that occur              *)
          Stopj      (* owner of what URClient.stop uploads                *)

Route == Seq(Pose) \ {<<>>}
ASSUME LegsAssumption ==
  /\ Home \in Pose /\ Between \notin Pose
  /\ Legs \in [Cmd -> Route] /\ ToolMoves \subseteq Route /\ Paths \subseteq Route
ASSUME OwnerAssumption ==
  /\ {Tool, Path, Hand, Grip, Stopj} \intersect (Cmd \union {NoCmd}) = {}
  /\ Tool \notin {Path, Hand, Grip, Stopj} /\ Path \notin {Hand, Grip, Stopj}
  /\ Hand \notin {Grip, Stopj} /\ Grip # Stopj
  /\ Holds \subseteq {Hand, Grip}

VARIABLES
  driver,   (* whose program the controller runs, or NoCmd                 *)
  route,    (* where that program still takes the arm                      *)
  arm,      (* where the arm is                                            *)
  fnPc,     (* where a command's move_joint is                             *)
  leg,      (* which leg it is on                                          *)
  toolPc,   (* where the tool call in progress is                          *)
  toolLegs, (* the targets a blocking move tool has left                   *)
  holding,  (* the free_drive or set_gripper in progress, or NoCmd         *)
  path,     (* the waypoints of the move_through_waypoints in progress     *)
  pathPc,   (* where it is, on its worker thread                           *)
  stopIds,  (* the cancelled_command_ids of the stop_robot in progress     *)
  stopped,  (* history: the ids returned by finished stop_robot calls      *)
  lapsed    (* history: the blocking move uploaded last has raised         *)

ctrlVars == <<driver, route, arm>>
fnVars   == <<fnPc, leg>>
pathVars == <<path, pathPc>>
toolVars == <<toolPc, toolLegs, holding, stopIds, stopped, lapsed>>
motionVars == <<ctrlVars, fnVars, toolVars, pathVars>>
serverVars == <<vars, motionVars>>

ServerInit ==
  /\ Init
  /\ driver = NoCmd /\ route = <<>> /\ arm = Home
  /\ fnPc = [c \in Cmd |-> "mode"]
  /\ leg = [c \in Cmd |-> 1]
  /\ toolPc = "idle" /\ toolLegs = <<>> /\ holding = NoCmd
  /\ path = <<>> /\ pathPc = "idle"
  /\ stopIds = {} /\ stopped = {} /\ lapsed = FALSE

-----------------------------------------------------------------------------
(* The controller.  A program that arrives replaces the one that runs.     *)

Upload(who, via) == driver' = who /\ route' = via /\ UNCHANGED arm

Depart ==
  /\ route # <<>> /\ arm \notin {Head(route), Between}
  /\ arm' = Between
  /\ UNCHANGED <<vars, driver, route, fnVars, toolVars, pathVars>>

(* The next target of the program: the end of a movej, or a waypoint that   *)
(* a blended path comes close to.                                           *)
Arrive ==
  /\ route # <<>> /\ arm \in {Head(route), Between}
  /\ arm' = Head(route) /\ route' = Tail(route)
  /\ driver' = IF Tail(route) = <<>> THEN NoCmd ELSE driver
  /\ UNCHANGED <<vars, fnVars, toolVars, pathVars>>

(* Somebody guides the arm. *)
Pushed ==
  /\ driver = Hand
  /\ arm' \in Pose \union {Between}
  /\ UNCHANGED <<vars, driver, route, fnVars, toolVars, pathVars>>

(* A program without a target ends: a stopj, the signal, the free-drive.    *)
Halt ==
  /\ driver \in {Stopj, Hand, Grip}
  /\ driver' = NoCmd
  /\ UNCHANGED <<vars, route, arm, fnVars, toolVars, pathVars>>

Controller == Depart \/ Arrive \/ Pushed \/ Halt

-----------------------------------------------------------------------------
(* The fn of command c on its throwaway thread: move_joint for every leg.  *)

(* Mutant: the tolerance is wide enough for an arm still on its way. *)
Near(goal) == arm \in {goal, Between}
(* The poll compares the joints with the target's and looks at nothing else.*)
AtTarget(goal) == arm = goal

InFn(c, at) == callPc[c] = "fn" /\ fnPc[c] = at

(* get_state says RUNNING. *)
FnChecksMode(c) ==
  /\ InFn(c, "mode")
  /\ fnPc' = [fnPc EXCEPT ![c] = "upload"]
  /\ UNCHANGED <<vars, ctrlVars, leg, toolVars, pathVars>>

(* The movej is sent.  Nothing here looks at cmd.status or stop_requested. *)
FnUploads(c) ==
  /\ InFn(c, "upload")
  /\ Upload(c, <<Legs[c][leg[c]]>>)
  /\ fnPc' = [fnPc EXCEPT ![c] = "poll"]
  /\ UNCHANGED <<vars, leg, toolVars, pathVars>>

(* Mutant: the loop over the waypoints runs once too often. *)
OneLegMore(c) == leg[c] <= Len(Legs[c])
LegsLeft(c) == leg[c] < Len(Legs[c])

(* fn is left, and with it what move_joint knew. *)
MoveOver(c, how) ==
  /\ FnEnds(c, how)
  /\ fnPc' = [fnPc EXCEPT ![c] = "mode"]
  /\ UNCHANGED leg

(* A poll finds the arm at the target, whoever brought it there.           *)
FnReaches(c) ==
  /\ InFn(c, "poll") /\ AtTarget(Legs[c][leg[c]])
  /\ IF LegsLeft(c)
       THEN /\ leg' = [leg EXCEPT ![c] = @ + 1]
            /\ fnPc' = [fnPc EXCEPT ![c] = "mode"]
            /\ UNCHANGED vars
       ELSE MoveOver(c, "returned")
  /\ UNCHANGED <<ctrlVars, toolVars, pathVars>>

(* RuntimeError (not RUNNING), OSError (no connection) or, from the poll,  *)
(* TimeoutError.  What was uploaded keeps running.                         *)
FnRaises(c) ==
  /\ MoveOver(c, "raised")
  /\ UNCHANGED <<ctrlVars, toolVars, pathVars>>

Fn(c) == FnChecksMode(c) \/ FnUploads(c) \/ FnReaches(c) \/ FnRaises(c)

-----------------------------------------------------------------------------
(* The tools.                                                              *)

(* The submit of a request, in any mode. *)
Submits(c) ==
  /\ toolPc = "idle"
  /\ Refuse(c) \/ Override(c) \/ \E mode \in {"reject", "queue"} : Enqueue(c, mode)
  /\ UNCHANGED motionVars

(* A single move and a program: read the state, submit and return.          *)
MoveRobotQueued == \E c \in Cmd : Len(Legs[c]) = 1 /\ Submits(c)
ProgramStart    == \E c \in Cmd : Len(Legs[c]) > 1 /\ Submits(c)

ToolGoes(from, to) == toolPc = from /\ toolPc' = to

(* Mutant: stop_robot flags the running command and leaves the list alone. *)
StopCancelsCurrent ==
  /\ ReportCancelled
  /\ UNCHANGED <<pending, current, wake, workerPc, status, callVars, answer,
                 ticket, tickets>>
  /\ stopIds' = Queued \union ({current} \ {NoCmd})
(* stop_robot, first: cancelled_ids = _queue.cancel_all() *)
StopCancels == CancelAll /\ stopIds' = Queued \union ({current} \ {NoCmd})

StopBegins ==
  /\ ToolGoes("idle", "cancelled")
  /\ StopCancels
  /\ UNCHANGED <<ctrlVars, fnVars, toolLegs, holding, stopped, lapsed, pathVars>>

(* stop_robot, second: robot.stop() uploads a stopj, in any robot mode.    *)
StopUploads ==
  /\ ToolGoes("cancelled", "stopping")
  /\ Upload(Stopj, <<>>)
  /\ UNCHANGED <<vars, fnVars, toolLegs, holding, stopIds, stopped, lapsed, pathVars>>

(* The controller cannot be reached, for the stopj or for the state that is *)
(* reported 0.3 s after it: the queue stays cancelled, the ids are not      *)
(* returned.                                                                *)
StopFails ==
  /\ toolPc \in {"cancelled", "stopping"} /\ toolPc' = "idle"
  /\ stopIds' = {}
  /\ UNCHANGED <<vars, ctrlVars, fnVars, toolLegs, holding, stopped, lapsed, pathVars>>

(* After 0.3 s, whatever the controller made of the stopj, the state is     *)
(* read and the ids are returned.                                           *)
StopReturns ==
  /\ ToolGoes("stopping", "idle")
  /\ stopped' = stopped \union stopIds
  /\ stopIds' = {}
  /\ UNCHANGED <<vars, ctrlVars, fnVars, toolLegs, holding, lapsed, pathVars>>

(* The blocking move tools (move_robot_to_position, ..._safe, ..._relative, *)
(* ..._to_waypoint, move_robot_linear, ..._linear_relative and              *)
(* ..._linear_sequence): the same move, poll and errors, on the tools' own  *)
(* thread and past the queue.                                               *)
MoveBegins ==
  /\ ToolGoes("idle", "upload")
  /\ toolLegs' \in ToolMoves
  /\ UNCHANGED <<vars, ctrlVars, fnVars, holding, stopIds, stopped, lapsed, pathVars>>

MoveUploads ==
  /\ ToolGoes("upload", "poll")
  /\ Upload(Tool, <<Head(toolLegs)>>)
  /\ lapsed' = FALSE
  /\ UNCHANGED <<vars, fnVars, toolLegs, holding, stopIds, stopped, pathVars>>

MoveReaches ==
  /\ ToolGoes("poll", IF Len(toolLegs) > 1 THEN "upload" ELSE "idle")
  /\ AtTarget(Head(toolLegs))
  /\ toolLegs' = Tail(toolLegs)
  /\ UNCHANGED <<vars, ctrlVars, fnVars, holding, stopIds, stopped, lapsed, pathVars>>

(* Not RUNNING, no connection, or not there within the timeout.            *)
MoveRaises ==
  /\ toolPc \in {"upload", "poll"} /\ toolPc' = "idle"
  /\ toolLegs' = <<>>
  /\ lapsed' = TRUE
  /\ UNCHANGED <<vars, ctrlVars, fnVars, holding, stopIds, stopped, pathVars>>

(* free_drive and set_gripper: an upload, and a sleep.                     *)
HoldBegins ==
  /\ ToolGoes("idle", "ready")
  /\ holding' \in Holds
  /\ UNCHANGED <<vars, ctrlVars, fnVars, toolLegs, stopIds, stopped, lapsed, pathVars>>

HoldUploads ==
  /\ ToolGoes("ready", "held")
  /\ Upload(holding, <<>>)
  /\ UNCHANGED <<vars, fnVars, toolLegs, holding, stopIds, stopped, lapsed, pathVars>>

(* Not RUNNING, no connection, or the sleep is over: nobody looks whether   *)
(* the program still runs, or was preempted.                                *)
HoldEnds ==
  /\ toolPc \in {"ready", "held"} /\ toolPc' = "idle"
  /\ holding' = NoCmd
  /\ UNCHANGED <<vars, ctrlVars, fnVars, toolLegs, stopIds, stopped, lapsed, pathVars>>

(* The controller closes the connection inside an RTDE header: _rtde_recv   *)
(* reads nothing for ever, and the tool never returns.                      *)
ToolHangs ==
  /\ toolPc \notin {"cancelled", "hung"} /\ toolPc' = "hung"
  /\ UNCHANGED <<vars, ctrlVars, fnVars, toolLegs, holding, stopIds, stopped, lapsed, pathVars>>

(* move_through_waypoints runs move_waypoints on a worker thread, so that   *)
(* other tool calls go on beside it.  The controller gets one program for   *)
(* the whole path; the poll looks at its last waypoint only.                *)
PathBegins ==
  /\ toolPc = "idle" /\ pathPc = "idle" /\ pathPc' = "upload"
  /\ path' \in Paths
  /\ UNCHANGED <<vars, ctrlVars, fnVars, toolVars>>

PathUploads ==
  /\ pathPc = "upload" /\ pathPc' = "poll"
  /\ Upload(Path, path)
  /\ UNCHANGED <<vars, fnVars, toolVars, path>>

(* At the last waypoint, and not before the shortest time the path can      *)
(* take; the controller may be slower than that.                            *)
PathReaches ==
  /\ pathPc = "poll" /\ pathPc' = "idle"
  /\ AtTarget(path[Len(path)])
  /\ path' = <<>>
  /\ UNCHANGED <<vars, ctrlVars, fnVars, toolVars>>

(* The same errors. *)
PathRaises ==
  /\ pathPc # "idle" /\ pathPc' = "idle"
  /\ path' = <<>>
  /\ UNCHANGED <<vars, ctrlVars, fnVars, toolVars>>

StopTool == StopUploads \/ StopFails \/ StopReturns
MoveTool == MoveBegins \/ MoveUploads \/ MoveReaches \/ MoveRaises
HoldTool == HoldBegins \/ HoldUploads \/ HoldEnds
PathTool == PathBegins \/ PathUploads \/ PathReaches \/ PathRaises
Tools == \/ MoveRobotQueued \/ ProgramStart \/ StopBegins \/ StopTool
         \/ MoveTool \/ HoldTool \/ ToolHangs \/ PathTool

ServerNext ==
  \/ Controller
  \/ Tools
  \/ Worker /\ UNCHANGED motionVars
  \/ \E c \in Cmd : AfterFn(c) /\ UNCHANGED motionVars
  \/ \E c \in Cmd : Fn(c)

ServerSafeSpec == ServerInit /\ [][ServerNext]_serverVars

-----------------------------------------------------------------------------
(* Type invariant, of the server's own variables and with the queue's.      *)
MotionTypeOK ==
  /\ driver \in Cmd \union {NoCmd, Tool, Path, Stopj} \union Holds
  /\ route \in Seq(Pose) /\ arm \in Pose \union {Between}
  /\ fnPc \in [Cmd -> {"mode", "upload", "poll"}]
  /\ leg \in [Cmd -> Nat] /\ \A c \in Cmd : leg[c] \in 1..Len(Legs[c])
  /\ toolPc \in {"idle", "cancelled", "stopping", "upload", "poll", "ready", "held", "hung"}
  /\ toolLegs \in Seq(Pose) /\ holding \in Holds \union {NoCmd}
  /\ path \in Paths \union {<<>>} /\ pathPc \in {"idle", "upload", "poll"}
  /\ stopIds \subseteq Cmd /\ stopped \subseteq Cmd
  /\ lapsed \in BOOLEAN
ServerTypeOK == TypeOK /\ MotionTypeOK

(* Two commands of the queue collide on the controller only if one of them  *)
(* was reported cancelled: the worker never lets an uncancelled command     *)
(* preempt another uncancelled one whose fn still runs.                     *)
QueuedMovesDoNotCollide ==
  [][\A c, d \in Cmd :
       driver = c /\ callPc[c] = "fn" /\ driver' = d /\ c # d =>
         c \in flagged \/ d \in flagged]_serverVars

(* Of the commands a finished stop_robot reported cancelled, only one that  *)
(* was current at the time can still drive the arm; those that waited       *)
(* cannot.                                                                  *)
StopLimitsDamage == \A c \in stopped : driver = c => c \in flagged

(* Where the controller still takes the arm away from where it is.          *)
Bound == route # <<>> /\ arm # Head(route)

(* Motion that nobody watches was reported as a failure: a program of a     *)
(* queued command or of a blocking move that still takes the arm somewhere  *)
(* is polled for by the call that uploaded it, or that call has raised      *)
(* (TimeoutError, ur_client.py:176) or hangs.  No call that said "done", and *)
(* no leg of a program that was taken for over, leaves the arm moving,      *)
(* although a poll cannot tell who brought the arm to its target, and what  *)
(* was uploaded may meanwhile have been preempted by anyone.                *)
UnwatchedMotionFailed ==
  Bound =>
    /\ \A c \in Cmd : driver = c => InFn(c, "poll") \/ outcome[c] = "raised"
    /\ driver = Tool => toolPc \in {"poll", "hung"} \/ lapsed

(* server.py:1581 "so a stop_robot() call genuinely interrupts a move that  *)
(* was started with move_robot_queued": once stop_robot has returned, no    *)
(* command it reported cancelled drives the arm.                            *)
StopHolds == \A c \in stopped : driver # c
=============================================================================
