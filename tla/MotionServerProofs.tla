------------------------- MODULE MotionServerProofs -------------------------
(***************************************************************************)
(* The safety properties of MotionServer, for any requests, routes and     *)
(* tool moves.  The server uses the queue as its specification allows      *)
(* (QueueStep), so what CommandQueueProofs proves of the queue holds of the *)
(* server; on top of it ToolInv ties the tools to what they carry, DriveInv *)
(* the controller's program and the reported ids to the queue's history,   *)
(* and WatchInv the route of that program to the call that uploaded it.     *)
(***************************************************************************)
EXTENDS MotionServer, CommandQueueProofs

-----------------------------------------------------------------------------
(* The server and the queue                                                *)

(* Every step of the server is a step of the queue, or none. *)
LEMMA QueueStep == [ServerNext]_serverVars => [Next]_vars
<1> SUFFICES ASSUME [ServerNext]_serverVars, vars' # vars PROVE Next
  OBVIOUS
<1>1. CASE Controller
  BY <1>1 DEF Controller, Depart, Arrive, Pushed, Halt
<1>2. CASE Tools
  <2>1. ASSUME NEW c \in Cmd, Submits(c) PROVE Next
    BY <2>1 DEF Submits, Next, Caller
  <2>2. CASE StopBegins
    BY <2>2 DEF StopBegins, StopCancels, Next, Caller
  <2>3. CASE StopTool \/ MoveTool
    BY <2>3 DEF StopTool, StopUploads, StopFails, StopReturns, MoveTool, MoveBegins,
                MoveUploads, MoveReaches, MoveRaises
  <2>4. CASE HoldTool \/ ToolHangs \/ PathTool
    BY <2>4 DEF HoldTool, HoldBegins, HoldUploads, HoldEnds, ToolHangs, PathTool,
                PathBegins, PathUploads, PathReaches, PathRaises
  <2> QED
    BY <1>2, <2>1, <2>2, <2>3, <2>4 DEF Tools, MoveRobotQueued, ProgramStart
<1>3. CASE Worker \/ \E c \in Cmd : AfterFn(c)
  BY <1>3 DEF Next, Call
<1>4. ASSUME NEW c \in Cmd, Fn(c) PROVE Next
  <2>1. CASE FnChecksMode(c) \/ FnUploads(c)
    BY <2>1 DEF FnChecksMode, FnUploads
  <2>2. CASE FnReaches(c)
    BY <2>2 DEF FnReaches, MoveOver, Next, Call
  <2>3. CASE FnRaises(c)
    BY <2>3 DEF FnRaises, MoveOver, Next, Call
  <2> QED
    BY <1>4, <2>1, <2>2, <2>3 DEF Fn
<1>5. CASE UNCHANGED serverVars
  BY <1>5 DEF serverVars
<1> QED
  BY <1>1, <1>2, <1>3, <1>4, <1>5 DEF ServerNext

(* The tools, the controller and the fns use the queue as SafeSpec says:    *)
(* all that is proved of the queue holds in the server.                     *)
THEOREM QueueInServer == ServerSafeSpec => SafeSpec
<1>1. ServerInit => Init
  BY DEF ServerInit
<1> QED
  BY <1>1, QueueStep, PTL DEF ServerSafeSpec, SafeSpec

(* So the server, too, serves each accepted request at most once and in     *)
(* line, whatever the tools do beside the queue.                            *)
THEOREM ServerServesOnce == ServerSafeSpec => ImplementsSerialQueue /\ Serial!ServedOnce
<1> QED
  BY QueueInServer, Refinement, ServedAtMostOnce, PTL

QueueInv == TypeOK /\ ThreadInv /\ LineInv

LEMMA QueueInvariant == ServerSafeSpec => []QueueInv
BY QueueInServer, IInvariant, PTL DEF QueueInv

-----------------------------------------------------------------------------
(* ToolInv                                                                 *)

(* A move tool that is under way has a target left, and free_drive or       *)
(* set_gripper the owner of its program.                                    *)
ToolInv ==
  /\ toolPc \in {"upload", "poll"} => toolLegs # <<>>
  /\ toolPc \in {"ready", "held"} => holding \in Holds

(* A route has a head, which is a pose, and a tail. *)
LEMMA RouteParts ==
  ASSUME NEW r \in Seq(Pose), r # <<>>
  PROVE  /\ Head(r) \in Pose /\ Tail(r) \in Seq(Pose) /\ <<Head(r)>> \in Seq(Pose)
         /\ (Len(r) > 1 => Tail(r) # <<>>)
<1>1. Head(r) \in Pose /\ Tail(r) \in Seq(Pose) /\ Len(Tail(r)) = Len(r) - 1
  BY HeadTailProperties
<1>2. <<Head(r)>> \in Seq(Pose)
  BY <1>1
<1>3. Len(r) \in Nat /\ Len(<<>>) = 0
  BY LenProperties, EmptySeq
<1>4. ASSUME Tail(r) = <<>> PROVE Len(r) - 1 = 0
  <2>1. Len(Tail(r)) = 0
    BY <1>3, <1>4, Zenon
  <2> QED
    BY <1>1, <2>1, Zenon
<1>5. \A n \in Nat : n - 1 = 0 => ~(n > 1)
  OBVIOUS
<1>6. Len(r) > 1 => Tail(r) # <<>>
  BY <1>3, <1>4, <1>5, Zenon
<1> QED
  BY <1>1, <1>2, <1>6

(* Every leg of a command is a pose. *)
LEMMA LegsArePoses ==
  ASSUME NEW c \in Cmd
  PROVE  /\ Len(Legs[c]) \in Nat /\ Len(Legs[c]) >= 1
         /\ \A i \in 1..Len(Legs[c]) : Legs[c][i] \in Pose
<1>1. Legs[c] \in Seq(Pose) /\ Legs[c] # <<>>
  BY LegsAssumption DEF Route
<1> QED
  BY <1>1, EmptySeq, LenProperties, ElementOfSeq

(* The controller keeps to poses and routes. *)
LEMMA ControllerType ==
  ASSUME MotionTypeOK, Controller
  PROVE  MotionTypeOK'
<1> USE DEF MotionTypeOK, fnVars, toolVars, pathVars
<1>1. CASE Depart \/ Pushed \/ Halt
  BY <1>1 DEF Depart, Pushed, Halt
<1>2. CASE Arrive
  <2>1. Head(route) \in Pose /\ Tail(route) \in Seq(Pose)
    BY <1>2, RouteParts DEF Arrive
  <2> QED
    BY <1>2, <2>1 DEF Arrive
<1> QED
  BY <1>1, <1>2 DEF Controller

(* An upload puts another program in place of the one that runs. *)
LEMMA UploadType ==
  ASSUME MotionTypeOK, NEW who \in Cmd \union {Tool, Path, Stopj} \union Holds,
         NEW via \in Seq(Pose), Upload(who, via)
  PROVE  /\ driver' = who /\ driver' \in Cmd \union {NoCmd, Tool, Path, Stopj} \union Holds
         /\ route' \in Seq(Pose) /\ arm' \in Pose \union {Between}
BY DEF MotionTypeOK, Upload

(* The fns keep to their legs. *)
LEMMA FnType ==
  ASSUME MotionTypeOK, NEW c \in Cmd, Fn(c)
  PROVE  MotionTypeOK' /\ UNCHANGED toolVars
<1> USE DEF MotionTypeOK, ctrlVars, toolVars, pathVars
<1>1. CASE FnChecksMode(c)
  BY <1>1 DEF FnChecksMode
<1>2. CASE FnUploads(c)
  <2>1. <<Legs[c][leg[c]]>> \in Seq(Pose)
    BY LegsArePoses
  <2>2. Upload(c, <<Legs[c][leg[c]]>>)
    BY <1>2 DEF FnUploads
  <2>3. /\ driver' \in Cmd \union {NoCmd, Tool, Path, Stopj} \union Holds
        /\ route' \in Seq(Pose) /\ arm' \in Pose \union {Between}
    BY <2>1, <2>2, UploadType
  <2> QED
    BY <1>2, <2>3 DEF FnUploads
<1>3. CASE FnReaches(c)
  <2>1. leg' = leg \/ (leg[c] < Len(Legs[c]) /\ leg' = [leg EXCEPT ![c] = leg[c] + 1])
    BY <1>3 DEF FnReaches, LegsLeft, MoveOver
  <2>2. leg \in [Cmd -> Nat] /\ Len(Legs[c]) \in Nat /\ leg[c] \in 1..Len(Legs[c])
    BY LegsArePoses
  <2>3. leg'[c] \in 1..Len(Legs[c]) /\ leg' \in [Cmd -> Nat]
    BY <2>1, <2>2
  <2>4. \A d \in Cmd \ {c} : leg'[d] = leg[d]
    BY <2>1, <2>2
  <2>5. leg' \in [Cmd -> Nat] /\ \A d \in Cmd : leg'[d] \in 1..Len(Legs[d])
    BY <2>3, <2>4
  <2> QED
    BY <1>3, <2>5 DEF FnReaches, MoveOver
<1>4. CASE FnRaises(c)
  BY <1>4 DEF FnRaises, MoveOver
<1> QED
  BY <1>1, <1>2, <1>3, <1>4 DEF Fn

(* The tools keep to their moves. *)
LEMMA ToolType ==
  ASSUME MotionTypeOK, ToolInv, QueueInv, QueueInv', Tools
  PROVE  MotionTypeOK' /\ ToolInv'
<1> USE DEF MotionTypeOK, ToolInv, ctrlVars, fnVars, toolVars, pathVars, ToolGoes
<1>1. CASE MoveRobotQueued \/ ProgramStart
  BY <1>1 DEF MoveRobotQueued, ProgramStart, Submits, motionVars
<1>2. CASE StopBegins
  <2>1. stopIds' \subseteq Cmd
    BY <1>2, LenProperties DEF StopBegins, StopCancels, Queued, QueueInv, TypeOK
  <2> QED
    BY <1>2, <2>1 DEF StopBegins
<1>3. CASE StopTool
  <2>1. CASE StopUploads
    <3>1. Upload(Stopj, <<>>) /\ <<>> \in Seq(Pose)
      BY <2>1 DEF StopUploads
    <3>2. /\ driver' \in Cmd \union {NoCmd, Tool, Path, Stopj} \union Holds
          /\ route' \in Seq(Pose) /\ arm' \in Pose \union {Between}
      BY <3>1, UploadType
    <3> QED
      BY <2>1, <3>2 DEF StopUploads
  <2>2. CASE StopFails \/ StopReturns
    BY <2>2 DEF StopFails, StopReturns
  <2> QED
    BY <1>3, <2>1, <2>2 DEF StopTool
<1>4. CASE MoveTool
  <2>1. CASE MoveBegins
    <3>1. toolLegs' \in Seq(Pose) /\ toolLegs' # <<>>
      BY <2>1, LegsAssumption DEF MoveBegins, Route
    <3> QED
      BY <2>1, <3>1 DEF MoveBegins
  <2>2. CASE MoveUploads
    <3>1. Upload(Tool, <<Head(toolLegs)>>) /\ <<Head(toolLegs)>> \in Seq(Pose)
      BY <2>2, RouteParts DEF MoveUploads
    <3>2. /\ driver' \in Cmd \union {NoCmd, Tool, Path, Stopj} \union Holds
          /\ route' \in Seq(Pose) /\ arm' \in Pose \union {Between}
      BY <3>1, UploadType
    <3> QED
      BY <2>2, <3>2 DEF MoveUploads
  <2>3. CASE MoveReaches
    <3>1. Tail(toolLegs) \in Seq(Pose) /\ (Len(toolLegs) > 1 => Tail(toolLegs) # <<>>)
      BY <2>3, RouteParts DEF MoveReaches
    <3> QED
      BY <2>3, <3>1 DEF MoveReaches
  <2>4. CASE MoveRaises
    BY <2>4 DEF MoveRaises
  <2> QED
    BY <1>4, <2>1, <2>2, <2>3, <2>4 DEF MoveTool
<1>5. CASE HoldTool
  <2>1. CASE HoldBegins \/ HoldEnds
    BY <2>1 DEF HoldBegins, HoldEnds
  <2>2. CASE HoldUploads
    <3>1. Upload(holding, <<>>) /\ <<>> \in Seq(Pose) /\ holding \in Holds
      BY <2>2 DEF HoldUploads
    <3>2. /\ driver' \in Cmd \union {NoCmd, Tool, Path, Stopj} \union Holds
          /\ route' \in Seq(Pose) /\ arm' \in Pose \union {Between}
      BY <3>1, UploadType
    <3> QED
      BY <2>2, <3>1, <3>2 DEF HoldUploads
  <2> QED
    BY <1>5, <2>1, <2>2 DEF HoldTool
<1>6. CASE ToolHangs
  BY <1>6 DEF ToolHangs
<1>7. CASE PathTool
  <2>1. CASE PathBegins \/ PathReaches \/ PathRaises
    BY <2>1 DEF PathBegins, PathReaches, PathRaises
  <2>2. CASE PathUploads
    <3>1. Upload(Path, path) /\ path \in Seq(Pose)
      BY <2>2, LegsAssumption, EmptySeq DEF PathUploads, Route
    <3>2. /\ driver' \in Cmd \union {NoCmd, Tool, Path, Stopj} \union Holds
          /\ route' \in Seq(Pose) /\ arm' \in Pose \union {Between}
      BY <3>1, UploadType
    <3> QED
      BY <2>2, <3>2 DEF PathUploads
  <2> QED
    BY <1>7, <2>1, <2>2 DEF PathTool
<1> QED
  BY <1>1, <1>2, <1>3, <1>4, <1>5, <1>6, <1>7 DEF Tools

LEMMA ToolInvariant == ServerSafeSpec => [](MotionTypeOK /\ ToolInv)
<1>1. ServerInit => MotionTypeOK /\ ToolInv
  <2> SUFFICES ASSUME ServerInit PROVE MotionTypeOK /\ ToolInv
    OBVIOUS
  <2>1. ASSUME NEW c \in Cmd PROVE leg[c] \in 1..Len(Legs[c])
    <3>1. leg[c] = 1
      BY DEF ServerInit
    <3>2. \A n \in Nat : n >= 1 => 1 \in 1..n
      OBVIOUS
    <3> QED
      BY <3>1, <3>2, LegsArePoses, Zenon
  <2>2. <<>> \in Seq(Pose) /\ Home \in Pose
    BY LegsAssumption, EmptySeq
  <2>3. driver = NoCmd /\ route = <<>> /\ arm = Home /\ toolLegs = <<>> /\ path = <<>>
    BY DEF ServerInit
  <2>4. fnPc \in [Cmd -> {"mode", "upload", "poll"}] /\ leg \in [Cmd -> Nat]
        /\ pathPc = "idle" /\ toolPc = "idle" /\ holding = NoCmd
        /\ stopIds = {} /\ stopped = {} /\ lapsed = FALSE
    BY DEF ServerInit
  <2> QED
    BY <2>1, <2>2, <2>3, <2>4 DEF MotionTypeOK, ToolInv
<1>2. MotionTypeOK /\ ToolInv /\ QueueInv /\ QueueInv' /\ [ServerNext]_serverVars
        => (MotionTypeOK /\ ToolInv)'
  <2> SUFFICES ASSUME MotionTypeOK, ToolInv, QueueInv, QueueInv',
                      [ServerNext]_serverVars
               PROVE  MotionTypeOK' /\ ToolInv'
    OBVIOUS
  <2>1. CASE Controller
    BY <2>1, ControllerType DEF Controller, Depart, Arrive, Pushed, Halt, ToolInv, toolVars
  <2>2. CASE Tools
    BY <2>2, ToolType
  <2>3. ASSUME NEW c \in Cmd, Fn(c) PROVE MotionTypeOK' /\ ToolInv'
    BY <2>3, FnType DEF ToolInv, toolVars
  <2>4. CASE UNCHANGED motionVars
    BY <2>4 DEF MotionTypeOK, ToolInv, motionVars, ctrlVars, fnVars, toolVars, pathVars
  <2> QED
    BY <2>1, <2>2, <2>3, <2>4 DEF ServerNext, serverVars
<1> QED
  BY <1>1, <1>2, QueueInvariant, PTL DEF ServerSafeSpec

(* Type correctness: every field of the server and of the queue keeps its   *)
(* type, and no command gets past its last leg (server.py:1104).            *)
THEOREM ServerTypeCorrect == ServerSafeSpec => []ServerTypeOK
<1>1. QueueInv /\ MotionTypeOK => ServerTypeOK
  BY DEF QueueInv, ServerTypeOK
<1> QED
  BY <1>1, QueueInvariant, ToolInvariant, PTL

-----------------------------------------------------------------------------
(* What drives the arm                                                     *)

(* The tools leave the fns alone, and upload in no command's name. *)
LEMMA ToolsUpload ==
  ASSUME ToolInv, Tools
  PROVE  /\ UNCHANGED <<callVars, fnVars>>
         /\ UNCHANGED ctrlVars \/ driver' \notin Cmd
<1>0. {Tool, Path, Stopj, Hand, Grip} \intersect Cmd = {}
  BY OwnerAssumption
<1>1. CASE MoveRobotQueued \/ ProgramStart
  <2>1. ASSUME NEW c \in Cmd, Submits(c) PROVE UNCHANGED <<callVars, fnVars, ctrlVars>>
    BY <2>1 DEF Submits, Refuse, Override, Enqueue, motionVars
  <2> QED
    BY <1>1, <2>1 DEF MoveRobotQueued, ProgramStart
<1>2. CASE StopBegins
  BY <1>2 DEF StopBegins, StopCancels, CancelAll
<1>3. CASE StopTool
  BY <1>0, <1>3 DEF StopTool, StopUploads, StopFails, StopReturns, Upload, vars
<1>4. CASE MoveTool
  BY <1>0, <1>4 DEF MoveTool, MoveBegins, MoveUploads, MoveReaches, MoveRaises, Upload,
                    vars
<1>5. CASE HoldTool
  <2>1. CASE HoldBegins \/ HoldEnds
    BY <2>1 DEF HoldBegins, HoldEnds, vars
  <2>2. CASE HoldUploads
    <3>1. holding \notin Cmd
      BY <1>0, <2>2, OwnerAssumption DEF HoldUploads, ToolGoes, ToolInv
    <3> QED
      BY <2>2, <3>1 DEF HoldUploads, Upload, vars
  <2> QED
    BY <1>5, <2>1, <2>2 DEF HoldTool
<1>6. CASE ToolHangs
  BY <1>6 DEF ToolHangs, vars
<1>7. CASE PathTool
  BY <1>0, <1>7 DEF PathTool, PathBegins, PathUploads, PathReaches, PathRaises, Upload,
                    vars
<1> QED
  BY <1>1, <1>2, <1>3, <1>4, <1>5, <1>6, <1>7 DEF Tools

(* The controller only lets go of a program. *)
LEMMA ControllerLetsGo ==
  ASSUME Controller
  PROVE  UNCHANGED <<callVars, fnVars>> /\ driver' \in {driver, NoCmd}
BY DEF Controller, Depart, Arrive, Pushed, Halt, vars

(* A command comes to drive the arm by its own upload, and in no other way. *)
LEMMA DriverStep ==
  ASSUME ToolInv, [ServerNext]_serverVars, NEW d \in Cmd, driver' = d, driver # d
  PROVE  FnUploads(d)
<1>1. CASE Controller
  BY <1>1, ControllerLetsGo, NoCmdAssumption
<1>2. CASE Tools
  BY <1>2, ToolsUpload DEF ctrlVars
<1>3. ASSUME NEW c \in Cmd, Fn(c) PROVE FnUploads(d)
  BY <1>3 DEF Fn, FnChecksMode, FnUploads, FnReaches, FnRaises, Upload, ctrlVars
<1>4. CASE UNCHANGED motionVars
  BY <1>4 DEF motionVars, ctrlVars
<1> QED
  BY <1>1, <1>2, <1>3, <1>4 DEF ServerNext, serverVars

(* Two commands that nobody reported cancelled are never in their fns at    *)
(* once, so neither preempts the other (queue_manager.py:171 starts a fn    *)
(* only when the one before has ended or was cancelled).                    *)
THEOREM NoCollision == ServerSafeSpec => QueuedMovesDoNotCollide
<1> DEFINE Apart == \A c, d \in Cmd :
       driver = c /\ callPc[c] = "fn" /\ driver' = d /\ c # d =>
         c \in flagged \/ d \in flagged
<1>1. QueueInv /\ ToolInv /\ [ServerNext]_serverVars => [Apart]_serverVars
  <2> SUFFICES ASSUME QueueInv, ToolInv, [ServerNext]_serverVars,
                      NEW c \in Cmd, NEW d \in Cmd,
                      driver = c, callPc[c] = "fn", driver' = d, c # d
               PROVE  c \in flagged \/ d \in flagged
    OBVIOUS
  <2>1. callPc[d] = "fn"
    BY DriverStep DEF FnUploads, InFn
  <2>2. \A e \in Cmd : callPc[e] = "fn" => e = current \/ e \in flagged
    BY DEF QueueInv, ThreadInv, Terminal
  <2> QED
    BY <2>1, <2>2
<1> QED
  BY <1>1, QueueInvariant, ToolInvariant, PTL DEF ServerSafeSpec, QueuedMovesDoNotCollide

(* Reported ids stay reported, and a thread that was started stays started. *)
LEMMA HistoryGrows ==
  ASSUME QueueInv, [Next]_vars
  PROVE  /\ dropped \subseteq dropped' /\ flagged \subseteq flagged'
         /\ \A c \in Cmd : callPc[c] # "none" => callPc'[c] # "none"
<1> USE DEF callVars, historyVars
<1>1. CASE Caller
  BY <1>1 DEF Caller, Refuse, Enqueue, Override, CancelAll, Accept, ReportCancelled
<1>2. CASE Worker
  <2>1. CASE Start
    BY <2>1 DEF Start, QueueInv, TypeOK
  <2> QED
    BY <1>2, <2>1 DEF Worker, WakeUp, PickNothing, Pick, SeeDone, SeeStop, Recheck,
                      MarkCancelled, Release
<1>3. ASSUME NEW c \in Cmd, Call(c)
      PROVE  /\ UNCHANGED <<dropped, flagged>>
             /\ \A d \in Cmd : callPc[d] # "none" => callPc'[d] # "none"
  BY <1>3 DEF Call, AfterFn, FnEnds, CheckStatus, Record, Finish, CallGoes, QueueInv, TypeOK
<1>4. CASE UNCHANGED vars
  BY <1>4 DEF vars
<1> QED
  BY <1>1, <1>2, <1>3, <1>4 DEF Next

(* What stop_robot reports, and a drop or a flag for everything reported;   *)
(* what drives the arm in a command's name was started.                     *)
DriveInv ==
  /\ stopIds \union stopped \subseteq dropped \union flagged
  /\ \A c \in Cmd : driver = c => callPc[c] # "none"

(* The ids that a stop_robot collects are those that its cancel_all reports.*)
LEMMA StopIdsStep ==
  ASSUME [ServerNext]_serverVars
  PROVE  \/ stopIds' \union stopped' \subseteq stopIds \union stopped
         \/ StopBegins /\ stopped' = stopped
<1> USE DEF toolVars
<1>1. CASE Controller
  BY <1>1 DEF Controller, Depart, Arrive, Pushed, Halt
<1>2. CASE Tools
  <2>1. CASE MoveRobotQueued \/ ProgramStart
    BY <2>1 DEF MoveRobotQueued, ProgramStart, Submits, motionVars
  <2>2. CASE StopBegins
    BY <2>2 DEF StopBegins
  <2>3. CASE StopTool \/ MoveTool
    BY <2>3 DEF StopTool, StopUploads, StopFails, StopReturns, MoveTool, MoveBegins,
                MoveUploads, MoveReaches, MoveRaises
  <2>4. CASE HoldTool \/ ToolHangs \/ PathTool
    BY <2>4 DEF HoldTool, HoldBegins, HoldUploads, HoldEnds, ToolHangs, PathTool,
                PathBegins, PathUploads, PathReaches, PathRaises
  <2> QED
    BY <1>2, <2>1, <2>2, <2>3, <2>4 DEF Tools
<1>3. ASSUME NEW c \in Cmd, Fn(c) PROVE UNCHANGED <<stopIds, stopped>>
  BY <1>3 DEF Fn, FnChecksMode, FnUploads, FnReaches, FnRaises
<1>4. CASE UNCHANGED motionVars
  BY <1>4 DEF motionVars
<1> QED
  BY <1>1, <1>2, <1>3, <1>4 DEF ServerNext, serverVars

(* Of what a finished stop_robot reported, only what was current then can   *)
(* still drive the arm: the rest was dropped from the list, never started   *)
(* and so never uploaded (server.py:1604).                                  *)
THEOREM StopLimits == ServerSafeSpec => []StopLimitsDamage
<1>1. ServerInit => DriveInv
  BY NoCmdAssumption DEF ServerInit, DriveInv
<1>2. QueueInv /\ ToolInv /\ DriveInv /\ [ServerNext]_serverVars => DriveInv'
  <2> SUFFICES ASSUME QueueInv, ToolInv, DriveInv, [ServerNext]_serverVars
               PROVE  DriveInv'
    OBVIOUS
  <2>1. /\ dropped \subseteq dropped' /\ flagged \subseteq flagged'
        /\ \A c \in Cmd : callPc[c] # "none" => callPc'[c] # "none"
    BY QueueStep, HistoryGrows
  <2>2. stopIds' \union stopped' \subseteq dropped' \union flagged'
    <3>1. CASE StopBegins /\ stopped' = stopped
      <4>1. stopIds' \subseteq dropped' \union flagged'
        BY <3>1 DEF StopBegins, StopCancels, CancelAll, ReportCancelled
      <4> QED
        BY <2>1, <3>1, <4>1 DEF DriveInv
    <3> QED
      BY <2>1, <3>1, StopIdsStep DEF DriveInv
  <2>3. ASSUME NEW c \in Cmd, driver' = c PROVE callPc'[c] # "none"
    <3>1. CASE driver = c
      BY <2>1, <3>1 DEF DriveInv
    <3>2. CASE driver # c
      BY <2>1, <2>3, <3>2, DriverStep DEF FnUploads, InFn
    <3> QED
      BY <3>1, <3>2
  <2> QED
    BY <2>2, <2>3 DEF DriveInv
<1>3. QueueInv /\ MotionTypeOK /\ DriveInv => StopLimitsDamage
  BY DEF QueueInv, LineInv, DroppedPart, Untouched, MotionTypeOK, DriveInv, StopLimitsDamage
<1> QED
  BY <1>1, <1>2, <1>3, QueueInvariant, ToolInvariant, PTL DEF ServerSafeSpec

(* Who watches the program that drives the arm, and what is left of it: a   *)
(* call that polls for it has the one target it goes to, and a call that    *)
(* went on without raising has seen the arm there.                          *)
WatchInv ==
  /\ \A c \in Cmd : fnPc[c] # "mode" => callPc[c] = "fn"
  /\ \A c \in Cmd : driver = c =>
       IF fnPc[c] = "poll" THEN route = <<Legs[c][leg[c]]>>
                           ELSE outcome[c] = "raised" \/ route = <<arm>>
  /\ driver = Tool =>
       IF toolPc = "poll" THEN route = <<Head(toolLegs)>>
                          ELSE toolPc = "hung" \/ lapsed \/ route = <<arm>>

(* The controller: an arm that is where the program ends stays there. *)
LEMMA ControllerWatched ==
  ASSUME WatchInv, Controller
  PROVE  WatchInv'
<1>1. UNCHANGED <<callVars, fnVars, toolVars>> /\ Tool \notin Cmd \union {NoCmd}
  BY OwnerAssumption DEF Controller, Depart, Arrive, Pushed, Halt, vars
<1>2. \/ driver' \in {NoCmd, Hand}
      \/ /\ driver' = driver
         /\ \A p : route = <<p>> => route' = route /\ (arm' = arm \/ p # arm)
  <2>1. \A p : Head(<<p>>) = p /\ Tail(<<p>>) = <<>>
    OBVIOUS
  <2>2. CASE Depart
    BY <2>1, <2>2 DEF Depart
  <2>3. CASE Arrive
    BY <2>1, <2>3 DEF Arrive
  <2>4. CASE Pushed \/ Halt
    BY <2>4 DEF Pushed, Halt
  <2> QED
    BY <2>2, <2>3, <2>4 DEF Controller
<1>3. Hand \notin Cmd \union {Tool}
  BY OwnerAssumption
<1>4. CASE driver' \in {NoCmd, Hand}
  BY <1>1, <1>3, <1>4, NoCmdAssumption DEF WatchInv, callVars, fnVars
<1>5. CASE /\ driver' = driver
           /\ \A p : route = <<p>> => route' = route /\ (arm' = arm \/ p # arm)
  <2>1. ASSUME NEW c \in Cmd, driver = c
        PROVE  IF fnPc[c] = "poll" THEN route' = <<Legs[c][leg[c]]>>
                                   ELSE outcome[c] = "raised" \/ route' = <<arm'>>
    BY <1>5, <2>1 DEF WatchInv
  <2>2. ASSUME driver = Tool
        PROVE  IF toolPc = "poll" THEN route' = <<Head(toolLegs)>>
                                  ELSE toolPc = "hung" \/ lapsed \/ route' = <<arm'>>
    BY <1>5, <2>2 DEF WatchInv
  <2> QED
    BY <1>1, <1>5, <2>1, <2>2 DEF WatchInv, callVars, fnVars, toolVars
<1> QED
  BY <1>2, <1>4, <1>5

(* The tools: an upload is by somebody else than a command, and a blocking  *)
(* move goes on only with the arm at its target.                            *)
LEMMA ToolsWatched ==
  ASSUME MotionTypeOK, ToolInv, WatchInv, Tools
  PROVE  WatchInv'
<1>1. UNCHANGED <<callVars, fnVars>> /\ (UNCHANGED ctrlVars \/ driver' \notin Cmd)
  BY ToolsUpload
<1>2. Tool \notin {NoCmd, Path, Hand, Grip, Stopj} /\ Holds \subseteq {Hand, Grip}
  BY OwnerAssumption
<1>3. ASSUME driver' = Tool
      PROVE  IF toolPc' = "poll" THEN route' = <<Head(toolLegs')>>
                                 ELSE toolPc' = "hung" \/ lapsed' \/ route' = <<arm'>>
  <2>1. CASE MoveTool
    <3>1. CASE MoveBegins \/ MoveRaises
      BY <1>3, <3>1 DEF MoveBegins, MoveRaises, ToolGoes, ctrlVars, WatchInv
    <3>2. CASE MoveUploads
      BY <3>2 DEF MoveUploads, ToolGoes, Upload
    <3>3. CASE MoveReaches
      <4>1. toolPc' # "poll" /\ UNCHANGED <<driver, route, arm>>
        BY <3>3 DEF MoveReaches, ToolGoes, ctrlVars
      <4>2. arm = Head(toolLegs) /\ toolPc = "poll"
        BY <3>3 DEF MoveReaches, ToolGoes, AtTarget
      <4> QED
        BY <1>3, <4>1, <4>2 DEF WatchInv
    <3> QED
      BY <2>1, <3>1, <3>2, <3>3 DEF MoveTool
  <2>2. CASE MoveRobotQueued \/ ProgramStart
    BY <1>3, <2>2 DEF MoveRobotQueued, ProgramStart, Submits, motionVars, ctrlVars, toolVars,
                      WatchInv
  <2>3. CASE StopBegins \/ StopTool
    BY <1>2, <1>3, <2>3 DEF StopBegins, StopTool, StopUploads, StopFails, StopReturns, Upload,
                            ToolGoes, ctrlVars, WatchInv
  <2>4. CASE HoldTool \/ ToolHangs
    BY <1>2, <1>3, <2>4 DEF HoldTool, HoldBegins, HoldUploads, HoldEnds, ToolHangs, Upload,
                            ToolGoes, ToolInv, ctrlVars, WatchInv
  <2>5. CASE PathTool
    BY <1>2, <1>3, <2>5 DEF PathTool, PathBegins, PathUploads, PathReaches, PathRaises, Upload,
                            ctrlVars, toolVars, WatchInv
  <2> QED
    BY <2>1, <2>2, <2>3, <2>4, <2>5 DEF Tools
<1> QED
  BY <1>1, <1>3 DEF WatchInv, callVars, fnVars, ctrlVars

(* The fns: a leg is left with the arm at its target, or by an exception.   *)
LEMMA FnWatched ==
  ASSUME QueueInv, MotionTypeOK, WatchInv, NEW c \in Cmd, Fn(c)
  PROVE  WatchInv'
<1>0. Tool \notin Cmd
  BY OwnerAssumption
<1>1. CASE FnChecksMode(c)
  <2>1. /\ callPc[c] = "fn" /\ fnPc[c] = "mode" /\ fnPc' = [fnPc EXCEPT ![c] = "upload"]
        /\ UNCHANGED <<callPc, outcome, leg, driver, route, arm, toolVars>>
    BY <1>1 DEF FnChecksMode, InFn, vars, callVars, ctrlVars
  <2>2. \A d \in Cmd : fnPc'[d] = IF d = c THEN "upload" ELSE fnPc[d]
    BY <2>1 DEF MotionTypeOK
  <2> QED
    BY <2>1, <2>2 DEF WatchInv, toolVars
<1>2. CASE FnUploads(c)
  <2>1. /\ callPc[c] = "fn" /\ fnPc' = [fnPc EXCEPT ![c] = "poll"]
        /\ driver' = c /\ route' = <<Legs[c][leg[c]]>> /\ UNCHANGED <<callPc, leg>>
    BY <1>2 DEF FnUploads, InFn, Upload, vars, callVars
  <2>2. \A d \in Cmd : fnPc'[d] = IF d = c THEN "poll" ELSE fnPc[d]
    BY <2>1 DEF MotionTypeOK
  <2> QED
    BY <1>0, <2>1, <2>2 DEF WatchInv
<1>3. CASE FnReaches(c) /\ LegsLeft(c)
  <2>1. /\ fnPc[c] = "poll" /\ fnPc' = [fnPc EXCEPT ![c] = "mode"]
        /\ leg' = [leg EXCEPT ![c] = leg[c] + 1] /\ arm = Legs[c][leg[c]]
        /\ UNCHANGED <<callPc, outcome, driver, route, arm, toolVars>>
    BY <1>3 DEF FnReaches, InFn, AtTarget, vars, callVars, ctrlVars
  <2>2. \A d \in Cmd : /\ fnPc'[d] = IF d = c THEN "mode" ELSE fnPc[d]
                       /\ d # c => leg'[d] = leg[d]
    BY <2>1 DEF MotionTypeOK
  <2> QED
    BY <2>1, <2>2 DEF WatchInv, toolVars
<1>4. CASE FnReaches(c) /\ ~LegsLeft(c)
  <2>1. /\ fnPc[c] = "poll" /\ fnPc' = [fnPc EXCEPT ![c] = "mode"] /\ arm = Legs[c][leg[c]]
        /\ callPc' = [callPc EXCEPT ![c] = "check"] /\ outcome' = [outcome EXCEPT ![c] = "returned"]
        /\ UNCHANGED <<leg, driver, route, arm, toolVars>>
    BY <1>4 DEF FnReaches, InFn, AtTarget, MoveOver, FnEnds, CallGoes, ctrlVars
  <2>2. /\ fnPc'[c] = "mode"
        /\ \A d \in Cmd \ {c} : /\ fnPc'[d] = fnPc[d] /\ callPc'[d] = callPc[d]
                                /\ outcome'[d] = outcome[d]
    BY <2>1 DEF MotionTypeOK, QueueInv, TypeOK
  <2> QED
    BY <2>1, <2>2 DEF WatchInv, toolVars
<1>5. CASE FnRaises(c)
  <2>1. /\ fnPc' = [fnPc EXCEPT ![c] = "mode"]
        /\ callPc' = [callPc EXCEPT ![c] = "check"] /\ outcome' = [outcome EXCEPT ![c] = "raised"]
        /\ UNCHANGED <<leg, driver, route, arm, toolVars>>
    BY <1>5 DEF FnRaises, MoveOver, FnEnds, CallGoes, ctrlVars
  <2>2. /\ fnPc'[c] = "mode" /\ outcome'[c] = "raised"
        /\ \A d \in Cmd \ {c} : /\ fnPc'[d] = fnPc[d] /\ callPc'[d] = callPc[d]
                                /\ outcome'[d] = outcome[d]
    BY <2>1 DEF MotionTypeOK, QueueInv, TypeOK
  <2> QED
    BY <2>1, <2>2 DEF WatchInv, toolVars
<1> QED
  BY <1>1, <1>2, <1>3, <1>4, <1>5 DEF Fn

(* The worker and the threads outside fn: only fn changes an outcome. *)
LEMMA QueueWatched ==
  ASSUME QueueInv, WatchInv, Worker \/ \E c \in Cmd : AfterFn(c), UNCHANGED motionVars
  PROVE  WatchInv'
<1>1. UNCHANGED outcome
  BY DEF Worker, WakeUp, PickNothing, Pick, Start, SeeDone, SeeStop, Recheck, MarkCancelled,
         Release, callVars, AfterFn, CheckStatus, Record, Finish
<1>2. \A c \in Cmd : callPc[c] = "fn" => callPc'[c] = "fn"
  <2>1. CASE Start
    BY <2>1 DEF Start, QueueInv, TypeOK
  <2>2. CASE Worker /\ ~Start
    BY <2>2 DEF Worker, WakeUp, PickNothing, Pick, SeeDone, SeeStop, Recheck, MarkCancelled,
                Release, callVars
  <2>3. ASSUME NEW c \in Cmd, AfterFn(c) PROVE \A d \in Cmd : callPc[d] = "fn" => callPc'[d] = "fn"
    BY <2>3 DEF AfterFn, CheckStatus, Record, Finish, CallGoes, QueueInv, TypeOK
  <2> QED
    BY <2>1, <2>2, <2>3
<1> QED
  BY <1>1, <1>2 DEF WatchInv, motionVars, ctrlVars, fnVars, toolVars

(* A motion nobody polls for any more was reported as a failure, for all    *)
(* requests, routes, tools and preemptions (ur_client.py:170-179).          *)
THEOREM UnwatchedMotion == ServerSafeSpec => []UnwatchedMotionFailed
<1>1. ServerInit => WatchInv
  BY NoCmdAssumption, OwnerAssumption DEF ServerInit, WatchInv
<1>2. QueueInv /\ MotionTypeOK /\ ToolInv /\ WatchInv /\ [ServerNext]_serverVars => WatchInv'
  <2> SUFFICES ASSUME QueueInv, MotionTypeOK, ToolInv, WatchInv, [ServerNext]_serverVars
               PROVE  WatchInv'
    OBVIOUS
  <2>1. CASE UNCHANGED serverVars
    BY <2>1 DEF WatchInv, serverVars, vars, callVars, motionVars, ctrlVars, fnVars, toolVars
  <2> QED
    BY <2>1, ControllerWatched, ToolsWatched, FnWatched, QueueWatched DEF ServerNext
<1>3. WatchInv => UnwatchedMotionFailed
  <2> SUFFICES ASSUME WatchInv, Bound PROVE UnwatchedMotionFailed
    BY DEF UnwatchedMotionFailed
  <2>1. route # <<arm>>
    BY DEF Bound
  <2> QED
    BY <2>1 DEF WatchInv, UnwatchedMotionFailed, InFn
<1> QED
  BY <1>1, <1>2, <1>3, QueueInvariant, ToolInvariant, PTL DEF ServerSafeSpec
=============================================================================
