-------------------------- MODULE Ros2ClientProofs --------------------------
(***************************************************************************)
(* The safety properties of Ros2Client, for any number of moves of any     *)
(* number of goals each.  HandleIsTracked is inductive; StopAgreesWithQueue *)
(* also needs to know what the stop relies on between flagging the running *)
(* commands and reading the handle (StopInv), and HandleLostToFlagged that *)
(* uncancelled commands run one at a time (AloneInv).                      *)
(***************************************************************************)
EXTENDS Ros2Client, TLAPS

(* The goals of a thread are its legs. *)
LEMMA GoalsAreLegs ==
  /\ \A t \in Thread : \A n \in 1..Legs[t] : <<t, n>> \in Goal
  /\ \A g \in Goal : g[1] \in Thread /\ g[2] \in 1..Legs[g[1]] /\ g = <<g[1], g[2]>>
BY LegsAssumption DEF Goal

(* Type correctness: every field keeps its type, and no thread gets past    *)
(* its last leg.                                                            *)
THEOREM TypeCorrect == SafeSpec => []TypeOK
<1>1. Init => TypeOK
  <2> SUFFICES ASSUME Init PROVE TypeOK
    OBVIOUS
  <2>1. \A t \in Thread : GoalOf(t) \in Goal
    <3> TAKE t \in Thread
    <3>1. 1 \in 1..Legs[t] /\ GoalOf(t) = <<t, 1>>
      BY LegsAssumption DEF Init, GoalOf
    <3> QED
      BY <3>1, GoalsAreLegs
  <2> QED
    BY <2>1 DEF Init, TypeOK
<1>2. TypeOK /\ [Next]_vars => TypeOK'
  <2> SUFFICES ASSUME TypeOK, [Next]_vars PROVE TypeOK'
    OBVIOUS
  <2> USE DEF TypeOK, Ended, GoalOf, threadVars, ctrlVars, fieldVars, ThreadGoes, StopGoes
  <2>1. CASE Controller
    BY <2>1 DEF Controller, Accept, GoalGoes
  <2>2. ASSUME NEW t \in Thread, Begins(t) \/ ToolCalls(t)
        PROVE  TypeOK'
    BY <2>2 DEF Begins, QueueIsFree, ToolCalls, FlagRunning, Active
  <2>3. ASSUME NEW t \in Thread, MoveJoint(t) PROVE TypeOK'
    <3>1. CASE ChecksMode(t) \/ Sends(t) \/ SeesAccepted(t) \/ GivesUp(t)
      BY <3>1 DEF ChecksMode, Sends, SeesAccepted, GivesUp
    <3>2. CASE Tracks(t) \/ SeesResult(t)
      BY <3>2 DEF Tracks, SeesResult, Touches
    <3>3. CASE Clears(t)
      <4>1. /\ pc' \in [Thread -> {"new", "mode", "send", "await", "track",
                                   "result", "clear", "over"}]
            /\ seen' \in [Thread -> Ended \union {"none"}] /\ handle' = NoGoal
            /\ took' \in [Thread -> SUBSET Thread]
            /\ UNCHANGED <<goal, asked, stopPc, flagged, queued>>
        BY <3>3 DEF Clears, Clear, Touches
      <4>2. leg' \in [Thread -> Nat] /\ \A u \in Thread : leg'[u] \in 1..Legs[u]
        <5>1. \A u \in Thread : leg[u] \in 1..Legs[u]
          BY GoalsAreLegs
        <5>2. leg[t] < Legs[t] => leg[t] + 1 \in 1..Legs[t]
          BY LegsAssumption, <5>1
        <5>3. \/ leg' = leg
              \/ leg[t] < Legs[t] /\ leg' = [leg EXCEPT ![t] = leg[t] + 1]
          BY <3>3 DEF Clears, LegsLeft
        <5> QED
          BY <5>1, <5>2, <5>3
      <4>3. \A u \in Thread : GoalOf(u)' \in Goal
        BY <4>2, GoalsAreLegs
      <4> QED
        BY <4>1, <4>2, <4>3
    <3> QED
      BY <2>3, <3>1, <3>2, <3>3 DEF MoveJoint
  <2>4. CASE Overrides \/ StopBegins \/ GripperCalls \/ ToolSteps
    BY <2>4 DEF Overrides, StopBegins, GripperCalls, ToolSteps, StopCancels, StopReturns,
                GripperReturns, FlagRunning, Active
  <2>5. CASE UNCHANGED vars
    BY <2>5 DEF vars
  <2> QED
    BY <2>1, <2>2, <2>3, <2>4, <2>5 DEF Next
<1> QED
  BY <1>1, <1>2, PTL DEF SafeSpec

(* The handle stop() reads is never stale: it is cleared or overwritten     *)
(* before the call that wrote it leaves its wait (the finally of            *)
(* ros2_client.py:329).                                                     *)
THEOREM HandleTracked == SafeSpec => []HandleIsTracked
<1>1. Init => HandleIsTracked
  BY DEF Init, HandleIsTracked
<1>2. TypeOK /\ HandleIsTracked /\ [Next]_vars => HandleIsTracked'
  <2> SUFFICES ASSUME TypeOK, HandleIsTracked, [Next]_vars PROVE HandleIsTracked'
    OBVIOUS
  <2> USE DEF TypeOK, HandleIsTracked, GoalOf, threadVars, ctrlVars, fieldVars, ThreadGoes,
              StopGoes
  <2>1. CASE Controller
    BY <2>1 DEF Controller, Accept, GoalGoes
  <2>2. ASSUME NEW t \in Thread, Begins(t) \/ ToolCalls(t)
        PROVE  HandleIsTracked'
    BY <2>2 DEF Begins, QueueIsFree, ToolCalls
  <2>3. ASSUME NEW t \in Thread, MoveJoint(t) PROVE HandleIsTracked'
    <3>1. CASE ChecksMode(t) \/ Sends(t) \/ SeesAccepted(t) \/ GivesUp(t)
      BY <3>1 DEF ChecksMode, Sends, SeesAccepted, GivesUp
    <3>2. CASE Tracks(t) \/ SeesResult(t)
      BY <3>2 DEF Tracks, SeesResult, Touches
    <3>3. CASE Clears(t)
      BY <3>3 DEF Clears, Clear, Touches
    <3> QED
      BY <2>3, <3>1, <3>2, <3>3 DEF MoveJoint
  <2>4. CASE Overrides \/ StopBegins \/ GripperCalls \/ ToolSteps
    BY <2>4 DEF Overrides, StopBegins, GripperCalls, ToolSteps, StopCancels, StopReturns,
                GripperReturns
  <2>5. CASE UNCHANGED vars
    BY <2>5 DEF vars
  <2> QED
    BY <2>1, <2>2, <2>3, <2>4, <2>5 DEF Next
<1> QED
  BY <1>1, <1>2, TypeCorrect, PTL DEF SafeSpec

(* Between flagging and reading the handle every command under way is       *)
(* flagged; a goal whose cancellation was asked for was sent by a thread    *)
(* that had started.                                                        *)
StopInv ==
  /\ stopPc = "read" => \A t \in queued : Active(t) => t \in flagged
  /\ \A g \in asked : pc[g[1]] # "new"
  /\ StopAgreesWithQueue

(* stop() and the queue agree on what was cancelled: the goal that          *)
(* cancel_goal_async names (ros2_client.py:493) belongs to a command that   *)
(* cancel_all has flagged, or to a tool call.                               *)
THEOREM StopAgrees == SafeSpec => []StopAgreesWithQueue
<1>1. Init => StopInv
  BY DEF Init, StopInv, StopAgreesWithQueue
<1>2. TypeOK /\ HandleIsTracked /\ StopInv /\ [Next]_vars => StopInv'
  <2> SUFFICES ASSUME TypeOK, HandleIsTracked, StopInv, [Next]_vars PROVE StopInv'
    OBVIOUS
  <2> USE DEF TypeOK, StopInv, StopAgreesWithQueue, Active, threadVars, ctrlVars, fieldVars,
              ThreadGoes, StopGoes
  <2>0. \A g \in asked : g[1] \in Thread
    BY GoalsAreLegs
  <2>1. CASE Controller
    BY <2>1 DEF Controller, Accept, GoalGoes
  <2>2. ASSUME NEW t \in Thread, Begins(t) \/ ToolCalls(t)
        PROVE  StopInv'
    BY <2>0, <2>2 DEF Begins, QueueIsFree, ToolCalls, FlagRunning
  <2>3. ASSUME NEW t \in Thread, MoveJoint(t) PROVE StopInv'
    <3>1. /\ pc[t] \notin {"new", "over"} /\ pc'[t] # "new"
          /\ \A u \in Thread \ {t} : pc'[u] = pc[u]
          /\ UNCHANGED <<asked, stopPc, flagged, queued>>
      <4>1. CASE ChecksMode(t) \/ Sends(t) \/ SeesAccepted(t) \/ GivesUp(t)
        BY <4>1 DEF ChecksMode, Sends, SeesAccepted, GivesUp
      <4>2. CASE Tracks(t) \/ SeesResult(t) \/ Clears(t)
        BY <4>2 DEF Tracks, SeesResult, Clears
      <4> QED
        BY <2>3, <4>1, <4>2 DEF MoveJoint
    <3> QED
      BY <2>0, <3>1
  <2>4. CASE Overrides \/ StopBegins
    BY <2>4 DEF Overrides, StopBegins, FlagRunning
  <2>5. CASE StopCancels
    <3>1. ASSUME handle # NoGoal
          PROVE  /\ pc[handle[1]] \notin {"new", "over"}
                 /\ handle[1] \in queued => handle[1] \in flagged
      BY <2>5, <3>1 DEF HandleIsTracked, GoalOf, StopCancels
    <3> QED
      BY <2>5, <3>1 DEF StopCancels
  <2>6. CASE GripperCalls \/ StopReturns \/ GripperReturns
    BY <2>6 DEF GripperCalls, StopReturns, GripperReturns
  <2>7. CASE UNCHANGED vars
    BY <2>7 DEF vars
  <2> QED
    BY <2>1, <2>2, <2>3, <2>4, <2>5, <2>6, <2>7 DEF Next, ToolSteps
<1>3. StopInv => StopAgreesWithQueue
  BY DEF StopInv
<1> QED
  BY <1>1, <1>2, <1>3, TypeCorrect, HandleTracked, PTL DEF SafeSpec

(* Commands that nobody cancelled run one at a time, and a thread that has  *)
(* started is never new again.                                              *)
AloneInv ==
  /\ \A t \in queued : pc[t] # "new"
  /\ \A t, u \in queued \ flagged : Active(t) /\ Active(u) => t = u
  /\ HandleLostToFlagged

(* The other side of the field that all threads share (ros2_client.py:324   *)
(* and 330): whoever takes the handle from a command that nobody cancelled  *)
(* is a tool call, or a thread that an override or a stop left behind.      *)
THEOREM LostToFlagged == SafeSpec => []HandleLostToFlagged
<1>1. Init => AloneInv
  BY DEF Init, AloneInv, HandleLostToFlagged
<1>2. TypeOK /\ AloneInv /\ [Next]_vars => AloneInv'
  <2> SUFFICES ASSUME TypeOK, AloneInv, [Next]_vars PROVE AloneInv'
    OBVIOUS
  <2> USE DEF TypeOK, AloneInv, Active, threadVars, ctrlVars, fieldVars, ThreadGoes, StopGoes
  <2>1. CASE Controller
    BY <2>1 DEF Controller, Accept, GoalGoes, HandleLostToFlagged, GoalOf
  <2>2. ASSUME NEW t \in Thread, Begins(t) \/ ToolCalls(t)
        PROVE  AloneInv'
    <3>1. /\ pc[t] = "new" /\ pc' = [pc EXCEPT ![t] = "mode"]
          /\ UNCHANGED <<leg, handle, took>>
          /\ queued' \in {queued, queued \union {t}}
          /\ flagged' \subseteq queued /\ flagged \subseteq flagged'
          /\ t \in queued' => \A u \in queued : Active(u) => u \in flagged'
      BY <2>2 DEF Begins, QueueIsFree, ToolCalls, FlagRunning
    <3>2. HandleLostToFlagged'
      BY <3>1 DEF HandleLostToFlagged, GoalOf
    <3> QED
      BY <3>1, <3>2
  <2>3. ASSUME NEW t \in Thread, MoveJoint(t) PROVE AloneInv'
    <3>1. /\ pc[t] \notin {"new", "over"} /\ pc'[t] # "new"
          /\ \A u \in Thread \ {t} : pc'[u] = pc[u] /\ leg'[u] = leg[u]
          /\ UNCHANGED <<flagged, queued>>
      <4>1. CASE ChecksMode(t) \/ Sends(t) \/ SeesAccepted(t) \/ GivesUp(t)
        BY <4>1 DEF ChecksMode, Sends, SeesAccepted, GivesUp
      <4>2. CASE Tracks(t) \/ SeesResult(t) \/ Clears(t)
        BY <4>2 DEF Tracks, SeesResult, Clears
      <4> QED
        BY <2>3, <4>1, <4>2 DEF MoveJoint
    <3>2. \/ UNCHANGED <<handle, took>> /\ pc'[t] # "result"
          \/ handle' = GoalOf(t)' /\ took'[t] = {} /\ Touches(t)
          \/ pc'[t] # "result" /\ Touches(t)
      <4>1. CASE ChecksMode(t) \/ Sends(t) \/ SeesAccepted(t) \/ GivesUp(t)
        BY <4>1 DEF ChecksMode, Sends, SeesAccepted, GivesUp
      <4>2. CASE Tracks(t) \/ SeesResult(t) \/ Clears(t)
        BY <4>2 DEF Tracks, SeesResult, Clears, GoalOf, Touches
      <4> QED
        BY <2>3, <4>1, <4>2 DEF MoveJoint
    <3>3. ASSUME NEW u \in queued' \ flagged', pc'[u] = "result"
          PROVE  /\ took'[u] \subseteq (flagged \union (Thread \ queued))'
                 /\ took'[u] = {} => handle' = GoalOf(u)'
      <4>1. CASE u = t
        BY <3>2, <3>3, <4>1
      <4>2. CASE u # t
        <5>1. /\ u \in queued \ flagged /\ pc[u] = "result" /\ GoalOf(u)' = GoalOf(u)
              /\ t \in queued => t \in flagged
          BY <3>1, <3>3, <4>2 DEF GoalOf
        <5>2. UNCHANGED <<handle, took>> \/ took'[u] = took[u] \union {t}
          BY <3>2, <4>2, <5>1 DEF Touches
        <5> QED
          BY <3>1, <5>1, <5>2 DEF HandleLostToFlagged
      <4> QED
        BY <4>1, <4>2
    <3> QED
      BY <3>1, <3>3 DEF HandleLostToFlagged
  <2>4. CASE Overrides \/ StopBegins
    BY <2>4 DEF Overrides, StopBegins, FlagRunning, HandleLostToFlagged, GoalOf
  <2>5. CASE GripperCalls \/ ToolSteps
    BY <2>5 DEF GripperCalls, ToolSteps, StopCancels, StopReturns, GripperReturns,
                HandleLostToFlagged, GoalOf
  <2>6. CASE UNCHANGED vars
    BY <2>6 DEF vars, HandleLostToFlagged, GoalOf
  <2> QED
    BY <2>1, <2>2, <2>3, <2>4, <2>5, <2>6 DEF Next
<1>3. AloneInv => HandleLostToFlagged
  BY DEF AloneInv
<1> QED
  BY <1>1, <1>2, <1>3, TypeCorrect, PTL DEF SafeSpec

-----------------------------------------------------------------------------
(* Every call ends.  No prover here expands ENABLED, so the theorems say    *)
(* when a call can go on: always, for each of its waits has a deadline.     *)

(* A stop_robot or a set_gripper in progress ends, whatever the moves do.   *)
THEOREM ToolCallEnds ==
  SafeSpec /\ WF_vars(ToolSteps) /\ [](stopPc # "idle" => ENABLED <<ToolSteps>>_vars)
    => (stopPc # "idle" ~> stopPc = "idle")
<1> DEFINE Reads == stopPc = "read"
           Waits == stopPc \in {"wait", "grip"}
           Idle  == stopPc = "idle"
<1>1. ASSUME [Next]_vars, stopPc # "idle" PROVE stopPc' = stopPc \/ ToolSteps
  <2>1. CASE Controller
    BY <2>1 DEF Controller, Accept, GoalGoes
  <2>2. ASSUME NEW t \in Thread, Begins(t) \/ ToolCalls(t) \/ MoveJoint(t)
        PROVE  stopPc' = stopPc
    BY <2>2 DEF Begins, QueueIsFree, ToolCalls, MoveJoint, ChecksMode, Sends, SeesAccepted,
                GivesUp, Tracks, SeesResult, Clears
  <2>3. CASE Overrides \/ StopBegins \/ GripperCalls \/ ToolSteps
    BY <1>1, <2>3 DEF Overrides, StopBegins, GripperCalls, StopGoes
  <2> QED
    BY <1>1, <2>1, <2>2, <2>3 DEF Next, vars
<1>2. ToolSteps => (Reads => Waits') /\ (Waits => Idle')
  BY DEF ToolSteps, StopCancels, StopReturns, GripperReturns, StopGoes
<1>3. TypeOK => Reads \/ Waits \/ Idle
  BY DEF TypeOK
<1>4. [Next]_vars /\ Reads => (Reads \/ Waits)'
  BY <1>1, <1>2
<1>5. [Next]_vars /\ Waits => (Waits \/ Idle)'
  BY <1>1, <1>2
<1>6. /\ <<Next /\ ToolSteps>>_vars /\ Reads => Waits'
      /\ <<Next /\ ToolSteps>>_vars /\ Waits => Idle'
  BY <1>2
<1>7. (Reads \/ Waits => stopPc # "idle") /\ (Idle <=> stopPc = "idle")
  OBVIOUS
<1> HIDE DEF Reads, Waits, Idle
<1> QED
  BY <1>3, <1>4, <1>5, <1>6, <1>7, TypeCorrect, PTL DEF SafeSpec

(* The steps of a move, and that nobody else makes them.                    *)
LEMMA MoveGoes ==
  ASSUME TypeOK, NEW t \in Thread, MoveJoint(t)
  PROVE  \/ pc[t] = "mode" /\ pc'[t] \in {"send", "over"} /\ leg' = leg
         \/ pc[t] = "send" /\ pc'[t] = "await" /\ leg' = leg
         \/ pc[t] = "await" /\ pc'[t] \in {"track", "over"} /\ leg' = leg
         \/ pc[t] = "track" /\ pc'[t] = "result" /\ leg' = leg
         \/ pc[t] = "result" /\ pc'[t] = "clear" /\ leg' = leg
         \/ pc[t] = "clear" /\ pc'[t] = "over" /\ leg' = leg
         \/ pc[t] = "clear" /\ pc'[t] = "mode" /\ leg'[t] = leg[t] + 1
<1> USE DEF TypeOK, ThreadGoes
<1>1. CASE ChecksMode(t) \/ Sends(t) \/ SeesAccepted(t) \/ GivesUp(t)
  BY <1>1 DEF ChecksMode, Sends, SeesAccepted, GivesUp
<1>2. CASE Tracks(t) \/ SeesResult(t)
  BY <1>2 DEF Tracks, SeesResult, Touches
<1>3. CASE Clears(t)
  BY <1>3 DEF Clears
<1> QED
  BY <1>1, <1>2, <1>3 DEF MoveJoint

LEMMA MoveIsItsOwn ==
  ASSUME TypeOK, [Next]_vars, NEW t \in Thread, Active(t)
  PROVE  MoveJoint(t) \/ (pc'[t] = pc[t] /\ leg'[t] = leg[t])
<1> USE DEF TypeOK, ThreadGoes
<1>1. CASE Controller
  BY <1>1 DEF Controller, Accept, GoalGoes, threadVars, fieldVars
<1>2. ASSUME NEW u \in Thread, Begins(u) \/ ToolCalls(u)
      PROVE  pc'[t] = pc[t] /\ leg'[t] = leg[t]
  BY <1>2 DEF Begins, QueueIsFree, ToolCalls, Active
<1>3. ASSUME NEW u \in Thread, MoveJoint(u), u # t
      PROVE  pc'[t] = pc[t] /\ leg'[t] = leg[t]
  <2>1. CASE ChecksMode(u) \/ Sends(u) \/ SeesAccepted(u) \/ GivesUp(u)
    BY <1>3, <2>1 DEF ChecksMode, Sends, SeesAccepted, GivesUp
  <2>2. CASE Tracks(u) \/ SeesResult(u)
    BY <1>3, <2>2 DEF Tracks, SeesResult, Touches
  <2>3. CASE Clears(u)
    BY <1>3, <2>3 DEF Clears
  <2> QED
    BY <1>3, <2>1, <2>2, <2>3 DEF MoveJoint
<1>4. CASE Overrides \/ StopBegins \/ GripperCalls \/ ToolSteps
  BY <1>4 DEF Overrides, StopBegins, GripperCalls, ToolSteps, StopCancels, StopReturns, GripperReturns,
              threadVars, fieldVars
<1>5. CASE UNCHANGED vars
  BY <1>5 DEF vars, threadVars, fieldVars
<1> QED
  BY <1>1, <1>2, <1>3, <1>4, <1>5 DEF Next

(* Each goal of a move is waited for only so long: the call goes on to its  *)
(* next goal, of which it has Legs[t] in all (TypeCorrect), or ends.        *)
THEOREM LegEnds ==
  ASSUME NEW t \in Thread, NEW n \in Nat
  PROVE  SafeSpec /\ WF_vars(MoveJoint(t)) /\ [](Active(t) => ENABLED <<MoveJoint(t)>>_vars)
           => ((Active(t) /\ leg[t] = n) ~> (pc[t] = "over" \/ leg[t] = n + 1))
<1> DEFINE M == pc[t] = "mode" /\ leg[t] = n
           S == pc[t] = "send" /\ leg[t] = n
           A == pc[t] = "await" /\ leg[t] = n
           T == pc[t] = "track" /\ leg[t] = n
           R == pc[t] = "result" /\ leg[t] = n
           C == pc[t] = "clear" /\ leg[t] = n
           Done == pc[t] = "over" \/ leg[t] = n + 1
<1>1. TypeOK => (Active(t) /\ leg[t] = n <=> M \/ S \/ A \/ T \/ R \/ C)
  BY DEF TypeOK, Active
<1>2. M \/ S \/ A \/ T \/ R \/ C => Active(t)
  BY DEF Active
<1>3. /\ TypeOK /\ MoveJoint(t) /\ M => (S \/ Done)'
      /\ TypeOK /\ MoveJoint(t) /\ S => A'
      /\ TypeOK /\ MoveJoint(t) /\ A => (T \/ Done)'
      /\ TypeOK /\ MoveJoint(t) /\ T => R'
      /\ TypeOK /\ MoveJoint(t) /\ R => C'
      /\ TypeOK /\ MoveJoint(t) /\ C => Done'
  BY MoveGoes
<1>4. /\ TypeOK /\ [Next]_vars /\ M => (M \/ S \/ Done)'
      /\ TypeOK /\ [Next]_vars /\ S => (S \/ A)'
      /\ TypeOK /\ [Next]_vars /\ A => (A \/ T \/ Done)'
      /\ TypeOK /\ [Next]_vars /\ T => (T \/ R)'
      /\ TypeOK /\ [Next]_vars /\ R => (R \/ C)'
      /\ TypeOK /\ [Next]_vars /\ C => (C \/ Done)'
  BY <1>2, <1>3, MoveIsItsOwn
<1>5. Done <=> (pc[t] = "over" \/ leg[t] = n + 1)
  OBVIOUS
<1> HIDE DEF M, S, A, T, R, C, Done
<1>6. /\ TypeOK /\ <<Next /\ MoveJoint(t)>>_vars /\ M => (S \/ Done)'
      /\ TypeOK /\ <<Next /\ MoveJoint(t)>>_vars /\ S => A'
      /\ TypeOK /\ <<Next /\ MoveJoint(t)>>_vars /\ A => (T \/ Done)'
      /\ TypeOK /\ <<Next /\ MoveJoint(t)>>_vars /\ T => R'
      /\ TypeOK /\ <<Next /\ MoveJoint(t)>>_vars /\ R => C'
      /\ TypeOK /\ <<Next /\ MoveJoint(t)>>_vars /\ C => Done'
  BY <1>3
<1> QED
  BY <1>1, <1>2, <1>4, <1>5, <1>6, TypeCorrect, PTL DEF SafeSpec
=============================================================================
