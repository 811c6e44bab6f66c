------------------------- MODULE EnvironmentShadow -------------------------
(***************************************************************************)
(* The environment shadow of case1/server.py: a daemon thread refreshes a  *)
(* cached record of what the camera sees and where the robot is, and       *)
(* get_environment_shadow answers from it; get_vision and get_environment  *)
(* ask the service themselves.  What was seen and read is known here by    *)
(* the time it was true; 0 is null.                                        *)
(***************************************************************************)
EXTENDS Naturals

CONSTANT MaxClock  (* bound: the ticks of a behaviour                      *)
ASSUME ShadowAssumption == MaxClock \in Nat

VARIABLES
  clock,     (* time.time()                                                *)
  loopPc,    (* where _shadow_loop is                                      *)
  update,    (* the update it collects                                     *)
  cached,    (* _shadow                                                    *)
  told       (* the last answer of a tool, and when it was given           *)

shadowVars == <<clock, loopPc, update, cached, told>>

Nothing == [at |-> 0, vision |-> 0, error |-> FALSE, robot |-> 0]

ShadowInit ==
  /\ clock = 1 /\ loopPc = "sleep"
  /\ update = Nothing /\ cached = Nothing
  /\ told = [vision |-> 0, error |-> FALSE, robot |-> 0, age |-> 0, when |-> 1]

ShadowTick ==
  /\ clock < MaxClock /\ clock' = clock + 1
  /\ UNCHANGED <<loopPc, update, cached, told>>

LoopGoes(from, to) ==
  loopPc = from /\ loopPc' = to /\ UNCHANGED <<clock, told>>

(* updated_at is set before anything is asked. *)
LoopStarts ==
  /\ LoopGoes("sleep", "vision")
  /\ update' = [Nothing EXCEPT !.at = clock]
  /\ UNCHANGED cached

(* Mutant: a failed request leaves the last vision in the record. *)
VisionKept == cached.vision
VisionNull == 0
AsksVision ==
  /\ LoopGoes("vision", "robot")
  /\ \/ update' = [update EXCEPT !.vision = clock]
     \/ update' = [update EXCEPT !.vision = VisionNull, !.error = TRUE]
  /\ UNCHANGED cached
ReadsRobot ==
  /\ LoopGoes("robot", "store")
  /\ \E r \in {0, clock} : update' = [update EXCEPT !.robot = r]
  /\ UNCHANGED cached
(* _shadow.update(update), under the lock. *)
LoopStores ==
  /\ LoopGoes("store", "sleep")
  /\ cached' = update /\ update' = Nothing

(* The tool's answer, from one copy of the record. *)
GetEnvironmentShadow ==
  /\ told' = [vision |-> cached.vision, error |-> cached.error, robot |-> cached.robot,
              age |-> IF cached.at = 0 THEN 0 ELSE clock - cached.at, when |-> clock]
  /\ UNCHANGED <<clock, loopPc, update, cached>>
(* get_vision and get_environment, when they do not raise. *)
CallVisionApi ==
  /\ told' = [vision |-> clock, error |-> FALSE, robot |-> 0, age |-> 0, when |-> clock]
  /\ UNCHANGED <<clock, loopPc, update, cached>>

ShadowNext == \/ ShadowTick \/ LoopStarts \/ AsksVision \/ ReadsRobot \/ LoopStores
              \/ GetEnvironmentShadow \/ CallVisionApi

-----------------------------------------------------------------------------
(* Nothing in an answer is older than the age it tells, so a stalled or     *)
(* failing refresh never passes for a fresh one; the two parts are of one   *)
(* pass of the loop, the image before the robot; and an image and an error  *)
(* exclude each other (_shadow_loop, server.py:165-182).                    *)
SnapshotIsHonest ==
  /\ told.vision # 0 => told.when - told.vision <= told.age
  /\ told.robot # 0 => told.when - told.robot <= told.age
  /\ told.vision # 0 /\ told.robot # 0 => told.vision <= told.robot
  /\ told.error => told.vision = 0
=============================================================================
