-------------------------- MODULE WorldViewProofs --------------------------
(* Proofs about the views of the world the server keeps: the environment    *)
(* shadow, the objects it looks up, the planning scene, and the shared      *)
(* context of the ROS2 nodes.                                               *)
EXTENDS EnvironmentShadow, ObjectApproach, MotionPlanner, Ros2Context, TLAPS

-----------------------------------------------------------------------------
(* The environment shadow: a record holds what was true between the time it *)
(* is stamped with and now, the image before the robot.                     *)
Record == [at : Nat, vision : Nat, error : BOOLEAN, robot : Nat]
Honest(rec) ==
  /\ rec \in Record /\ rec.at <= clock
  /\ rec.vision # 0 => rec.at # 0 /\ rec.at <= rec.vision /\ rec.vision <= clock
  /\ rec.robot # 0 => rec.at # 0 /\ rec.at <= rec.robot /\ rec.robot <= clock
  /\ rec.vision # 0 /\ rec.robot # 0 => rec.vision <= rec.robot
  /\ rec.error => rec.vision = 0

ShadowInv ==
  /\ clock \in Nat \ {0}
  /\ loopPc \in {"sleep", "vision", "robot", "store"}
  /\ Honest(update) /\ Honest(cached)
  /\ loopPc \in {"vision", "robot", "store"} => update.at # 0
  /\ loopPc \in {"vision", "robot"} => update.robot = 0
  /\ loopPc = "vision" => update.vision = 0 /\ ~update.error
  /\ told \in [vision : Nat, error : BOOLEAN, robot : Nat, age : Nat, when : Nat]
  /\ SnapshotIsHonest

LEMMA ShadowStep ==
  ASSUME ShadowInv, [ShadowNext]_shadowVars
  PROVE  ShadowInv'
PROOF
<1> USE DEF ShadowInv, Honest, Record, shadowVars, SnapshotIsHonest
<1>1. CASE ShadowTick
  <2>1. clock' \in Nat \ {0} /\ clock <= clock'  BY <1>1 DEF ShadowTick
  <2>2. Honest(update)'  BY <1>1, <2>1 DEF ShadowTick
  <2>3. Honest(cached)'  BY <1>1, <2>1 DEF ShadowTick
  <2>4. SnapshotIsHonest'  BY <1>1 DEF ShadowTick
  <2>5. QED  BY <1>1, <2>1, <2>2, <2>3, <2>4 DEF ShadowTick
<1>2. CASE LoopStarts
  <2>1. update' = [at |-> clock, vision |-> 0, error |-> FALSE, robot |-> 0]
    BY <1>2 DEF LoopStarts, Nothing
  <2>2. update' \in Record  BY <2>1
  <2>3. /\ update'.at = clock /\ update'.vision = 0 /\ update'.robot = 0
        /\ update'.error = FALSE
    BY <2>1
  <2>4. UNCHANGED <<clock, cached, told>> /\ loopPc' = "vision"
    BY <1>2 DEF LoopStarts, LoopGoes
  <2>5. QED  BY <2>2, <2>3, <2>4
<1>3. CASE AsksVision
  <2>1. \/ update' = [update EXCEPT !.vision = clock]
        \/ update' = [update EXCEPT !.vision = 0, !.error = TRUE]
    BY <1>3 DEF AsksVision, VisionNull
  <2>2. UNCHANGED <<clock, cached, told>> /\ loopPc = "vision" /\ loopPc' = "robot"
    BY <1>3 DEF AsksVision, LoopGoes
  <2>3. /\ update' \in Record /\ update'.at = update.at /\ update'.robot = 0
        /\ \/ update'.vision = clock /\ update'.error = FALSE
           \/ update'.vision = 0 /\ update'.error = TRUE
    <3>1. CASE update' = [update EXCEPT !.vision = clock]
      BY <2>2, <3>1
    <3>2. CASE update' = [update EXCEPT !.vision = 0, !.error = TRUE]
      BY <2>2, <3>2
    <3>3. QED  BY <2>1, <3>1, <3>2
  <2>4. QED  BY <2>2, <2>3
<1>4. CASE ReadsRobot  BY <1>4 DEF ReadsRobot, LoopGoes
<1>5. CASE LoopStores  BY <1>5 DEF LoopStores, LoopGoes, Nothing
<1>6. CASE GetEnvironmentShadow  BY <1>6 DEF GetEnvironmentShadow
<1>7. CASE CallVisionApi  BY <1>7 DEF CallVisionApi
<1>8. CASE UNCHANGED shadowVars  BY <1>8
<1>9. QED  BY <1>1, <1>2, <1>3, <1>4, <1>5, <1>6, <1>7, <1>8 DEF ShadowNext

(* However the refresh of the cache is delayed or fails, an answer is no    *)
(* older than it says, its parts are of one pass, and an error excludes an  *)
(* image.                                                                   *)
THEOREM Snapshot == ShadowInit /\ [][ShadowNext]_shadowVars => []SnapshotIsHonest
PROOF
<1>1. ShadowInit => ShadowInv
  BY DEF ShadowInit, ShadowInv, Honest, Record, Nothing, SnapshotIsHonest
<1>2. ShadowInv => SnapshotIsHonest  BY DEF ShadowInv
<1>3. QED  BY <1>1, <1>2, ShadowStep, PTL

-----------------------------------------------------------------------------
(* The context: the others are up only while the robot client is, and its   *)
(* hook, the first registered, is the last to run.                          *)
ContextInv ==
  /\ ok \in BOOLEAN /\ exiting \in BOOLEAN
  /\ node \in [User -> {"none", "connecting", "up", "leaving"}]
  /\ spins \in [User -> BOOLEAN] /\ hooks \in Seq(User)
  /\ \A u \in User : node[u] # "none" => ok
  /\ \A u \in Lazy : node[u] # "none" => node[Robot] = "up"
  /\ \A u \in User : node[u] = "up" => \E i \in 1..Len(hooks) : hooks[i] = u
  /\ \A i \in 1..Len(hooks) : hooks[i] = Robot => i = 1
  /\ node[Robot] # "up" => hooks = <<>>

LEMMA ContextStep ==
  ASSUME ContextInv, [ContextNext]_contextVars
  PROVE  ContextInv'
PROOF
<1> USE LazyAssumption DEF ContextInv, contextVars, User
<1>1. ASSUME NEW u \in User, Connect(u) PROVE ContextInv'
  BY <1>1 DEF Connect, NodeGoes, Calm
<1>2. ASSUME NEW u \in User, ConnectReturns(u) PROVE ContextInv'
  BY <1>2 DEF ConnectReturns, NodeGoes
<1>3. ASSUME NEW u \in User, ConnectRaises(u) PROVE ContextInv'
  BY <1>3 DEF ConnectRaises, NodeGoes
<1>4. ASSUME NEW u \in User, SpinEnds(u) PROVE ContextInv'
  BY <1>4 DEF SpinEnds
<1>5. ASSUME NEW u \in User, Disconnect(u) PROVE ContextInv'
  BY <1>5 DEF Disconnect, NodeGoes, RobotShutsDown
<1>6. CASE Exit  BY <1>6 DEF Exit
<1>7. CASE RunsHook  BY <1>7, SMTT(30) DEF RunsHook, NodeGoes, Calm
<1>8. CASE UNCHANGED contextVars  BY <1>8
<1>9. QED
  BY <1>1, <1>2, <1>3, <1>4, <1>5, <1>6, <1>7, <1>8 DEF ContextNext

(* Whatever connects, fails to and is taken down, in whatever order, rclpy  *)
(* is up as long as some node of the server spins.                          *)
THEOREM ContextOutlives ==
  ContextInit /\ [][ContextNext]_contextVars => []ContextOutlivesNodes
PROOF
<1>1. ContextInit => ContextInv
  <2> SUFFICES ASSUME ContextInit PROVE ContextInv  OBVIOUS
  <2>1. \A u \in User : node[u] = "none" /\ ~spins[u]  BY DEF ContextInit
  <2>2. hooks \in Seq(User) /\ Len(hooks) = 0  BY DEF ContextInit
  <2>3. /\ node \in [User -> {"none", "connecting", "up", "leaving"}]
        /\ spins \in [User -> BOOLEAN] /\ ok \in BOOLEAN /\ exiting \in BOOLEAN
    BY DEF ContextInit
  <2>4. \A i \in 1..Len(hooks) : FALSE  BY <2>2
  <2>5. hooks = <<>>  BY DEF ContextInit
  <2>6. QED  BY <2>1, <2>2, <2>3, <2>4, <2>5 DEF ContextInv, User
<1>2. ContextInv => ContextOutlivesNodes
  BY DEF ContextInv, ContextOutlivesNodes
<1>3. QED  BY <1>1, <1>2, ContextStep, PTL

-----------------------------------------------------------------------------
(* The planning scene: a request whose caller still waits is the last of    *)
(* the queue, so what was answered last about an obstacle is how it is, and *)
(* no request about it is left.                                             *)
Request == [id : Obstacle, place : Location \union {Absent}, live : BOOLEAN]
Ask == [id : Obstacle \union {"none"}, place : Location \union {Absent}]

PlannerTypeOK ==
  /\ connected \in BOOLEAN /\ armAt \in Location
  /\ joints \in Location \union {Absent}
  /\ world \in [Obstacle -> Location \union {Absent}]
  /\ requests \in Seq(Request)
  /\ planPc \in {"idle", "apply", "validity", "plan"}
  /\ asked \in Ask /\ result \in {"none", "applied", "rejected"}
  /\ known \in [Obstacle -> Location \union {Absent}]

PlannerInv ==
  /\ PlannerTypeOK
  /\ connected => joints \in Location
  /\ planPc # "idle" => connected
  /\ planPc = "apply" => asked.id \in Obstacle
  /\ planPc \in {"validity", "plan"} => asked.place \in Location
  /\ planPc # "apply" => result = "none"
  /\ \A i \in 1..Len(requests) : requests[i].live =>
       /\ i = Len(requests) /\ planPc = "apply" /\ result = "none"
       /\ requests[i].id = asked.id /\ requests[i].place = asked.place
  /\ planPc = "apply" /\ result = "applied" =>
       requests = <<>> /\ world[asked.id] = asked.place
  /\ \A o \in Obstacle : known[o] # Absent =>
       /\ world[o] = known[o]
       /\ \A i \in 1..Len(requests) : requests[i].id # o

LEMMA PlannerStep ==
  ASSUME PlannerInv, [PlannerNext]_plannerVars
  PROVE  PlannerInv'
PROOF
<1> USE PlannerAssumption DEF PlannerInv, PlannerTypeOK, Request, Ask, plannerVars,
        robotSide, moveGroup, call, Absent
<1>1. CASE ArmMoves  BY <1>1 DEF ArmMoves
<1>2. CASE OnJointState  BY <1>2 DEF OnJointState
<1>3. CASE Connects  BY <1>3 DEF Connects
<1>4. CASE Disconnects  BY <1>4 DEF Disconnects
<1>5. ASSUME NEW o \in Obstacle, NEW p \in Location \union {Absent}, Apply(o, p)
      PROVE  PlannerInv'
  BY <1>5 DEF Apply
<1>6. CASE MoveGroupServes
  <2> DEFINE r == Head(requests)
             n == Len(requests)
  <2>1. /\ requests # <<>> /\ requests' = Tail(requests)
        /\ UNCHANGED <<connected, joints, armAt, planPc, asked, known, checked>>
        /\ r = requests[1] /\ r \in Request /\ n \in Nat \ {0} /\ 1 \in 1..n
    <3>1. /\ requests # <<>> /\ requests' = Tail(requests)
          /\ UNCHANGED <<connected, joints, armAt, planPc, asked, known, checked>>
      BY <1>6 DEF MoveGroupServes
    <3>2. n \in Nat \ {0} /\ 1 \in 1..n /\ r = requests[1]  BY <3>1
    <3>3. r \in Request
      <4> HIDE DEF Request
      <4>1. QED  BY <3>2
    <3> HIDE DEF r, n
    <3>4. QED  BY <3>1, <3>2, <3>3
  <2>2. /\ requests' \in Seq(Request) /\ Len(requests') = n - 1
        /\ \A i \in 1..(n - 1) : requests'[i] = requests[i + 1]
    BY <2>1
  <2>3. \E served \in BOOLEAN :
          /\ world' = IF served THEN [world EXCEPT ![r.id] = r.place] ELSE world
          /\ result' = IF ~r.live THEN result ELSE IF served THEN "applied" ELSE "rejected"
    BY <1>6 DEF MoveGroupServes
  <2>4. /\ r.id \in Obstacle /\ r.place \in Location \union {Absent}
        /\ r.live \in BOOLEAN
    BY <2>1
  <2>5. r.live =>
          /\ n = 1 /\ planPc = "apply" /\ r.id = asked.id /\ r.place = asked.place
    <3>1. \A i \in 1..n : requests[i].live =>
            /\ i = n /\ planPc = "apply"
            /\ requests[i].id = asked.id /\ requests[i].place = asked.place
      OBVIOUS
    <3> HIDE DEF PlannerInv, PlannerTypeOK, n, r
    <3>2. QED  BY <2>1, <3>1
  <2>6. \A i \in 1..(n - 1) :
          requests'[i].live => /\ i = n - 1 /\ planPc = "apply" /\ result = "none"
                               /\ requests'[i].id = asked.id
                               /\ requests'[i].place = asked.place
    <3> SUFFICES ASSUME NEW i \in 1..(n - 1), requests'[i].live
                 PROVE  /\ i = n - 1 /\ planPc = "apply" /\ result = "none"
                        /\ requests'[i].id = asked.id
                        /\ requests'[i].place = asked.place
      OBVIOUS
    <3>1. i + 1 \in 1..n /\ requests'[i] = requests[i + 1]
      <4> HIDE DEF PlannerInv, PlannerTypeOK, n, r
      <4>1. i + 1 \in 1..n  BY <2>1
      <4>2. QED  BY <4>1, <2>2
    <3>2. requests[i + 1].live  BY <3>1
    <3>3. i + 1 = n /\ planPc = "apply" /\ result = "none"
          /\ requests[i + 1].id = asked.id /\ requests[i + 1].place = asked.place
      BY <3>1, <3>2
    <3>4. QED  BY <3>1, <3>3, <2>1
  <2>7. world' \in [Obstacle -> Location \union {Absent}]
    BY <2>3, <2>4
  <2>8. \A o \in Obstacle : o # r.id => world'[o] = world[o]
    BY <2>3, <2>4
  <2>9. result' \in {"none", "applied", "rejected"} /\ (~r.live => result' = result)
    BY <2>3, <2>4
  <2>10. r.live /\ result' = "applied" => world'[asked.id] = asked.place
    BY <2>3, <2>4, <2>5
  <2>11. \A o \in Obstacle : known[o] # Absent =>
           r.id # o /\ \A i \in 1..(n - 1) : requests'[i].id # o
    <3> SUFFICES ASSUME NEW o \in Obstacle, known[o] # Absent
                 PROVE  r.id # o /\ \A i \in 1..(n - 1) : requests'[i].id # o
      OBVIOUS
    <3>1. \A i \in 1..n : requests[i].id # o  OBVIOUS
    <3> HIDE DEF PlannerInv, PlannerTypeOK, n, r
    <3>2. \A i \in 1..(n - 1) : i + 1 \in 1..n  BY <2>1
    <3>3. QED  BY <3>1, <3>2, <2>1, <2>2
  <2>12. \A i \in 1..(n - 1) : requests'[i].live => ~r.live
    BY <2>1, <2>5
  <2>13. planPc = "apply" /\ result' = "applied" =>
           requests' = <<>> /\ world'[asked.id] = asked.place
    <3>1. CASE r.live
      <4>1. requests' = <<>>  BY <3>1, <2>2, <2>5
      <4>2. QED  BY <4>1, <3>1, <2>10
    <3>2. CASE ~r.live  BY <3>2, <2>1, <2>9
    <3>3. QED  BY <3>1, <3>2
  <2>14. planPc # "apply" => result' = "none"
    BY <2>5, <2>9
  <2>15. PlannerTypeOK'
    BY <2>1, <2>2, <2>7, <2>9
  <2>16. \A i \in 1..Len(requests') : requests'[i].live =>
           /\ i = Len(requests') /\ planPc = "apply" /\ result' = "none"
           /\ requests'[i].id = asked.id /\ requests'[i].place = asked.place
    BY <2>2, <2>6, <2>9, <2>12
  <2>17. \A o \in Obstacle : known[o] # Absent =>
           /\ world'[o] = known[o]
           /\ \A i \in 1..Len(requests') : requests'[i].id # o
    BY <2>2, <2>8, <2>11
  <2> HIDE DEF r, n
  <2>18. QED  BY <2>1, <2>13, <2>14, <2>15, <2>16, <2>17
<1>7. CASE ListsObstacles  BY <1>7 DEF ListsObstacles, Served, Ends, NothingAsked
<1>8. CASE ApplyRaises
  <2> DEFINE dead(i) == [requests[i] EXCEPT !.live = FALSE]
             n == Len(requests)
  <2>4. n \in Nat /\ requests' = [i \in 1..n |-> dead(i)]
    BY <1>8 DEF ApplyRaises
  <2>5. \A i \in 1..n : /\ dead(i) \in Request /\ ~dead(i).live
                        /\ dead(i).id = requests[i].id
    <3> SUFFICES ASSUME NEW i \in 1..n
                 PROVE  /\ dead(i) \in Request /\ ~dead(i).live
                        /\ dead(i).id = requests[i].id
      OBVIOUS
    <3>1. requests[i] \in Request
      <4> HIDE DEF Request
      <4>1. QED  BY DEF PlannerInv, PlannerTypeOK
    <3>2. QED  BY <3>1
  <2> HIDE DEF dead
  <2>1. /\ requests' \in Seq(Request) /\ Len(requests') = n
        /\ \A i \in 1..n : /\ requests'[i].id = requests[i].id
                           /\ ~requests'[i].live
    <3>1. /\ requests' \in [1..n -> Request]
          /\ \A i \in 1..n : requests'[i] = dead(i)
      BY <2>4, <2>5
    <3>2. requests' \in Seq(Request) /\ Len(requests') = n
      BY <2>4, <3>1, SMTT(30)
    <3>3. QED  BY <2>5, <3>1, <3>2, ZenonT(30)
  <2>2. UNCHANGED <<connected, joints, armAt, world, known>>
    BY <1>8 DEF ApplyRaises
  <2>3. asked' \in Ask /\ result' = "none" /\ planPc' = "idle"
    BY <1>8 DEF ApplyRaises, NothingAsked
  <2>6. QED  BY <2>1, <2>2, <2>3
<1>9. ASSUME NEW p \in Location, CheckPath(p) PROVE PlannerInv'
  BY <1>9 DEF CheckPath
<1>10. CASE GoalIsClear  BY <1>10 DEF GoalIsClear, PlanGoes
<1>11. CASE GoalCollides  BY <1>11 DEF GoalCollides, Ends, NothingAsked
<1>12. CASE PathFound  BY <1>12 DEF PathFound, Ends, NothingAsked
<1>13. CASE CheckFails  BY <1>13 DEF CheckFails, Ends, NothingAsked
<1>14. CASE UNCHANGED plannerVars  BY <1>14
<1>15. QED
  BY <1>1, <1>2, <1>3, <1>4, <1>5, <1>6, <1>7, <1>8, <1>9, <1>10, <1>11, <1>12,
     <1>13, <1>14 DEF PlannerNext, AddObstacle, RemoveObstacle

(* No late request of a call that gave up makes check_path find a way       *)
(* through an obstacle that add_obstacle answered for.                      *)
THEOREM Feasible ==
  PlannerInit /\ [][PlannerNext]_plannerVars => FeasibleAvoidsObstacles
PROOF
<1>1. PlannerInit => PlannerInv
  <2> SUFFICES ASSUME PlannerInit PROVE PlannerInv  OBVIOUS
  <2>0. asked \in Ask  BY DEF PlannerInit, NothingAsked, Ask
  <2>1. PlannerTypeOK
    <3>1. requests \in Seq(Request)
      <4>1. requests = <<>>  BY DEF PlannerInit
      <4>2. QED  BY <4>1
    <3>2. /\ world \in [Obstacle -> Location \union {Absent}]
          /\ known \in [Obstacle -> Location \union {Absent}]
      BY DEF PlannerInit
    <3>3. /\ connected \in BOOLEAN /\ armAt \in Location
          /\ joints \in Location \union {Absent}
          /\ planPc = "idle" /\ result = "none"
      BY DEF PlannerInit
    <3>4. QED  BY <2>0, <3>1, <3>2, <3>3 DEF PlannerTypeOK
  <2>2. requests = <<>> /\ \A i \in 1..Len(requests) : FALSE  BY DEF PlannerInit
  <2>3. QED  BY <2>1, <2>2 DEF PlannerInit, PlannerInv, NothingAsked
<1>2. PlannerInv /\ [PlannerNext]_plannerVars =>
        [checked' # checked /\ checked' # NotChecked =>
          \A o \in Obstacle : known[o] \notin Span(checked'.from, checked'.to)]_plannerVars
  <2> SUFFICES ASSUME PlannerInv, PlannerNext, checked' # checked, checked' # NotChecked,
                      NEW o \in Obstacle
               PROVE  known[o] \notin Span(checked'.from, checked'.to)
    BY DEF plannerVars
  <2>1. PathFound
    BY DEF PlannerNext, ArmMoves, OnJointState, Connects, Disconnects, AddObstacle,
           RemoveObstacle, Apply, MoveGroupServes, ListsObstacles, ApplyRaises,
           CheckPath, GoalIsClear, GoalCollides, CheckFails
  <2>2. checked'.from \in Nat /\ checked'.to \in Nat
    BY <2>1, PlannerAssumption DEF PathFound, PlannerInv, PlannerTypeOK
  <2>3. \A p \in Span(checked'.from, checked'.to) : p \in Nat /\ ~Taken(p)
    BY <2>1, <2>2 DEF PathFound, Span
  <2>4. known[o] # Absent => Taken(known[o])
    BY DEF PlannerInv, Taken
  <2>5. QED  BY <2>3, <2>4 DEF Absent
<1>3. QED  BY <1>1, <1>2, PlannerStep, PTL DEF FeasibleAvoidsObstacles

-----------------------------------------------------------------------------
(* The objects: whatever is kept about one, by the buffer or by the tool,   *)
(* names an image that was taken and a time that the path of the arm knows. *)
Known(x) == x.stamp \in 1..now /\ x.cap \in 1..now
Tf == [stamp : Nat, cap : Nat, spot : Nat]
Found == [pos : Int, stamp : Nat, cap : Nat, spot : Nat]

(* A place that was found: the object's, as far as the arm stood still.     *)
Caused(x) ==
  x # NotFound => Known(x) /\ x.pos = path[x.stamp] + (x.spot - path[x.cap])

ApproachInv ==
  /\ now \in Nat \ {0} /\ path \in Seq(Spot) /\ Len(path) = now
  /\ shot.cap \in 0..now
  /\ shot # NoShot => shot.cap # 0 /\ \A i \in DOMAIN shot.seen : shot.seen[i] \in Nat
  /\ frames \in [Frame -> Tf]
  /\ \A f \in Frame : frames[f] # NoTf => Known(frames[f])
  /\ todo \subseteq Frame /\ \A f \in todo : frames[f] # NoTf
  /\ best \in Found /\ found \in Found /\ Caused(best) /\ Caused(found)

LEMMA PathIsNat ==
  ASSUME ApproachInv
  PROVE  \A t \in 1..now : path[t] \in Nat
PROOF
<1>1. Spot \subseteq Nat  BY ApproachAssumption
<1>2. path \in Seq(Spot) /\ Len(path) = now  BY DEF ApproachInv
<1>3. ASSUME NEW t \in 1..now PROVE path[t] \in Spot  BY <1>2
<1>4. QED  BY <1>1, <1>3

LEMMA ApproachStep ==
  ASSUME ApproachInv, [ApproachNext]_approachVars
  PROVE  ApproachInv'
PROOF
<1> USE ApproachAssumption DEF ApproachInv, Known, Caused, approachVars, scene, seeing,
        finding
<1>1. CASE ApproachTick
  <2>1. PICK p \in Spot : path' = Append(path, p)  BY <1>1 DEF ApproachTick
  <2>2. now' = now + 1 /\ UNCHANGED <<shot, frames, todo, best, found>>
    BY <1>1 DEF ApproachTick
  <2>3. path' \in Seq(Spot) /\ Len(path') = now' /\ \A t \in 1..now : path'[t] = path[t]
    BY <2>1, <2>2
  <2>4. QED  BY <2>2, <2>3, SMTT(30)
<1>2. CASE CameraReads
  <2>1. PICK n \in 1..MaxSeen : \E s \in [1..n -> Spot] : shot' = [cap |-> now, seen |-> s]
    BY <1>2 DEF CameraReads
  <2>2. UNCHANGED <<now, path, frames, todo, best, found>>  BY <1>2 DEF CameraReads
  <2>3. PICK s \in [1..n -> Spot] : shot' = [cap |-> now, seen |-> s]  BY <2>1
  <2>4. shot'.cap = now /\ shot'.seen = s  BY <2>3
  <2>5. \A i \in DOMAIN shot'.seen : shot'.seen[i] \in Nat  BY <2>4
  <2>6. QED  BY <2>2, <2>4, <2>5
<1>3. CASE PublishObjectTfs
  <2>1. PICK deep \in SUBSET (DOMAIN shot.seen) :
          frames' = [f \in Frame |->
            IF f \in deep THEN [stamp |-> now, cap |-> shot.cap, spot |-> shot.seen[f]]
                          ELSE frames[f]]
    BY <1>3 DEF PublishObjectTfs
  <2>2. shot # NoShot /\ shot' = NoShot /\ UNCHANGED <<now, path, todo, best, found>>
    BY <1>3 DEF PublishObjectTfs
  <2>3. ASSUME NEW f \in deep
        PROVE  LET tf == [stamp |-> now, cap |-> shot.cap, spot |-> shot.seen[f]]
               IN  tf \in Tf /\ tf # NoTf /\ Known(tf)
    BY <2>2 DEF Tf, NoTf
  <2>4. frames' \in [Frame -> Tf]  BY <2>1, <2>3
  <2>5. \A f \in Frame : frames'[f] = frames[f] \/ (frames'[f] # NoTf /\ Known(frames'[f]))
    BY <2>1, <2>3
  <2>6. shot'.cap = 0  BY <2>2 DEF NoShot
  <2>7. \A f \in Frame : frames'[f] # NoTf => Known(frames'[f])  BY <2>5
  <2>8. \A f \in todo : frames'[f] # NoTf  BY <2>5
  <2>9. Caused(best)' /\ Caused(found)'  BY <2>2
  <2>10. (\A f \in Frame : frames[f] # NoTf => Known(frames[f]))'  BY <2>2, <2>7
  <2> HIDE DEF Known, Caused
  <2>11. QED  BY <2>2, <2>4, <2>6, <2>8, <2>9, <2>10
<1>4. CASE FindObject \/ FindTimesOut
  <2>1. /\ best' \in {best, NotFound}
        /\ UNCHANGED <<now, path, shot, frames, todo, found>>
    BY <1>4 DEF FindObject, FindTimesOut
  <2>2. NotFound \in Found  BY DEF NotFound, Found
  <2>3. QED  BY <2>1, <2>2
<1>5. CASE SeesMatches  BY <1>5 DEF SeesMatches, Matches
<1>6. ASSUME NEW f \in todo, LooksUp(f) PROVE ApproachInv'
  <2> DEFINE tf == frames[f]
             new == [pos |-> InBase(tf), stamp |-> tf.stamp, cap |-> tf.cap, spot |-> tf.spot]
  <2>1. /\ best' \in {best, new} /\ todo' = todo \ {f}
        /\ UNCHANGED <<now, path, shot, frames, found>>
    BY <1>6 DEF LooksUp
  <2>2. tf \in Tf /\ Known(tf)  OBVIOUS
  <2>3. path[tf.stamp] \in Nat /\ path[tf.cap] \in Nat  BY <2>2, PathIsNat
  <2>4. InBase(tf) = path[tf.stamp] + (tf.spot - path[tf.cap])  BY DEF InBase, Offset
  <2>5. InBase(tf) \in Int  BY <2>2, <2>3, <2>4 DEF Tf
  <2>6. new \in Found /\ Caused(new)  BY <2>2, <2>4, <2>5 DEF Tf, Found
  <2> HIDE DEF new, tf
  <2>7. QED  BY <2>1, <2>6
<1>7. CASE Approaches  BY <1>7 DEF Approaches, NotFound, Found
<1>8. CASE UNCHANGED approachVars  BY <1>8
<1>9. QED
  BY <1>1, <1>2, <1>3, <1>4, <1>5, <1>6, <1>7, <1>8 DEF ApproachNext

(* However the arm and the objects move, and however many images are taken  *)
(* while the tool looks, the place the arm is sent to is where an object    *)
(* was, or the arm moved between its image and the stamp of its transform.  *)
THEOREM FoundIsCaused == ApproachInit /\ [][ApproachNext]_approachVars => []FoundHasACause
PROOF
<1>1. ApproachInit => ApproachInv
  <2> SUFFICES ASSUME ApproachInit PROVE ApproachInv  OBVIOUS
  <2>1. PICK p \in Spot : path = <<p>>  BY DEF ApproachInit
  <2>2. path \in Seq(Spot) /\ Len(path) = 1  BY <2>1
  <2>3. NotFound \in Found /\ NoTf \in Tf /\ NoShot.cap = 0
    BY DEF NotFound, Found, NoTf, Tf, NoShot
  <2>4. QED  BY <2>2, <2>3 DEF ApproachInit, ApproachInv, Caused
<1>2. ApproachInv => FoundHasACause
  <2> SUFFICES ASSUME ApproachInv, found # NotFound, path[found.cap] = path[found.stamp]
               PROVE  found.pos = found.spot
    BY DEF FoundHasACause
  <2>1. found.pos = path[found.stamp] + (found.spot - path[found.cap])
    BY DEF ApproachInv, Caused
  <2>2. found.stamp \in 1..Len(path) /\ found.cap \in 1..Len(path) /\ found.spot \in Nat
    BY DEF ApproachInv, Caused, Known, Found
  <2>3. path[found.stamp] \in Nat
    BY <2>2, PathIsNat DEF ApproachInv
  <2>4. QED  BY <2>1, <2>2, <2>3
<1>3. QED  BY <1>1, <1>2, ApproachStep, PTL
=============================================================================
