----------------------------- MODULE Ros2Context -----------------------------
(***************************************************************************)
(* The ROS2 nodes of a server process with UR_BACKEND=ros2: the robot      *)
(* client (ros2_ur_driver/ros2_client.py), connected before the first tool *)
(* call, and those that tools bring up when they need them: the motion     *)
(* planner and the TF lookup (case1/motion_planner.py, vision_tf.py).      *)
(* Each has a thread that spins it; all share the one context of rclpy,    *)
(* and each takes itself down in an atexit hook, the last one first.       *)
(***************************************************************************)
EXTENDS Naturals, Sequences

CONSTANTS Robot,  (* the robot client                                      *)
          Lazy,   (* the others                                            *)
          Blind   (* of them, whose loop looks at its own flag only        *)

ASSUME LazyAssumption == Robot \notin Lazy /\ Blind \subseteq Lazy
User == {Robot} \union Lazy

VARIABLES
  ok,       (* rclpy.ok()                                                  *)
  node,     (* the _node of each: none, connecting, up, or being taken     *)
            (* down                                                        *)
  spins,    (* its _spin_thread is in its loop                             *)
  hooks,    (* the registered disconnects                                  *)
  exiting   (* the interpreter runs the hooks                              *)

contextVars == <<ok, node, spins, hooks, exiting>>

ContextInit ==
  /\ ok = FALSE /\ node = [u \in User |-> "none"] /\ spins = [u \in User |-> FALSE]
  /\ hooks = <<>> /\ exiting = FALSE

(* Tools run one at a time, and none while the interpreter exits. *)
Calm == \A u \in User : node[u] \in {"none", "up"}
NodeGoes(u, from, to) == node[u] = from /\ node' = [node EXCEPT ![u] = to]

(* rclpy.init if nobody has, the node, and its thread. *)
Connect(u) ==
  /\ Calm /\ ~exiting /\ (u # Robot => node[Robot] = "up")
  /\ NodeGoes(u, "none", "connecting")
  /\ ok' = TRUE /\ spins' = [spins EXCEPT ![u] = TRUE]
  /\ UNCHANGED <<hooks, exiting>>
(* State and services are there. *)
ConnectReturns(u) ==
  /\ NodeGoes(u, "connecting", "up")
  /\ hooks' = Append(hooks, u)
  /\ UNCHANGED <<ok, spins, exiting>>
(* Something is missing: disconnect, then ConnectionError.  A tool reports  *)
(* it, and its next call starts anew; without a robot the program ends.     *)
ConnectRaises(u) ==
  /\ NodeGoes(u, "connecting", "leaving")
  /\ exiting' = (u = Robot)
  /\ UNCHANGED <<ok, spins, hooks>>

(* The loop sees its flag, or the context, or the thread pool below it      *)
(* shuts down early in the exit.  VisionTF has no pool and asks only for    *)
(* its flag.                                                                *)
SpinEnds(u) ==
  /\ spins[u]
  /\ node[u] \in {"leaving", "none"} \/ (u \notin Blind /\ (~ok \/ exiting))
  /\ spins' = [spins EXCEPT ![u] = FALSE]
  /\ UNCHANGED <<ok, node, hooks, exiting>>

(* Mutant: whoever is taken down shuts rclpy down. *)
EveryoneShutsDown(u) == FALSE
RobotShutsDown(u) == IF u = Robot THEN FALSE ELSE ok
(* The thread is joined first, but join waits for two seconds only: a       *)
(* callback that takes longer leaves the thread behind.                     *)
Disconnect(u) ==
  /\ NodeGoes(u, "leaving", "none")
  /\ ok' = RobotShutsDown(u)
  /\ UNCHANGED <<spins, hooks, exiting>>

(* The program ends. *)
Exit ==
  /\ Calm /\ ~exiting /\ exiting' = TRUE
  /\ UNCHANGED <<ok, node, spins, hooks>>
RunsHook ==
  /\ exiting /\ Calm /\ hooks # <<>>
  /\ LET u == hooks[Len(hooks)] IN NodeGoes(u, "up", "leaving")
  /\ hooks' = SubSeq(hooks, 1, Len(hooks) - 1)
  /\ UNCHANGED <<ok, spins, exiting>>

ContextNext ==
  \/ \E u \in User : \/ Connect(u) \/ ConnectReturns(u) \/ ConnectRaises(u)
                     \/ SpinEnds(u) \/ Disconnect(u)
  \/ Exit \/ RunsHook

-----------------------------------------------------------------------------
(* The context outlives every node: rclpy is up while one connects, serves, *)
(* or is being taken down.  A planner that finds no move_group, or leaves   *)
(* at the exit, does not pull it away from under the robot client           *)
(* (motion_planner.py:137-142).  Nothing is said of the thread of a node    *)
(* that is gone.                                                            *)
ContextOutlivesNodes == \A u \in User : node[u] # "none" => ok
=============================================================================
