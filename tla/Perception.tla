----------------------------- MODULE Perception -----------------------------
(***************************************************************************)
(* From the camera to the arm: whoever owns the RealSense publishes what   *)
(* it sees on /vision/hands, safety_stop_demo.py stops the arm, and the    *)
(* server's track tool turns it towards the same hand.                     *)
(*                                                                         *)
(* A camera has one owner (pyrealsense2 fails to open it otherwise): the   *)
(* detection service, which vision_bridge_node.py and track ask over HTTP, *)
(* realsense_vision_node.py, or one of the demos with --ros2.  An image is *)
(* "hand" or "empty".  A read, a request or a start that fails changes     *)
(* nothing here and is no action.                                          *)
(***************************************************************************)
EXTENDS Naturals, Sequences

CONSTANTS Depth,     (* the history depth of the topic                     *)
          Cooldown,  (* cooldown_s, in ticks                               *)
          Duration   (* duration_s of track, in ticks                      *)

ASSUME PerceptionAssumption == {Depth, Cooldown, Duration} \subseteq Nat \ {0}

Demo == {"live_demo", "live_demo_rtdetr"}
Publisher == {"bridge", "node"} \union Demo

VARIABLES
  hand,     (* is there a hand in front of the camera                      *)
  camera,   (* who owns it: "free", "service" or a publisher               *)
  image,    (* what a publisher has seen and not published yet             *)
  topic,    (* /vision/hands: does each message hold a hand                *)
  since,    (* now - _last_stop_t, in ticks, as far as the cool-down       *)
  safety,   (* safety_stop_demo: "up", inside stop(), or dead              *)
  arm,      (* "still", or who moves it: "track", or "other" tools         *)
  trackPc,  (* where the track tool is                                     *)
  left      (* deadline - now, in ticks                                    *)

viewing == <<camera, image, topic>>
stopping == <<since, safety>>
tracking == <<trackPc, left>>
vars == <<hand, viewing, stopping, arm, tracking>>

(* time.monotonic() counts from boot and _last_stop_t from 0: how long ago  *)
(* the last stop seems to be when the node starts is open.                  *)
Init ==
  /\ hand \in BOOLEAN
  /\ camera = "free" /\ image = [p \in Publisher |-> "none"] /\ topic = <<>>
  /\ since \in 0..Cooldown /\ safety = "up"
  /\ arm = "still"
  /\ trackPc = "idle" /\ left = 0

HandMoves == hand' = ~hand /\ UNCHANGED <<viewing, stopping, arm, tracking>>
Tick ==
  /\ since' = IF since < Cooldown THEN since + 1 ELSE since
  /\ left' = IF left > 0 THEN left - 1 ELSE 0
  /\ UNCHANGED <<hand, viewing, safety, arm, trackPc>>

-----------------------------------------------------------------------------
(* The publishers.                                                          *)

Seen == IF hand THEN "hand" ELSE "empty"
Reads(p, owner) ==
  /\ image[p] = "none"
  /\ image' = [image EXCEPT ![p] = Seen]
  /\ camera' = owner
  /\ UNCHANGED <<hand, topic, stopping, arm, tracking>>
Opens(p) ==
  /\ camera = "free" /\ camera' = p
  /\ UNCHANGED <<hand, image, topic, stopping, arm, tracking>>
Releases(p) ==
  /\ camera = p /\ (p \in Publisher => image[p] = "none")
  /\ camera' = "free"
  /\ UNCHANGED <<hand, image, topic, stopping, arm, tracking>>

(* The service opens the camera at the first request and keeps it. *)
ServiceHasCamera == camera \in {"free", "service"}
BridgePolls == ServiceHasCamera /\ Reads("bridge", "service")
ServiceEnds == Releases("service")

NodeStarts == Opens("node")
NodeTicks == camera = "node" /\ Reads("node", "node")
NodeEnds == Releases("node")

(* The demo ends at a failed read or at q; it publishes in its loop.        *)
DemoOpens(d) == Opens(d)
DemoReads(d) == camera = d /\ Reads(d, d)
DemoEnds(d) == Releases(d)
LiveDemo ==
  DemoOpens("live_demo") \/ DemoReads("live_demo") \/ DemoEnds("live_demo")
RtdetrDemo == \/ DemoOpens("live_demo_rtdetr") \/ DemoReads("live_demo_rtdetr")
              \/ DemoEnds("live_demo_rtdetr")

(* build_hands_msg and publish; a full history drops its oldest message. *)
HandsMsg(p) == image[p] = "hand"
Publishes(p) ==
  /\ image[p] # "none"
  /\ topic' = Append(IF Len(topic) < Depth THEN topic ELSE Tail(topic), HandsMsg(p))
  /\ image' = [image EXCEPT ![p] = "none"]
  /\ UNCHANGED <<hand, camera, stopping, arm, tracking>>

Vision == \/ BridgePolls \/ ServiceEnds \/ NodeStarts \/ NodeTicks \/ NodeEnds
          \/ LiveDemo \/ RtdetrDemo \/ \E p \in Publisher : Publishes(p)
SomeoneReads == BridgePolls \/ NodeTicks \/ \E d \in Demo : DemoReads(d)

-----------------------------------------------------------------------------
(* safety_stop_demo.py: one executor thread, which stop() blocks.           *)

Ready == since = Cooldown
(* Mutant: a hand in the frame starts the cool-down anew. *)
SinceLastHand == 0
(* _last_stop_t is left alone in the cool-down. *)
SinceLastStop == since

OnHands ==
  /\ safety = "up" /\ topic # <<>>
  /\ topic' = Tail(topic)
  /\ \/ /\ Head(topic) /\ Ready
        /\ since' = 0 /\ safety' = "stop"
     \/ /\ Head(topic) /\ ~Ready
        /\ since' = SinceLastStop /\ UNCHANGED safety
     \/ /\ ~Head(topic)
        /\ UNCHANGED stopping
  /\ UNCHANGED <<hand, camera, image, arm, tracking>>
(* URClient.stop: the stopj is uploaded ... *)
StopUploads ==
  /\ safety = "stop" /\ safety' = "read"
  /\ arm' = "still"
  /\ UNCHANGED <<hand, viewing, since, tracking>>
(* ... and the state read. *)
StopReturns ==
  /\ safety = "read" /\ safety' = "up"
  /\ UNCHANGED <<hand, viewing, since, arm, tracking>>
(* Neither is caught: the exception leaves rclpy.spin and the node is gone. *)
(* So it is when the state never arrives (_rtde_recv, ur_client.py:429).    *)
StopRaises ==
  /\ safety \in {"stop", "read"} /\ safety' = "dead"
  /\ UNCHANGED <<hand, viewing, since, arm, tracking>>
SafetyNode == OnHands \/ StopUploads \/ StopReturns \/ StopRaises

-----------------------------------------------------------------------------
(* The arm and the track tool.  Other commands may move the arm at any time *)
(* (MotionServer); what is uploaded last runs.                              *)

OtherMoves ==
  /\ arm' = "other"
  /\ UNCHANGED <<hand, viewing, stopping, tracking>>
OtherArrives ==
  /\ arm = "other" /\ arm' = "still"
  /\ UNCHANGED <<hand, viewing, stopping, tracking>>

TrackGoes(from, to) ==
  /\ trackPc = from /\ trackPc' = to
  /\ UNCHANGED <<hand, stopping>>
TrackBegins ==
  /\ TrackGoes("idle", "poll")
  /\ left' = Duration
  /\ UNCHANGED <<viewing, arm>>
(* _call_vision_api: a hand is aimed at; without one, or without the        *)
(* service, the tool sleeps and polls again.                                *)
TrackPolls ==
  /\ left > 0
  /\ \/ /\ ServiceHasCamera /\ camera' = "service"
        /\ TrackGoes("poll", IF hand THEN "aim" ELSE "sleep")
     \/ TrackGoes("poll", "sleep") /\ UNCHANGED camera
  /\ UNCHANGED <<image, topic, arm, left>>
(* move_joint: unless the target is outside the limit, or it raises.        *)
TrackAims ==
  /\ TrackGoes("aim", "move")
  /\ arm' = "track"
  /\ UNCHANGED <<viewing, left>>
TrackSkips ==
  /\ TrackGoes("aim", "sleep") /\ UNCHANGED <<viewing, arm, left>>
(* It returns when the arm is near where it should be: brought there by its *)
(* own motion, also one that was stopped just short of it, or by another.   *)
TrackArrives ==
  /\ TrackGoes("move", "sleep")
  /\ arm' = IF arm = "track" THEN "still" ELSE arm
  /\ UNCHANGED <<viewing, left>>

(* A move that raises ends the tool. *)
TrackRaises ==
  /\ TrackGoes("aim", "idle") \/ TrackGoes("move", "idle")
  /\ left' = 0
  /\ UNCHANGED <<viewing, arm>>
TrackWakes ==
  /\ TrackGoes("sleep", "poll") /\ UNCHANGED <<viewing, arm, left>>
TrackEnds ==
  /\ left = 0 /\ TrackGoes("poll", "idle")
  /\ UNCHANGED <<viewing, arm, left>>

TrackStep == \/ TrackPolls \/ TrackAims \/ TrackSkips \/ TrackArrives
             \/ TrackRaises \/ TrackWakes \/ TrackEnds

Next == \/ HandMoves \/ Tick \/ Vision \/ SafetyNode
        \/ OtherMoves \/ OtherArrives \/ TrackBegins \/ TrackStep

(* Time passes, what was seen is published, and the node's callbacks run.   *)
(* Nothing is assumed of the hand, of the camera and of whoever moves.      *)
Spec ==
  /\ Init /\ [][Next]_vars
  /\ WF_vars(Tick) /\ WF_vars(SafetyNode)
  /\ \A p \in Publisher : WF_vars(Publishes(p))

-----------------------------------------------------------------------------
(* As long as somebody goes on reading the camera, no motion outlasts a     *)
(* hand that stays in front of it: the arm stops, in the cool-down, or soon *)
(* after it, whatever has been dropped until then.  The one way out is a    *)
(* stop() that raises or hangs, which is the end of the node                *)
(* (safety_stop_demo.py:52-60).                                             *)
HandStopsArm ==
  []<><<SomeoneReads>>_vars =>
    ((arm # "still" /\ hand) ~> (arm = "still" \/ ~hand \/ safety = "dead"))
=============================================================================
