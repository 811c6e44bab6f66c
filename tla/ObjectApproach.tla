--------------------------- MODULE ObjectApproach ---------------------------
(***************************************************************************)
(* From a detected object to the place the arm is sent to:                 *)
(* realsense_vision_node.py (or a demo) takes an image with the camera on  *)
(* the flange, detects, stamps and broadcasts one transform per object;    *)
(* case1/vision_tf.py looks it up in the base frame for the server's       *)
(* move_robot_to_object.  Meanwhile the arm and the objects move.          *)
(*                                                                         *)
(* Space is a line: the arm and each object have a place on it, and the    *)
(* camera sees the difference.  The tf2 buffer is external: it has the     *)
(* arm's whole path of the last Cache ticks and of every object frame the  *)
(* last transform, for ever; a frame resolves at its own stamp.            *)
(***************************************************************************)
EXTENDS Integers, Sequences

CONSTANTS Spot,      (* the places of the arm and of the objects           *)
          MaxSeen,   (* how many objects of one class an image holds       *)
          Cache,     (* the length of the tf2 buffer, in ticks             *)
          Patience,  (* timeout_s of find_object, in ticks                 *)
          MaxNow     (* bound: the ticks of a behaviour                    *)

ASSUME ApproachAssumption ==
  /\ Spot \subseteq Nat /\ {MaxSeen, Cache, Patience, MaxNow} \subseteq Nat

Frame == 1..MaxSeen   (* object_apple1, object_apple2, ... *)
NoShot == [cap |-> 0, seen |-> <<>>]
NoTf == [stamp |-> 0, cap |-> 0, spot |-> 0]
NotFound == [pos |-> -1, stamp |-> 0, cap |-> 0, spot |-> 0]

VARIABLES
  now,      (* the time, from 1                                            *)
  path,     (* path[t]: where the arm was at time t                        *)
  shot,     (* the image being detected: when it was taken, what it shows  *)
  frames,   (* the last transform of each frame: its stamp, and the image  *)
            (* and the object it is of                                     *)
  findPc,   (* where the tool is                                           *)
  deadline, (* of find_object                                              *)
  todo,     (* the matching frames still to look up                        *)
  best,     (* the nearest so far, and the result                          *)
  found     (* history: the last result                                    *)

scene == <<now, path>>
seeing == <<shot, frames>>
finding == <<findPc, deadline, todo, best>>
approachVars == <<scene, seeing, finding, found>>

ApproachInit ==
  /\ now = 1 /\ path \in {<<p>> : p \in Spot}
  /\ shot = NoShot /\ frames = [f \in Frame |-> NoTf]
  /\ findPc = "idle" /\ deadline = 0 /\ todo = {} /\ best = NotFound
  /\ found = NotFound

(* Time passes, and the arm is where its commands took it meanwhile. *)
ApproachTick ==
  /\ now < MaxNow /\ now' = now + 1
  /\ \E p \in Spot : path' = Append(path, p)
  /\ UNCHANGED <<seeing, finding, found>>

-----------------------------------------------------------------------------
(* _tick: the image; then detection, the stamp, and a transform for each    *)
(* object that has a depth.  serialize_detections numbers the objects of an *)
(* image anew, as the detector happens to list them; the objects, which     *)
(* move as they like, are wherever the image shows them.                    *)

CameraReads ==
  /\ shot = NoShot
  /\ \E n \in 1..MaxSeen : \E s \in [1..n -> Spot] :
       /\ \A i, j \in 1..n : s[i] = s[j] => i = j
       /\ shot' = [cap |-> now, seen |-> s]
  /\ UNCHANGED <<scene, frames, finding, found>>
PublishObjectTfs ==
  /\ shot # NoShot
  /\ \E deep \in SUBSET (DOMAIN shot.seen) :
       frames' = [f \in Frame |->
         IF f \in deep THEN [stamp |-> now, cap |-> shot.cap, spot |-> shot.seen[f]]
                       ELSE frames[f]]
  /\ shot' = NoShot
  /\ UNCHANGED <<scene, finding, found>>

-----------------------------------------------------------------------------
(* find_object, on the tool's thread; the buffer goes on filling.           *)

Offset(tf) == tf.spot - path[tf.cap]
(* Mutant: the offset is added to where the arm is now. *)
AtPresent(tf) == path[now] + Offset(tf)
(* lookup_transform at the latest time all links have: the frame's stamp.   *)
InBase(tf) == path[tf.stamp] + Offset(tf)

(* The arm's links are still known at that time; else an exception, and the *)
(* frame is skipped.                                                        *)
Resolves(tf) == now - tf.stamp <= Cache

(* all_frames_as_yaml names every frame the buffer has, in an order of its  *)
(* own.                                                                     *)
Matches == {f \in Frame : frames[f] # NoTf}
Magnitude(x) == IF x < 0 THEN -x ELSE x

FindObject ==
  /\ findPc = "idle" /\ findPc' = "search"
  /\ deadline' = now + Patience /\ best' = NotFound
  /\ UNCHANGED <<scene, seeing, todo, found>>
SeesMatches ==
  /\ findPc = "search" /\ now < deadline /\ Matches # {}
  /\ findPc' = "lookup" /\ todo' = Matches
  /\ UNCHANGED <<scene, seeing, deadline, best, found>>
FindTimesOut ==
  /\ findPc = "search" /\ now >= deadline
  /\ findPc' = "idle" /\ deadline' = 0
  /\ UNCHANGED <<scene, seeing, todo, best, found>>
LooksUp(f) ==
  LET tf == frames[f] IN
  /\ findPc = "lookup"
  /\ todo' = todo \ {f}
  /\ best' = IF /\ Resolves(tf)
                /\ best = NotFound \/ Magnitude(InBase(tf)) < Magnitude(best.pos)
             THEN [pos |-> InBase(tf), stamp |-> tf.stamp, cap |-> tf.cap, spot |-> tf.spot]
             ELSE best
  /\ UNCHANGED <<scene, seeing, findPc, deadline, found>>
(* Nothing resolved: it raises, although another image might come in time.  *)
(* Otherwise move_robot_to_object goes towards the position.                *)
Approaches ==
  /\ findPc = "lookup" /\ todo = {}
  /\ findPc' = "idle" /\ deadline' = 0 /\ best' = NotFound
  /\ found' = best
  /\ UNCHANGED <<scene, seeing, todo>>

ApproachNext == \/ ApproachTick \/ CameraReads \/ PublishObjectTfs
                \/ FindObject \/ SeesMatches \/ FindTimesOut \/ Approaches
                \/ \E f \in todo : LooksUp(f)

-----------------------------------------------------------------------------
(* Whatever moves meanwhile, and however old the transform is, the position *)
(* the arm is sent to is where an object was when its image was taken; if   *)
(* it is not, the arm moved between the image and the stamp, which is given *)
(* after the detection (vision_tf.py:148, realsense_vision_node.py:170).    *)
FoundHasACause ==
  found # NotFound /\ found.pos # found.spot => path[found.cap] # path[found.stamp]
=============================================================================
