--------------------------- MODULE VisionService ---------------------------
(***************************************************************************)
(* The human detection service (vision_human_track/src): api.py with its   *)
(* one camera and its one tracker, shared by requests that run at once.    *)
(* /detect/live is a plain def and runs in the thread pool, /detect/image  *)
(* is async and runs on the event loop; only the camera has a lock.        *)
(*                                                                         *)
(* An image is the sequence of the places people stand at, in the order    *)
(* the pose model (external) lists them, each with one hand.  Threads are  *)
(* switched where CPython does it: at calls and at the end of loop bodies. *)
(* A scan of the tracks for the nearest is taken as one step.              *)
(***************************************************************************)
EXTENDS Naturals, Sequences, FiniteSets

CONSTANTS Request,    (* the threads that serve requests                   *)
          Index,      (* the camera indices asked for                      *)
          Views,      (* what an image may show: sequences of places       *)
          Threshold,  (* TRACK_MATCH_THRESHOLD, in places                  *)
          MaxMisses,  (* TRACK_MAX_MISSES                                  *)
          MaxFrames,  (* bound: frames read since the service started      *)
          MaxTracks   (* bound: tracks made since it started               *)

ASSUME VisionAssumption ==
  /\ Threshold \in Nat \ {0} /\ {MaxMisses, MaxFrames, MaxTracks} \subseteq Nat
  /\ Views \subseteq Seq(Nat)

Place == UNION {{v[i] : i \in 1..Len(v)} : v \in Views}
Dist(a, b) == IF a < b THEN b - a ELSE a - b
Idle == [pc |-> "idle", view |-> <<>>, camera |-> "none", frame |-> 0,
         ids |-> <<>>, used |-> {}, best |-> 0, depths |-> {}]

VARIABLES
  backend,  (* CAMERA_BACKEND, fixed when the service starts               *)
  camera,   (* _camera and _camera_index: is there one, is it open, which, *)
            (* and the frame number of its last_depth_frame                *)
  frames,   (* the number of frames read                                   *)
  req,      (* what each thread is doing                                   *)
  track,    (* every _Track ever made: its id, place and misses            *)
  live,     (* _tracks, as indices into track: it is in the order they     *)
            (* were made in                                                *)
  nextId,   (* _next_id                                                    *)
  raced,    (* history: two calls were inside _assign_ids at once          *)
  known,    (* history: the id last given to somebody at a place, or 0     *)
  away      (* history: detections since then that saw others only         *)

tracker == <<track, live, nextId>>
history == <<raced, known, away>>
vars == <<backend, camera, frames, req, tracker, history>>

NoCamera == [set |-> FALSE, open |-> FALSE, index |-> "none", depth |-> 0]

(* _load_models: a new process has new ids, no tracks and no camera. *)
Starts ==
  /\ camera' = NoCamera /\ frames' = 0
  /\ track' = <<>> /\ live' = {} /\ nextId' = 1
  /\ raced' = FALSE
  /\ known' = [p \in Place |-> 0] /\ away' = [p \in Place |-> 0]
Init ==
  /\ backend \in {"cv2", "realsense"}
  /\ camera = NoCamera /\ frames = 0
  /\ req = [r \in Request |-> Idle]
  /\ track = <<>> /\ live = {} /\ nextId = 1
  /\ raced = FALSE
  /\ known = [p \in Place |-> 0] /\ away = [p \in Place |-> 0]

(* _unload_models once the requests are answered, and a new process. *)
Restarts ==
  /\ \A r \in Request : req[r] = Idle
  /\ Starts
  /\ UNCHANGED <<backend, req>>

Goes(r, from, to) == req[r].pc = from /\ req' = [req EXCEPT ![r].pc = to]
Becomes(r, x) == req' = [req EXCEPT ![r] = x]

-----------------------------------------------------------------------------
(* The camera.  What its driver does is external: an open may fail, a read  *)
(* may, and an open cv2 camera may report itself closed.                    *)

(* A RealSense is kept for ever; a cv2 camera if it is open on this index.  *)
Reusable(i) ==
  camera.set /\ (backend = "cv2" => camera.index = i /\ camera.open)

(* Mutant: the depth frame is kept from the first read on. *)
FirstDepth(n) == IF camera.depth = 0 THEN n ELSE camera.depth
(* self.last_depth_frame = frames.get_depth_frame() *)
LastDepth(n) == n

(* Bounds: the frames, and the tracks that those being served may still     *)
(* make; and nothing new is asked after a race, of which no property speaks. *)
Bounded ==
  /\ frames < MaxFrames /\ ~raced
  /\ nextId + 2 + 2 * Cardinality({r \in Request : req[r] # Idle}) <= MaxTracks + 1

(* detect_live up to its frame, in one critical section of _camera_lock.    *)
(* Reads on whichever camera _get_camera_locked returns.                    *)
ReadsFrom(r, i, on) ==
  /\ frames' = frames + 1
  /\ camera' = [on EXCEPT !.depth = LastDepth(frames + 1)]
  /\ \E v \in Views :
       Becomes(r, [Idle EXCEPT !.pc = "detect", !.view = v, !.frame = frames + 1,
                               !.camera = IF on.index = i THEN "asked" ELSE "other"])
  /\ UNCHANGED <<backend, tracker, history>>
DetectLive(r, i) ==
  /\ req[r] = Idle /\ Bounded
  /\ \/ Reusable(i) /\ ReadsFrom(r, i, camera)
     \/ /\ backend = "cv2" \/ ~camera.set
        /\ ReadsFrom(r, i, [NoCamera EXCEPT !.set = TRUE, !.open = TRUE, !.index = i])
(* 503: the open fails, and a cv2 camera that was there has been released;  *)
(* or the read fails, on a camera that is there now.                        *)
LiveFails(r, i) ==
  /\ req[r] = Idle
  /\ \/ /\ backend = "cv2" /\ camera.set
        /\ camera' = [camera EXCEPT !.open = FALSE]
     \/ /\ backend = "cv2" \/ ~camera.set
        /\ camera' = [NoCamera EXCEPT !.set = TRUE, !.open = TRUE, !.index = i]
  /\ UNCHANGED <<backend, frames, req, tracker, history>>

(* detect_image: an uploaded image needs no camera. *)
DetectImage(r) ==
  /\ req[r] = Idle /\ Bounded
  /\ \E v \in Views : Becomes(r, [Idle EXCEPT !.pc = "detect", !.view = v])
  /\ UNCHANGED <<backend, camera, frames, tracker, history>>

-----------------------------------------------------------------------------
(* _assign_ids, called by detect when there is anybody in the image.        *)

InTracker(r) == req[r].pc \in {"scan", "claim", "register", "age", "drop"}
Here(r) == req[r].view[Len(req[r].ids) + 1]

Detects(r) ==
  /\ Goes(r, "detect", IF req[r].view = <<>> THEN "measure" ELSE "scan")
  /\ raced' = (raced \/ (req[r].view # <<>> /\ \E o \in Request \ {r} : InTracker(o)))
  /\ UNCHANGED <<backend, camera, frames, tracker, known, away>>

(* Mutant: a track may be claimed by two people of one image. *)
AnyTrack(r) == live
(* if id(t) in used_tracks: continue *)
Unclaimed(r) == live \ req[r].used
(* The nearest unclaimed track within the threshold, the first of equals. *)
Nearest(r) ==
  LET d(t) == Dist(track[t].place, Here(r)) IN
  {t \in Unclaimed(r) :
     /\ d(t) < Threshold
     /\ \A u \in Unclaimed(r) : d(t) < d(u) \/ (d(t) = d(u) /\ t <= u)}

Scans(r) ==
  /\ req[r].pc = "scan"
  /\ IF Nearest(r) # {}
     THEN \E t \in Nearest(r) :
            Becomes(r, [req[r] EXCEPT !.pc = "claim", !.best = t])
     ELSE Becomes(r, [req[r] EXCEPT !.pc = "register", !.best = nextId])
  /\ UNCHANGED <<backend, camera, frames, tracker, history>>

(* The next of the image, or the end of the loop. *)
Assigned(r, id, t) ==
  LET x == req[r] IN
  Becomes(r, [x EXCEPT !.ids = Append(@, id), !.used = @ \union {t}, !.best = 0,
                       !.pc = IF Len(x.ids) + 1 = Len(x.view) THEN "age" ELSE "scan"])

(* Mutant: a track that is seen again keeps its misses. *)
SeenAgain(r, t) == [t EXCEPT !.place = Here(r)]
Refreshed(r, t) == [t EXCEPT !.place = Here(r), !.misses = 0]
Claims(r) ==
  LET t == req[r].best IN
  /\ req[r].pc = "claim"
  /\ track' = [track EXCEPT ![t] = Refreshed(r, @)]
  /\ Assigned(r, track[t].id, t)
  /\ UNCHANGED <<backend, camera, frames, live, nextId, history>>

(* The new track has the _next_id read before the call of _Track; then the  *)
(* counter is incremented and the track appended.                           *)
Registers(r) ==
  /\ req[r].pc = "register"
  /\ track' = Append(track, [id |-> req[r].best, place |-> Here(r), misses |-> 0])
  /\ live' = live \union {Len(track) + 1}
  /\ nextId' = nextId + 1
  /\ Assigned(r, req[r].best, Len(track) + 1)
  /\ UNCHANGED <<backend, camera, frames, history>>

(* for t in self._tracks: if id(t) not in used_tracks: t.misses += 1 *)
Ages(r) ==
  /\ Goes(r, "age", "drop")
  /\ track' = [t \in DOMAIN track |->
       IF t \in live \ req[r].used
       THEN [track[t] EXCEPT !.misses = @ + 1] ELSE track[t]]
  /\ UNCHANGED <<backend, camera, frames, live, nextId, history>>

(* The tracks missed too often are left out. *)
Kept(t) == track[t].misses <= MaxMisses
Drops(r) ==
  /\ Goes(r, "drop", "measure")
  /\ live' = {t \in live : Kept(t)}
  /\ LET v == req[r].view
         seen == {v[i] : i \in 1..Len(v)}
     IN /\ known' = [p \in Place |-> IF p \in seen
                       THEN req[r].ids[CHOOSE i \in 1..Len(v) : v[i] = p]
                       ELSE known[p]]
        /\ away' = [p \in Place |->
             IF p \in seen THEN 0 ELSE IF away[p] > MaxMisses THEN away[p] ELSE away[p] + 1]
  /\ UNCHANGED <<backend, camera, frames, track, nextId, raced>>

-----------------------------------------------------------------------------
(* add_distances: each hand in turn is looked up in the camera's            *)
(* last_depth_frame, outside the lock.                                      *)

HasDepth(r) == backend = "realsense" /\ req[r].frame # 0
Measures(r) ==
  /\ req[r].pc = "measure" /\ HasDepth(r) /\ req[r].view # <<>>
  /\ Becomes(r, [req[r] EXCEPT !.depths = @ \union {camera.depth},
                               !.pc = IF Len(req[r].view) > 1 THEN "again" ELSE "answer"])
  /\ UNCHANGED <<backend, camera, frames, tracker, history>>
MeasuresAgain(r) ==
  /\ req[r].pc = "again"
  /\ Becomes(r, [req[r] EXCEPT !.depths = @ \union {camera.depth}, !.pc = "answer"])
  /\ UNCHANGED <<backend, camera, frames, tracker, history>>

Answers(r) ==
  /\ \/ req[r].pc = "answer"
     \/ req[r].pc = "measure" /\ (~HasDepth(r) \/ req[r].view = <<>>)
  /\ Becomes(r, Idle)
  /\ UNCHANGED <<backend, camera, frames, tracker, history>>

Thread(r) ==
  \/ \E i \in Index : DetectLive(r, i) \/ LiveFails(r, i)
  \/ DetectImage(r) \/ Detects(r)
  \/ Scans(r) \/ Claims(r) \/ Registers(r) \/ Ages(r) \/ Drops(r)
  \/ Measures(r) \/ MeasuresAgain(r) \/ Answers(r)
Next == Restarts \/ \E r \in Request : Thread(r)

Spec == Init /\ [][Next]_vars

-----------------------------------------------------------------------------
(* Unless two requests were inside _assign_ids at once, an id stands for    *)
(* one track and one person: no two tracks have the same, no answer has it  *)
(* twice, and none is to be given out again (_assign_ids, detector.py:104). *)
IdsTellPeopleApart ==
  ~raced =>
    /\ \A t, u \in live : track[t].id = track[u].id => t = u
    /\ \A t \in DOMAIN track : track[t].id < nextId
    /\ \A r \in Request : \A i, j \in 1..Len(req[r].ids) :
         req[r].ids[i] = req[r].ids[j] => i = j

(* Those who are alone: nobody within the threshold, in any image.          *)
Isolated ==
  {p \in Place : /\ \A q \in Place \ {p} : Dist(p, q) >= Threshold
                 /\ \A v \in Views : \A i, j \in 1..Len(v) : v[i] = p /\ v[j] = p => i = j}

(* Somebody who stands still, away from all others, keeps the id as long as *)
(* no more than TRACK_MAX_MISSES detections in a row that saw others did    *)
(* not see them; detections of empty scenes, failed requests and uploaded   *)
(* images in between make no difference (detector.py:132, 149).             *)
StillPersonKeepsId ==
  [][\A p \in Isolated :
       known[p] # 0 /\ known'[p] \notin {0, known[p]} => away[p] > MaxMisses \/ raced]_vars

(* A live answer is about the camera that was asked for, and no distance in *)
(* it is older than its image; it is newer only if another request has read *)
(* the camera since (api.py:215-218, distance_utils.py:27).                 *)
AnswersFitTheFrame ==
  \A r \in Request : req[r].frame # 0 =>
    /\ backend = "cv2" => req[r].camera = "asked"
    /\ \A d \in req[r].depths : d >= req[r].frame
=============================================================================
