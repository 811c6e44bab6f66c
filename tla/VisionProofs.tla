---------------------------- MODULE VisionProofs ----------------------------
(* Proofs about the human detection service: an answer fits its image, and  *)
(* the tracker tells people apart and keeps the id of those who stand still *)
(* - for any number of requests, tracks and views.                          *)
EXTENDS VisionService, WellFoundedInduction, TLAPS

-----------------------------------------------------------------------------
(* Requests, as far as an answer depends on them.                           *)

Job(x) == x = [pc |-> x.pc, view |-> x.view, camera |-> x.camera, frame |-> x.frame,
               ids |-> x.ids, used |-> x.used, best |-> x.best, depths |-> x.depths]

LEMMA JobStays ==
  ASSUME NEW x, Job(x), NEW e
  PROVE  /\ Job([x EXCEPT !.pc = e]) /\ Job([x EXCEPT !.view = e])
         /\ Job([x EXCEPT !.camera = e]) /\ Job([x EXCEPT !.frame = e])
         /\ Job([x EXCEPT !.ids = e]) /\ Job([x EXCEPT !.used = e])
         /\ Job([x EXCEPT !.best = e]) /\ Job([x EXCEPT !.depths = e])
PROOF
<1>1. Job([x EXCEPT !.pc = e]) /\ Job([x EXCEPT !.view = e])  BY DEF Job
<1>2. Job([x EXCEPT !.camera = e]) /\ Job([x EXCEPT !.frame = e])  BY DEF Job
<1>3. Job([x EXCEPT !.ids = e]) /\ Job([x EXCEPT !.used = e])  BY DEF Job
<1>4. Job([x EXCEPT !.best = e]) /\ Job([x EXCEPT !.depths = e])  BY DEF Job
<1>5. QED  BY <1>1, <1>2, <1>3, <1>4

(* From a RealSense that was opened, only newer frames are read: the        *)
(* distances measured so far, and those to come, are not older than the     *)
(* image they belong to.                                                    *)
Fits(x) ==
  /\ x.frame \in 0..frames
  /\ x.frame # 0 /\ backend = "cv2" => x.camera = "asked"
  /\ x.frame # 0 /\ backend = "realsense" => camera.set /\ x.frame <= camera.depth
  /\ x.pc = "again" => backend = "realsense" /\ x.frame # 0
  /\ \A d \in x.depths : d >= x.frame

FrameInv ==
  /\ backend \in {"cv2", "realsense"} /\ frames \in Nat
  /\ camera \in [set : BOOLEAN, open : BOOLEAN, index : Index \union {"none"}, depth : Nat]
  /\ DOMAIN req = Request
  /\ \A r \in Request : Job(req[r]) /\ Fits(req[r])

LEMMA IdleFits == Job(Idle) /\ Idle.frame = 0 /\ Idle.depths = {} /\ Idle.pc = "idle"
PROOF
<1>1. QED  BY DEF Job, Idle

(* A step of r that reads nothing and measures nothing. *)
LEMMA OnlyTracks ==
  ASSUME FrameInv, NEW r \in Request, NEW x, Becomes(r, x), Job(x),
         x.frame = req[r].frame, x.camera = req[r].camera, x.depths = req[r].depths,
         x.pc # "again", UNCHANGED <<backend, camera, frames>>
  PROVE  FrameInv'
PROOF
<1>1. /\ DOMAIN req' = Request /\ req'[r] = x
      /\ \A q \in Request \ {r} : req'[q] = req[q]
  BY DEF Becomes, FrameInv
<1>2. Fits(x)'  BY DEF FrameInv, Fits
<1>3. \A q \in Request \ {r} : Fits(req[q])'
  BY <1>1 DEF FrameInv, Fits
<1>4. QED  BY <1>1, <1>2, <1>3 DEF FrameInv, Fits

LEMMA Keeps ==
  ASSUME FrameInv, NEW r \in Request, NEW to, to # "again", Goes(r, req[r].pc, to),
         UNCHANGED <<backend, camera, frames>>
  PROVE  FrameInv'
PROOF
<1>4. PICK x : x = [req[r] EXCEPT !.pc = to]  OBVIOUS
<1>1. Becomes(r, x)  BY <1>4 DEF Goes, Becomes
<1>2. /\ Job(x) /\ x.frame = req[r].frame /\ x.camera = req[r].camera
      /\ x.depths = req[r].depths /\ x.pc = to
  BY <1>4 DEF FrameInv, Job
<1>3. QED  BY <1>1, <1>2, OnlyTracks

LEMMA ReadsStep ==
  ASSUME FrameInv, NEW r \in Request, NEW i \in Index, DetectLive(r, i)
  PROVE  FrameInv'
PROOF
<1> DEFINE new == [NoCamera EXCEPT !.set = TRUE, !.open = TRUE, !.index = i]
<1>1. /\ new \in [set : BOOLEAN, open : BOOLEAN, index : Index \union {"none"}, depth : Nat]
      /\ new.set = TRUE /\ new.index = i
  BY DEF NoCamera
<1>2. /\ camera \in [set : BOOLEAN, open : BOOLEAN, index : Index \union {"none"}, depth : Nat]
      /\ frames \in Nat
  BY DEF FrameInv
<1>3. PICK on : /\ ReadsFrom(r, i, on)
                /\ (on = camera /\ Reusable(i)) \/ on = new
  BY DEF DetectLive
<1> HIDE DEF new
<1>4. /\ on \in [set : BOOLEAN, open : BOOLEAN, index : Index \union {"none"}, depth : Nat]
      /\ on.set = TRUE /\ (backend = "cv2" => on.index = i)
  <2>1. CASE on = camera /\ Reusable(i)  BY <1>2, <2>1 DEF Reusable
  <2>2. CASE on = new  BY <1>1, <2>2
  <2>3. QED  BY <1>3, <2>1, <2>2
<1>5. frames' = frames + 1 /\ camera' = [on EXCEPT !.depth = frames + 1] /\ backend' = backend
  BY <1>3 DEF ReadsFrom, LastDepth
<1>6. /\ camera' \in [set : BOOLEAN, open : BOOLEAN, index : Index \union {"none"}, depth : Nat]
      /\ camera'.set = TRUE /\ camera'.depth = frames + 1
  BY <1>2, <1>4, <1>5
<1>7. PICK v \in Views :
        Becomes(r, [Idle EXCEPT !.pc = "detect", !.view = v, !.frame = frames + 1,
                                !.camera = IF on.index = i THEN "asked" ELSE "other"])
  BY <1>3 DEF ReadsFrom
<1>14. PICK x : x = [Idle EXCEPT !.pc = "detect", !.view = v, !.frame = frames + 1,
                                !.camera = IF on.index = i THEN "asked" ELSE "other"]
  OBVIOUS
<1>8. /\ Job(x) /\ x.frame = frames + 1 /\ x.depths = {} /\ x.pc = "detect"
      /\ x.camera = IF on.index = i THEN "asked" ELSE "other"
  <2>1. Job(Idle) /\ Idle.depths = {}  BY IdleFits
  <2> DEFINE which == IF on.index = i THEN "asked" ELSE "other"
  <2> HIDE DEF which
  <2>2. Job([[[[Idle EXCEPT !.pc = "detect"] EXCEPT !.view = v]
                    EXCEPT !.frame = frames + 1] EXCEPT !.camera = which])
    BY <2>1, JobStays
  <2>3. x = [[[[Idle EXCEPT !.pc = "detect"] EXCEPT !.view = v]
                    EXCEPT !.frame = frames + 1] EXCEPT !.camera = which]
    BY <1>14 DEF which
  <2>4. Job(x)  BY <2>2, <2>3
  <2>5. /\ x.frame = frames + 1 /\ x.depths = Idle.depths /\ x.pc = "detect"
        /\ x.camera = which
    BY <2>1, <2>3 DEF Job
  <2>6. QED  BY <2>1, <2>4, <2>5 DEF which
<1>9. /\ DOMAIN req' = Request /\ req'[r] = x
      /\ \A q \in Request \ {r} : req'[q] = req[q]
  BY <1>7, <1>14 DEF Becomes, FrameInv
<1>10. Fits(x)'  BY <1>2, <1>4, <1>5, <1>6, <1>8 DEF Fits
<1>11. ASSUME NEW q \in Request \ {r} PROVE Fits(req[q])'
  <2>1. req'[q] = req[q] /\ Fits(req[q])  BY <1>9 DEF FrameInv
  <2>2. QED  BY <1>2, <1>5, <1>6, <2>1 DEF Fits
<1>12. QED  BY <1>2, <1>5, <1>6, <1>8, <1>9, <1>10, <1>11 DEF FrameInv, Fits

LEMMA LiveFailsStep ==
  ASSUME FrameInv, NEW r \in Request, NEW i \in Index, LiveFails(r, i)
  PROVE  FrameInv'
PROOF
<1> DEFINE new == [NoCamera EXCEPT !.set = TRUE, !.open = TRUE, !.index = i]
           shut == [camera EXCEPT !.open = FALSE]
           Camera == [set : BOOLEAN, open : BOOLEAN, index : Index \union {"none"}, depth : Nat]
<1>1. new \in Camera  BY DEF NoCamera
<1>2. shut \in Camera  BY DEF FrameInv
<1>3. /\ camera' \in {new, shut} /\ UNCHANGED <<backend, frames, req>>
      /\ backend = "cv2" \/ ~camera.set
  BY DEF LiveFails
<1> HIDE DEF new, shut
<1>4. ASSUME NEW q \in Request PROVE Fits(req[q])'
  <2>1. Fits(req[q])  BY DEF FrameInv
  <2>2. QED  BY <1>3, <2>1 DEF Fits, FrameInv
<1>5. QED  BY <1>1, <1>2, <1>3, <1>4 DEF FrameInv

(* A distance is looked up: the frame there is not older than the image.    *)
LEMMA MeasuresStep ==
  ASSUME FrameInv, NEW r \in Request, Measures(r) \/ MeasuresAgain(r)
  PROVE  FrameInv'
PROOF
<1>1. PICK to : /\ Becomes(r, [req[r] EXCEPT !.depths = @ \union {camera.depth}, !.pc = to])
                /\ UNCHANGED <<backend, camera, frames>>
                /\ backend = "realsense" /\ req[r].frame # 0
  BY DEF Measures, MeasuresAgain, HasDepth, FrameInv, Fits
<1>7. PICK x : x = [req[r] EXCEPT !.depths = req[r].depths \union {camera.depth}, !.pc = to]
  OBVIOUS
<1>2. /\ Job(x) /\ x.frame = req[r].frame /\ x.camera = req[r].camera
      /\ x.depths = req[r].depths \union {camera.depth}
  <2>1. Job(req[r])  BY DEF FrameInv
  <2> DEFINE more == req[r].depths \union {camera.depth}
  <2> HIDE DEF more
  <2>2. Job([[req[r] EXCEPT !.depths = more] EXCEPT !.pc = to])  BY <2>1, JobStays
  <2>3. x = [[req[r] EXCEPT !.depths = more] EXCEPT !.pc = to]  BY <1>7 DEF more
  <2>4. Job(x)  BY <2>2, <2>3
  <2>5. x.frame = req[r].frame /\ x.camera = req[r].camera /\ x.depths = more
    BY <2>1, <2>3 DEF Job
  <2>6. QED  BY <2>4, <2>5 DEF more
<1>3. /\ DOMAIN req' = Request /\ req'[r] = x
      /\ \A q \in Request \ {r} : req'[q] = req[q]
  BY <1>1, <1>7 DEF Becomes, FrameInv
<1>4. Fits(x)'
  <2>1. Fits(req[r]) /\ camera.depth \in Nat  BY DEF FrameInv
  <2>2. QED  BY <1>1, <1>2, <2>1 DEF Fits, FrameInv
<1>5. \A q \in Request \ {r} : Fits(req[q])'
  BY <1>1, <1>3 DEF FrameInv, Fits
<1>6. QED  BY <1>1, <1>2, <1>3, <1>4, <1>5 DEF FrameInv, Fits

LEMMA FrameStep ==
  ASSUME FrameInv, [Next]_vars
  PROVE  FrameInv'
PROOF
<1>1. CASE Restarts
  <2>1. /\ camera' = NoCamera /\ frames' = 0 /\ UNCHANGED <<backend, req>>
        /\ \A r \in Request : req[r] = Idle
    BY <1>1 DEF Restarts, Starts
  <2>2. QED  BY <2>1, IdleFits DEF FrameInv, Fits, NoCamera
<1>2. ASSUME NEW r \in Request, DetectImage(r) PROVE FrameInv'
  <2>1. PICK v \in Views : Becomes(r, [Idle EXCEPT !.pc = "detect", !.view = v])
    BY <1>2 DEF DetectImage
  <2>7. PICK x : x = [Idle EXCEPT !.pc = "detect", !.view = v]  OBVIOUS
  <2>4. Idle.camera = "none"  BY DEF Idle
  <2>2. /\ Job(x) /\ x.frame = 0 /\ x.depths = {} /\ x.camera = "none" /\ x.pc = "detect"
    <3>1. Job([[Idle EXCEPT !.pc = "detect"] EXCEPT !.view = v])  BY IdleFits, JobStays
    <3>2. x = [[Idle EXCEPT !.pc = "detect"] EXCEPT !.view = v]  BY <2>7
    <3>3. Job(x)  BY <3>1, <3>2
    <3>4. /\ x.frame = Idle.frame /\ x.depths = Idle.depths
          /\ x.camera = Idle.camera /\ x.pc = "detect"
      BY <3>2, IdleFits DEF Job
    <3>5. QED  BY <2>4, <3>3, <3>4, IdleFits
  <2>3. req[r] = Idle /\ UNCHANGED <<backend, camera, frames>>
    BY <1>2 DEF DetectImage
  <2>5. x.frame = req[r].frame /\ x.camera = req[r].camera /\ x.depths = req[r].depths
    BY <2>2, <2>3, <2>4, IdleFits
  <2>6. QED  BY <2>1, <2>2, <2>3, <2>5, <2>7, OnlyTracks
<1>3. ASSUME NEW r \in Request, Detects(r) \/ Ages(r) \/ Drops(r) PROVE FrameInv'
  <2>1. PICK to \in {"measure", "scan", "drop"} :
          Goes(r, req[r].pc, to) /\ UNCHANGED <<backend, camera, frames>>
    BY <1>3 DEF Detects, Ages, Drops, Goes
  <2>2. QED  BY <2>1, Keeps
<1>4. ASSUME NEW r \in Request, Scans(r) PROVE FrameInv'
  <2>5. PICK to \in {"claim", "register"} :
          /\ \E b : Becomes(r, [req[r] EXCEPT !.pc = to, !.best = b])
          /\ UNCHANGED <<backend, camera, frames>>
    BY <1>4 DEF Scans
  <2>6. PICK b : Becomes(r, [req[r] EXCEPT !.pc = to, !.best = b])
    BY <2>5
  <2>1. to # "again" /\ UNCHANGED <<backend, camera, frames>>
    BY <2>5
  <2>4. PICK x : x = [req[r] EXCEPT !.pc = to, !.best = b]  OBVIOUS
  <2>2. /\ Job(x) /\ x.frame = req[r].frame /\ x.camera = req[r].camera
        /\ x.depths = req[r].depths /\ x.pc = to
    <3>1. Job(req[r])  BY DEF FrameInv
    <3>2. Job([[req[r] EXCEPT !.pc = to] EXCEPT !.best = b])  BY <3>1, JobStays
    <3>3. x = [[req[r] EXCEPT !.pc = to] EXCEPT !.best = b]  BY <2>4
    <3>4. Job(x)  BY <3>2, <3>3
    <3>5. /\ x.frame = req[r].frame /\ x.camera = req[r].camera
          /\ x.depths = req[r].depths /\ x.pc = to
      BY <3>1, <3>3 DEF Job
    <3>6. QED  BY <3>4, <3>5
  <2>3. QED  BY <2>1, <2>2, <2>4, <2>6, OnlyTracks
<1>5. ASSUME NEW r \in Request, Claims(r) \/ Registers(r) PROVE FrameInv'
  <2>1. PICK id, t : Assigned(r, id, t) /\ UNCHANGED <<backend, camera, frames>>
    BY <1>5 DEF Claims, Registers
  <2>2. PICK to \in {"age", "scan"} :
          Becomes(r, [req[r] EXCEPT !.ids = Append(@, id), !.used = @ \union {t},
                                    !.best = 0, !.pc = to])
    BY <2>1 DEF Assigned
  <2>5. PICK x : x = [req[r] EXCEPT !.ids = Append(req[r].ids, id),
                                    !.used = req[r].used \union {t}, !.best = 0, !.pc = to]
    OBVIOUS
  <2>3. /\ Job(x) /\ x.frame = req[r].frame /\ x.camera = req[r].camera
        /\ x.depths = req[r].depths /\ x.pc = to
    <3>1. Job(req[r])  BY DEF FrameInv
    <3> DEFINE given == Append(req[r].ids, id)
               taken == req[r].used \union {t}
    <3> HIDE DEF given, taken
    <3>2. Job([[[[req[r] EXCEPT !.ids = given] EXCEPT !.used = taken]
                        EXCEPT !.best = 0] EXCEPT !.pc = to])
      BY <3>1, JobStays
    <3>3. x = [[[[req[r] EXCEPT !.ids = given] EXCEPT !.used = taken]
                        EXCEPT !.best = 0] EXCEPT !.pc = to]
      BY <2>5 DEF given, taken
    <3>4. Job(x)  BY <3>2, <3>3
    <3>5. /\ x.frame = req[r].frame /\ x.camera = req[r].camera
          /\ x.depths = req[r].depths /\ x.pc = to
      BY <3>1, <3>3 DEF Job
    <3>6. QED  BY <3>4, <3>5
  <2>4. QED  BY <2>1, <2>2, <2>3, <2>5, OnlyTracks
<1>6. ASSUME NEW r \in Request, Answers(r) PROVE FrameInv'
  <2>1. /\ DOMAIN req' = Request /\ req'[r] = Idle /\ UNCHANGED <<backend, camera, frames>>
        /\ \A q \in Request \ {r} : req'[q] = req[q]
    BY <1>6 DEF Answers, Becomes, FrameInv
  <2>2. QED  BY <2>1, IdleFits DEF FrameInv, Fits
<1>7. CASE UNCHANGED vars
  BY <1>7 DEF vars, FrameInv, Fits
<1>8. QED
  BY <1>1, <1>2, <1>3, <1>4, <1>5, <1>6, <1>7, ReadsStep, LiveFailsStep, MeasuresStep
     DEF Next, Thread

(* For any number of requests, cameras and images: no distance of an answer *)
(* is older than its image, and the image is of the camera asked for        *)
(* (detect_live and add_distances).                                         *)
THEOREM Answered == Spec => []AnswersFitTheFrame
PROOF
<1>1. Init => FrameInv
  <2>1. ASSUME Init PROVE FrameInv
    BY <2>1, IdleFits DEF Init, FrameInv, Fits, NoCamera
  <2>2. QED  BY <2>1
<1>2. FrameInv => AnswersFitTheFrame
  BY DEF FrameInv, Fits, AnswersFitTheFrame
<1>3. QED  BY <1>1, <1>2, FrameStep, PTL DEF Spec

-----------------------------------------------------------------------------
(* The tracker, as long as no two requests are in it: the id of a track is  *)
(* its number, and what the request in it has done so far is to be seen in  *)
(* the tracks.                                                              *)
Tracking == {"scan", "claim", "register", "age", "drop"}
Pcs == Tracking \union {"idle", "detect", "measure", "again", "answer"}
Work == [pc : Pcs, view : Views \union {<<>>}, camera : {"none", "asked", "other"},
         frame : Nat, ids : Seq(Nat), used : SUBSET Nat, best : Nat, depths : SUBSET Nat]
TrackType == [id : Nat, place : Place, misses : Nat]

(* What has been assigned so far: a track each, at the place of its person. *)
Assigning(x) ==
  /\ Len(x.ids) <= Len(x.view)
  /\ x.pc \in {"scan", "claim", "register"} => Len(x.ids) < Len(x.view)
  /\ x.pc \in {"age", "drop"} => Len(x.ids) = Len(x.view)
  /\ \A i \in 1..Len(x.ids) :
       /\ x.ids[i] \in live \intersect x.used
       /\ track[x.ids[i]].place = x.view[i] /\ track[x.ids[i]].misses = 0
  /\ \A t \in x.used : \E i \in 1..Len(x.ids) : x.ids[i] = t
HereOf(x) == x.view[Len(x.ids) + 1]
Serves(x) ==
  /\ x \in Work
  /\ x.pc \in {"idle", "detect"} => x.ids = <<>> /\ x.used = {}
  /\ \A i, j \in 1..Len(x.ids) : x.ids[i] = x.ids[j] => i = j
  /\ x.pc \in Tracking => Assigning(x)
  /\ x.pc = "claim" =>
       x.best \in live \ x.used /\ Dist(track[x.best].place, HereOf(x)) < Threshold
  /\ x.pc = "register" =>
       /\ x.best = nextId
       /\ \A t \in live \ x.used : Dist(track[t].place, HereOf(x)) >= Threshold

(* Who is alone has at most one track, which nobody else claims; and it has *)
(* no more misses than there were detections without them, but for the one  *)
(* that is being counted.                                                   *)
OneTrack(p) == \A t, u \in live : track[t].place = p /\ track[u].place = p => t = u
FewMisses(p) ==
  \/ \E r \in Request : InTracker(r) /\ known[p] \in req[r].used
  \/ track[known[p]].misses <= away[p]
  \/ /\ track[known[p]].misses <= away[p] + 1
     /\ \E r \in Request : req[r].pc = "drop"
Remembered(p) ==
  known[p] # 0 /\ away[p] <= MaxMisses =>
    known[p] \in live /\ track[known[p]].place = p /\ FewMisses(p)

Tracks ==
  /\ track \in Seq(TrackType) /\ live \in SUBSET (1..Len(track))
  /\ nextId = Len(track) + 1 /\ \A t \in 1..Len(track) : track[t].id = t
History == known \in [Place -> Nat] /\ away \in [Place -> Nat]
OneInTracker == \A r, q \in Request : InTracker(r) /\ InTracker(q) => r = q
TrackerInv ==
  /\ Tracks /\ History /\ OneInTracker
  /\ \A r \in Request : Serves(req[r])
  /\ \A p \in Isolated : OneTrack(p) /\ Remembered(p)

-----------------------------------------------------------------------------
(* Places.                                                                  *)
LEMMA Places ==
  /\ Place \subseteq Nat /\ <<>> \in Seq(Nat) /\ Views \union {<<>>} \subseteq Seq(Nat)
  /\ \A v \in Views \union {<<>>} : \A i \in 1..Len(v) : v[i] \in Place
PROOF
<1>1. Views \subseteq Seq(Nat)  BY VisionAssumption
<1>2. ASSUME NEW v \in Views, NEW i \in 1..Len(v) PROVE v[i] \in Place /\ v[i] \in Nat
  BY <1>1 DEF Place
<1>3. ASSUME NEW a \in Place PROVE a \in Nat
  <2>1. PICK v \in Views : a \in {v[i] : i \in 1..Len(v)}  BY DEF Place
  <2>2. QED  BY <2>1, <1>2
<1>4. <<>> \in Seq(Nat) /\ Len(<<>>) = 0  OBVIOUS
<1>5. ASSUME NEW v \in Views \union {<<>>}, NEW i \in 1..Len(v) PROVE v[i] \in Place
  <2>1. v # <<>>  BY <1>4
  <2>2. QED  BY <1>2, <2>1
<1>6. QED  BY <1>1, <1>3, <1>4, <1>5

LEMMA HereIsPlace ==
  ASSUME NEW x \in Work, Len(x.ids) < Len(x.view)
  PROVE  HereOf(x) \in Place /\ HereOf(x) \in Nat
PROOF
<1>1. x.view \in Views \union {<<>>} /\ x.ids \in Seq(Nat)  BY DEF Work
<1>2. x.view \in Seq(Nat)  BY <1>1, Places
<1>3. Len(x.ids) + 1 \in 1..Len(x.view)  BY <1>1, <1>2
<1>4. QED  BY <1>1, <1>3, Places DEF HereOf

LEMMA Distances ==
  ASSUME NEW a \in Nat, NEW b \in Nat
  PROVE  Dist(a, b) \in Nat /\ Dist(a, a) = 0 /\ Dist(a, b) = Dist(b, a)
PROOF
<1>1. QED  BY DEF Dist

LEMMA NobodyNear ==
  ASSUME NEW p \in Isolated, NEW q \in Place, Dist(q, p) < Threshold
  PROVE  q = p
PROOF
<1>1. p \in Place /\ p \in Nat /\ q \in Nat  BY Places DEF Isolated
<1>2. q # p => Dist(p, q) >= Threshold  BY DEF Isolated
<1>3. Dist(q, p) = Dist(p, q) /\ Dist(p, q) \in Nat /\ Threshold \in Nat
  BY <1>1, Distances, VisionAssumption
<1>4. QED  BY <1>2, <1>3

LEMMA TrackFields ==
  ASSUME Tracks, NEW t \in 1..Len(track)
  PROVE  /\ track[t] \in TrackType /\ track[t].id = t
         /\ track[t].place \in Place /\ track[t].place \in Nat /\ track[t].misses \in Nat
PROOF
<1>1. track[t] \in TrackType /\ track[t].id = t  BY DEF Tracks
<1>2. QED  BY <1>1, Places DEF TrackType

-----------------------------------------------------------------------------
(* A step of r that leaves the tracks alone, and the tracker too unless it  *)
(* is in it.                                                                *)
LEMMA ServingStep ==
  ASSUME FrameInv, TrackerInv, NEW r \in Request, NEW x, Becomes(r, x), Serves(x),
         UNCHANGED <<tracker, known, away>>,
         x.pc \in Tracking => \A q \in Request \ {r} : ~InTracker(q),
         InTracker(r) => x.pc \in Tracking /\ x.used = req[r].used /\ req[r].pc # "drop"
  PROVE  TrackerInv'
PROOF
<1>1. /\ req'[r] = x /\ \A q \in Request \ {r} : req'[q] = req[q]
      /\ UNCHANGED <<track, live, nextId, known, away>>
  BY DEF Becomes, FrameInv, tracker
<1>2. Tracks' /\ History'  BY <1>1 DEF TrackerInv, Tracks, History
<1>3. OneInTracker'  BY <1>1 DEF TrackerInv, OneInTracker, InTracker, Tracking
<1>4. ASSUME NEW q \in Request PROVE Serves(req[q])'
  <2>1. Serves(req'[q])  BY <1>1 DEF TrackerInv
  <2>2. QED  BY <1>1, <2>1 DEF Serves, Assigning
<1>5. ASSUME NEW p \in Isolated PROVE OneTrack(p)' /\ Remembered(p)'
  <2>1. OneTrack(p) /\ Remembered(p)  BY DEF TrackerInv
  <2>2. FewMisses(p) => FewMisses(p)'
    <3>1. (\E q \in Request : InTracker(q) /\ known[p] \in req[q].used) =>
             \E q \in Request : InTracker(q)' /\ known[p] \in req'[q].used
      BY <1>1 DEF InTracker, Tracking
    <3>2. (\E q \in Request : req[q].pc = "drop") => \E q \in Request : req'[q].pc = "drop"
      BY <1>1 DEF InTracker
    <3>3. QED  BY <1>1, <3>1, <3>2 DEF FewMisses
  <2>3. QED  BY <1>1, <2>1, <2>2 DEF OneTrack, Remembered
<1>6. QED  BY <1>2, <1>3, <1>4, <1>5 DEF TrackerInv

LEMMA IdleServes == Serves(Idle)
PROOF
<1>1. Idle \in Work  BY DEF Idle, Work, Pcs, Tracking
<1>2. QED  BY <1>1 DEF Idle, Serves, Tracking

LEMMA AsksStep ==
  ASSUME FrameInv, TrackerInv, NEW r \in Request,
         DetectImage(r) \/ \E i \in Index : DetectLive(r, i)
  PROVE  TrackerInv'
PROOF
<1>1. req[r] = Idle /\ UNCHANGED <<tracker, known, away>>
  BY DEF DetectImage, DetectLive, ReadsFrom, history
<1>2. /\ Idle \in Work /\ Idle.ids = <<>> /\ Idle.used = {} /\ Idle.pc = "idle"
  BY IdleServes DEF Serves, Idle
<1>3. PICK x : /\ Becomes(r, x) /\ x \in Work
               /\ x.pc = "detect" /\ x.ids = <<>> /\ x.used = {}
  <2>1. CASE DetectImage(r)
    <3>1. PICK v \in Views : Becomes(r, [Idle EXCEPT !.pc = "detect", !.view = v])
      BY <2>1 DEF DetectImage
    <3>2. PICK x : x = [Idle EXCEPT !.pc = "detect", !.view = v]  OBVIOUS
    <3>3. x \in Work /\ x.pc = "detect" /\ x.ids = <<>> /\ x.used = {}
      BY <1>2, <3>2 DEF Work, Pcs
    <3>4. QED  BY <3>1, <3>2, <3>3
  <2>2. CASE \E i \in Index : DetectLive(r, i)
    <3>1. PICK i \in Index : \E on : ReadsFrom(r, i, on)  BY <2>2 DEF DetectLive
    <3>2. \E v \in Views : \E c \in {"asked", "other"} :
            Becomes(r, [Idle EXCEPT !.pc = "detect", !.view = v, !.frame = frames + 1,
                                    !.camera = c])
      BY <3>1 DEF ReadsFrom
    <3>3. PICK v \in Views : \E c \in {"asked", "other"} :
            Becomes(r, [Idle EXCEPT !.pc = "detect", !.view = v, !.frame = frames + 1,
                                    !.camera = c])
      BY <3>2
    <3>4. PICK c \in {"asked", "other"} :
            Becomes(r, [Idle EXCEPT !.pc = "detect", !.view = v, !.frame = frames + 1,
                                    !.camera = c])
      BY <3>3
    <3>5. PICK x : x = [Idle EXCEPT !.pc = "detect", !.view = v, !.frame = frames + 1,
                                    !.camera = c]
      OBVIOUS
    <3>6. frames + 1 \in Nat  BY DEF FrameInv
    <3>7. x \in Work /\ x.pc = "detect" /\ x.ids = <<>> /\ x.used = {}
      BY <1>2, <3>5, <3>6 DEF Work, Pcs
    <3>8. QED  BY <3>4, <3>5, <3>7
  <2>3. QED  BY <2>1, <2>2
<1>4. Serves(x)  BY <1>3 DEF Serves, Tracking
<1>5. ~InTracker(r)  BY <1>1, <1>2 DEF InTracker
<1>6. QED  BY <1>1, <1>3, <1>4, <1>5, ServingStep DEF Tracking

LEMMA DetectsStep ==
  ASSUME FrameInv, TrackerInv, NEW r \in Request, Detects(r), ~raced'
  PROVE  TrackerInv'
PROOF
<1>1. PICK x : x = [req[r] EXCEPT !.pc = IF req[r].view = <<>> THEN "measure" ELSE "scan"]
  OBVIOUS
<1>2. /\ req[r].pc = "detect" /\ Becomes(r, x) /\ UNCHANGED <<tracker, known, away>>
      /\ req[r].view # <<>> => \A q \in Request \ {r} : ~InTracker(q)
  BY <1>1 DEF Detects, Goes, Becomes
<1>3. Serves(req[r])  BY DEF TrackerInv
<1>4. /\ x \in Work /\ x.pc = IF req[r].view = <<>> THEN "measure" ELSE "scan"
      /\ x.view = req[r].view /\ x.ids = <<>> /\ x.used = {}
  BY <1>1, <1>2, <1>3 DEF Serves, Work, Pcs, Tracking
<1>5. Len(x.ids) = 0 /\ (x.view # <<>> => Len(x.view) > 0)
  <2>1. x.view \in Seq(Nat)  BY <1>4, Places DEF Work
  <2>2. QED  BY <2>1, <1>4
<1>6. Serves(x)
  <2>1. Len(x.view) \in Nat  BY <1>4, Places DEF Work
  <2>2. QED  BY <1>4, <1>5, <2>1 DEF Serves, Assigning, Tracking
<1>7. QED  BY <1>2, <1>4, <1>6, ServingStep DEF Tracking, InTracker

LEMMA MeasuringStep ==
  ASSUME FrameInv, TrackerInv, NEW r \in Request,
         Measures(r) \/ MeasuresAgain(r) \/ Answers(r)
  PROVE  TrackerInv'
PROOF
<1>1. ~InTracker(r) /\ UNCHANGED <<tracker, known, away>>
  BY DEF Measures, MeasuresAgain, Answers, InTracker, history
<1>2. CASE Answers(r)
  <2>1. Becomes(r, Idle)  BY <1>2 DEF Answers
  <2>2. Idle.pc = "idle"  BY DEF Idle
  <2>3. QED  BY <1>1, <2>1, <2>2, IdleServes, ServingStep DEF Tracking
<1>3. CASE Measures(r) \/ MeasuresAgain(r)
  <2>1. PICK to \in {"again", "answer"} :
          Becomes(r, [req[r] EXCEPT !.depths = @ \union {camera.depth}, !.pc = to])
    BY <1>3 DEF Measures, MeasuresAgain
  <2>2. PICK x : x = [req[r] EXCEPT !.depths = req[r].depths \union {camera.depth}, !.pc = to]
    OBVIOUS
  <2>3. Serves(req[r]) /\ req[r] \in Work /\ camera.depth \in Nat
    BY DEF TrackerInv, Serves, FrameInv
  <2>4. x \in Work /\ x.pc = to /\ x.ids = req[r].ids
    BY <2>2, <2>3 DEF Work, Pcs
  <2>5. Serves(x)  BY <2>3, <2>4 DEF Serves, Tracking
  <2>6. QED  BY <1>1, <2>1, <2>2, <2>4, <2>5, ServingStep DEF Tracking
<1>4. QED  BY <1>2, <1>3

(* The scan: the tracks are compared by distance, then by age.              *)
LEMMA LeastOf ==
  ASSUME NEW T, T \subseteq Nat, T # {}
  PROVE  \E n \in T : \A m \in T : n <= m
PROOF
<1> DEFINE R == {ss \in Nat \X Nat : ss[1] < ss[2]}
<1>1. IsWellFoundedOn(R, Nat)  BY NatLessThanWellFounded DEF OpToRel
<1> HIDE DEF R
<1>2. PICK n \in T : \A m \in T : ~(<<m, n>> \in R)  BY <1>1, WFMin
<1>3. ASSUME NEW m \in T PROVE n <= m
  <2>1. ~(m < n)  BY <1>2 DEF R
  <2>2. QED  BY <2>1
<1>4. QED  BY <1>3

LEMMA NearestExists ==
  ASSUME TrackerInv, NEW r \in Request, req[r].pc = "scan", Nearest(r) = {}
  PROVE  \A t \in live \ req[r].used : Dist(track[t].place, Here(r)) >= Threshold
PROOF
<1> DEFINE d(t) == Dist(track[t].place, Here(r))
           close == {t \in Unclaimed(r) : d(t) < Threshold}
<1>1. req[r] \in Work /\ Assigning(req[r]) /\ Len(req[r].ids) < Len(req[r].view)
  BY DEF TrackerInv, Serves, Tracking, Assigning
<1>2. Here(r) \in Nat  BY <1>1, HereIsPlace DEF Here, HereOf
<1>3. ASSUME NEW t \in live PROVE t \in Nat /\ d(t) \in Nat
  <2>1. Tracks /\ t \in 1..Len(track)  BY DEF TrackerInv, Tracks
  <2>2. track[t].place \in Nat  BY <2>1, TrackFields
  <2>3. d(t) \in Nat  BY <1>2, <2>2, Distances
  <2>4. t \in Nat  BY <2>1
  <2>5. QED  BY <2>3, <2>4
<1>4. Threshold \in Nat  BY VisionAssumption
<1>5. ASSUME close # {} PROVE FALSE
  <2> DEFINE D == {d(t) : t \in close}
  <2>1. D \subseteq Nat /\ D # {}  BY <1>3, <1>5 DEF Unclaimed
  <2>2. PICK n \in D : \A m \in D : n <= m  BY <2>1, LeastOf
  <2> DEFINE nearest == {t \in close : d(t) = n}
  <2>3. nearest \subseteq Nat /\ nearest # {}  BY <1>3, <2>2 DEF Unclaimed
  <2>4. PICK t \in nearest : \A u \in nearest : t <= u  BY <2>3, LeastOf
  <2>5. t \in Unclaimed(r) /\ d(t) < Threshold /\ d(t) = n  OBVIOUS
  <2>6. ASSUME NEW u \in Unclaimed(r) PROVE d(t) < d(u) \/ (d(t) = d(u) /\ t <= u)
    <3>1. d(u) \in Nat /\ d(t) \in Nat  BY <1>3, <2>5 DEF Unclaimed
    <3>2. CASE u \in close
      <4>1. d(t) <= d(u)  BY <2>2, <2>5, <3>2
      <4>2. d(t) = d(u) => t <= u  BY <2>4, <2>5, <3>2
      <4>3. QED  BY <3>1, <4>1, <4>2
    <3>3. CASE u \notin close
      <4>1. ~(d(u) < Threshold)  BY <3>3
      <4> HIDE DEF d
      <4>2. QED  BY <1>4, <2>5, <3>1, <4>1
    <3>4. QED  BY <3>2, <3>3
  <2>7. t \in Nearest(r)  BY <2>5, <2>6 DEF Nearest
  <2>8. QED  BY <2>7
<1>6. ASSUME NEW t \in live \ req[r].used PROVE d(t) >= Threshold
  <2>1. ~(d(t) < Threshold)  BY <1>5, <1>6 DEF Unclaimed
  <2>2. d(t) \in Nat  BY <1>3
  <2> HIDE DEF d
  <2>3. QED  BY <1>4, <2>1, <2>2
<1>7. QED  BY <1>6

LEMMA ScansStep ==
  ASSUME FrameInv, TrackerInv, NEW r \in Request, Scans(r)
  PROVE  TrackerInv'
PROOF
<1>1. /\ req[r].pc = "scan" /\ UNCHANGED <<tracker, known, away>>
  BY DEF Scans, history
<1>2. /\ Serves(req[r]) /\ Assigning(req[r]) /\ req[r] \in Work
      /\ Len(req[r].ids) < Len(req[r].view)
  BY <1>1 DEF TrackerInv, Serves, Tracking, Assigning
<1>3. \A q \in Request \ {r} : ~InTracker(q)
  BY <1>1 DEF TrackerInv, OneInTracker, InTracker
<1>4. Tracks /\ live \subseteq Nat /\ nextId \in Nat  BY DEF TrackerInv, Tracks
<1>5. CASE Nearest(r) # {}
  <2>1. PICK t \in Nearest(r) : Becomes(r, [req[r] EXCEPT !.pc = "claim", !.best = t])
    BY <1>5 DEF Scans
  <2>2. t \in live \ req[r].used /\ Dist(track[t].place, Here(r)) < Threshold
    BY DEF Nearest, Unclaimed
  <2>3. PICK x : x = [req[r] EXCEPT !.pc = "claim", !.best = t]  OBVIOUS
  <2>4. /\ x \in Work /\ x.pc = "claim" /\ x.best = t /\ x.ids = req[r].ids
        /\ x.used = req[r].used /\ x.view = req[r].view
    BY <1>2, <1>4, <2>2, <2>3 DEF Work, Pcs, Tracking
  <2>5. Serves(x)
    BY <1>2, <2>2, <2>4 DEF Serves, Assigning, Here, HereOf, Tracking
  <2>6. QED  BY <1>1, <1>3, <2>1, <2>3, <2>4, <2>5, ServingStep DEF Tracking
<1>6. CASE Nearest(r) = {}
  <2>1. Becomes(r, [req[r] EXCEPT !.pc = "register", !.best = nextId])
    BY <1>6 DEF Scans
  <2>2. \A t \in live \ req[r].used : Dist(track[t].place, Here(r)) >= Threshold
    BY <1>1, <1>6, NearestExists
  <2>3. PICK x : x = [req[r] EXCEPT !.pc = "register", !.best = nextId]  OBVIOUS
  <2>4. /\ x \in Work /\ x.pc = "register" /\ x.best = nextId /\ x.ids = req[r].ids
        /\ x.used = req[r].used /\ x.view = req[r].view
    BY <1>2, <1>4, <2>3 DEF Work, Pcs, Tracking
  <2>5. Serves(x)
    BY <1>2, <2>2, <2>4 DEF Serves, Assigning, Here, HereOf, Tracking
  <2>6. QED  BY <1>1, <1>3, <2>1, <2>3, <2>4, <2>5, ServingStep DEF Tracking
<1>7. QED  BY <1>5, <1>6

-----------------------------------------------------------------------------
(* One more person of the image has got track t: it was not taken yet, and  *)
(* all others stay as they are.                                             *)
LEMMA AssignedStep ==
  ASSUME FrameInv, TrackerInv, NEW r \in Request, req[r].pc \in {"claim", "register"},
         NEW t, t \notin req[r].used, Assigned(r, t, t), UNCHANGED <<known, away>>,
         Tracks', t \in live', live \subseteq live',
         track'[t].place = Here(r), track'[t].misses = 0,
         \A u \in live \ {t} : track'[u] = track[u],
         \A p \in Isolated : OneTrack(p)',
         \A p \in Isolated : t \in live /\ track[t].place = p => Here(r) = p
  PROVE  TrackerInv'
PROOF
<1> DEFINE y == req[r]
           n == Len(y.ids)
           to == IF n + 1 = Len(y.view) THEN "age" ELSE "scan"
<1>1. PICK x : x = [y EXCEPT !.ids = Append(y.ids, t), !.used = y.used \union {t},
                             !.best = 0, !.pc = to]
  OBVIOUS
<1>2. Becomes(r, x)  BY <1>1 DEF Assigned
<1>3. /\ req'[r] = x /\ \A q \in Request \ {r} : req'[q] = req[q]
      /\ known' = known /\ away' = away
  BY <1>2 DEF Becomes, FrameInv
<1>4. /\ y \in Work /\ Assigning(y) /\ n < Len(y.view)
      /\ \A i, j \in 1..n : y.ids[i] = y.ids[j] => i = j
  BY DEF TrackerInv, Serves, Tracking, Assigning
<1>5. /\ y.ids \in Seq(Nat) /\ n \in Nat /\ y.used \subseteq Nat /\ y.view \in Seq(Nat)
      /\ Len(y.view) \in Nat
  BY <1>4, Places DEF Work
<1>6. t \in Nat  BY DEF Tracks
<1>7. /\ x \in Work /\ x.view = y.view /\ x.ids = Append(y.ids, t)
      /\ x.used = y.used \union {t} /\ x.pc = to
  <2> DEFINE given == Append(y.ids, t)
             taken == y.used \union {t}
  <2>1. given \in Seq(Nat) /\ taken \in SUBSET Nat  BY <1>5, <1>6
  <2>2. to \in Pcs  BY DEF Pcs, Tracking
  <2> HIDE DEF given, taken, to
  <2>3. x = [y EXCEPT !.ids = given, !.used = taken, !.best = 0, !.pc = to]
    BY <1>1 DEF given, taken
  <2> HIDE DEF y
  <2>4. /\ x \in Work /\ x.view = y.view /\ x.ids = given
        /\ x.used = taken /\ x.pc = to
    BY <1>4, <2>1, <2>2, <2>3 DEF Work
  <2>5. QED  BY <2>4 DEF given, taken
<1>8. /\ Len(x.ids) = n + 1 /\ x.ids[n + 1] = t
      /\ \A i \in 1..n : x.ids[i] = y.ids[i]
  BY <1>5, <1>6, <1>7
<1> HIDE DEF y, n
<1>9. \A i \in 1..n : /\ x.ids[i] \in live \intersect y.used /\ x.ids[i] # t
                      /\ track[x.ids[i]].place = y.view[i] /\ track[x.ids[i]].misses = 0
  <2> SUFFICES ASSUME NEW i \in 1..n
               PROVE  /\ x.ids[i] \in live \intersect y.used /\ x.ids[i] # t
                      /\ track[x.ids[i]].place = y.view[i] /\ track[x.ids[i]].misses = 0
    OBVIOUS
  <2>1. x.ids[i] = y.ids[i]  BY <1>8
  <2>2. /\ y.ids[i] \in live \intersect y.used
        /\ track[y.ids[i]].place = y.view[i] /\ track[y.ids[i]].misses = 0
    BY <1>4 DEF Assigning, n
  <2>3. y.ids[i] # t  BY <2>2 DEF y
  <2>4. QED  BY <2>1, <2>2, <2>3
<1>10. \A i \in 1..n : /\ track'[x.ids[i]].place = y.view[i]
                       /\ track'[x.ids[i]].misses = 0
  BY <1>9
<1>11. track'[t].place = y.view[n + 1]  BY DEF Here, n, y
<1>12. Assigning(x)'
  <2>1. \A i \in 1..Len(x.ids) :
          /\ x.ids[i] \in live' \intersect x.used
          /\ track'[x.ids[i]].place = x.view[i] /\ track'[x.ids[i]].misses = 0
    <3> SUFFICES ASSUME NEW i \in 1..(n + 1)
                 PROVE  /\ x.ids[i] \in live' \intersect x.used
                        /\ track'[x.ids[i]].place = x.view[i]
                        /\ track'[x.ids[i]].misses = 0
      BY <1>8
    <3>1. CASE i = n + 1  BY <3>1, <1>7, <1>8, <1>11
    <3>2. CASE i \in 1..n  BY <3>2, <1>7, <1>9, <1>10
    <3>3. QED  BY <1>5, <3>1, <3>2
  <2>2. \A u \in x.used : \E i \in 1..Len(x.ids) : x.ids[i] = u
    <3>1. ASSUME NEW u \in y.used PROVE \E i \in 1..Len(x.ids) : x.ids[i] = u
      <4>1. PICK i \in 1..n : y.ids[i] = u  BY <1>4 DEF Assigning, n, y
      <4>2. i \in 1..Len(x.ids) /\ x.ids[i] = u  BY <1>5, <1>8, <4>1
      <4>3. QED  BY <4>2
    <3>2. n + 1 \in 1..Len(x.ids) /\ x.ids[n + 1] = t  BY <1>5, <1>8
    <3>3. QED  BY <1>7, <3>1, <3>2
  <2>3. /\ Len(x.ids) <= Len(x.view)
        /\ x.pc \in {"scan", "claim", "register"} => Len(x.ids) < Len(x.view)
        /\ x.pc \in {"age", "drop"} => Len(x.ids) = Len(x.view)
    BY <1>4, <1>5, <1>7, <1>8 DEF n, y
  <2>4. QED  BY <2>1, <2>2, <2>3 DEF Assigning
<1>13. \A i, j \in 1..Len(x.ids) : x.ids[i] = x.ids[j] => i = j
  <2> SUFFICES ASSUME NEW i \in 1..(n + 1), NEW j \in 1..(n + 1), x.ids[i] = x.ids[j]
               PROVE  i = j
    BY <1>8
  <2>1. CASE i \in 1..n /\ j \in 1..n  BY <2>1, <1>4, <1>8 DEF n, y
  <2>2. CASE i = n + 1 \/ j = n + 1  BY <2>2, <1>5, <1>8, <1>9
  <2>3. QED  BY <1>5, <2>1, <2>2
<1>14. Serves(x)'
  BY <1>7, <1>12, <1>13 DEF Serves, Tracking
<1>15. OneInTracker'
  BY <1>3, <1>7 DEF TrackerInv, OneInTracker, InTracker
<1>16. ASSUME NEW q \in Request PROVE Serves(req[q])'
  <2>1. CASE q = r  BY <1>3, <1>14, <2>1
  <2>2. CASE q # r
    <3>1. req'[q] = req[q] /\ Serves(req[q])  BY <1>3, <2>2 DEF TrackerInv
    <3>2. req[q].pc \notin Tracking
      BY <2>2 DEF TrackerInv, OneInTracker, InTracker, Tracking
    <3>3. QED  BY <3>1, <3>2 DEF Serves, Tracking
  <2>3. QED  BY <2>1, <2>2
<1>17. ASSUME NEW p \in Isolated PROVE Remembered(p)'
  <2>1. SUFFICES ASSUME known[p] # 0, away[p] <= MaxMisses
        PROVE  known[p] \in live' /\ track'[known[p]].place = p /\ FewMisses(p)'
    BY <1>3 DEF Remembered
  <2>2. known[p] \in live /\ track[known[p]].place = p /\ FewMisses(p)
    BY <2>1 DEF TrackerInv, Remembered
  <2>3. known[p] \in live' /\ track'[known[p]].place = p
    BY <2>2
  <2>4. known[p] \in y.used \union {t} => FewMisses(p)'
    BY <1>3, <1>7 DEF FewMisses, InTracker
  <2>5. known[p] \notin y.used \union {t} => FewMisses(p)'
    <3>1. SUFFICES ASSUME known[p] \notin y.used \union {t} PROVE FewMisses(p)'
      OBVIOUS
    <3>2. track'[known[p]] = track[known[p]]  BY <2>2, <3>1
    <3>3. ~\E q \in Request : InTracker(q) /\ known[p] \in req[q].used
      BY <3>1 DEF TrackerInv, OneInTracker, InTracker, y
    <3>4. ~\E q \in Request : req[q].pc = "drop"
      BY DEF TrackerInv, OneInTracker, InTracker
    <3>5. track[known[p]].misses <= away[p]
      BY <2>2, <3>3, <3>4 DEF FewMisses
    <3>6. QED  BY <1>3, <3>2, <3>5 DEF FewMisses
  <2>6. QED  BY <2>3, <2>4, <2>5
<1>18. History'  BY <1>3 DEF TrackerInv, History
<1>19. QED  BY <1>15, <1>16, <1>17, <1>18 DEF TrackerInv

(* A claimed track moves to its person, and was not that of one who is      *)
(* alone somewhere else.                                                    *)
LEMMA ClaimsStep ==
  ASSUME FrameInv, TrackerInv, NEW r \in Request, Claims(r)
  PROVE  TrackerInv'
PROOF
<1> DEFINE t == req[r].best
           new == [track[t] EXCEPT !.place = Here(r), !.misses = 0]
<1>1. /\ req[r].pc = "claim" /\ Assigned(r, track[t].id, t) /\ UNCHANGED <<known, away>>
      /\ track' = [track EXCEPT ![t] = new] /\ live' = live /\ nextId' = nextId
  BY DEF Claims, Refreshed, history
<1>2. /\ t \in live \ req[r].used /\ Dist(track[t].place, Here(r)) < Threshold
      /\ req[r] \in Work /\ Len(req[r].ids) < Len(req[r].view)
  BY <1>1 DEF TrackerInv, Serves, Assigning, Tracking, Here, HereOf
<1>3. Here(r) \in Place  BY <1>2, HereIsPlace DEF Here, HereOf
<1>4. Tracks /\ t \in 1..Len(track) /\ Len(track) \in Nat
  <2>1. Tracks /\ track \in Seq(TrackType) /\ live \subseteq 1..Len(track)
    BY DEF TrackerInv, Tracks
  <2>2. t \in live  BY <1>2
  <2> HIDE DEF t
  <2>3. t \in 1..Len(track)  BY <2>1, <2>2
  <2>4. Len(track) \in Nat  BY <2>1
  <2>5. QED  BY <2>1, <2>3, <2>4
<1>5. track[t] \in TrackType /\ track[t].id = t /\ track[t].place \in Place
  BY <1>4, TrackFields
<1>6. new \in TrackType /\ new.id = t /\ new.place = Here(r) /\ new.misses = 0
  BY <1>3, <1>5 DEF TrackType
<1> HIDE DEF t, new
<1>7. /\ track' \in Seq(TrackType) /\ Len(track') = Len(track) /\ track'[t] = new
      /\ \A u \in 1..Len(track) : u # t => track'[u] = track[u]
  BY <1>1, <1>4, <1>6 DEF Tracks
<1>8. Tracks'
  <2>1. \A u \in 1..Len(track) : track'[u].id = u  BY <1>4, <1>6, <1>7 DEF Tracks
  <2>2. QED  BY <1>1, <1>4, <1>7, <2>1 DEF Tracks
<1>9. ASSUME NEW p \in Isolated, track[t].place = p \/ Here(r) = p
      PROVE  track[t].place = p /\ Here(r) = p
  <2>1. track[t].place \in Nat /\ Here(r) \in Nat  BY <1>3, <1>5, Places
  <2>2. Dist(Here(r), track[t].place) = Dist(track[t].place, Here(r))
    BY <2>1, Distances
  <2>3. CASE track[t].place = p  BY <1>2, <1>3, <2>2, <2>3, NobodyNear
  <2>4. CASE Here(r) = p  BY <1>2, <1>5, <2>4, NobodyNear
  <2>5. QED  BY <1>9, <2>3, <2>4
<1>10. ASSUME NEW p \in Isolated PROVE OneTrack(p)'
  <2>1. OneTrack(p)  BY DEF TrackerInv
  <2>2. \A u \in live : track'[u].place = p <=> track[u].place = p
    <3>1. \A u \in live : u \in 1..Len(track)  BY <1>4 DEF Tracks
    <3>2. new.place = p <=> track[t].place = p  BY <1>6, <1>9
    <3>3. QED  BY <1>7, <3>1, <3>2
  <2>3. QED  BY <1>1, <2>1, <2>2 DEF OneTrack
<1>11. \A u \in live \ {t} : track'[u] = track[u]
  <2>1. \A u \in live : u \in 1..Len(track)  BY <1>4 DEF Tracks
  <2>2. QED  BY <1>7, <2>1
<1>12. Assigned(r, t, t)  BY <1>1, <1>5
<1>13. \A p \in Isolated : t \in live /\ track[t].place = p => Here(r) = p
  BY <1>9
<1>14. t \notin req[r].used /\ t \in live' /\ live \subseteq live'
  BY <1>1, <1>2
<1>15. track'[t].place = Here(r) /\ track'[t].misses = 0  BY <1>6, <1>7
<1>16. QED
  BY <1>1, <1>8, <1>10, <1>11, <1>12, <1>13, <1>14, <1>15, AssignedStep

(* A new track is made for whom no track is near.                           *)
LEMMA RegistersStep ==
  ASSUME FrameInv, TrackerInv, NEW r \in Request, Registers(r)
  PROVE  TrackerInv'
PROOF
<1> DEFINE n == Len(track)
           new == [id |-> req[r].best, place |-> Here(r), misses |-> 0]
<1>1. /\ req[r].pc = "register" /\ Assigned(r, req[r].best, n + 1)
      /\ track' = Append(track, new) /\ live' = live \union {n + 1} /\ nextId' = nextId + 1
      /\ UNCHANGED <<known, away>>
  BY DEF Registers, history
<1>2. /\ req[r] \in Work /\ Assigning(req[r]) /\ Len(req[r].ids) < Len(req[r].view)
      /\ req[r].best = nextId
      /\ \A t \in live \ req[r].used : Dist(track[t].place, Here(r)) >= Threshold
  BY <1>1 DEF TrackerInv, Serves, Assigning, Tracking, Here, HereOf
<1>3. Here(r) \in Place /\ Here(r) \in Nat  BY <1>2, HereIsPlace DEF Here, HereOf
<1>4. /\ Tracks /\ n \in Nat /\ track \in Seq(TrackType) /\ nextId = n + 1
      /\ live \subseteq 1..n
  BY DEF TrackerInv, Tracks
<1>5. new \in TrackType /\ new.id = n + 1 /\ new.place = Here(r) /\ new.misses = 0
  BY <1>2, <1>3, <1>4 DEF TrackType
<1> HIDE DEF new, n
<1>6. /\ track' \in Seq(TrackType) /\ Len(track') = n + 1 /\ track'[n + 1] = new
      /\ \A u \in 1..n : track'[u] = track[u]
  BY <1>1, <1>4, <1>5 DEF n
<1>7. Tracks'
  <2>1. ASSUME NEW u \in 1..(n + 1) PROVE track'[u].id = u
    <3>1. CASE u = n + 1  BY <3>1, <1>5, <1>6
    <3>2. CASE u \in 1..n  BY <3>2, <1>4, <1>6 DEF Tracks, n
    <3>3. QED  BY <1>4, <3>1, <3>2
  <2>2. live' \in SUBSET (1..(n + 1))  BY <1>1, <1>4
  <2>3. QED  BY <1>1, <1>4, <1>6, <2>1, <2>2 DEF Tracks
<1>8. \A u \in live : u # n + 1 /\ track'[u] = track[u]
  BY <1>4, <1>6
<1>9. \A t \in req[r].used : t \in live
  BY <1>2 DEF Assigning
<1>10. ASSUME NEW p \in Isolated PROVE OneTrack(p)'
  <2>1. OneTrack(p)  BY DEF TrackerInv
  <2>2. ASSUME NEW t \in live, track[t].place = p, Here(r) = p PROVE FALSE
    <3>1. Dist(p, p) = 0 /\ Threshold \in Nat \ {0}
      BY <1>3, <2>2, Distances, VisionAssumption
    <3>2. ~(Dist(p, p) >= Threshold)  BY <3>1
    <3>3. t \in req[r].used  BY <1>2, <2>2, <3>2
    <3>4. PICK i \in 1..Len(req[r].ids) : req[r].ids[i] = t
      BY <1>2, <3>3 DEF Assigning
    <3>5. req[r].view[i] = p  BY <1>2, <2>2, <3>4 DEF Assigning
    <3>6. req[r].view[Len(req[r].ids) + 1] = p  BY <2>2 DEF Here
    <3>7. req[r].view \in Views \union {<<>>} /\ req[r].ids \in Seq(Nat)
      BY <1>2 DEF Work
    <3>8. Len(req[r].ids) \in Nat /\ Len(req[r].view) \in Nat
      BY <3>7, Places
    <3>9. Len(<<>>) = 0  OBVIOUS
    <3>10. req[r].view \in Views  BY <1>2, <3>7, <3>8, <3>9
    <3>11. i \in 1..Len(req[r].view) /\ Len(req[r].ids) + 1 \in 1..Len(req[r].view)
      BY <1>2, <3>4, <3>8
    <3>12. i = Len(req[r].ids) + 1  BY <3>5, <3>6, <3>10, <3>11 DEF Isolated
    <3>13. QED  BY <3>4, <3>8, <3>12
  <2>3. SUFFICES ASSUME NEW t \in live \union {n + 1}, NEW u \in live \union {n + 1},
                        track'[t].place = p, track'[u].place = p
                 PROVE  t = u
    BY <1>1 DEF OneTrack
  <2>4. track'[n + 1].place = Here(r)  BY <1>5, <1>6
  <2>5. CASE t \in live /\ u \in live  BY <1>8, <2>1, <2>3, <2>5 DEF OneTrack
  <2>6. CASE t \in live /\ u = n + 1  BY <1>8, <2>2, <2>3, <2>4, <2>6
  <2>7. CASE t = n + 1 /\ u \in live  BY <1>8, <2>2, <2>3, <2>4, <2>7
  <2>8. QED  BY <2>5, <2>6, <2>7
<1>11. /\ n + 1 \notin req[r].used /\ Assigned(r, n + 1, n + 1)
       /\ n + 1 \in live' /\ live \subseteq live' /\ n + 1 \notin live
  BY <1>1, <1>2, <1>4, <1>8, <1>9
<1>12. track'[n + 1].place = Here(r) /\ track'[n + 1].misses = 0  BY <1>5, <1>6
<1>13. QED
  BY <1>1, <1>7, <1>8, <1>10, <1>11, <1>12, AssignedStep

(* Whoever is not in the image misses it.                                   *)
LEMMA AgesStep ==
  ASSUME FrameInv, TrackerInv, NEW r \in Request, Ages(r)
  PROVE  TrackerInv'
PROOF
<1> DEFINE aged(t) == [track[t] EXCEPT !.misses = @ + 1]
           gone == live \ req[r].used
<1>1. /\ req[r].pc = "age" /\ UNCHANGED <<live, nextId, known, away>>
      /\ track' = [t \in DOMAIN track |-> IF t \in gone THEN aged(t) ELSE track[t]]
  BY DEF Ages, Goes, history
<1>2. PICK x : x = [req[r] EXCEPT !.pc = "drop"]  OBVIOUS
<1>3. /\ Serves(req[r]) /\ Assigning(req[r]) /\ req[r] \in Work
      /\ \A q \in Request \ {r} : req[q].pc \notin Tracking
  BY <1>1 DEF TrackerInv, Serves, Tracking, OneInTracker, InTracker
<1>4. /\ x \in Work /\ x.pc = "drop" /\ x.ids = req[r].ids /\ x.used = req[r].used
      /\ x.view = req[r].view
  BY <1>2, <1>3 DEF Work, Pcs, Tracking
<1>5. /\ req'[r] = x /\ \A q \in Request \ {r} : req'[q] = req[q]
  BY <1>2 DEF Ages, Goes, FrameInv
<1>6. Tracks /\ DOMAIN track = 1..Len(track) /\ Len(track) \in Nat /\ live \subseteq 1..Len(track)
  BY DEF TrackerInv, Tracks
<1>7. ASSUME NEW t \in 1..Len(track)
      PROVE  /\ track'[t] \in TrackType /\ track'[t].id = t
             /\ track'[t].place = track[t].place
             /\ track'[t].misses <= track[t].misses + 1
             /\ t \in req[r].used => track'[t].misses = track[t].misses
  <2>1. track[t] \in TrackType /\ track[t].id = t  BY <1>6, TrackFields
  <2>2. /\ aged(t) \in TrackType /\ aged(t).id = t /\ aged(t).place = track[t].place
        /\ aged(t).misses = track[t].misses + 1 /\ track[t].misses \in Nat
    BY <2>1 DEF TrackType
  <2> HIDE DEF aged, gone
  <2>3. track'[t] = IF t \in gone THEN aged(t) ELSE track[t]  BY <1>1, <1>6
  <2>4. t \in req[r].used => t \notin gone  BY DEF gone
  <2>5. QED  BY <2>1, <2>2, <2>3, <2>4
<1>8. track' \in Seq(TrackType) /\ Len(track') = Len(track)
  <2> HIDE DEF aged, gone
  <2>1. track' \in [1..Len(track) -> TrackType]  BY <1>1, <1>6, <1>7
  <2>2. QED  BY <1>6, <2>1
<1> HIDE DEF aged, gone
<1>9. Tracks'  BY <1>1, <1>6, <1>7, <1>8 DEF Tracks
<1>10. Serves(x)'
  <2>1. \A i \in 1..Len(x.ids) :
          /\ x.ids[i] \in live' \intersect x.used
          /\ track'[x.ids[i]].place = x.view[i] /\ track'[x.ids[i]].misses = 0
    BY <1>1, <1>3, <1>4, <1>6, <1>7 DEF Assigning
  <2>2. Assigning(x)'  BY <1>1, <1>3, <1>4, <2>1 DEF Assigning
  <2>3. QED  BY <1>3, <1>4, <2>2 DEF Serves, Tracking
<1>11. ASSUME NEW q \in Request PROVE Serves(req[q])'
  <2>1. CASE q = r  BY <1>5, <1>10, <2>1
  <2>2. CASE q # r
    <3>1. req'[q] = req[q] /\ Serves(req[q])  BY <1>5, <2>2 DEF TrackerInv
    <3>2. QED  BY <1>3, <2>2, <3>1 DEF Serves, Tracking
  <2>3. QED  BY <2>1, <2>2
<1>12. OneInTracker'
  BY <1>3, <1>5 DEF OneInTracker, InTracker, Tracking
<1>13. ASSUME NEW p \in Isolated PROVE OneTrack(p)' /\ Remembered(p)'
  <2>1. OneTrack(p) /\ Remembered(p)  BY DEF TrackerInv
  <2>2. OneTrack(p)'  BY <1>1, <1>6, <1>7, <2>1 DEF OneTrack
  <2>3. ASSUME known[p] # 0, away[p] <= MaxMisses
        PROVE  known[p] \in live' /\ track'[known[p]].place = p /\ FewMisses(p)'
    <3>1. known[p] \in live /\ track[known[p]].place = p /\ FewMisses(p)
      BY <2>1, <2>3 DEF Remembered
    <3>2. known[p] \in 1..Len(track)  BY <1>6, <3>1
    <3>3. ASSUME known[p] \in req[r].used PROVE FewMisses(p)'
      <4>1. known'[p] \in req'[r].used /\ req'[r].pc = "drop"
        BY <1>1, <1>4, <1>5, <3>3
      <4>2. QED  BY <4>1 DEF FewMisses, InTracker
    <3>4. ASSUME known[p] \notin req[r].used PROVE FewMisses(p)'
      <4>1. track[known[p]].misses <= away[p]
        BY <1>1, <1>3, <3>1, <3>4 DEF FewMisses, InTracker, Tracking
      <4>2. track[known[p]].misses \in Nat /\ track'[known[p]].misses \in Nat
        BY <1>6, <1>7, <3>2, TrackFields DEF TrackType
      <4>3. away[p] \in Nat  BY DEF TrackerInv, History, Isolated
      <4>4. track'[known[p]].misses <= away[p] + 1
        BY <1>7, <3>2, <4>1, <4>2, <4>3
      <4>5. req'[r].pc = "drop"  BY <1>4, <1>5
      <4>6. QED  BY <1>1, <4>4, <4>5 DEF FewMisses
    <3>5. known[p] \in live' /\ track'[known[p]].place = p
      BY <1>1, <1>7, <3>1, <3>2
    <3>6. QED  BY <3>3, <3>4, <3>5
  <2>4. QED  BY <1>1, <2>2, <2>3 DEF Remembered
<1>14. History'  BY <1>1 DEF TrackerInv, History
<1>15. QED  BY <1>9, <1>11, <1>12, <1>13, <1>14 DEF TrackerInv

(* Those in the image are remembered with the track they were given; those  *)
(* who are not are forgotten only if they were missed too often.            *)
LEMMA DropsStep ==
  ASSUME FrameInv, TrackerInv, NEW r \in Request, Drops(r)
  PROVE  /\ TrackerInv'
         /\ \A p \in Isolated :
              known[p] # 0 /\ away[p] <= MaxMisses => known'[p] \in {0, known[p]}
PROOF
<1> DEFINE v == req[r].view
           seen == {v[i] : i \in 1..Len(v)}
           first(p) == CHOOSE i \in 1..Len(v) : v[i] = p
<1>1. /\ req[r].pc = "drop" /\ UNCHANGED <<track, nextId>>
      /\ live' = {t \in live : track[t].misses <= MaxMisses}
      /\ known' = [p \in Place |-> IF p \in seen THEN req[r].ids[first(p)] ELSE known[p]]
      /\ away' = [p \in Place |->
           IF p \in seen THEN 0 ELSE IF away[p] > MaxMisses THEN away[p] ELSE away[p] + 1]
  BY DEF Drops, Goes, Kept
<1>2. PICK x : x = [req[r] EXCEPT !.pc = "measure"]  OBVIOUS
<1>3. /\ Serves(req[r]) /\ Assigning(req[r]) /\ req[r] \in Work
      /\ Len(req[r].ids) = Len(v)
      /\ \A q \in Request \ {r} : req[q].pc \notin Tracking
  BY <1>1 DEF TrackerInv, Serves, Assigning, Tracking, OneInTracker, InTracker
<1>4. x \in Work /\ x.pc = "measure" /\ x.ids = req[r].ids
  BY <1>2, <1>3 DEF Work, Pcs
<1>5. /\ req'[r] = x /\ \A q \in Request \ {r} : req'[q] = req[q]
  BY <1>2 DEF Drops, Goes, FrameInv
<1>6. /\ Tracks /\ live \subseteq 1..Len(track) /\ Len(track) \in Nat
      /\ known \in [Place -> Nat] /\ away \in [Place -> Nat]
  BY DEF TrackerInv, Tracks, History
<1>7. MaxMisses \in Nat  BY VisionAssumption
<1>8. Tracks'  BY <1>1 DEF TrackerInv, Tracks
<1>9. ASSUME NEW q \in Request PROVE Serves(req[q])'
  <2>1. CASE q = r
    <3>1. Serves(x)'  BY <1>3, <1>4 DEF Serves, Tracking
    <3>2. QED  BY <1>5, <2>1, <3>1
  <2>2. CASE q # r
    <3>1. req'[q] = req[q] /\ Serves(req[q])  BY <1>5, <2>2 DEF TrackerInv
    <3>2. QED  BY <1>3, <2>2, <3>1 DEF Serves, Tracking
  <2>3. QED  BY <2>1, <2>2
<1>10. OneInTracker'
  BY <1>3, <1>4, <1>5 DEF OneInTracker, InTracker, Tracking
<1>11. v \in Seq(Nat) /\ Len(v) \in Nat /\ req[r].ids \in Seq(Nat)
  BY <1>3, Places DEF Work
<1>12. ASSUME NEW p \in seen
       PROVE  /\ first(p) \in 1..Len(v) /\ v[first(p)] = p
              /\ req[r].ids[first(p)] \in live
              /\ track[req[r].ids[first(p)]].place = p
              /\ track[req[r].ids[first(p)]].misses = 0
  <2>1. \E i \in 1..Len(v) : v[i] = p  OBVIOUS
  <2>2. first(p) \in 1..Len(v) /\ v[first(p)] = p  BY <2>1
  <2> HIDE DEF first
  <2>3. QED  BY <1>3, <2>2 DEF Assigning
<1> HIDE DEF first
<1>13. History'
  <2>1. ASSUME NEW p \in seen PROVE req[r].ids[first(p)] \in Nat
    <3>1. \A t \in live : t \in Nat  BY <1>6
    <3>2. req[r].ids[first(p)] \in live  BY <1>12
    <3>3. QED  BY <3>1, <3>2
  <2> HIDE DEF seen
  <2>2. known' \in [Place -> Nat]  BY <1>1, <1>6, <2>1
  <2>3. away' \in [Place -> Nat]  BY <1>1, <1>6
  <2>4. QED  BY <2>2, <2>3 DEF History
<1>14. ASSUME NEW p \in Isolated
       PROVE  /\ OneTrack(p)' /\ Remembered(p)'
              /\ known[p] # 0 /\ away[p] <= MaxMisses => known'[p] \in {0, known[p]}
  <2>1. OneTrack(p) /\ Remembered(p) /\ p \in Place
    BY DEF TrackerInv, Isolated
  <2>2. OneTrack(p)'  BY <1>1, <2>1 DEF OneTrack
  <2>3. CASE p \in seen
    <3> DEFINE t == req[r].ids[first(p)]
    <3>1. t \in live /\ track[t].place = p /\ track[t].misses = 0
      BY <1>12, <2>3
    <3>2. known'[p] = t /\ away'[p] = 0  BY <1>1, <2>1, <2>3
    <3> HIDE DEF t
    <3>3. t \in live'  BY <1>1, <1>7, <3>1
    <3>4. track'[known'[p]].misses <= away'[p]  BY <1>1, <3>1, <3>2
    <3>5. Remembered(p)'  BY <1>1, <3>1, <3>2, <3>3, <3>4 DEF Remembered, FewMisses
    <3>6. ASSUME known[p] # 0, away[p] <= MaxMisses PROVE known'[p] = known[p]
      <4>1. known[p] \in live /\ track[known[p]].place = p
        BY <2>1, <3>6 DEF Remembered
      <4>2. QED  BY <2>1, <3>1, <3>2, <4>1 DEF OneTrack
    <3>7. QED  BY <2>2, <3>5, <3>6
  <2>4. CASE p \notin seen
    <3>1. /\ known'[p] = known[p]
          /\ away'[p] = IF away[p] > MaxMisses THEN away[p] ELSE away[p] + 1
      BY <1>1, <2>1, <2>4
    <3>2. away[p] \in Nat  BY <1>6, <2>1
    <3>3. ASSUME known[p] # 0, away'[p] <= MaxMisses
          PROVE  known[p] \in live' /\ track[known[p]].place = p /\ FewMisses(p)'
      <4>1. away[p] <= MaxMisses /\ away'[p] = away[p] + 1
        BY <1>7, <3>1, <3>2, <3>3
      <4>2. known[p] \in live /\ track[known[p]].place = p /\ FewMisses(p)
        BY <2>1, <3>3, <4>1 DEF Remembered
      <4>3. known[p] \notin req[r].used
        <5>1. SUFFICES ASSUME known[p] \in req[r].used PROVE FALSE  OBVIOUS
        <5>2. PICK i \in 1..Len(req[r].ids) : req[r].ids[i] = known[p]
          BY <1>3, <5>1 DEF Assigning
        <5>3. v[i] = p  BY <1>3, <4>2, <5>2 DEF Assigning
        <5>4. i \in 1..Len(v)  BY <1>3, <5>2
        <5>5. QED  BY <2>4, <5>3, <5>4
      <4>4. track[known[p]].misses \in Nat
        <5>1. known[p] \in 1..Len(track)  BY <1>6, <4>2
        <5>2. QED  BY <1>6, <5>1, TrackFields
      <4>5. ~\E q \in Request : InTracker(q) /\ known[p] \in req[q].used
        BY <1>3, <4>3 DEF InTracker, Tracking
      <4>6. track[known[p]].misses <= away[p] + 1
        BY <3>2, <4>2, <4>4, <4>5 DEF FewMisses
      <4>7. track[known[p]].misses <= MaxMisses
        BY <1>7, <3>2, <3>3, <4>1, <4>4, <4>6
      <4>8. known[p] \in live'  BY <1>1, <4>2, <4>7
      <4>9. FewMisses(p)'  BY <1>1, <3>1, <4>1, <4>6 DEF FewMisses
      <4>10. QED  BY <4>2, <4>8, <4>9
    <3>4. Remembered(p)'  BY <1>1, <3>1, <3>3 DEF Remembered
    <3>5. QED  BY <2>2, <3>1, <3>4
  <2>5. QED  BY <2>3, <2>4
<1>15. QED  BY <1>8, <1>9, <1>10, <1>13, <1>14 DEF TrackerInv

-----------------------------------------------------------------------------
(* While no two requests have been in the tracker at once, its invariant    *)
(* holds; only a restart, in which everything is new, ends a race.          *)
CalmInv == FrameInv /\ raced \in BOOLEAN /\ (~raced => TrackerInv)

Fresh ==
  /\ track = <<>> /\ live = {} /\ nextId = 1
  /\ known = [p \in Place |-> 0] /\ away = [p \in Place |-> 0]
  /\ \A r \in Request : req[r] = Idle

LEMMA FreshTracker == Fresh => TrackerInv
PROOF
<1> SUFFICES ASSUME Fresh PROVE TrackerInv  OBVIOUS
<1> USE DEF Fresh
<1>1. track \in Seq(TrackType) /\ Len(track) = 0  OBVIOUS
<1>2. Tracks  BY <1>1 DEF Tracks
<1>3. History  BY DEF History
<1>4. Idle.pc = "idle" /\ \A r \in Request : Serves(req[r])  BY IdleServes DEF Idle
<1>5. OneInTracker  BY <1>4 DEF OneInTracker, InTracker
<1>6. \A p \in Isolated : OneTrack(p) /\ Remembered(p)
  BY DEF OneTrack, Remembered, Isolated
<1>7. QED  BY <1>2, <1>3, <1>4, <1>5, <1>6 DEF TrackerInv

LEMMA TrackerStep ==
  ASSUME FrameInv, TrackerInv, ~raced, ~raced', Next, ~Restarts
  PROVE  TrackerInv'
PROOF
<1>1. PICK r \in Request : Thread(r)  BY DEF Next
<1>2. CASE \E i \in Index : LiveFails(r, i)
  <2>1. UNCHANGED <<req, track, live, nextId, known, away>>
    BY <1>2 DEF LiveFails, tracker, history
  <2>2. QED
    BY <2>1 DEF TrackerInv, Tracks, History, OneInTracker, InTracker, Serves, Assigning,
                OneTrack, Remembered, FewMisses
<1>3. QED
  BY <1>1, <1>2, AsksStep, DetectsStep, ScansStep, ClaimsStep, RegistersStep, AgesStep,
     DropsStep, MeasuringStep DEF Thread

LEMMA CalmStep ==
  ASSUME CalmInv, [Next]_vars
  PROVE  CalmInv'
PROOF
<1>1. FrameInv'  BY FrameStep DEF CalmInv
<1>2. CASE Restarts
  <2>1. TrackerInv'
    <3>1. Fresh'  BY <1>2 DEF Restarts, Starts, Fresh
    <3>2. (Fresh => TrackerInv)'  BY FreshTracker, PTL
    <3>3. QED  BY <3>1, <3>2
  <2>2. QED  BY <1>1, <1>2, <2>1 DEF CalmInv, Restarts, Starts
<1>3. CASE Next /\ ~Restarts
  <2>1. raced' \in BOOLEAN /\ (raced => raced')
    <3>1. PICK r \in Request : Thread(r)  BY <1>3 DEF Next
    <3>2. CASE Detects(r)  BY <3>2 DEF Detects, CalmInv
    <3>3. CASE ~Detects(r)
      <4>1. raced' = raced
        BY <3>1, <3>3 DEF Thread, DetectLive, ReadsFrom, LiveFails, DetectImage, Scans,
                          Claims, Registers, Ages, Drops, Measures, MeasuresAgain, Answers,
                          history
      <4>2. QED  BY <4>1 DEF CalmInv
    <3>4. QED  BY <3>2, <3>3
  <2>2. QED  BY <1>1, <1>3, <2>1, TrackerStep DEF CalmInv
<1>4. CASE UNCHANGED vars
  <2>1. UNCHANGED <<req, track, live, nextId, known, away, raced>>
    BY <1>4 DEF vars, tracker, history
  <2>2. QED
    BY <1>1, <2>1 DEF CalmInv, TrackerInv, Tracks, History, OneInTracker, InTracker,
       Serves, Assigning, OneTrack, Remembered, FewMisses
<1>5. QED  BY <1>2, <1>3, <1>4

LEMMA CalmInvariant == Spec => []CalmInv
PROOF
<1>1. Init => CalmInv
  <2> SUFFICES ASSUME Init PROVE CalmInv  OBVIOUS
  <2>1. FrameInv  BY IdleFits DEF Init, FrameInv, Fits, NoCamera
  <2>2. Fresh /\ raced = FALSE  BY DEF Init, Fresh
  <2>3. QED  BY <2>1, <2>2, FreshTracker DEF CalmInv
<1>2. QED  BY <1>1, CalmStep, PTL DEF Spec

(* Whatever the images show and however many requests there are, as long as *)
(* they do not meet in the tracker no two people have one id, in the tracks *)
(* or in an answer, and no id is given twice.                               *)
THEOREM ToldApart == Spec => []IdsTellPeopleApart
PROOF
<1>1. CalmInv => IdsTellPeopleApart
  <2> SUFFICES ASSUME TrackerInv
               PROVE  /\ \A t, u \in live : track[t].id = track[u].id => t = u
                      /\ \A t \in DOMAIN track : track[t].id < nextId
                      /\ \A r \in Request : \A i, j \in 1..Len(req[r].ids) :
                           req[r].ids[i] = req[r].ids[j] => i = j
    BY DEF CalmInv, IdsTellPeopleApart
  <2>1. /\ DOMAIN track = 1..Len(track) /\ Len(track) \in Nat /\ live \subseteq 1..Len(track)
        /\ nextId = Len(track) + 1 /\ \A t \in 1..Len(track) : track[t].id = t
    BY DEF TrackerInv, Tracks
  <2>2. \A r \in Request : \A i, j \in 1..Len(req[r].ids) :
          req[r].ids[i] = req[r].ids[j] => i = j
    BY DEF TrackerInv, Serves
  <2>3. QED  BY <2>1, <2>2
<1>2. QED  BY <1>1, CalmInvariant, PTL

(* Somebody who is alone at a place gets the same id at every detection     *)
(* there, until more than TRACK_MAX_MISSES detections in a row missed them  *)
(* or requests have met in the tracker.                                     *)
THEOREM KeepsId == Spec => StillPersonKeepsId
PROOF
<1>1. CalmInv /\ [Next]_vars =>
        [\A p \in Isolated :
           known[p] # 0 /\ known'[p] \notin {0, known[p]}
             => away[p] > MaxMisses \/ raced]_vars
  <2> SUFFICES ASSUME CalmInv, Next, NEW p \in Isolated, known[p] # 0, ~raced,
                      ~(away[p] > MaxMisses)
               PROVE  known'[p] \in {0, known[p]}
    OBVIOUS
  <2>1. FrameInv /\ TrackerInv /\ p \in Place  BY DEF CalmInv, Isolated
  <2>2. away[p] <= MaxMisses
    <3>1. away[p] \in Nat /\ MaxMisses \in Nat
      BY <2>1, VisionAssumption DEF TrackerInv, History
    <3>2. QED  BY <3>1
  <2>3. CASE Restarts  BY <2>1, <2>3 DEF Restarts, Starts
  <2>4. ASSUME NEW r \in Request, Drops(r) PROVE known'[p] \in {0, known[p]}
    BY <2>1, <2>2, <2>4, DropsStep
  <2>5. ASSUME NEW r \in Request, Thread(r), ~Drops(r) PROVE known' = known
    BY <2>5 DEF Thread, DetectLive, ReadsFrom, LiveFails, DetectImage, Detects, Scans,
                Claims, Registers, Ages, Measures, MeasuresAgain, Answers, history
  <2>6. QED  BY <2>3, <2>4, <2>5 DEF Next
<1>2. QED  BY <1>1, CalmInvariant, PTL DEF Spec, StillPersonKeepsId
=============================================================================
