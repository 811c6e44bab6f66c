# TLA+ models of the UR tool server, its robots and its eyes

An MCP server (`case1/server.py`) offers a language model tools to move, stop and inspect a
Universal Robots arm; around it are clients for the arm, a camera service, ROS2 bridges and a chat
program. This directory models the parts whose correctness depends on the order of events. TLC
checks the models on small instances; TLAPS proves their main safety properties for every value of
the constants.

## 1. Inventory

### The components

| component | state | operations | who calls it |
|---|---|---|---|
| Command queue, `case1/queue_manager.py` | `_pending`, `_current`, `_wake`, `stop_requested`, every command's `status` | `submit`, `cancel_all`, `describe`; the worker `_run`; a throwaway thread `_call` per command | the server's queued tools; its worker calls `fn` |
| MCP server, `case1/server.py` | the client, the queue, the cache | about thirty tools | the chat client; calls everything below |
| Socket client, `case1/ur_client.py` | none (one connection per call) | `get_state`, `move_joint`, `move_linear`, `move_waypoints`, `stop`, `free_drive`, `set_gripper` | tools, `fn` of commands, shadow client, safety node |
| Shadow client, `case1/shadow_client.py` | two clients; implicitly the two poses | the same surface, verified on a simulator and replayed; `sync_sim_to_real` | in place of the client |
| ROS2 client, `ros2_ur_driver/ros2_client.py` | latest messages, `_active_goal_handle`, a node and its thread | the same surface over actions and services | in place of the client |
| Stores, `case1/waypoint_store.py`, `program_store.py` | two JSON files | load, save, get, delete | waypoint and program tools |
| Environment shadow, `server.py` | one cached record under a lock | a refresh thread, `get_environment_shadow` | the chat client |
| Planner, `case1/motion_planner.py` | a node, the last joints, MoveIt's scene | `check_path`, three obstacle calls | planner tools |
| Vision tools, `server.py`, `case1/vision_tf.py` | a tf2 buffer and its node | `find_object`, `move_robot_to_object`, `track`, `get_vision` | the chat client |
| Human detection, `vision_human_track/src` | tracks with ids and misses, one camera | `/detect/image`, `/detect/live` | server, vision bridge |
| Vision bridge, RealSense node, safety node, `ros2_vision_bridge` | the camera, a topic's history, a cool-down clock | polling, publishing, transforms, stopping | ROS2 |
| Live demos, `vision_human_track/live_demo*.py` | the camera | detect, draw, publish | a person |
| Chat client, `llm_client/chat.py` | the conversation | the turn loop with capped tool rounds | a person |
| Voice client, `llm_client/voice.py`, `wakeword.py`, `tts.py`, `latency.py` | the audio being collected | recording, transcription, wake word, speech | the chat client |
| Kinematics, camera geometry, `case1/kinematics.py`, `ros2_vision_bridge/geometry.py` | none | arithmetic | tools, bridge |

### How they interact

A tool call runs on the server's one tool thread, so tools do not overlap, except
`move_through_waypoints`, which hands its work to a thread and waits without blocking the others. A
*queued* tool only submits: the queue's worker starts the command's `fn` on a throwaway thread, which
talks to the robot beside the tools. A *blocking* tool calls the client itself, past the queue. The
client connects to the controller anew for every call, and the controller runs whatever was uploaded
last: the arm is shared by all these threads and nothing orders their uploads. With ROS2 the arm is
an action server, which one goal preempts from another; the nodes of one process share one rclpy
context. With a real robot configured, every motion is one of the simulator and then one of the
robot. Vision reaches the arm on two ways: over topics to the safety node, which is a process of its
own, and over HTTP or tf2 to the tools. Several server processes may share the two store files.

### The hard behaviours

* A throwaway thread cannot be interrupted. After a cancellation the worker walks away from it and
  it goes on: it may upload late, take another motion for its own arrival, or write its status.
* `cmd.status`, `stop_requested` and `_wake` are shared between threads, partly without the lock.
* A stop is two things, `cancel_all` and `robot.stop()`, with time between them.
* On ROS2 one field remembers the goal to cancel, and all threads write it.
* In shadow mode either half of a move may fail or be stopped, and a stop is two stops.
* Files are written in place by every server process, which may die between truncation and write.
* The detection service runs requests in a thread pool: the camera has a lock, the tracker and the
  last depth frame do not.
* Caches, transforms and planning scenes are older than the moment they are used in; move_group
  serves requests whose callers have given up.
* Everyone who waits must come back: a wait for the robot, a tool round, a listening microphone.

### What makes each component correct

* Queue: first in, first out; nothing accepted is lost, nothing dropped runs; a stop cancels the
  command it was meant for and no other; a cancelled command frees the queue; no lost wake-up.
* Motion: two commands nobody cancelled never collide; of what a stop cancelled nothing that waited
  drives the arm; a motion that goes on unwatched was reported as a failure.
* Shadow: the real robot runs only what the simulator did; the robots are apart only for a reason; a
  stop should get to the real robot whatever else fails (it does not: section 4).
* ROS2: a stop cancels what the queue cancelled; whatever executes is in the field unless a
  cancelled call got there; every wait ends; nobody pulls the context away from a node in use.
* Stores: a call changes its own entry in one step; a started program has its legs.
* Vision: an id stands for one person, and stays with them; no distance is older than its image.
* Perception: no motion outlasts a hand that stays.
* World views: nothing told is older than it says; a wrong position has one cause; a feasible path
  is clear of the obstacles known.
* Conversation: whole utterances, one answer per tool call, always back to the user.

## 2. The modules

| module | models |
|---|---|
| `CommandQueue` | `queue_manager.py`, statement by statement where threads can interleave |
| `SerialQueue`, `QueueRefinement` | what the queue promises, and the refinement mapping |
| `MotionServer` | `CommandQueue` with the motion tools of `server.py`, `URClient`, and the controller |
| `ShadowClient` | `shadow_client.py`, with two robots |
| `Ros2Client` | the calls of `ros2_client.py`, with the action server |
| `Ros2Context` | connect, spin, disconnect and exit of all ROS2 nodes of a server |
| `Stores` | both stores and the tools that use them, over several processes |
| `AtomicStores` | what the stores promise: entries set and cleared in one step |
| `VisionService` | `api.py`, `detector.py`, `realsense_camera.py`, `distance_utils.py` |
| `Perception` | camera ownership, `/vision/hands`, `safety_stop_demo.py`, the tool `track` |
| `ObjectApproach` | `realsense_vision_node.py`, `vision_tf.py`, `find_object` |
| `EnvironmentShadow` | `_shadow_loop`, its cache and its readers |
| `MotionPlanner` | `motion_planner.py` with move_group |
| `Conversation` | `chat.py`, `voice.py`, `wakeword.py` |
| `MC...` | the instances for TLC |
| `...Proofs` | the theorems; `WorldViewProofs` is about `EnvironmentShadow`, `ObjectApproach`, `MotionPlanner` and `Ros2Context`, `VisionProofs` about `VisionService` |

**CommandQueue.** A member of `Cmd` is a request; one that is accepted is a command. A critical
section of `_lock` is one action (`Refuse`, `Enqueue`, `Override`, `CancelAll`, `Pick`, `Release`),
every access outside the lock is a step of its own: the status written by `Start` and
`MarkCancelled`, the two tests of `done` (`SeeStop`, `Recheck`), the test of the status in
`CheckStatus` and its write in `Record`. `fn` returns or raises at any time, or never. `ticket`,
`tickets`, `dropped` and `flagged` are history.

**MotionServer** adds the controller (`driver`: whose program it runs, `route`, `arm`), the position
of every `fn` in `move_joint` and its leg, the tool in progress and the path of
`move_through_waypoints`. Queue actions are steps of this module too, except that `fn` now ends when
`move_joint` says so. The tool is a blocking move (one target, or several for the sequence), a
holder of the arm (`Hand`: free-drive, `Grip`: the program `set_gripper` uploads), or `stop_robot`,
which may hang in reading the state after it sent the stopj. What ends with a sleep in the code
(`stop`, `free_drive`, `set_gripper`) ends at any time here, whether or not its program still runs. The
controller is external: an upload replaces what runs. `stopped` and `lapsed` are history.

**ShadowClient** places each arm somewhere in `0..Reach`, so that an interrupted motion leaves it on
the way. A verified move goes through `sim upload`, `sim poll`, `real upload`, `real poll` and may
raise at each; the tools are `sync_sim_to_real` (also in `connect` and after `free_drive`),
`free_drive`, and `stop_robot` with its two try blocks: each uploads, waits a fixed time and reads the
state, where it may hang. A real robot is assumed: without one the
class passes every call to the simulator. All move methods and the gripper go through the same two
passes.

**Ros2Client** has one goal per leg of a command or tool call. The controller may accept, reject,
finish, abort or cancel a goal, or never answer; accepting one ends the one before, as canceled or
aborted. An override only cancels what runs; its own command starts like the others, when the
worker picks it, which may be beside a `set_gripper`. `set_gripper` is a service call with a deadline.
`took` is history: who has touched the field while a thread waits. **Ros2Context** is the other half of that
client: the nodes share one context, each is brought up by the tool that needs it, and the exit runs
the hooks in reverse order. A spin thread may outlive its node, since `join` waits for two seconds only,
and that of `VisionTF` looks at its own flag only (`Blind`).

**Stores.** A call looks up what it needs, loads, changes one entry of the dictionary and writes it all:
`Truncates`, then `Writes`. In between other processes load and write, and a process may be killed.
Two writers may leave one document over the other ("mixed"). The history variables say who saved what (`ever`),
which processes hold a document that has changed since (`late`), and which files such a write or a
crash got at (`spoilt`). A file that is absent and one that holds `{}` are one state.

**VisionService.** An image is a sequence of places, each with a person and one hand. The dictionary of
tracks is the sequence `track` of all that were ever registered and the set `live` of those that were
not dropped; the scan takes the nearest, and of several the oldest. Threads are switched at calls and at the ends of loop bodies, where CPython does it; the scan for the nearest
track is one step. `_assign_ids` is `Scans`, `Claims` or `Registers` per person, then `Ages` and
`Drops`. The camera driver is external: opens and reads fail at will.

**Perception.** One owner of the camera at a time; the bridge polls the service, the RealSense node
and the demos own the camera themselves. The topic keeps the last `Depth` messages. `stop()` blocks
the safety node's executor; an exception in it ends the node. A `track` move returns wherever the arm
was stopped, for that may be within the tolerance of its target.

**ObjectApproach, EnvironmentShadow, MotionPlanner.** Time is a counter; an object, an obstacle and
the arm have a place on a line, so "where" can be right or wrong without any geometry. A tf2 lookup
resolves at the stamp of the transform and fails when the arm's path of that time is out of the
buffer; `find_object` keeps the nearest of its matches, so their order does not matter and `todo` is a
set. move_group serves requests in order, late ones too.

**Conversation.** A chunk of audio is "loud", "medium" or "quiet", one per tick. `preroll` and
`collected` hold places in the stream rather than samples, so a gap or a missing head is visible. The
model asks for up to `MaxCalls` tools at a time or answers; every tool returns, raises or is called
with arguments that do not parse; an interrupt ends the program.

## 3. The runs

| run | question | instance | states |
|---|---|---|---|
| `queue_safety` | is the queue safe, does it implement `SerialQueue`? | 3 requests, symmetric | 0.36 M |
| `queue_liveness` | is everybody served, and the queue freed by a cancel? | 2 requests | 15 k |
| `motion_safety` | what does the queue guarantee about the arm? | 2 single moves, the gripper, stops | 4.2 M |
| `motion_tools` | does the arm move on after a call that reported success? | a program of 2 legs, a move, a sequence, a path and back, free-drive, gripper, stops | 1.2 M |
| `motion_stop` | does nothing that `stop_robot` reported cancelled move the arm? | 2 single moves | violated |
| `shadow_safety` | is the gate kept, what makes the robots drift? | 1 queued and 1 blocking move, 3 places | 0.72 M |
| `shadow_stop` | does a stop get to the real robot? | the same | violated |
| `ros2_safety` | what is in the handle, do all calls end? | a program of 2 legs, a single move, gripper, stops, overrides | 0.19 M |
| `stores` | what is lost to another process or a crash? | 2 processes, 2 waypoints, 1 program, 1 pose | 0.19 M |
| `vision` | do ids and distances survive requests at once? | 2 requests, 2 cameras, 5 images, 2 frames | 4.1 M, symmetric |
| `world_view` | are snapshots, positions, paths and the context sound, does a hand stop the arm? | see below | 2.2 M |
| `conversation` | utterances, answers, and back to the user? | see below | 43 k |

**Bounds, and why they are enough.**

* *Queue.* Every request is used once, so `Cmd` bounds how many are submitted; nothing else is
  bounded. Three requests are one current, one cancelled and still in `fn`, and one waiting, which
  is every role the queue knows.
* *Motion.* A race is between the current command, one left behind, and the tool. Two legs make a
  first and a last. A sequence of two and a path of two that passes its end tell the early arrivals.
  `motion_tools` has one command, because what the second does there, `motion_safety` has already.
  The runs set `CHECK_DEADLOCK FALSE`: when all requests are used and the tool hangs, nothing is left.
* *Shadow.* Three places give every arm a way to be stopped on; one queued and one blocking move can
  overlap, two blocking ones cannot. A stop that hangs ends the tools: `CHECK_DEADLOCK FALSE`.
* *ROS2.* Two threads share the field, one of them has a next goal.
* *Stores.* Two processes make a lost update; two waypoints make an entry to lose, and a program
  that looks up one while the other is deleted.
* *Vision.* Two requests are a race. `MaxMisses = 1` lets a track be missed, kept, and dropped;
  `MaxFrames = 2` lets a depth frame be newer than an image; two places within the threshold and one
  outside tell a neighbour from a stranger. `MaxTracks` stops the growth; nothing is asked after a
  race, of which no property speaks.
* *Perception.* A history of two drops its oldest message; a cool-down of two ticks lets a hand come
  in the middle of it.
* *World view.* The five modules, `Perception` among them, share no variable: `part` chooses which one
  a behaviour exercises, so five questions need one run and the states add up instead of multiplying.
  The arm starts at 0. `MaxClock = 5` is two
  passes of the refresh loop and a reader; `MaxNow = 3` an image, its stamp and a lookup at different
  times, with a buffer of one tick; two obstacles and three places put one between the arm and its
  goal or not; two requests are one late and one current; two lazy nodes come and go in either
  order. The clocks end, and so do the processes: `CHECK_DEADLOCK FALSE`.
* *Conversation.* `SilenceHang = 2` has pauses shorter than it, and `Preroll = 2` a stream with less
  before its first loud chunk and one with more; `MaxWait = 5` and `MaxUtterance = 8` leave room for
  both; three rounds of up to two calls reach the cap with a call unanswered. The program may exit:
  `CHECK_DEADLOCK FALSE`.

**Fairness.** `queue_liveness` assumes that the worker, a daemon thread in an endless loop, and the
throwaway threads *outside* `fn` go on, and nothing of `fn`: `EveryCommandServed` and
`ImplementsSerialService` state the condition `FnsEnd` themselves, `CancelFreesQueue` holds without
it. The motion runs and `shadow_safety` need none. `shadow_stop` assumes that the controllers
run what they are given and that a stop goes on as long as its reads end, so that a violation is more
than a program that rests.
`ros2_safety` assumes that threads and tools go on and *nothing* of the controller, since the deadlines of
`_wait` have to be enough. `world_view` assumes, of its hands, that time passes, what was seen is published and
callbacks run; that somebody keeps reading the camera is stated in the property. `conversation`
assumes that the microphone delivers a chunk or ends, and that the model and the tools answer or
fail; nobody has to speak and the model never has to stop asking for tools.

**What the properties say.** The comment before each one states it; the shortest account:

* `NoLostWakeup`, `NoSpuriousCancel`, `DroppedNeverRuns`, `NothingLost`, `FifoOrder`,
  `OneLiveCommand`, `SettledWhenReleased`, `ImplementsSerialQueue`: the list above, for the queue.
* `StopLimitsDamage`: of the commands a finished `stop_robot` reported, only one that was current
  can still drive the arm. `QueuedMovesDoNotCollide`. `UnwatchedMotionFailed`: a program that still
  takes the arm somewhere is polled for by the call that uploaded it, or that call raised or hangs;
  `move_through_waypoints` is excepted, whose poll may take a passing arm for an arrival.
* `GatedBySim`, `DriftHasACause`: the promises of shadow mode that hold.
* `HandleIsTracked`, `StopAgreesWithQueue`, `CallsEnd`: the shared handle. `HandleLostToFlagged`: whoever
  takes it from a command that nobody cancelled is the thread of a cancelled one, or a tool call.
* `ReadableUnlessSpoiled`, `StartedLegsWereSaved`, `ImplementsAtomicStore`: without a write over a
  change that was not loaded, and without a crash in a write, the files behave as if atomic.
* `IdsTellPeopleApart`, `StillPersonKeepsId`: as long as no two requests are in the tracker at once.
  `AnswersFitTheFrame`: always; a distance may be of a newer frame than the image.
* `HandStopsArm`; `SnapshotIsHonest`, `FoundHasACause`,
  `FeasibleAvoidsObstacles`, `ContextOutlivesNodes`; `UtteranceIsWhole`, `EveryCallAnswered`,
  `ComesBack`.

## 4. Where the code and its words differ

Two runs refute a sentence of the documentation.

`motion_stop`: `stop_robot` while a command's
thread is between its start and its upload (`ur_client.py:153-168`). The stopj goes out first, the
movej second, and the arm moves after `stop_robot` reported the command cancelled, although
`server.py:1581` says that it "genuinely interrupts a move that was started with move_robot_queued".
`StopLimitsDamage` is what is left of the promise.

`shadow_stop`: "a stop must never be gated behind another command's outcome" (`shadow_client.py:21`), but
`stop()` runs the simulator's stop to its end first (`shadow_client.py:163`), and that reads the state
after its stopj (`ur_client.py:361`). If the simulator closes the connection inside a header,
`_rtde_recv` loops for ever (`ur_client.py:429`): nothing is raised, the try block has nothing to
catch, and the real robot is not told to stop. An exception of the simulator's stop is caught and does
not keep it away.

The other differences met while modelling are behaviours of the models above, with the property that
states what does hold, where there is one:

* The status of a command is not final: `_call` tests it at `queue_manager.py:160` and writes it
  later, the worker writes "cancelled" in between, or before. `queue_manager.py:32` reads
  "pending -> running -> done/failed/cancelled". Holds: a released command has some final status
  (`SettledWhenReleased`).
* `mode="override"` says "cancel everything running/queued and run this now" (`server.py:651`); the
  overridden command's thread may upload after it and take the arm back
  (`queue_manager.py:171`). Holds: `QueuedMovesDoNotCollide`, for commands nobody cancelled.
* "The pre-flight gate [...] is only meaningful if the simulator's CURRENT pose actually matches the
  real robot's" (`shadow_client.py:31`), and a sync runs on connect and after free-drive only
  (`server.py:1624`): after a move that raised, the next one is verified from elsewhere. Holds:
  `DriftHasACause`, `GatedBySim`.
* On ROS2 a canceled goal makes `move_joint` return like one that arrived (`ros2_client.py:336`), and
  a program goes on with its next leg after `stop_robot`, which "can be interrupted with stop_robot"
  (`server.py:1067`). Holds: such a program is one the queue counts as cancelled
  (`StopAgreesWithQueue`).
* A cancelled command's thread clears or overwrites the handle of the goal that executes
  (`ros2_client.py:330`); a stop then finds nothing although a goal is "still tracked as active by
  the move call that started it" (`server.py:1576`). Holds: `HandleLostToFlagged`.
* A stop that takes effect within the tolerance of the target looks like an arrival
  (`ur_client.py:174`): `track`, stopped by the safety node just short of where it aims, goes on and aims
  at the same hand again (`server.py:1308`). Holds: that motion is stopped in its turn (`HandStopsArm`).
* `/detect/image` is called "stateless" (`api.py:10`), but it goes through the tracker that
  `/detect/live` uses, ages its tracks and consumes ids. In the model; `StillPersonKeepsId` counts
  detections of either kind.
* "Re-opens if the index changes (cv2 backend) or the device dropped" (`api.py:143`): a RealSense
  that dropped is never opened again. In the model (`Reusable`).
* `wait_for_wake_word` returns when the microphone's stream ends, as if the word had been heard
  (`wakeword.py:63`). In the model (`WaitForWakeWord` needs no word): the program then listens.
* `ROS2URClient.disconnect` leaves its stop flag set, so that a spin thread started by a second
  `connect` would end at once. No caller connects twice; `Ros2Context` has one connection each.

## 5. The proofs

All theorems hold for every value of the constants, from the named assumptions of the modules only
(distinct owners and names, bounds that are natural numbers, targets within reach); those about
progress also from where the fair actions are enabled (see Liveness below). Each follows the
same pattern: an inductive invariant, one lemma per action or group of actions, a temporal step.

* **Queue** (`CommandQueueProofs`). `ThreadInv /\ LineInv`, inductive only together. `ThreadInv`
  ties the worker's position, the throwaway threads, the stop flag and the statuses to one another.
  `LineInv` is about the list: sorted by ticket, holding only untouched commands, an override only
  at its head, and every accepted command is somewhere. `Pick` needs of `LineInv` that a listed
  command has no thread yet; `Release` needs of `ThreadInv` that a released one is settled. The types
  and all other safety properties of `queue_safety` follow, and `Refinement`: steps of threads
  stutter, `Enqueue`, `Override`, `CancelAll`, `Pick` and `Release` are the steps of `SerialQueue`. What
  that abstract queue is worth is proved of it alone, `SerialServesOnce`: a request is served at most
  once, and not at all once it was told that it is over. By the refinement the code's queue inherits
  it (`ServedAtMostOnce`).
* **Server** (`MotionServerProofs`). `QueueInServer` shows that every step of the server is a step
  or a stutter of the queue, so the queue's invariant holds there and is a lemma; the refinement comes along, and with it
  `ServerServesOnce`. On top of it:
  `MotionTypeOK` with `ToolInv` for the types (a move under way has a target left); `DriveInv` (what
  a stop reported was dropped or flagged; who drives the arm has started) for `StopLimits`; `WatchInv`
  (the program of a command or a blocking move has one target left, the one its uploader polls for,
  unless that call raised or hangs or the arm is there already) for `UnwatchedMotion`;
  `NoCollision` from the part of `ThreadInv` that leaves one uncancelled command in `fn`.
* **Shadow client** (`ShadowClientProofs`). `ShadowInv` joins the types, `ToolInv` (what moves during which tools), `GateInv` (what a move knows of the simulator at each of its positions)
  and `DriftInv`: unless disturbed, calls are alone, and where each arm *will* be when its program
  has run is what the call in progress expects. `DriftHasACause` speaks of arms at rest and is not
  inductive; `End`, the place an arm is on its way to, makes it so.
* **ROS2 client** (`Ros2ClientProofs`). `HandleIsTracked` with the types is inductive. `StopInv`: between
  flagging and reading the handle every command under way is flagged. `AloneInv`: commands that
  nobody cancelled run one at a time, so whoever touches the field beside one of them is cancelled or a
  tool call; with what that one knows of the field, this is inductive.
* **Stores** (`StoresProofs`). `CallInv` says what each call holds at each position; from it
  `StartedLegs`. `FileInv` says, of each file not spoilt, that a process which has it open is
  alone with it, all others about to write it being late, and that who is not late holds the document
  that is there, with the one entry changed. From it `Readability` and `Refinement`: the write of a
  document is `AtomicStores`' `Put` or `Remove`, what makes a file spoilt is `Spoil`, all else stutters. `NoUpdateLost` is what a
  caller gains: `AtomicStores` changes one entry at most in the files that stay intact, so the stores do.
* **Vision** (`VisionProofs`). `FrameInv`: from a RealSense that was opened only newer frames are
  read, so every distance measured, now or later, is not older than the image (`Answered`).
  `TrackerInv` holds as long as no two requests were in the tracker at once: the id of a track is its
  number, what the request in it has assigned so far is to be seen in the tracks (there, fresh, each
  once), the track it is about to claim is free and near, and if it is about to register there is
  none such. `ToldApart` is part of it. For `KeepsId` it says of everybody who is alone that one track at most is at
  their place, and that this track has missed no more detections than they have, but for the one being
  counted. That `_assign_ids` finds a nearest track, if any is near, is a lemma: a set of naturals
  has a least member (`LeastOf`), by the well-foundedness of `<`.
* **World views** (`WorldViewProofs`). `ShadowInv`: the record under construction, the cached one and
  the one told are each honest about their age. `ContextInv`: lazy nodes are up only while the
  robot's is, whose hook is the first registered and so the last to run. `PlannerInv`: the one
  request that is still waited for is the last of the queue, so none that was given up is served
  after it. `ApproachInv`: every transform in the buffer and every place found is the object's,
  displaced by what the arm moved between image and stamp, two moments its path knows. These hold without the bounds of the runs.
* **Conversation** (`ConversationProofs`). `TurnInv`: calls are the answers followed by what is still
  to do. `RecordingInv`: before the first loud chunk, the preroll is the end of the stream; after it,
  `collected` is the stream from the preroll on, and a pause being counted is quiet throughout.

**Liveness.** Weak fairness says what happens to an action that stays enabled, and the provers cannot
expand `ENABLED`. Theorems about progress therefore carry one more hypothesis for each fair action:
where it is enabled, as a state predicate that implies its `ENABLED`. Each of these predicates is
read off the guards of the action, and TLC finds `guard => ENABLED <<A>>_vars` to be an invariant of
the instance of the run that checks the property. The rest is proved, for every value of the
constants: an invariant, the phases an actor goes through, for each phase that any other step leaves
it there and its own step takes it on, and the temporal step from the fairness in the specification.

* `CancelFrees` (`CancelFreesQueue`): `FlagInv` says that the stop flag stays set as long as the
  command it was raised for is current, so the worker gets from `await` to `recheck`, `cancel` and
  `release` although the thread may hang in its fn. `CurrentEnds` is the worker's way without a stop,
  with the thread's own steps under way, and `LineMoves` that it does not rest while commands wait.
* `ToolCallEnds` and `LegEnds` (`CallsEnd`): every goal is waited for only so long, and a call goes on
  to the next one or ends; it has no more than `Legs[t]` of them by `TypeCorrect`.
* `TurnsRunDown` (`ComesBack`) needs no `ENABLED`: `StepsLeft` is a natural number that every step
  away from the user lowers, so such steps come to an end whatever the model and the room do.

**Only model-checked.** Temporal properties that need an induction over the natural numbers, which no
backend can instantiate: `EveryCommandServed` (over the place in the list, from
`CurrentEnds`, `LineMoves` and `FifoOrder`), `CallsEnd` as a whole (over the legs), `ComesBack` (over
`StepsLeft`), `HandStopsArm` (over the cool-down and the messages before the hand's). And
`ImplementsSerialService`, the liveness half of the refinement, which speaks of `ENABLED` of the abstract
actions; `LineMoves` and `CurrentEnds` are what it rests on. Every invariant and every action property of a passing run is proved.

## 6. Not modelled, and why

* Kinematics, camera geometry, approach directions, duration estimates and the comparison of
  rotation vectors (`ur_client.py:225`) are arithmetic on reals. In the models a poll may see an
  arrival, miss it and time out.
* The bytes of RTDE packets and of URScript: an upload is one step that succeeds or raises, a read
  is one that returns, raises or hangs.
* The models that detect people, hands and objects, that recognize and speak: external, any answer.
* Publishing of the topics nothing in this repository subscribes to, drawing, windows, logging, the
  latency report and progress notifications: they change nothing that anybody here decides on.
* Tools that only read (`list_waypoints`, `get_queue`, `describe`): they return what the models'
  variables hold.
* A lost answer of a tool call to the chat client: no tool is retried by this code.
* Two operators at one detection service with different thresholds, other users of the controller,
  and the robot's own protective stops: not part of the program; a program may end at any time.
