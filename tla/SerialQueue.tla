----------------------------- MODULE SerialQueue ----------------------------
(***************************************************************************)
(* What case1/queue_manager.py promises its callers, without events,       *)
(* locks or threads: requests stand in one line; at most one at a time is  *)
(* served; a request leaves the line by being served or by being told it   *)
(* is over (an override or a cancel), and is never served afterwards.      *)
(* CommandQueue implements it under the mapping given in QueueRefinement.  *)
(***************************************************************************)
EXTENDS Sequences

CONSTANTS Cmd, NoCmd

VARIABLES line,     (* the requests that wait, in the order they came      *)
          serving,  (* the one being served, or NoCmd                      *)
          over      (* the ones that will not be served (again)            *)

serialVars == <<line, serving, over>>

InLine == {line[i] : i \in DOMAIN line}
Fresh(c) == c \notin InLine \union {serving} \union over

Init == line = <<>> /\ serving = NoCmd /\ over = {}

(* An accepted request takes its place at the end of the line. *)
Join(c) ==
  /\ Fresh(c)
  /\ line' = Append(line, c)
  /\ UNCHANGED <<serving, over>>

(* An override sends everyone in line away and stands there alone. *)
Supplant(c) ==
  /\ Fresh(c)
  /\ line' = <<c>>
  /\ over' = over \union InLine
  /\ UNCHANGED serving

(* A cancel sends everyone in line away. *)
Disband ==
  /\ line' = <<>>
  /\ over' = over \union InLine
  /\ UNCHANGED serving

Serve ==
  /\ serving = NoCmd /\ line # <<>>
  /\ serving' = Head(line)
  /\ line' = Tail(line)
  /\ UNCHANGED over

Leave ==
  /\ serving # NoCmd
  /\ serving' = NoCmd
  /\ over' = over \union {serving}
  /\ UNCHANGED line

Next == \/ \E c \in Cmd : Join(c) \/ Supplant(c)
        \/ Disband \/ Serve \/ Leave

SafeSpec == Init /\ [][Next]_serialVars

(* Service neither idles while someone waits nor lasts for ever. *)
Service == WF_serialVars(Serve) /\ WF_serialVars(Leave)
Spec == SafeSpec /\ Service

-----------------------------------------------------------------------------
(* Nobody stands in line twice, or still while being served, and neither    *)
(* those in line nor the one being served have been told it is over.        *)
Apart ==
  /\ \A i, j \in DOMAIN line : line[i] = line[j] => i = j
  /\ serving \notin InLine
  /\ (InLine \union {serving}) \intersect over = {}

(* A request is served at most once, and not at all once it is over: what   *)
(* is over stays over (submit, cancel_all and _run, queue_manager.py).      *)
ServedOnce == []Apart /\ [][over \subseteq over']_serialVars
=============================================================================
