------------------------------- MODULE Stores -------------------------------
(***************************************************************************)
(* The two JSON stores (case1/waypoint_store.py, case1/program_store.py)   *)
(* and the tools of server.py that use them.  Every server process loads   *)
(* the whole file, changes one entry and writes the whole file back; there *)
(* is no lock.  write_text opens the file, which truncates it, and then    *)
(* writes: another process may load in between, and a process may die.     *)
(*                                                                         *)
(* An absent file and one that holds {} are the same to every caller, and  *)
(* are one state here.  The tools that only load (list_waypoints,          *)
(* list_programs, move_robot_to_waypoint) change nothing and are left out. *)
(***************************************************************************)
EXTENDS Naturals, Sequences

CONSTANTS Proc,      (* the server processes that share the files          *)
          Waypoint, Program,  (* the names in use                          *)
          Pose,      (* the poses the robot is in when one is saved        *)
          Lists,     (* the waypoint lists of programs                     *)
          None       (* no entry                                           *)

ASSUME NamesAssumption ==
  /\ Waypoint \intersect Program = {}
  /\ Lists \subseteq Seq(Waypoint) /\ <<>> \notin Lists
  /\ None \notin Pose \union Lists

Store == {"waypoints", "programs"}
Key == Waypoint \union Program
Value == Pose \union Lists
Empty == [k \in Key |-> None]

VARIABLES
  text,     (* what is in each file: a "whole" document, nothing ("empty")  *)
            (* or two documents over one another ("mixed")                 *)
  doc,      (* the document, when the text is whole                        *)
  pc,       (* where the tool call of a process is                         *)
  args,     (* its arguments: a store, a key, and what to save there       *)
  todo,     (* the waypoint names it still has to look up                  *)
  legs,     (* the poses program_start has looked up                       *)
  data,     (* the dictionary it loaded and changed                        *)
  started,  (* history: the list and the legs of programs that started     *)
  ever,     (* history: the entries <<key, value>> ever saved              *)
  late,     (* history: processes whose file changed after they loaded it  *)
  spoilt    (* history: files a late process or a crash got at             *)

files == <<text, doc>>
callVars == <<pc, args, todo, legs, data>>
history == <<started, ever, late, spoilt>>
vars == <<files, callVars, history>>

NoArgs == [store |-> "waypoints", key |-> None, value |-> None]

Init ==
  /\ text = [f \in Store |-> "whole"] /\ doc = [f \in Store |-> Empty]
  /\ pc = [p \in Proc |-> "idle"] /\ args = [p \in Proc |-> NoArgs]
  /\ todo = [p \in Proc |-> <<>>] /\ legs = [p \in Proc |-> <<>>]
  /\ data = [p \in Proc |-> Empty]
  /\ started = {} /\ ever = {} /\ late = {} /\ spoilt = {}

Idle(p) == pc' = [pc EXCEPT ![p] = "idle"]
Goes(p, from, to) == pc[p] = from /\ pc' = [pc EXCEPT ![p] = to]
(* The call is over; what it knew is gone. *)
Returns(p) ==
  /\ Idle(p)
  /\ args' = [args EXCEPT ![p] = NoArgs]
  /\ todo' = [todo EXCEPT ![p] = <<>>] /\ legs' = [legs EXCEPT ![p] = <<>>]
  /\ data' = [data EXCEPT ![p] = Empty]
  /\ late' = late \ {p}

-----------------------------------------------------------------------------
(* _load: KeyError is the caller's business, a text that is not whole       *)
(* raises JSONDecodeError and ends the call.                                *)

Readable(f) == text[f] = "whole"

(* The call begins with its arguments. *)
Begins(p, at, a, names) ==
  /\ pc[p] = "idle"
  /\ pc' = [pc EXCEPT ![p] = at]
  /\ args' = [args EXCEPT ![p] = a]
  /\ todo' = [todo EXCEPT ![p] = names]
  /\ UNCHANGED <<files, legs, data, history>>

(* save_waypoint: the pose the robot is in under a name. *)
SaveWaypoint(p) == \E n \in Waypoint, q \in Pose :
  Begins(p, "load", [store |-> "waypoints", key |-> n, value |-> q], <<>>)
DeleteWaypoint(p) == \E n \in Waypoint :
  Begins(p, "load", [store |-> "waypoints", key |-> n, value |-> None], <<>>)
(* program_new looks every waypoint up before it saves. *)
ProgramNew(p) == \E g \in Program, l \in Lists :
  Begins(p, "check", [store |-> "programs", key |-> g, value |-> l], l)
ProgramDelete(p) == \E g \in Program :
  Begins(p, "load", [store |-> "programs", key |-> g, value |-> None], <<>>)
ProgramStart(p) == \E g \in Program :
  Begins(p, "start", [store |-> "programs", key |-> g, value |-> None], <<>>)

(* get_waypoint of the next name: there, or KeyError or JSONDecodeError.    *)
Found(p) == Readable("waypoints") /\ doc["waypoints"][Head(todo[p])] # None
Missing(p) == ~Found(p) /\ Returns(p) /\ UNCHANGED <<files, started, ever, spoilt>>

Checks(p) ==
  /\ pc[p] = "check" /\ Found(p)
  /\ todo' = [todo EXCEPT ![p] = Tail(@)]
  /\ pc' = [pc EXCEPT ![p] = IF Len(todo[p]) = 1 THEN "load" ELSE "check"]
  /\ UNCHANGED <<files, args, legs, data, history>>
CheckFails(p) == pc[p] = "check" /\ Missing(p)

(* program_start: the program, then one waypoint after the other. *)
Looks(p) ==
  LET l == doc["programs"][args[p].key] IN
  /\ Goes(p, "start", "legs")
  /\ Readable("programs") /\ l # None
  /\ todo' = [todo EXCEPT ![p] = l]
  /\ args' = [args EXCEPT ![p].value = l]
  /\ UNCHANGED <<files, legs, data, history>>
LookFails(p) ==
  /\ pc[p] = "start"
  /\ ~Readable("programs") \/ doc["programs"][args[p].key] = None
  /\ Returns(p) /\ UNCHANGED <<files, started, ever, spoilt>>

LegsWith(p) == Append(legs[p], doc["waypoints"][Head(todo[p])])
(* Mutant: only the file has to be readable. *)
AnyFound(p) == Readable("waypoints")
LegFound(p) == Found(p)

LooksUp(p) ==
  /\ pc[p] = "legs" /\ Len(todo[p]) > 1 /\ LegFound(p)
  /\ legs' = [legs EXCEPT ![p] = LegsWith(p)]
  /\ todo' = [todo EXCEPT ![p] = Tail(@)]
  /\ UNCHANGED <<files, pc, args, data, history>>
(* The last leg: the program is submitted with the poses found. *)
Submits(p) ==
  /\ pc[p] = "legs" /\ Len(todo[p]) = 1 /\ LegFound(p)
  /\ started' = started \union {[list |-> args[p].value, legs |-> LegsWith(p)]}
  /\ Returns(p)
  /\ UNCHANGED <<files, ever, spoilt>>
LegFails(p) == pc[p] = "legs" /\ Missing(p)

-----------------------------------------------------------------------------
(* save_* and delete_*: load, change one entry, write everything back.      *)

Changed(p, d) == [d EXCEPT ![args[p].key] = args[p].value]

Loads(p) ==
  LET f == args[p].store IN
  /\ Goes(p, "load", "truncate")
  /\ Readable(f)
  /\ args[p].value # None \/ doc[f][args[p].key] # None
  /\ data' = [data EXCEPT ![p] = Changed(p, doc[f])]
  /\ UNCHANGED <<files, args, todo, legs, history>>
(* Unreadable, or a delete of a name that is not there. *)
LoadFails(p) ==
  LET f == args[p].store IN
  /\ pc[p] = "load"
  /\ ~Readable(f) \/ (args[p].value = None /\ doc[f][args[p].key] = None)
  /\ Returns(p) /\ UNCHANGED <<files, started, ever, spoilt>>

(* Those about to write the same file are now late. *)
Overtakes(p) ==
  late' = late \union {o \in Proc \ {p} : /\ args[o].store = args[p].store
                                          /\ pc[o] \in {"truncate", "write"}}
Spoils(p) == spoilt' = spoilt \union (IF p \in late THEN {args[p].store} ELSE {})

(* Mutant: the file is only opened for writing when there is text to write. *)
KeepText(p) == UNCHANGED text
(* write_text opens the file: what was in it is gone. *)
Truncated(p) == text' = [text EXCEPT ![args[p].store] = "empty"]
Truncates(p) ==
  /\ Goes(p, "truncate", "write")
  /\ Truncated(p)
  /\ Overtakes(p) /\ Spoils(p)
  /\ UNCHANGED <<doc, args, todo, legs, data, started, ever>>

(* Mutant: the entry is written, the rest of the document is not. *)
EntryOnly(p) == Changed(p, Empty)
(* json.dumps of the dictionary loaded and changed. *)
Document(p) == data[p]

(* And writes it from its start: over the text of a process that wrote      *)
(* since, it leaves the end of that one if it is the longer.                *)
Writes(p) ==
  LET f == args[p].store IN
  /\ pc[p] = "write"
  /\ \E t \in {"whole", "mixed"} :
       /\ t = "mixed" => \/ text[f] = "mixed"
                         \/ text[f] = "whole" /\ doc[f] # data[p]
       /\ text' = [text EXCEPT ![f] = t]
       /\ doc' = [doc EXCEPT ![f] = IF t = "whole" THEN Document(p) ELSE Empty]
  /\ ever' = ever \union
       (IF args[p].value = None THEN {} ELSE {<<args[p].key, args[p].value>>})
  /\ Spoils(p)
  /\ Returns(p)
  /\ UNCHANGED started

(* The process is killed, at whatever point of the call; a new one starts.  *)
Dies(p) ==
  /\ pc[p] # "idle"
  /\ spoilt' = spoilt \union (IF pc[p] = "write" THEN {args[p].store} ELSE {})
  /\ Returns(p)
  /\ UNCHANGED <<files, started, ever>>

Call(p) == SaveWaypoint(p) \/ DeleteWaypoint(p) \/ ProgramNew(p)
           \/ ProgramDelete(p) \/ ProgramStart(p)
Next == \E p \in Proc :
  \/ Call(p) \/ Dies(p)
  \/ Checks(p) \/ CheckFails(p)
  \/ Looks(p) \/ LookFails(p) \/ LooksUp(p) \/ Submits(p) \/ LegFails(p)
  \/ Loads(p) \/ LoadFails(p) \/ Truncates(p) \/ Writes(p)

Spec == Init /\ [][Next]_vars

-----------------------------------------------------------------------------
(* A store is unreadable only while a save is between opening and writing   *)
(* the file, or when a process died just there or wrote over a change it    *)
(* had not loaded: no other order of calls leaves a text that later calls   *)
(* of every tool fail on (write_text, waypoint_store.py:24).                *)
ReadableUnlessSpoiled ==
  \A f \in Store \ spoilt :
    text[f] = "whole" \/ \E p \in Proc : pc[p] = "write" /\ args[p].store = f

(* A program that starts has one leg for each waypoint of its list, in the  *)
(* order of the list, and each leg is a pose that was once saved under that *)
(* name, whatever was deleted or saved anew since the program was saved     *)
(* (program_start, server.py:1084).                                         *)
StartedLegsWereSaved ==
  \A s \in started :
    /\ Len(s.legs) = Len(s.list)
    /\ \A i \in 1..Len(s.list) : <<s.list[i], s.legs[i]>> \in ever

(* As long as no process wrote over a change it had not loaded and none     *)
(* died between opening and writing, each call sets or clears its own entry *)
(* in one step and loses no other: the load-change-write of the stores      *)
(* implements AtomicStores.                                                 *)
Atomic == INSTANCE AtomicStores
  WITH contents <- [f \in Store |-> IF f \in spoilt THEN Empty ELSE doc[f]],
       intact <- Store \ spoilt
ImplementsAtomicStore == Atomic!Spec
=============================================================================
