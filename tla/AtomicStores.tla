---------------------------- MODULE AtomicStores ----------------------------
(***************************************************************************)
(* What a caller may expect of the waypoint and program stores: each is a  *)
(* dictionary, a save sets one key and a delete clears one, in one step.   *)
(* A store may be spoilt, once and for all; nothing is promised then.      *)
(***************************************************************************)
CONSTANTS Store, Key, Value, None

VARIABLES contents,  (* the dictionary of every store: None is no entry     *)
          intact     (* the stores nothing has spoilt                      *)

vars == <<contents, intact>>

Empty == [k \in Key |-> None]

Init == contents = [f \in Store |-> Empty] /\ intact = Store

Put(f, k, v) ==
  /\ f \in intact
  /\ contents' = [contents EXCEPT ![f][k] = v]
  /\ UNCHANGED intact

Remove(f, k) ==
  /\ f \in intact /\ contents[f][k] # None
  /\ contents' = [contents EXCEPT ![f][k] = None]
  /\ UNCHANGED intact

Spoil(f) ==
  /\ intact' = intact \ {f}
  /\ contents' = [contents EXCEPT ![f] = Empty]

Next == \E f \in Store :
  \/ \E k \in Key : Remove(f, k) \/ \E v \in Value : Put(f, k, v)
  \/ Spoil(f)

Spec == Init /\ [][Next]_vars

-----------------------------------------------------------------------------
(* No update is lost: of the stores that stay intact, a step changes one    *)
(* entry at most, so what another call saved there is still there           *)
(* (waypoint_store.py, program_store.py: load, change, write back).         *)
OneEntryAtATime ==
  [][\A f, g \in intact', k, l \in Key :
       contents'[f][k] # contents[f][k] /\ contents'[g][l] # contents[g][l]
         => f = g /\ k = l]_vars
=============================================================================
