---------------------------- MODULE StoresProofs ----------------------------
(* Proofs about the two JSON stores: what a started program is made of,     *)
(* when a file can be read, and that the stores implement AtomicStores.     *)
EXTENDS Stores, TLAPS

-----------------------------------------------------------------------------
(* What the calls carry: types, and values that were once saved.            *)

Kind(f) == IF f = "waypoints" THEN Pose ELSE Lists
Arguments == [store : Store, key : Key \union {None}, value : Value \union {None}]
Dictionary == [Key -> Value \union {None}]
At == {"idle", "load", "check", "start", "legs", "truncate", "write"}
Writing(p) == pc[p] \in {"truncate", "write"}

StoresTypeOK ==
  /\ text \in [Store -> {"whole", "empty", "mixed"}]
  /\ doc \in [Store -> Dictionary]
  /\ pc \in [Proc -> At] /\ args \in [Proc -> Arguments]
  /\ todo \in [Proc -> Seq(Waypoint)] /\ legs \in [Proc -> Seq(Pose)]
  /\ data \in [Proc -> Dictionary]
  /\ late \subseteq Proc /\ spoilt \subseteq Store

(* The entries of a document, but for one that is being added, were saved. *)
Saved(f, d, more) ==
  \A k \in Key : d[k] # None =>
    d[k] \in Kind(f) /\ (<<k, d[k]>> \in ever \/ <<k, d[k]>> = more)

CallPart(p) ==
  /\ pc[p] \in {"load", "truncate", "write"} =>
       args[p].key \in Key /\ args[p].value \in Kind(args[p].store) \union {None}
  /\ pc[p] = "check" => /\ args[p].store = "programs" /\ args[p].key \in Key
                        /\ args[p].value \in Lists /\ todo[p] # <<>>
  /\ pc[p] = "start" => args[p].key \in Key
  /\ Writing(p) => Saved(args[p].store, data[p], <<args[p].key, args[p].value>>)
  /\ pc[p] # "legs" => legs[p] = <<>>

(* The legs found and the names to look up make up the program's list.      *)
LegPart(p) ==
  pc[p] = "legs" =>
    /\ args[p].value \in Seq(Waypoint)
    /\ Len(legs[p]) + Len(todo[p]) = Len(args[p].value)
    /\ \A i \in 1..Len(todo[p]) : todo[p][i] = args[p].value[Len(legs[p]) + i]
    /\ \A i \in 1..Len(legs[p]) : <<args[p].value[i], legs[p][i]>> \in ever

DocPart == \A f \in Store : Saved(f, doc[f], <<>>)

CallInv == /\ StoresTypeOK /\ DocPart /\ StartedLegsWereSaved
           /\ \A p \in Proc : CallPart(p) /\ LegPart(p)

(* The call of another process is not touched. *)
Same(q) == /\ pc'[q] = pc[q] /\ args'[q] = args[q] /\ todo'[q] = todo[q]
           /\ legs'[q] = legs[q] /\ data'[q] = data[q]

LEMMA SameCall ==
  ASSUME CallInv, NEW q \in Proc, Same(q), ever \subseteq ever'
  PROVE  CallPart(q)' /\ LegPart(q)'
PROOF
<1>1. CallPart(q) /\ LegPart(q)  BY DEF CallInv
<1>2. CallPart(q)'  BY <1>1 DEF CallPart, Same, Saved, Writing
<1>3. LegPart(q)'  BY <1>1 DEF LegPart, Same
<1>4. QED  BY <1>2, <1>3

LEMMA SameFiles ==
  ASSUME CallInv, doc' = doc, started' = started, ever' = ever
  PROVE  DocPart' /\ StartedLegsWereSaved'
PROOF
<1>1. DocPart'  BY DEF CallInv, DocPart, Saved
<1>2. StartedLegsWereSaved'  BY DEF CallInv, StartedLegsWereSaved
<1>3. QED  BY <1>1, <1>2

LEMMA ArgumentsOf ==
  ASSUME NEW f \in Store, NEW k \in Key, NEW v \in Value \union {None}
  PROVE  /\ [store |-> f, key |-> k, value |-> v] \in Arguments
         /\ [store |-> f, key |-> k, value |-> v].store = f
         /\ [store |-> f, key |-> k, value |-> v].key = k
         /\ [store |-> f, key |-> k, value |-> v].value = v
PROOF
<1>1. QED  BY DEF Arguments

LEMMA BeginsCall ==
  ASSUME CallInv, NEW p \in Proc, NEW at \in {"load", "check", "start"},
         NEW f \in Store, NEW k \in Key, NEW v \in Kind(f) \union {None},
         NEW names \in Seq(Waypoint),
         Begins(p, at, [store |-> f, key |-> k, value |-> v], names),
         at = "check" => f = "programs" /\ v \in Lists /\ names # <<>>
  PROVE  CallInv'
PROOF
<1> DEFINE a == [store |-> f, key |-> k, value |-> v]
<1>1. v \in Value \union {None}  BY DEF Kind, Value
<1>2. a \in Arguments /\ a.store = f /\ a.key = k /\ a.value = v
  BY <1>1, ArgumentsOf
<1> HIDE DEF a
<1>3. /\ pc[p] = "idle"
      /\ pc' = [pc EXCEPT ![p] = at] /\ args' = [args EXCEPT ![p] = a]
      /\ todo' = [todo EXCEPT ![p] = names]
      /\ UNCHANGED <<files, legs, data, history>>
  BY DEF Begins, a
<1>4. StoresTypeOK'
  BY <1>2, <1>3 DEF CallInv, StoresTypeOK, At, files, history
<1>5. \A q \in Proc \ {p} : Same(q)
  BY <1>3 DEF Same, CallInv, StoresTypeOK
<1>6. pc'[p] = at /\ args'[p] = a /\ todo'[p] = names /\ legs'[p] = legs[p]
  BY <1>3 DEF CallInv, StoresTypeOK
<1>7. CallPart(p)' /\ LegPart(p)'
  BY <1>2, <1>3, <1>6 DEF CallInv, CallPart, LegPart, Writing
<1>8. doc' = doc /\ started' = started /\ ever' = ever
  BY <1>3 DEF files, history
<1>9. QED  BY <1>4, <1>5, <1>7, <1>8, SameCall, SameFiles DEF CallInv

LEMMA CallCall ==
  ASSUME CallInv, NEW p \in Proc, Call(p)
  PROVE  CallInv'
PROOF
<1>1. CASE SaveWaypoint(p)
  <2>1. PICK n \in Waypoint, q \in Pose :
          Begins(p, "load", [store |-> "waypoints", key |-> n, value |-> q], <<>>)
    BY <1>1 DEF SaveWaypoint
  <2>2. n \in Key /\ q \in Kind("waypoints") \union {None} /\ <<>> \in Seq(Waypoint)
    BY DEF Key, Kind
  <2>3. QED  BY <2>1, <2>2, BeginsCall DEF Store
<1>2. CASE DeleteWaypoint(p)
  <2>1. PICK n \in Waypoint :
          Begins(p, "load", [store |-> "waypoints", key |-> n, value |-> None], <<>>)
    BY <1>2 DEF DeleteWaypoint
  <2>2. n \in Key /\ <<>> \in Seq(Waypoint)  BY DEF Key
  <2>3. QED  BY <2>1, <2>2, BeginsCall DEF Store
<1>3. CASE ProgramNew(p)
  <2>1. PICK g \in Program, l \in Lists :
          Begins(p, "check", [store |-> "programs", key |-> g, value |-> l], l)
    BY <1>3 DEF ProgramNew
  <2>2. g \in Key /\ l \in Kind("programs") \union {None} /\ l \in Seq(Waypoint) /\ l # <<>>
    BY NamesAssumption DEF Key, Kind
  <2>3. QED  BY <2>1, <2>2, BeginsCall DEF Store
<1>4. CASE ProgramDelete(p)
  <2>1. PICK g \in Program :
          Begins(p, "load", [store |-> "programs", key |-> g, value |-> None], <<>>)
    BY <1>4 DEF ProgramDelete
  <2>2. g \in Key /\ <<>> \in Seq(Waypoint)  BY DEF Key
  <2>3. QED  BY <2>1, <2>2, BeginsCall DEF Store
<1>5. CASE ProgramStart(p)
  <2>1. PICK g \in Program :
          Begins(p, "start", [store |-> "programs", key |-> g, value |-> None], <<>>)
    BY <1>5 DEF ProgramStart
  <2>2. g \in Key /\ <<>> \in Seq(Waypoint)  BY DEF Key
  <2>3. QED  BY <2>1, <2>2, BeginsCall DEF Store
<1>6. QED  BY <1>1, <1>2, <1>3, <1>4, <1>5 DEF Call

LEMMA ReturnsFacts ==
  ASSUME CallInv, NEW p \in Proc, Returns(p)
  PROVE  /\ pc' \in [Proc -> At] /\ args' \in [Proc -> Arguments]
         /\ todo' \in [Proc -> Seq(Waypoint)] /\ legs' \in [Proc -> Seq(Pose)]
         /\ data' \in [Proc -> Dictionary] /\ late' \subseteq Proc
         /\ pc'[p] = "idle" /\ legs'[p] = <<>>
         /\ \A q \in Proc \ {p} : Same(q)
PROOF
<1>1. NoArgs \in Arguments  BY DEF NoArgs, Arguments, Store
<1>2. Empty \in Dictionary  BY DEF Empty, Dictionary
<1>3. <<>> \in Seq(Waypoint) /\ <<>> \in Seq(Pose)  OBVIOUS
<1>4. QED
  BY <1>1, <1>2, <1>3 DEF CallInv, StoresTypeOK, Returns, Idle, At, Same

LEMMA ReturnsCall ==
  ASSUME CallInv, NEW p \in Proc, Returns(p), UNCHANGED <<files, started, ever>>,
         spoilt' \subseteq Store
  PROVE  CallInv'
PROOF
<1>1. StoresTypeOK'
  BY ReturnsFacts DEF CallInv, StoresTypeOK, files
<1>2. CallPart(p)' /\ LegPart(p)'
  BY ReturnsFacts DEF CallPart, LegPart, Writing
<1>3. doc' = doc /\ started' = started /\ ever' = ever  BY DEF files
<1>4. QED  BY <1>1, <1>2, <1>3, ReturnsFacts, SameCall, SameFiles DEF CallInv

(* What a lookup finds was saved under that name. *)
LEMMA FoundIsSaved ==
  ASSUME CallInv, NEW p \in Proc, Found(p), Len(todo[p]) > 0
  PROVE  /\ todo[p] # <<>> /\ Head(todo[p]) = todo[p][1]
         /\ Head(todo[p]) \in Waypoint /\ Tail(todo[p]) \in Seq(Waypoint)
         /\ Len(Tail(todo[p])) = Len(todo[p]) - 1
         /\ \A i \in 1..(Len(todo[p]) - 1) : Tail(todo[p])[i] = todo[p][i + 1]
         /\ doc["waypoints"][Head(todo[p])] \in Pose
         /\ <<Head(todo[p]), doc["waypoints"][Head(todo[p])]>> \in ever
PROOF
<1>1. todo[p] \in Seq(Waypoint)  BY DEF CallInv, StoresTypeOK
<1>2. /\ todo[p] # <<>> /\ Head(todo[p]) = todo[p][1]
      /\ Head(todo[p]) \in Waypoint /\ Tail(todo[p]) \in Seq(Waypoint)
      /\ Len(Tail(todo[p])) = Len(todo[p]) - 1
      /\ \A i \in 1..(Len(todo[p]) - 1) : Tail(todo[p])[i] = todo[p][i + 1]
  BY <1>1
<1>3. Head(todo[p]) \in Key /\ "waypoints" \in Store  BY <1>2 DEF Key, Store
<1>4. doc["waypoints"][Head(todo[p])] # None  BY DEF Found
<1>5. Saved("waypoints", doc["waypoints"], <<>>)  BY <1>3 DEF CallInv, DocPart
<1>6. <<Head(todo[p]), doc["waypoints"][Head(todo[p])]>> # <<>>  OBVIOUS
<1>7. QED  BY <1>2, <1>3, <1>4, <1>5, <1>6 DEF Saved, Kind

LEMMA ChecksCall ==
  ASSUME CallInv, NEW p \in Proc, Checks(p)
  PROVE  CallInv'
PROOF
<1>1. /\ pc[p] = "check" /\ todo' = [todo EXCEPT ![p] = Tail(@)]
      /\ pc' = [pc EXCEPT ![p] = IF Len(todo[p]) = 1 THEN "load" ELSE "check"]
      /\ UNCHANGED <<files, args, legs, data, history>> /\ Found(p)
  BY DEF Checks
<1>2. CallPart(p) /\ LegPart(p) /\ todo[p] \in Seq(Waypoint)
  BY DEF CallInv, StoresTypeOK
<1>3. Len(todo[p]) > 0 /\ Len(todo[p]) \in Nat  BY <1>1, <1>2 DEF CallPart
<1>4. Tail(todo[p]) \in Seq(Waypoint) /\ (Len(todo[p]) # 1 => Tail(todo[p]) # <<>>)
  <2>1. Tail(todo[p]) \in Seq(Waypoint) /\ Len(Tail(todo[p])) = Len(todo[p]) - 1
    BY <1>1, <1>3, FoundIsSaved
  <2>2. ASSUME Tail(todo[p]) = <<>> PROVE Len(todo[p]) = 1
    <3>1. Len(<<>>) = 0  OBVIOUS
    <3>2. Len(Tail(todo[p])) = 0  BY <2>2, <3>1, Zenon
    <3>3. QED  BY <1>3, <2>1, <3>2
  <2>3. QED  BY <2>1, <2>2
<1>5. StoresTypeOK'
  BY <1>1, <1>4 DEF CallInv, StoresTypeOK, At, files, history
<1>6. \A q \in Proc \ {p} : Same(q)  BY <1>1 DEF Same, CallInv, StoresTypeOK
<1>7. /\ pc'[p] = IF Len(todo[p]) = 1 THEN "load" ELSE "check"
      /\ args'[p] = args[p] /\ todo'[p] = Tail(todo[p]) /\ legs'[p] = legs[p]
  BY <1>1 DEF CallInv, StoresTypeOK
<1>8. CallPart(p)' /\ LegPart(p)'
  <2>1. /\ args[p].store = "programs" /\ args[p].key \in Key /\ args[p].value \in Lists
        /\ legs[p] = <<>>
    BY <1>1, <1>2 DEF CallPart
  <2>2. pc'[p] = "load" \/ (pc'[p] = "check" /\ todo'[p] # <<>>)
    BY <1>4, <1>7
  <2>3. args[p].value \in Kind(args[p].store) \union {None}  BY <2>1 DEF Kind
  <2>4. QED  BY <1>7, <2>1, <2>2, <2>3 DEF CallPart, LegPart, Writing
<1>9. doc' = doc /\ started' = started /\ ever' = ever  BY <1>1 DEF files, history
<1>10. QED  BY <1>5, <1>6, <1>8, <1>9, SameCall, SameFiles DEF CallInv

LEMMA LooksCall ==
  ASSUME CallInv, NEW p \in Proc, Looks(p)
  PROVE  CallInv'
PROOF
<1> DEFINE l == doc["programs"][args[p].key]
           a == [args[p] EXCEPT !.value = l]
<1>1. /\ pc[p] = "start" /\ pc' = [pc EXCEPT ![p] = "legs"] /\ l # None
      /\ todo' = [todo EXCEPT ![p] = l]
      /\ args' = [args EXCEPT ![p] = a]
      /\ UNCHANGED <<files, legs, data, history>>
  BY DEF Looks, Goes
<1>2. args[p].key \in Key /\ legs[p] = <<>>  BY <1>1 DEF CallInv, CallPart
<1>3. l \in Lists
  <2>1. Saved("programs", doc["programs"], <<>>)  BY DEF CallInv, DocPart, Store
  <2>2. QED  BY <1>1, <1>2, <2>1 DEF Saved, Kind
<1>4. l \in Seq(Waypoint) /\ l \in Value  BY <1>3, NamesAssumption DEF Value
<1>5. a \in Arguments /\ a.value = l
  <2>1. args[p] \in Arguments  BY DEF CallInv, StoresTypeOK
  <2> HIDE DEF l
  <2>2. QED  BY <1>4, <2>1 DEF Arguments
<1> HIDE DEF l, a
<1>6. StoresTypeOK'
  BY <1>1, <1>4, <1>5 DEF CallInv, StoresTypeOK, At, files, history
<1>7. \A q \in Proc \ {p} : Same(q)  BY <1>1 DEF Same, CallInv, StoresTypeOK
<1>8. pc'[p] = "legs" /\ args'[p] = a /\ todo'[p] = l /\ legs'[p] = <<>>
  BY <1>1, <1>2 DEF CallInv, StoresTypeOK
<1>9. CallPart(p)'  BY <1>8 DEF CallPart, Writing
<1>10. LegPart(p)'
  <2>1. Len(l) \in Nat /\ Len(<<>>) = 0 /\ \A i \in 1..Len(l) : l[i] = l[0 + i]
    BY <1>4
  <2>2. QED  BY <1>4, <1>5, <1>8, <2>1 DEF LegPart
<1>11. doc' = doc /\ started' = started /\ ever' = ever  BY <1>1 DEF files, history
<1>12. QED  BY <1>6, <1>7, <1>9, <1>10, <1>11, SameCall, SameFiles DEF CallInv

(* One more leg: it is the pose of the next name of the list. *)
LEMMA LegsGrow ==
  ASSUME CallInv, NEW p \in Proc, pc[p] = "legs", Found(p), Len(todo[p]) > 0
  PROVE  /\ LegsWith(p) \in Seq(Pose)
         /\ Len(LegsWith(p)) = Len(legs[p]) + 1
         /\ \A i \in 1..Len(LegsWith(p)) :
              <<args[p].value[i], LegsWith(p)[i]>> \in ever
PROOF
<1> DEFINE n == Len(legs[p])
           x == doc["waypoints"][Head(todo[p])]
<1>1. legs[p] \in Seq(Pose) /\ x \in Pose /\ n \in Nat
  <2>1. legs[p] \in Seq(Pose)  BY DEF CallInv, StoresTypeOK
  <2>2. x \in Pose  BY FoundIsSaved
  <2>3. QED  BY <2>1, <2>2
<1>2. LegsWith(p) = Append(legs[p], x)  BY DEF LegsWith
<1>3. Head(todo[p]) = args[p].value[n + 1]
  <2>1. todo[p][1] = args[p].value[n + 1]
    <3>1. 1 \in 1..Len(todo[p])
      BY DEF CallInv, StoresTypeOK
    <3>2. QED  BY <3>1 DEF CallInv, LegPart
  <2>2. QED  BY <2>1, FoundIsSaved
<1>4. \A i \in 1..n : <<args[p].value[i], legs[p][i]>> \in ever
  BY DEF CallInv, LegPart
<1>5. <<args[p].value[n + 1], x>> \in ever  BY <1>3, FoundIsSaved
<1> HIDE DEF x
<1>6. /\ Append(legs[p], x) \in Seq(Pose) /\ Len(Append(legs[p], x)) = n + 1
      /\ \A i \in 1..n : Append(legs[p], x)[i] = legs[p][i]
      /\ Append(legs[p], x)[n + 1] = x
  BY <1>1
<1> HIDE DEF n
<1>7. \A i \in 1..(n + 1) : i \in 1..n \/ i = n + 1  BY <1>1
<1>8. QED  BY <1>2, <1>4, <1>5, <1>6, <1>7 DEF n

LEMMA LooksUpCall ==
  ASSUME CallInv, NEW p \in Proc, LooksUp(p)
  PROVE  CallInv'
PROOF
<1>1. /\ pc[p] = "legs" /\ Len(todo[p]) > 1 /\ Found(p)
      /\ legs' = [legs EXCEPT ![p] = LegsWith(p)]
      /\ todo' = [todo EXCEPT ![p] = Tail(todo[p])]
      /\ UNCHANGED <<files, pc, args, data, history>>
  BY DEF LooksUp, LegFound
<1>2. /\ todo[p] \in Seq(Waypoint) /\ Len(todo[p]) \in Nat /\ Len(todo[p]) > 0
      /\ legs[p] \in Seq(Pose) /\ Len(legs[p]) \in Nat
  BY <1>1 DEF CallInv, StoresTypeOK
<1>3. /\ Tail(todo[p]) \in Seq(Waypoint) /\ Len(Tail(todo[p])) = Len(todo[p]) - 1
      /\ \A i \in 1..(Len(todo[p]) - 1) : Tail(todo[p])[i] = todo[p][i + 1]
  BY <1>1, <1>2, FoundIsSaved
<1>4. /\ LegsWith(p) \in Seq(Pose) /\ Len(LegsWith(p)) = Len(legs[p]) + 1
      /\ \A i \in 1..Len(LegsWith(p)) : <<args[p].value[i], LegsWith(p)[i]>> \in ever
  BY <1>1, <1>2, LegsGrow
<1>5. StoresTypeOK'
  BY <1>1, <1>3, <1>4 DEF CallInv, StoresTypeOK, files, history
<1>6. \A q \in Proc \ {p} : Same(q)  BY <1>1 DEF Same, CallInv, StoresTypeOK
<1>7. /\ pc'[p] = "legs" /\ args'[p] = args[p] /\ todo'[p] = Tail(todo[p])
      /\ legs'[p] = LegsWith(p) /\ ever' = ever
  BY <1>1 DEF CallInv, StoresTypeOK, history
<1>8. CallPart(p)'  BY <1>7 DEF CallPart, Writing
<1>9. LegPart(p)'
  <2>1. /\ args[p].value \in Seq(Waypoint)
        /\ Len(legs[p]) + Len(todo[p]) = Len(args[p].value)
        /\ \A i \in 1..Len(todo[p]) : todo[p][i] = args[p].value[Len(legs[p]) + i]
    BY <1>1 DEF CallInv, LegPart
  <2>3. Len(LegsWith(p)) + Len(Tail(todo[p])) = Len(args[p].value)
    <3>1. \A n, m \in Nat : (n + 1) + (m - 1) = n + m  OBVIOUS
    <3>2. (Len(legs[p]) + 1) + (Len(todo[p]) - 1) = Len(legs[p]) + Len(todo[p])
      BY <1>2, <3>1, Zenon
    <3>3. QED  BY <1>3, <1>4, <2>1, <3>2
  <2> DEFINE n == Len(legs[p])
             m == Len(todo[p])
  <2>2. \A i \in 1..(m - 1) : Tail(todo[p])[i] = args[p].value[n + 1 + i]
    <3> SUFFICES ASSUME NEW i \in 1..(m - 1)
                 PROVE  Tail(todo[p])[i] = args[p].value[n + 1 + i]
      OBVIOUS
    <3>1. i + 1 \in 1..m /\ n + (i + 1) = n + 1 + i
      <4>1. n \in Nat /\ m \in Nat  BY <1>2
      <4> HIDE DEF n, m
      <4>2. QED  BY <4>1
    <3>2. QED  BY <1>3, <2>1, <3>1
  <2>4. QED  BY <1>3, <1>4, <1>7, <2>1, <2>2, <2>3 DEF LegPart
<1>10. doc' = doc /\ started' = started /\ ever' = ever  BY <1>1 DEF files, history
<1>11. QED  BY <1>5, <1>6, <1>8, <1>9, <1>10, SameCall, SameFiles DEF CallInv

LEMMA SubmitsCall ==
  ASSUME CallInv, NEW p \in Proc, Submits(p)
  PROVE  CallInv'
PROOF
<1> DEFINE s == [list |-> args[p].value, legs |-> LegsWith(p)]
<1>1. /\ pc[p] = "legs" /\ Len(todo[p]) = 1 /\ Found(p) /\ Returns(p)
      /\ started' = started \union {s}
      /\ UNCHANGED <<files, ever, spoilt>>
  BY DEF Submits, LegFound
<1>2. /\ Len(LegsWith(p)) = Len(legs[p]) + 1
      /\ \A i \in 1..Len(LegsWith(p)) : <<args[p].value[i], LegsWith(p)[i]>> \in ever
  BY <1>1, LegsGrow
<1>3. Len(legs[p]) + 1 = Len(args[p].value)
  BY <1>1 DEF CallInv, LegPart
<1>4. StartedLegsWereSaved'
  <2>1. s.list = args[p].value /\ s.legs = LegsWith(p)  OBVIOUS
  <2> HIDE DEF s
  <2>2. QED  BY <1>1, <1>2, <1>3, <2>1 DEF CallInv, StartedLegsWereSaved
<1>5. StoresTypeOK'  BY <1>1, ReturnsFacts DEF CallInv, StoresTypeOK, files
<1>6. CallPart(p)' /\ LegPart(p)'
  BY <1>1, ReturnsFacts DEF CallPart, LegPart, Writing
<1>7. DocPart'  BY <1>1 DEF CallInv, DocPart, Saved, files
<1>8. QED  BY <1>1, <1>4, <1>5, <1>6, <1>7, ReturnsFacts, SameCall DEF CallInv

(* What a call will write: its own entry changed in a document. *)
LEMMA ChangedIsSaved ==
  ASSUME NEW p \in Proc, NEW f \in Store, NEW d \in Dictionary, Saved(f, d, <<>>),
         args[p].key \in Key, args[p].value \in Kind(f) \union {None}
  PROVE  /\ Changed(p, d) \in Dictionary
         /\ Saved(f, Changed(p, d), <<args[p].key, args[p].value>>)
PROOF
<1> DEFINE k == args[p].key
           v == args[p].value
<1>1. Changed(p, d) = [d EXCEPT ![k] = v]  BY DEF Changed
<1>2. v \in Value \union {None}  BY DEF Kind, Value
<1> HIDE DEF k, v
<1>3. Changed(p, d) \in Dictionary  BY <1>1, <1>2 DEF Dictionary
<1>4. Saved(f, Changed(p, d), <<k, v>>)
  <2> SUFFICES ASSUME NEW j \in Key, Changed(p, d)[j] # None
               PROVE  /\ Changed(p, d)[j] \in Kind(f)
                      /\ \/ <<j, Changed(p, d)[j]>> \in ever
                         \/ <<j, Changed(p, d)[j]>> = <<k, v>>
    BY DEF Saved
  <2>1. CASE j = k  BY <1>1, <2>1 DEF Dictionary, k, v
  <2>2. CASE j # k
    <3>1. Changed(p, d)[j] = d[j]  BY <1>1, <2>2 DEF Dictionary
    <3>2. <<j, d[j]>> # <<>>  OBVIOUS
    <3>3. QED  BY <3>1, <3>2 DEF Saved
  <2>3. QED  BY <2>1, <2>2
<1>5. QED  BY <1>3, <1>4 DEF k, v

LEMMA LoadsCall ==
  ASSUME CallInv, NEW p \in Proc, Loads(p)
  PROVE  CallInv'
PROOF
<1> DEFINE f == args[p].store
           d == Changed(p, doc[f])
<1>1. /\ pc[p] = "load" /\ pc' = [pc EXCEPT ![p] = "truncate"]
      /\ data' = [data EXCEPT ![p] = d]
      /\ UNCHANGED <<files, args, todo, legs, history>>
  BY DEF Loads, Goes
<1>2. /\ args[p].key \in Key /\ args[p].value \in Kind(f) \union {None}
      /\ legs[p] = <<>>
  BY <1>1 DEF CallInv, CallPart
<1>3. f \in Store
  <2>1. args[p] \in Arguments  BY DEF CallInv, StoresTypeOK
  <2>2. QED  BY <2>1 DEF Arguments
<1>4. d \in Dictionary /\ Saved(f, d, <<args[p].key, args[p].value>>)
  BY <1>2, <1>3, ChangedIsSaved DEF CallInv, StoresTypeOK, DocPart
<1> HIDE DEF d
<1>5. StoresTypeOK'
  BY <1>1, <1>4 DEF CallInv, StoresTypeOK, At, files, history
<1>6. \A q \in Proc \ {p} : Same(q)  BY <1>1 DEF Same, CallInv, StoresTypeOK
<1>7. /\ pc'[p] = "truncate" /\ args'[p] = args[p] /\ data'[p] = d
      /\ legs'[p] = legs[p]
  BY <1>1 DEF CallInv, StoresTypeOK
<1>8. doc' = doc /\ started' = started /\ ever' = ever  BY <1>1 DEF files, history
<1>9. CallPart(p)' /\ LegPart(p)'
  BY <1>2, <1>4, <1>7, <1>8 DEF CallPart, LegPart, Writing, Saved
<1>10. QED  BY <1>5, <1>6, <1>8, <1>9, SameCall, SameFiles DEF CallInv

LEMMA TruncatesCall ==
  ASSUME CallInv, NEW p \in Proc, Truncates(p)
  PROVE  CallInv'
PROOF
<1> DEFINE f == args[p].store
<1>1. /\ pc[p] = "truncate" /\ pc' = [pc EXCEPT ![p] = "write"]
      /\ text' = [text EXCEPT ![f] = "empty"]
      /\ UNCHANGED <<doc, args, todo, legs, data, started, ever>>
      /\ Overtakes(p) /\ Spoils(p)
  BY DEF Truncates, Goes, Truncated
<1>2. f \in Store
  <2>1. args[p] \in Arguments  BY DEF CallInv, StoresTypeOK
  <2>2. QED  BY <2>1 DEF Arguments
<1>3. late' \subseteq Proc /\ spoilt' \subseteq Store
  BY <1>1, <1>2 DEF CallInv, StoresTypeOK, Overtakes, Spoils
<1> HIDE DEF f
<1>4. StoresTypeOK'
  BY <1>1, <1>2, <1>3 DEF CallInv, StoresTypeOK, At
<1>5. \A q \in Proc \ {p} : Same(q)  BY <1>1 DEF Same, CallInv, StoresTypeOK
<1>6. pc'[p] = "write"  BY <1>1 DEF CallInv, StoresTypeOK
<1>7. CallPart(p)' /\ LegPart(p)'
  BY <1>1, <1>6 DEF CallInv, CallPart, LegPart, Writing, Saved
<1>8. QED  BY <1>1, <1>4, <1>5, <1>7, SameCall, SameFiles DEF CallInv

LEMMA WritesCall ==
  ASSUME CallInv, NEW p \in Proc, Writes(p)
  PROVE  CallInv'
PROOF
<1> DEFINE f == args[p].store
           k == args[p].key
           v == args[p].value
<1>1. /\ pc[p] = "write" /\ Returns(p) /\ Spoils(p) /\ started' = started
      /\ ever' = ever \union (IF v = None THEN {} ELSE {<<k, v>>})
  BY DEF Writes
<1>2. PICK t \in {"whole", "mixed"} :
        /\ text' = [text EXCEPT ![f] = t]
        /\ doc' = [doc EXCEPT ![f] = IF t = "whole" THEN data[p] ELSE Empty]
  BY DEF Writes, Document
<1>3. f \in Store
  <2>1. args[p] \in Arguments  BY DEF CallInv, StoresTypeOK
  <2>2. QED  BY <2>1 DEF Arguments
<1>4. Saved(f, data[p], <<k, v>>) /\ data[p] \in Dictionary
  BY <1>1 DEF CallInv, CallPart, Writing, StoresTypeOK
<1>5. Empty \in Dictionary /\ \A j \in Key : Empty[j] = None
  BY DEF Empty, Dictionary
<1>6. spoilt' \subseteq Store
  BY <1>1, <1>3 DEF CallInv, StoresTypeOK, Spoils
<1> HIDE DEF f
<1>7. StoresTypeOK'
  <2>1. text' \in [Store -> {"whole", "empty", "mixed"}]
    BY <1>2, <1>3 DEF CallInv, StoresTypeOK
  <2>2. doc' \in [Store -> Dictionary]
    BY <1>2, <1>3, <1>4, <1>5 DEF CallInv, StoresTypeOK
  <2>3. QED  BY <1>1, <1>6, <2>1, <2>2, ReturnsFacts DEF StoresTypeOK
<1>8. DocPart'
  <2> SUFFICES ASSUME NEW g \in Store, NEW j \in Key, doc'[g][j] # None
               PROVE  doc'[g][j] \in Kind(g) /\ <<j, doc'[g][j]>> \in ever'
    BY DEF DocPart, Saved
  <2>1. CASE g # f
    <3>1. doc'[g] = doc[g]  BY <1>2, <2>1 DEF CallInv, StoresTypeOK
    <3>2. <<j, doc[g][j]>> # <<>>  OBVIOUS
    <3>3. QED  BY <1>1, <3>1, <3>2 DEF CallInv, DocPart, Saved
  <2>2. CASE g = f
    <3>1. doc'[g] = data[p]
      BY <1>2, <1>3, <1>5, <2>2 DEF CallInv, StoresTypeOK
    <3>2. <<j, data[p][j]>> = <<k, v>> => v # None
      BY <3>1
    <3>3. QED  BY <1>1, <1>4, <2>2, <3>1, <3>2 DEF Saved
  <2>3. QED  BY <2>1, <2>2
<1>9. ever \subseteq ever'  BY <1>1
<1>10. StartedLegsWereSaved'
  BY <1>1, <1>9 DEF CallInv, StartedLegsWereSaved
<1>11. CallPart(p)' /\ LegPart(p)'
  BY <1>1, ReturnsFacts DEF CallPart, LegPart, Writing
<1>12. QED
  BY <1>1, <1>7, <1>8, <1>9, <1>10, <1>11, ReturnsFacts, SameCall DEF CallInv

LEMMA CallInvStep ==
  ASSUME CallInv, [Next]_vars
  PROVE  CallInv'
PROOF
<1>1. ASSUME NEW p \in Proc, Dies(p) PROVE CallInv'
  <2>1. args[p].store \in Store
    <3>1. args[p] \in Arguments  BY DEF CallInv, StoresTypeOK
    <3>2. QED  BY <3>1 DEF Arguments
  <2>2. spoilt' \subseteq Store
    BY <1>1, <2>1 DEF Dies, CallInv, StoresTypeOK
  <2>3. QED  BY <1>1, <2>2, ReturnsCall DEF Dies
<1>2. ASSUME NEW p \in Proc,
             CheckFails(p) \/ LookFails(p) \/ LegFails(p) \/ LoadFails(p)
      PROVE  CallInv'
  <2>1. Returns(p) /\ UNCHANGED <<files, started, ever>> /\ spoilt' = spoilt
    BY <1>2 DEF CheckFails, LookFails, LegFails, LoadFails, Missing
  <2>2. spoilt' \subseteq Store  BY <2>1 DEF CallInv, StoresTypeOK
  <2>3. QED  BY <2>1, <2>2, ReturnsCall
<1>3. CASE UNCHANGED vars
  <2>1. \A p \in Proc : Same(p)  BY <1>3 DEF vars, callVars, Same
  <2>2. StoresTypeOK'
    BY <1>3 DEF CallInv, StoresTypeOK, vars, files, callVars, history
  <2>3. doc' = doc /\ started' = started /\ ever' = ever
    BY <1>3 DEF vars, files, history
  <2>4. QED  BY <2>1, <2>2, <2>3, SameCall, SameFiles DEF CallInv
<1>4. QED
  BY <1>1, <1>2, <1>3, CallCall, ChecksCall, LooksCall, LooksUpCall, SubmitsCall,
     LoadsCall, TruncatesCall, WritesCall DEF Next

LEMMA CallInvInit == Init => CallInv
PROOF
<1> SUFFICES ASSUME Init PROVE CallInv  OBVIOUS
<1>1. Empty \in Dictionary /\ \A j \in Key : Empty[j] = None
  BY DEF Empty, Dictionary
<1>2. NoArgs \in Arguments  BY DEF NoArgs, Arguments, Store
<1>3. <<>> \in Seq(Waypoint) /\ <<>> \in Seq(Pose)  OBVIOUS
<1>4. StoresTypeOK  BY <1>1, <1>2, <1>3 DEF Init, StoresTypeOK, At
<1>5. DocPart  BY <1>1 DEF Init, DocPart, Saved
<1>6. StartedLegsWereSaved  BY DEF Init, StartedLegsWereSaved
<1>7. \A p \in Proc : CallPart(p) /\ LegPart(p)
  BY DEF Init, CallPart, LegPart, Writing
<1>8. QED  BY <1>4, <1>5, <1>6, <1>7 DEF CallInv

(* Whatever other processes save, delete or break off meanwhile, a program  *)
(* starts with one leg per waypoint of its list, each a pose once saved     *)
(* under that name (program_start).                                         *)
THEOREM StartedLegs == Spec => []StartedLegsWereSaved
PROOF
<1>1. CallInv => StartedLegsWereSaved  BY DEF CallInv
<1>2. QED  BY <1>1, CallInvInit, CallInvStep, PTL DEF Spec

-----------------------------------------------------------------------------
(* What the files hold.  Of an unspoilt file: who opened it is alone with   *)
(* it, all others about to write it are late; and who is not late changes   *)
(* the document that is there.                                              *)

OpenPart(f) ==
  \A p \in Proc : pc[p] = "write" /\ args[p].store = f =>
    /\ text[f] = "empty" /\ p \notin late
    /\ \A o \in Proc \ {p} : Writing(o) /\ args[o].store = f =>
         o \in late /\ pc[o] = "truncate"
ReadPart(f) ==
  text[f] = "whole" \/ \E p \in Proc : pc[p] = "write" /\ args[p].store = f
FreshPart(f) ==
  \A p \in Proc : Writing(p) /\ args[p].store = f /\ p \notin late =>
    /\ data[p] = Changed(p, doc[f])
    /\ args[p].value # None \/ doc[f][args[p].key] # None
FilePart(f) == OpenPart(f) /\ ReadPart(f) /\ FreshPart(f)

FileInv == /\ CallInv
           /\ \A p \in late : Writing(p)
           /\ \A f \in Store \ spoilt : FilePart(f)

(* A file nobody's step is about keeps its part. *)
LEMMA SameFile ==
  ASSUME FileInv, NEW f \in Store \ spoilt, NEW p \in Proc,
         \A q \in Proc \ {p} : Same(q),
         text'[f] = text[f], doc'[f] = doc[f],
         \A q \in Proc \ {p} : args[q].store = f => (q \in late' <=> q \in late),
         pc[p] = "write" => args[p].store # f,
         ~Writing(p)' \/ args'[p].store # f
  PROVE  FilePart(f)'
PROOF
<1>1. FilePart(f)  BY DEF FileInv
<1>2. \A q \in Proc \ {p} : /\ Writing(q)' <=> Writing(q)
                            /\ Changed(q, doc[f])' = Changed(q, doc[f])
  BY DEF Same, Writing, Changed
<1>3. \A q \in Proc \ {p} : /\ pc'[q] = pc[q] /\ args'[q] = args[q]
                            /\ data'[q] = data[q]
  BY DEF Same
<1>4. OpenPart(f)'
  <2>1. OpenPart(f)  BY <1>1 DEF FilePart
  <2> SUFFICES ASSUME NEW q \in Proc, pc'[q] = "write", args'[q].store = f
               PROVE  /\ text'[f] = "empty" /\ q \notin late'
                      /\ \A o \in Proc \ {q} : Writing(o)' /\ args'[o].store = f =>
                           o \in late' /\ pc'[o] = "truncate"
    BY DEF OpenPart
  <2>2. q # p  BY DEF Writing
  <2>3. pc[q] = "write" /\ args[q].store = f  BY <1>3, <2>2
  <2>4. /\ text[f] = "empty" /\ q \notin late
        /\ \A o \in Proc \ {q} : Writing(o) /\ args[o].store = f =>
             o \in late /\ pc[o] = "truncate"
    BY <2>1, <2>3 DEF OpenPart
  <2>5. q \notin late'  BY <2>2, <2>3, <2>4
  <2>6. ASSUME NEW o \in Proc \ {q}, Writing(o)', args'[o].store = f
        PROVE  o \in late' /\ pc'[o] = "truncate"
    <3>1. o # p  BY <2>6
    <3>2. Writing(o) /\ args[o].store = f  BY <1>2, <1>3, <2>6, <3>1
    <3>3. o \in late /\ pc[o] = "truncate"  BY <2>4, <3>2
    <3>4. QED  BY <1>3, <3>1, <3>2, <3>3
  <2>7. QED  BY <2>4, <2>5, <2>6
<1>5. ReadPart(f)'
  <2>1. CASE text[f] = "whole"  BY <2>1 DEF ReadPart
  <2>2. CASE text[f] # "whole"
    <3>1. PICK q \in Proc : pc[q] = "write" /\ args[q].store = f
      BY <1>1, <2>2 DEF FilePart, ReadPart
    <3>2. q # p  BY <3>1
    <3>3. QED  BY <1>3, <3>1, <3>2 DEF ReadPart
  <2>3. QED  BY <2>1, <2>2
<1>6. FreshPart(f)'
  <2>1. FreshPart(f)  BY <1>1 DEF FilePart
  <2> SUFFICES ASSUME NEW q \in Proc, Writing(q)', args'[q].store = f, q \notin late'
               PROVE  /\ data'[q] = Changed(q, doc[f])'
                      /\ args'[q].value # None \/ doc'[f][args'[q].key] # None
    BY DEF FreshPart
  <2>2. q # p  OBVIOUS
  <2>3. Writing(q) /\ args[q].store = f /\ q \notin late  BY <1>2, <1>3, <2>2
  <2>4. data[q] = Changed(q, doc[f]) /\ (args[q].value # None \/ doc[f][args[q].key] # None)
    BY <2>1, <2>3 DEF FreshPart
  <2>5. QED  BY <1>2, <1>3, <2>2, <2>4
<1>7. QED  BY <1>4, <1>5, <1>6 DEF FilePart

(* Steps before the document is loaded, and the end of a call that did not  *)
(* open its file.                                                           *)
LEMMA QuietFile ==
  ASSUME FileInv, CallInv', NEW p \in Proc, UNCHANGED files, spoilt' = spoilt,
         \A q \in Proc \ {p} : Same(q), late' = late \ {p},
         pc[p] # "write", ~Writing(p)'
  PROVE  FileInv'
PROOF
<1>1. \A q \in late' : Writing(q)'
  BY DEF FileInv, CallInv, StoresTypeOK, Same, Writing
<1>2. ASSUME NEW f \in Store \ spoilt PROVE FilePart(f)'
  BY SameFile DEF files
<1>3. QED  BY <1>1, <1>2 DEF FileInv

LEMMA LoadsFile ==
  ASSUME FileInv, CallInv', NEW p \in Proc, Loads(p)
  PROVE  FileInv'
PROOF
<1>0. PICK f \in Store : f = args[p].store
  <2>1. args[p] \in Arguments  BY DEF FileInv, CallInv, StoresTypeOK
  <2>2. QED  BY <2>1 DEF Arguments
<1> USE <1>0
<1>1. /\ pc[p] = "load" /\ pc' = [pc EXCEPT ![p] = "truncate"]
      /\ data' = [data EXCEPT ![p] = Changed(p, doc[f])]
      /\ text[f] = "whole" /\ (args[p].value # None \/ doc[f][args[p].key] # None)
      /\ UNCHANGED <<files, args, todo, legs, history>>
  BY DEF Loads, Goes, Readable
<1>2. \A q \in Proc \ {p} : Same(q)
  BY <1>1 DEF Same, FileInv, CallInv, StoresTypeOK
<1>3. /\ pc'[p] = "truncate" /\ args' = args /\ data'[p] = Changed(p, doc[f])
      /\ text' = text /\ doc' = doc /\ late' = late /\ spoilt' = spoilt
  BY <1>1 DEF FileInv, CallInv, StoresTypeOK, files, history
<1>4. \A q \in late' : Writing(q)'
  BY <1>1, <1>2, <1>3 DEF FileInv, CallInv, StoresTypeOK, Same, Writing
<1>5. ASSUME NEW g \in Store \ spoilt, g # f PROVE FilePart(g)'
  BY <1>1, <1>2, <1>3, <1>5, SameFile
<1>6. ASSUME f \in Store \ spoilt PROVE FilePart(f)'
  <2>1. OpenPart(f) /\ FreshPart(f)  BY <1>6 DEF FileInv, FilePart
  <2>2. OpenPart(f)'
    <3>1. \A q \in Proc : ~(pc'[q] = "write" /\ args'[q].store = f)
      BY <1>1, <1>2, <1>3, <2>1 DEF OpenPart, Same
    <3>2. QED  BY <1>3, <3>1 DEF OpenPart
  <2>3. ReadPart(f)'  BY <1>1, <1>3 DEF ReadPart
  <2>4. FreshPart(f)'
    <3> SUFFICES ASSUME NEW q \in Proc, Writing(q)', args'[q].store = f, q \notin late'
                 PROVE  /\ data'[q] = Changed(q, doc[f])'
                        /\ args'[q].value # None \/ doc'[f][args'[q].key] # None
      BY <1>3 DEF FreshPart
    <3>1. Changed(q, doc[f])' = Changed(q, doc[f])  BY <1>3 DEF Changed
    <3>2. CASE q = p  BY <1>1, <1>3, <3>1, <3>2
    <3>3. CASE q # p
      <4>1. Writing(q) /\ args[q].store = f /\ q \notin late /\ data'[q] = data[q]
        BY <1>2, <1>3, <3>3 DEF Same, Writing
      <4>2. QED  BY <1>3, <2>1, <3>1, <4>1 DEF FreshPart
    <3>4. QED  BY <3>2, <3>3
  <2>5. QED  BY <1>3, <2>2, <2>3, <2>4 DEF FilePart
<1>7. QED  BY <1>3, <1>4, <1>5, <1>6 DEF FileInv

LEMMA TruncatesFile ==
  ASSUME FileInv, CallInv', NEW p \in Proc, Truncates(p)
  PROVE  FileInv'
PROOF
<1>0. PICK f \in Store : f = args[p].store
  <2>1. args[p] \in Arguments  BY DEF FileInv, CallInv, StoresTypeOK
  <2>2. QED  BY <2>1 DEF Arguments
<1> USE <1>0
<1>1. /\ pc[p] = "truncate" /\ pc' = [pc EXCEPT ![p] = "write"]
      /\ text' = [text EXCEPT ![f] = "empty"]
      /\ UNCHANGED <<doc, args, todo, legs, data>>
      /\ late' = late \union {o \in Proc \ {p} : args[o].store = f /\ Writing(o)}
      /\ spoilt' = spoilt \union (IF p \in late THEN {f} ELSE {})
  BY DEF Truncates, Goes, Truncated, Overtakes, Spoils, Writing
<1>2. \A q \in Proc \ {p} : Same(q)
  BY <1>1 DEF Same, FileInv, CallInv, StoresTypeOK
<1>3. /\ pc'[p] = "write"
      /\ \A g \in Store : text'[g] = IF g = f THEN "empty" ELSE text[g]
  BY <1>1 DEF FileInv, CallInv, StoresTypeOK
<1>4. \A q \in late' : Writing(q)'
  BY <1>1, <1>2, <1>3 DEF FileInv, CallInv, StoresTypeOK, Same, Writing
<1>5. ASSUME NEW g \in Store \ spoilt', g # f PROVE FilePart(g)'
  <2>1. \A q \in Proc \ {p} : args[q].store = g => (q \in late' <=> q \in late)
    BY <1>1, <1>5
  <2>2. g \in Store \ spoilt /\ text'[g] = text[g] /\ doc'[g] = doc[g]
        /\ args'[p].store # g
    BY <1>1, <1>3, <1>5
  <2>3. QED  BY <1>1, <1>2, <2>1, <2>2, SameFile
<1>6. ASSUME f \in Store \ spoilt' PROVE FilePart(f)'
  <2>1. p \notin late /\ f \in Store \ spoilt  BY <1>1, <1>6
  <2>2. OpenPart(f) /\ FreshPart(f)  BY <2>1 DEF FileInv, FilePart
  <2>3. \A q \in Proc : ~(pc[q] = "write" /\ args[q].store = f)
    BY <1>1, <2>1, <2>2 DEF OpenPart, Writing
  <2>4. OpenPart(f)'
    <3> SUFFICES ASSUME NEW q \in Proc, pc'[q] = "write", args'[q].store = f
                 PROVE  /\ text'[f] = "empty" /\ q \notin late'
                        /\ \A o \in Proc \ {q} : Writing(o)' /\ args'[o].store = f =>
                             o \in late' /\ pc'[o] = "truncate"
      BY <1>1 DEF OpenPart
    <3>1. q = p  BY <1>1, <1>2, <2>3 DEF Same
    <3>2. q \notin late' /\ text'[f] = "empty"  BY <1>1, <1>3, <2>1, <3>1
    <3>3. ASSUME NEW o \in Proc \ {q}, Writing(o)', args'[o].store = f
          PROVE  o \in late' /\ pc'[o] = "truncate"
      <4>1. Writing(o) /\ args[o].store = f /\ pc'[o] = pc[o]
        BY <1>2, <3>1, <3>3 DEF Same, Writing
      <4>2. QED  BY <1>1, <2>3, <3>1, <4>1 DEF Writing
    <3>4. QED  BY <3>2, <3>3
  <2>5. ReadPart(f)'  BY <1>1, <1>3 DEF ReadPart
  <2>6. FreshPart(f)'
    <3> SUFFICES ASSUME NEW q \in Proc, Writing(q)', args'[q].store = f, q \notin late'
                 PROVE  /\ data'[q] = Changed(q, doc[f])'
                        /\ args'[q].value # None \/ doc'[f][args'[q].key] # None
      BY <1>1 DEF FreshPart
    <3>1. Changed(q, doc[f])' = Changed(q, doc[f])  BY <1>1 DEF Changed
    <3>2. q = p  BY <1>1, <1>2 DEF Same, Writing
    <3>3. Writing(p) /\ args[p].store = f  BY <1>1 DEF Writing
    <3>4. QED  BY <1>1, <2>1, <2>2, <3>1, <3>2, <3>3 DEF FreshPart
  <2>7. QED  BY <1>1, <2>4, <2>5, <2>6 DEF FilePart
<1>7. QED  BY <1>4, <1>5, <1>6 DEF FileInv

LEMMA WritesFile ==
  ASSUME FileInv, CallInv', NEW p \in Proc, Writes(p)
  PROVE  FileInv'
PROOF
<1>0. PICK f \in Store : f = args[p].store
  <2>1. args[p] \in Arguments  BY DEF FileInv, CallInv, StoresTypeOK
  <2>2. QED  BY <2>1 DEF Arguments
<1> USE <1>0
<1>1. /\ pc[p] = "write" /\ Returns(p) /\ late' = late \ {p}
      /\ spoilt' = spoilt \union (IF p \in late THEN {f} ELSE {})
  BY DEF Writes, Returns, Spoils
<1>2. PICK t \in {"whole", "mixed"} :
        /\ t = "mixed" => text[f] \in {"mixed", "whole"}
        /\ text' = [text EXCEPT ![f] = t]
        /\ doc' = [doc EXCEPT ![f] = IF t = "whole" THEN data[p] ELSE Empty]
  BY DEF Writes, Document
<1>3. pc'[p] = "idle" /\ \A q \in Proc \ {p} : Same(q)
  BY <1>1, ReturnsFacts DEF FileInv
<1>4. \A g \in Store : /\ text'[g] = IF g = f THEN t ELSE text[g]
                       /\ g # f => doc'[g] = doc[g]
  BY <1>2 DEF FileInv, CallInv, StoresTypeOK
<1>5. \A q \in late' : Writing(q)'
  BY <1>1, <1>3 DEF FileInv, CallInv, StoresTypeOK, Same, Writing
<1>6. ASSUME NEW g \in Store \ spoilt', g # f PROVE FilePart(g)'
  <2>1. /\ g \in Store \ spoilt /\ text'[g] = text[g] /\ doc'[g] = doc[g]
        /\ args[p].store # g /\ ~Writing(p)'
    BY <1>1, <1>3, <1>4, <1>6 DEF Writing
  <2>2. QED  BY <1>1, <1>3, <2>1, SameFile
<1>7. ASSUME f \in Store \ spoilt' PROVE FilePart(f)'
  <2>1. p \notin late /\ f \in Store \ spoilt  BY <1>1, <1>7
  <2>2. OpenPart(f)  BY <2>1 DEF FileInv, FilePart
  <2>3. text[f] = "empty" /\ \A o \in Proc \ {p} : Writing(o) /\ args[o].store = f =>
          o \in late /\ pc[o] = "truncate"
    BY <1>1, <2>2 DEF OpenPart
  <2>4. text'[f] = "whole"  BY <1>2, <1>4, <2>1, <2>3
  <2>5. \A q \in Proc : Writing(q)' /\ args'[q].store = f =>
          q \in late' /\ pc'[q] = "truncate"
    BY <1>1, <1>3, <2>3 DEF Same, Writing
  <2>6. OpenPart(f)' /\ FreshPart(f)'
    BY <2>5 DEF OpenPart, FreshPart, Writing
  <2>7. ReadPart(f)'  BY <2>4 DEF ReadPart
  <2>8. QED  BY <2>6, <2>7 DEF FilePart
<1>8. QED  BY <1>5, <1>6, <1>7 DEF FileInv

LEMMA DiesFile ==
  ASSUME FileInv, CallInv', NEW p \in Proc, Dies(p)
  PROVE  FileInv'
PROOF
<1>1. /\ Returns(p) /\ late' = late \ {p} /\ UNCHANGED files
      /\ spoilt' = spoilt \union (IF pc[p] = "write" THEN {args[p].store} ELSE {})
  BY DEF Dies, Returns
<1>2. pc'[p] = "idle" /\ \A q \in Proc \ {p} : Same(q)
  BY <1>1, ReturnsFacts DEF FileInv
<1>3. \A q \in late' : Writing(q)'
  BY <1>1, <1>2 DEF FileInv, CallInv, StoresTypeOK, Same, Writing
<1>4. ASSUME NEW f \in Store \ spoilt' PROVE FilePart(f)'
  <2>1. f \in Store \ spoilt /\ (pc[p] = "write" => args[p].store # f)
    BY <1>1
  <2>2. text'[f] = text[f] /\ doc'[f] = doc[f] /\ ~Writing(p)'
    BY <1>1, <1>2 DEF files, Writing
  <2>3. QED  BY <1>1, <1>2, <2>1, <2>2, SameFile
<1>5. QED  BY <1>3, <1>4 DEF FileInv

(* The steps that leave the files alone, with their marks. *)
Quiet(p) == \/ Call(p) \/ Checks(p) \/ Looks(p) \/ LooksUp(p)
            \/ CheckFails(p) \/ LookFails(p) \/ LegFails(p) \/ LoadFails(p)
            \/ Submits(p)

LEMMA QuietFacts ==
  ASSUME FileInv, NEW p \in Proc, Quiet(p)
  PROVE  /\ UNCHANGED files /\ spoilt' = spoilt /\ late' = late \ {p}
         /\ pc[p] # "write" /\ ~Writing(p)'
         /\ \A q \in Proc \ {p} : Same(q)
PROOF
<1>1. ~Writing(p) => late \ {p} = late  BY DEF FileInv
<1>2. ASSUME NEW at, NEW a, NEW names, at \in {"load", "check", "start"},
             Begins(p, at, a, names)
      PROVE  /\ UNCHANGED files /\ spoilt' = spoilt /\ late' = late \ {p}
             /\ pc[p] # "write" /\ ~Writing(p)'
             /\ \A q \in Proc \ {p} : Same(q)
  BY <1>1, <1>2 DEF Begins, files, history, Writing, Same, FileInv, CallInv, StoresTypeOK
<1>3. CASE Call(p)
  <2>1. CASE SaveWaypoint(p)  BY <1>2, <2>1 DEF SaveWaypoint
  <2>2. CASE DeleteWaypoint(p)  BY <1>2, <2>2 DEF DeleteWaypoint
  <2>3. CASE ProgramNew(p)  BY <1>2, <2>3 DEF ProgramNew
  <2>4. CASE ProgramDelete(p)  BY <1>2, <2>4 DEF ProgramDelete
  <2>5. CASE ProgramStart(p)  BY <1>2, <2>5 DEF ProgramStart
  <2>6. QED  BY <1>3, <2>1, <2>2, <2>3, <2>4, <2>5 DEF Call
<1>4. CASE Checks(p) \/ Looks(p) \/ LooksUp(p)
  <2>1. /\ UNCHANGED <<files, late, spoilt>>
        /\ pc[p] \in {"check", "start", "legs"}
    BY <1>4 DEF Checks, Looks, LooksUp, Goes, files, history
  <2>2. pc'[p] \in {"load", "check", "legs"}
    BY <1>4 DEF Checks, Looks, LooksUp, Goes, FileInv, CallInv, StoresTypeOK
  <2>3. \A q \in Proc \ {p} : Same(q)
    BY <1>4 DEF Checks, Looks, LooksUp, Goes, Same, FileInv, CallInv, StoresTypeOK
  <2>4. QED  BY <1>1, <2>1, <2>2, <2>3 DEF Writing
<1>5. CASE CheckFails(p) \/ LookFails(p) \/ LegFails(p) \/ LoadFails(p) \/ Submits(p)
  <2>1. /\ Returns(p) /\ UNCHANGED files /\ spoilt' = spoilt /\ late' = late \ {p}
        /\ pc[p] # "write"
    BY <1>5 DEF CheckFails, LookFails, LegFails, LoadFails, Submits, Missing, Returns
  <2>2. QED  BY <2>1, ReturnsFacts DEF FileInv, Writing
<1>6. QED  BY <1>3, <1>4, <1>5 DEF Quiet

LEMMA FileInvStep ==
  ASSUME FileInv, [Next]_vars
  PROVE  FileInv'
PROOF
<1>1. CallInv'  BY CallInvStep DEF FileInv
<1>2. ASSUME NEW p \in Proc, Quiet(p) PROVE FileInv'
  BY <1>1, <1>2, QuietFacts, QuietFile
<1>3. CASE UNCHANGED vars
  BY <1>1, <1>3 DEF vars, files, callVars, history, FileInv, FilePart, OpenPart,
     ReadPart, FreshPart, Writing, Changed
<1>4. QED
  BY <1>1, <1>2, <1>3, LoadsFile, TruncatesFile, WritesFile, DiesFile DEF Next, Quiet

LEMMA FileInvInit == Init => FileInv
PROOF
<1>1. ASSUME Init PROVE FileInv
  BY <1>1, CallInvInit DEF Init, FileInv, FilePart, OpenPart, ReadPart, FreshPart, Writing
<1>2. QED  BY <1>1

LEMMA FileInvariant == Spec => []FileInv
PROOF
<1>1. QED  BY FileInvInit, FileInvStep, PTL DEF Spec

(* Every file can be read but while a save has it open, or once a process   *)
(* died there or wrote over a change it had not loaded (write_text).        *)
THEOREM Readability == Spec => []ReadableUnlessSpoiled
PROOF
<1>1. FileInv => ReadableUnlessSpoiled
  BY DEF FileInv, FilePart, ReadPart, ReadableUnlessSpoiled
<1>2. QED  BY <1>1, FileInvariant, PTL

-----------------------------------------------------------------------------
(* The refinement: the write of a call that is not late is the save or the  *)
(* delete of its one entry; a late one and a death in it spoil the file.    *)

Contents == [f \in Store |-> IF f \in spoilt THEN Empty ELSE doc[f]]

LEMMA AtomicStep ==
  ASSUME FileInv, [Next]_vars
  PROVE  [Atomic!Next]_(Atomic!vars)
PROOF
<1>1. ASSUME NEW f \in Store, doc' = doc, spoilt' = spoilt \union {f}
      PROVE  Atomic!Spoil(f)
  BY <1>1 DEF Atomic!Spoil, Atomic!Empty, Empty
<1>2. ASSUME doc' = doc, spoilt' = spoilt
      PROVE  UNCHANGED Atomic!vars
  BY <1>2 DEF Atomic!vars
<1>3. ASSUME NEW p \in Proc, Writes(p)
      PROVE  Atomic!Next \/ UNCHANGED Atomic!vars
  <2>1. PICK f \in Store : f = args[p].store
    <3>1. args[p] \in Arguments  BY DEF FileInv, CallInv, StoresTypeOK
    <3>2. QED  BY <3>1 DEF Arguments
  <2>2. /\ pc[p] = "write"
        /\ spoilt' = spoilt \union (IF p \in late THEN {f} ELSE {})
    BY <1>3, <2>1 DEF Writes, Spoils
  <2>3. PICK t \in {"whole", "mixed"} :
          /\ t = "mixed" => text[f] \in {"mixed", "whole"}
          /\ doc' = [doc EXCEPT ![f] = IF t = "whole" THEN data[p] ELSE Empty]
    BY <1>3, <2>1 DEF Writes, Document
  <2>4. f \notin spoilt => p \notin late /\ text[f] = "empty"
    BY <2>1, <2>2 DEF FileInv, FilePart, OpenPart
  <2>5. spoilt' = spoilt \/ (f \in spoilt /\ spoilt' = spoilt \union {f})
    BY <2>2, <2>4
  <2>6. spoilt' = spoilt  BY <2>5
  <2>7. CASE f \in spoilt
    <3>1. \A g \in Store \ spoilt : doc'[g] = doc[g]
      BY <2>3, <2>7 DEF FileInv, CallInv, StoresTypeOK
    <3>2. QED  BY <2>6, <3>1 DEF Atomic!vars
  <2>8. CASE f \notin spoilt
    <3>2. PICK k \in Key, v \in Value \union {None} : k = args[p].key /\ v = args[p].value
      BY <2>2 DEF FileInv, CallInv, CallPart, Kind, Value
    <3>1. data[p] = Changed(p, doc[f]) /\ (v # None \/ doc[f][k] # None)
      <4>1. FreshPart(f)  BY <2>8 DEF FileInv, FilePart
      <4>2. QED  BY <2>1, <2>2, <2>4, <2>8, <3>2, <4>1 DEF FreshPart, Writing
    <3>3. doc' = [doc EXCEPT ![f] = [doc[f] EXCEPT ![k] = v]]
      BY <2>3, <2>4, <2>8, <3>1, <3>2 DEF Changed
    <3>4. Contents' = [Contents EXCEPT ![f][k] = v]
      BY <2>6, <2>8, <3>3 DEF Contents, FileInv, CallInv, StoresTypeOK
    <3>5. Contents[f] = doc[f]  BY <2>8 DEF Contents
    <3>6. CASE v = None
      <4>1. Atomic!Remove(f, k)
        BY <2>6, <2>8, <3>1, <3>4, <3>5, <3>6 DEF Atomic!Remove, Contents
      <4>2. QED  BY <3>2, <4>1 DEF Atomic!Next
    <3>7. CASE v # None
      <4>1. Atomic!Put(f, k, v)
        BY <2>6, <2>8, <3>4 DEF Atomic!Put, Contents
      <4>2. QED  BY <3>2, <3>7, <4>1 DEF Atomic!Next
    <3>8. QED  BY <3>6, <3>7
  <2>9. QED  BY <2>7, <2>8
<1>4. ASSUME NEW p \in Proc, Truncates(p) \/ Dies(p)
      PROVE  Atomic!Next \/ UNCHANGED Atomic!vars
  <2>1. args[p].store \in Store
    <3>1. args[p] \in Arguments  BY DEF FileInv, CallInv, StoresTypeOK
    <3>2. QED  BY <3>1 DEF Arguments
  <2>2. /\ doc' = doc
        /\ spoilt' = spoilt \/ spoilt' = spoilt \union {args[p].store}
    BY <1>4 DEF Truncates, Dies, Spoils, files
  <2>3. QED  BY <1>1, <1>2, <2>1, <2>2 DEF Atomic!Next
<1>5. ASSUME NEW p \in Proc, Quiet(p) \/ Loads(p)
      PROVE  UNCHANGED Atomic!vars
  <2>1. doc' = doc /\ spoilt' = spoilt
    BY <1>5, QuietFacts DEF Loads, files, history
  <2>2. QED  BY <1>2, <2>1
<1>6. CASE UNCHANGED vars
  BY <1>2, <1>6 DEF vars, files, history
<1>7. QED  BY <1>3, <1>4, <1>5, <1>6 DEF Next, Quiet

(* The load-change-write of the stores implements AtomicStores: as long as  *)
(* nothing spoilt a file, each call changes its own entry in one step.      *)
THEOREM Refinement == Spec => ImplementsAtomicStore
PROOF
<1>1. Init => Atomic!Init
  BY DEF Init, Atomic!Init, Atomic!Empty, Empty
<1>2. QED
  BY <1>1, FileInvariant, AtomicStep, PTL DEF Spec, ImplementsAtomicStore, Atomic!Spec

(* For all processes, waypoints and programs: in a file that nothing spoils *)
(* a step changes one entry at most, and no update of another call is lost. *)
THEOREM NoUpdateLost == Spec => Atomic!OneEntryAtATime
PROOF
<1>1. ASSUME FileInv, [Next]_vars,
             NEW f \in Store \ spoilt', NEW g \in Store \ spoilt', NEW k \in Key, NEW l \in Key,
             Contents'[f][k] # Contents[f][k], Contents'[g][l] # Contents[g][l]
      PROVE  f = g /\ k = l
  <2> DEFINE kept == Contents \in [Store -> [Key -> Value \union {None}]]
  <2>1. kept
    BY <1>1 DEF FileInv, CallInv, StoresTypeOK, Dictionary, Contents, Empty
  <2>2. Atomic!Next  BY <1>1, AtomicStep DEF Atomic!vars, Contents
  <2>3. ASSUME NEW h \in Store, Atomic!Spoil(h) PROVE FALSE
    <3>1. \A i \in Store \ {h} : Contents'[i] = Contents[i]
      BY <2>1, <2>3 DEF Atomic!Spoil, Contents
    <3>2. h \in spoilt'  BY <2>3 DEF Atomic!Spoil
    <3>3. QED  BY <1>1, <3>1, <3>2
  <2>4. ASSUME NEW h \in Store, NEW i \in Key, NEW v,
               Contents' = [Contents EXCEPT ![h][i] = v]
        PROVE  f = g /\ k = l
    <3> HIDE DEF Contents
    <3>1. f = h /\ k = i  BY <1>1, <2>1, <2>4
    <3>2. g = h /\ l = i  BY <1>1, <2>1, <2>4
    <3>3. QED  BY <3>1, <3>2
  <2>5. QED
    BY <2>2, <2>3, <2>4 DEF Atomic!Next, Atomic!Put, Atomic!Remove, Contents
<1>2. FileInv /\ [Next]_vars =>
        [\A f, g \in (Store \ spoilt)', k, l \in Key :
           Contents'[f][k] # Contents[f][k] /\ Contents'[g][l] # Contents[g][l]
             => f = g /\ k = l]_(Atomic!vars)
  BY <1>1
<1>3. QED
  BY <1>2, FileInvariant, PTL DEF Spec, Atomic!OneEntryAtATime, Contents, Atomic!vars
=============================================================================
