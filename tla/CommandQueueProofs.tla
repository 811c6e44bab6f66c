------------------------- MODULE CommandQueueProofs -------------------------
(***************************************************************************)
(* The safety properties of CommandQueue, proved for every set of requests.*)
(* Two invariants carry them, inductive together: ThreadInv ties the       *)
(* worker, the throwaway threads, the stop flag and cmd.status together;   *)
(* LineInv is about the list and the tickets.  ThreadInv needs of LineInv  *)
(* that a command in the list has no thread yet (Pick), LineInv of         *)
(* ThreadInv that a command that is released has one (Release).            *)
(***************************************************************************)
EXTENDS QueueRefinement, SequenceTheorems, TLAPS

(* Type correctness: every field keeps its type. *)
THEOREM TypeCorrect == SafeSpec => []TypeOK
<1>1. Init => TypeOK
  <2> SUFFICES ASSUME Init PROVE TypeOK
    OBVIOUS
  <2>1. pending \in Seq(Cmd)
    BY DEF Init
  <2>2. status \in [Cmd -> Statuses] /\ callPc \in [Cmd -> CallPcs]
        /\ outcome \in [Cmd -> Outcomes] /\ answer \in [Cmd -> Answers]
        /\ ticket \in [Cmd -> Nat]
    BY DEF Init, Statuses, CallPcs, Outcomes, Answers
  <2> QED
    BY <2>1, <2>2 DEF Init, TypeOK, WorkerPcs
<1>2. TypeOK /\ [Next]_vars => TypeOK'
  <2> SUFFICES ASSUME TypeOK, [Next]_vars
               PROVE  TypeOK'
    OBVIOUS
  <2> USE DEF TypeOK, Statuses, Answers, CallPcs, WorkerPcs, Outcomes,
              historyVars, callVars
  <2>1. ASSUME NEW c \in Cmd, Refuse(c) PROVE TypeOK'
    BY <2>1 DEF Refuse
  <2>2. ASSUME NEW c \in Cmd, NEW mode \in {"reject", "queue"}, Enqueue(c, mode)
        PROVE  TypeOK'
    BY <2>2 DEF Enqueue, Accept, AtBack, WakeSet
  <2>3. ASSUME NEW c \in Cmd, Override(c) PROVE TypeOK'
    BY <2>3 DEF Override, ReportCancelled, Accept, Queued, WakeSet
  <2>4. CASE CancelAll
    BY <2>4 DEF CancelAll, ReportCancelled, Queued, ClearListed
  <2>5. CASE Worker
    <3>1. CASE WakeUp \/ PickNothing \/ SeeDone \/ SeeStop \/ Recheck
      BY <3>1 DEF WakeUp, PickNothing, SeeDone, SeeStop, Recheck
    <3>2. CASE Pick
      BY <3>2, HeadTailProperties DEF Pick, StopFlagCleared
    <3>3. CASE Start
      BY <3>3 DEF Start, StopFlagAtStart
    <3>4. CASE MarkCancelled
      BY <3>4 DEF MarkCancelled, StatusCancelled
    <3>5. CASE Release
      BY <3>5 DEF Release, WakeIfListed
    <3> QED
      BY <2>5, <3>1, <3>2, <3>3, <3>4, <3>5 DEF Worker
  <2>6. ASSUME NEW c \in Cmd, Call(c) PROVE TypeOK'
    <3>1. ASSUME NEW how \in {"returned", "raised"}, FnEnds(c, how) PROVE TypeOK'
      BY <3>1 DEF FnEnds, CallGoes
    <3>2. CASE CheckStatus(c)
      BY <3>2 DEF CheckStatus, CallGoes
    <3>3. CASE Record(c)
      BY <3>3 DEF Record, CallGoes
    <3>4. CASE Finish(c)
      BY <3>4 DEF Finish, CallGoes
    <3> QED
      BY <2>6, <3>1, <3>2, <3>3, <3>4 DEF Call, AfterFn
  <2>7. CASE UNCHANGED vars
    BY <2>7 DEF vars
  <2> QED
    BY <2>1, <2>2, <2>3, <2>4, <2>5, <2>6, <2>7 DEF Next, Caller
<1> QED
  BY <1>1, <1>2, PTL DEF SafeSpec

-----------------------------------------------------------------------------
(* ThreadInv                                                               *)

(* What a caller does to the variables of ThreadInv: it may set the stop    *)
(* flag, and then it flags the current command.                             *)
CallerFrame ==
  /\ UNCHANGED <<current, workerPc, status, callPc>>
  /\ \/ UNCHANGED <<stopRequested, flagged>>
     \/ /\ flagged' = IF current = NoCmd THEN flagged ELSE flagged \union {current}
        /\ stopRequested' = (stopRequested \/ current # NoCmd)

LEMMA CallerStep == Caller => CallerFrame
BY DEF Caller, Refuse, Enqueue, Override, CancelAll, Accept, ReportCancelled,
       CallerFrame, callVars, historyVars

(* The command that Pick takes has not been touched before. *)
LEMMA PickedIsUntouched ==
  ASSUME TypeOK, LineInv, pending # <<>>
  PROVE  Head(pending) \in Cmd /\ Untouched(Head(pending))
<1>1. Len(pending) \in Nat /\ Len(pending) # 0
  BY EmptySeq, LenProperties DEF TypeOK
<1>2. 1 \in 1..Len(pending) /\ Head(pending) = pending[1]
  BY <1>1
<1> QED
  BY <1>2, HeadTailProperties DEF TypeOK, LineInv, ListedPart

(* Every step keeps the worker, the throwaway threads, the stop flag and    *)
(* the statuses consistent.                                                 *)
LEMMA ThreadStep ==
  ASSUME TypeOK, ThreadInv, LineInv, [Next]_vars
  PROVE  ThreadInv'
<1> USE NoCmdAssumption DEF Terminal, ThreadInv, TypeOK
<1>1. CASE Caller
  BY <1>1, CallerStep DEF CallerFrame
<1>2. CASE Worker
  <2> USE DEF callVars, historyVars
  <2>1. CASE WakeUp \/ PickNothing
    BY <2>1 DEF WakeUp, PickNothing
  <2>2. CASE Pick
    BY <2>2, PickedIsUntouched DEF Pick, StopFlagCleared, Untouched
  <2>3. CASE Start
    BY <2>3 DEF Start, StopFlagAtStart, CallPcs, Statuses
  <2>4. CASE SeeDone \/ SeeStop \/ Recheck
    BY <2>4 DEF SeeDone, SeeStop, Recheck
  <2>5. CASE MarkCancelled
    BY <2>5 DEF MarkCancelled, StatusCancelled
  <2>6. CASE Release
    BY <2>6 DEF Release
  <2> QED
    BY <1>2, <2>1, <2>2, <2>3, <2>4, <2>5, <2>6 DEF Worker
<1>3. ASSUME NEW c \in Cmd, Call(c) PROVE ThreadInv'
  <2> USE DEF CallGoes
  <2>1. ASSUME NEW how \in {"returned", "raised"}, FnEnds(c, how)
        PROVE  ThreadInv'
    BY <2>1 DEF FnEnds, historyVars
  <2>2. CASE CheckStatus(c)
    BY <2>2 DEF CheckStatus, historyVars
  <2>3. CASE Record(c)
    BY <2>3 DEF Record, historyVars
  <2>4. CASE Finish(c)
    BY <2>4 DEF Finish, historyVars
  <2> QED
    BY <1>3, <2>1, <2>2, <2>3, <2>4 DEF Call, AfterFn
<1>4. CASE UNCHANGED vars
  BY <1>4 DEF vars, callVars, historyVars
<1> QED
  BY <1>1, <1>2, <1>3, <1>4 DEF Next

-----------------------------------------------------------------------------
(* LineInv                                                                 *)

(* A step that leaves the list, the tickets and the answers alone, and      *)
(* touches no untouched request and untouches none, preserves LineInv.      *)
LineFrame ==
  /\ UNCHANGED <<pending, answer, ticket, tickets, dropped>>
  /\ pending # <<>> => wake' = wake
  /\ \A c \in Cmd : Untouched(c)' <=> Untouched(c)

LEMMA LineFrameStep ==
  ASSUME TypeOK, LineInv, LineFrame
  PROVE  LineInv'
<1>1. \A i \in 1..Len(pending) : pending[i] \in Cmd
  BY ElementOfSeq DEF TypeOK
<1>2. \A c \in dropped : c \in Cmd
  BY DEF TypeOK
<1> QED
  BY <1>1, <1>2 DEF LineInv, NoLostWakeup, FreshPart, DroppedPart, ListedPart,
                    SortedPart, KeptPart, LineFrame

LEMMA WorkerFrame ==
  ASSUME TypeOK, ThreadInv, Worker, ~Pick
  PROVE  LineFrame
<1> USE DEF LineFrame, TypeOK, Untouched, callVars, historyVars
<1>1. CASE WakeUp \/ PickNothing
  BY <1>1 DEF WakeUp, PickNothing
<1>2. CASE Start
  BY <1>2, NoCmdAssumption DEF Start, ThreadInv
<1>3. CASE SeeDone \/ SeeStop \/ Recheck \/ MarkCancelled
  BY <1>3 DEF SeeDone, SeeStop, Recheck, MarkCancelled
<1>4. CASE Release
  BY <1>4, NoCmdAssumption DEF Release, ThreadInv, WakeIfListed
<1> QED
  BY <1>1, <1>2, <1>3, <1>4 DEF Worker

LEMMA CallFrame ==
  ASSUME TypeOK, NEW c \in Cmd, Call(c)
  PROVE  LineFrame
<1>1. UNCHANGED <<pending, wake, current, answer, historyVars>>
      /\ \E to \in CallPcs \ {"none"} :
           callPc[c] # "none" /\ callPc' = [callPc EXCEPT ![c] = to]
  BY DEF Call, AfterFn, FnEnds, CheckStatus, Record, Finish, CallGoes, CallPcs
<1> QED
  BY <1>1 DEF LineFrame, TypeOK, Untouched, historyVars

(* Every step keeps the list, the tickets and the answers consistent.       *)
LEMMA LineStep ==
  ASSUME TypeOK, ThreadInv, LineInv, [Next]_vars
  PROVE  LineInv'
<1>0. /\ Len(pending) \in Nat
      /\ \A i \in 1..Len(pending) : pending[i] \in Cmd
      /\ DOMAIN pending = 1..Len(pending)
  BY LenProperties, ElementOfSeq DEF TypeOK
<1>1. ASSUME NEW c \in Cmd, Refuse(c) PROVE LineInv'
  <2>1. \A d \in Cmd : Untouched(d)' <=> Untouched(d)
    BY <1>1 DEF Refuse, Untouched, callVars
  <2> QED
    BY <1>0, <1>1, <2>1
       DEF Refuse, historyVars, TypeOK, LineInv, NoLostWakeup, FreshPart,
           DroppedPart, ListedPart, SortedPart, KeptPart
<1>2. ASSUME NEW c \in Cmd, NEW mode \in {"reject", "queue"}, Enqueue(c, mode)
      PROVE  LineInv'
  <2>1. /\ Len(pending') = Len(pending) + 1
        /\ \A i \in 1..Len(pending) : pending'[i] = pending[i]
        /\ pending'[Len(pending) + 1] = c
    BY <1>2, <1>0 DEF Enqueue, AtBack, TypeOK
  <2>2. /\ Untouched(c) /\ c \notin dropped
        /\ \A i \in 1..Len(pending) : pending[i] # c
    BY <1>2, <1>0 DEF Enqueue, LineInv, FreshPart, ListedPart
  <2>3. UNCHANGED <<current, callPc, dropped>>
    BY <1>2 DEF Enqueue, callVars
  <2>4. /\ ticket' = [ticket EXCEPT ![c] = tickets + 1]
        /\ tickets' = tickets + 1
        /\ answer'[c] \in {"queued", "accepted"}
        /\ \A d \in Cmd \ {c} : answer'[d] = answer[d]
    BY <1>2 DEF Enqueue, Accept, TypeOK
  <2>5. NoLostWakeup'
    BY <1>2 DEF Enqueue, WakeSet, NoLostWakeup
  <2>6. FreshPart' /\ DroppedPart'
    BY <2>2, <2>3, <2>4 DEF LineInv, FreshPart, DroppedPart, Untouched, TypeOK
  <2>7. ListedPart'
    <3> SUFFICES ASSUME NEW i \in 1..Len(pending')
                 PROVE  (/\ Untouched(pending[i]) /\ pending[i] \notin dropped
                         /\ answer[pending[i]] \notin {"none", "rejected"}
                         /\ answer[pending[i]] = "accepted_override" => i = 1)'
      BY DEF ListedPart
    <3>1. CASE i = Len(pending) + 1
      BY <2>1, <2>2, <2>3, <2>4, <3>1 DEF Untouched
    <3>2. CASE i \in 1..Len(pending)
      BY <1>0, <2>1, <2>2, <2>3, <2>4, <3>2 DEF LineInv, ListedPart, Untouched
    <3> QED
      BY <1>0, <2>1, <3>1, <3>2
  <2>8. SortedPart'
    <3>1. \A d \in Cmd : ticket[d] \in Nat /\ ticket[d] < tickets + 1
      BY DEF LineInv, FreshPart, TypeOK
    <3>2. \A i \in 1..Len(pending) :
            pending'[i] = pending[i] /\ ticket'[pending[i]] = ticket[pending[i]]
      BY <1>0, <2>1, <2>2, <2>4 DEF TypeOK
    <3>3. ticket'[c] = tickets + 1
      BY <2>4 DEF TypeOK
    <3>4. \A i, j \in 1..Len(pending') :
            i < j => ticket'[pending'[i]] < ticket'[pending'[j]]
      BY <1>0, <2>1, <3>1, <3>2, <3>3 DEF LineInv, SortedPart
    <3>5. \A d \in Cmd, i \in 1..Len(pending') :
            ~Untouched(d) => ticket'[d] < ticket'[pending'[i]]
      BY <1>0, <2>1, <2>2, <2>4, <3>1, <3>2, <3>3, SMTT(30) DEF LineInv, SortedPart, TypeOK
    <3> QED
      BY <2>3, <3>4, <3>5 DEF SortedPart, Untouched
  <2>9. KeptPart'
    <3> SUFFICES ASSUME NEW d \in Cmd, answer'[d] \notin {"none", "rejected"},
                        d \notin dropped', Untouched(d)'
                 PROVE  \E i \in 1..Len(pending') : pending'[i] = d
      BY DEF KeptPart
    <3>1. CASE d = c
      BY <1>0, <2>1, <3>1
    <3>2. CASE d # c
      BY <1>0, <2>1, <2>3, <2>4, <3>2 DEF LineInv, KeptPart, Untouched
    <3> QED
      BY <3>1, <3>2
  <2> QED
    BY <2>5, <2>6, <2>7, <2>8, <2>9 DEF LineInv
<1>3. ASSUME NEW c \in Cmd, Override(c) PROVE LineInv'
  <2>1. /\ pending' = <<c>> /\ Len(pending') = 1 /\ pending'[1] = c
        /\ dropped' = dropped \union {pending[i] : i \in 1..Len(pending)}
    BY <1>0, <1>3 DEF Override, ReportCancelled, Queued
  <2>2. /\ Untouched(c) /\ c \notin dropped
        /\ \A i \in 1..Len(pending) : pending[i] # c
    BY <1>3, <1>0 DEF Override, LineInv, FreshPart, ListedPart
  <2>3. UNCHANGED <<current, callPc>>
    BY <1>3 DEF Override, callVars
  <2>4. /\ ticket' = [ticket EXCEPT ![c] = tickets + 1]
        /\ tickets' = tickets + 1
        /\ answer'[c] = "accepted_override"
        /\ \A d \in Cmd \ {c} : answer'[d] = answer[d]
    BY <1>3 DEF Override, Accept, TypeOK
  <2>5. NoLostWakeup'
    BY <1>3 DEF Override, WakeSet, NoLostWakeup
  <2>6. FreshPart' /\ DroppedPart'
    <3>1. \A i \in 1..Len(pending) :
             Untouched(pending[i]) /\ answer[pending[i]] \notin {"none", "rejected"}
      BY DEF LineInv, ListedPart
    <3>2. DroppedPart'
      BY <2>1, <2>3, <3>1 DEF LineInv, DroppedPart, Untouched
    <3>3. \A d \in Cmd : ticket'[d] <= tickets'
      BY <2>4 DEF LineInv, FreshPart, TypeOK
    <3>4. \A d \in Cmd : answer'[d] \in {"none", "rejected"} =>
             Untouched(d)' /\ d \notin dropped'
      BY <2>1, <2>2, <2>3, <2>4, <3>1 DEF LineInv, FreshPart, Untouched
    <3> QED
      BY <3>2, <3>3, <3>4 DEF FreshPart
  <2>7. ListedPart' /\ SortedPart'
    BY <2>1, <2>2, <2>3, <2>4
       DEF LineInv, FreshPart, ListedPart, SortedPart, Untouched, TypeOK
  <2>8. KeptPart'
    BY <1>0, <2>1, <2>3, <2>4 DEF LineInv, KeptPart, Untouched
  <2> QED
    BY <2>5, <2>6, <2>7, <2>8 DEF LineInv
<1>4. CASE CancelAll
  <2>1. /\ pending' = <<>> /\ Len(pending') = 0
        /\ dropped' = dropped \union {pending[i] : i \in 1..Len(pending)}
        /\ UNCHANGED <<answer, ticket, tickets>>
    BY <1>0, <1>4 DEF CancelAll, ReportCancelled, Queued, ClearListed
  <2>2. \A d \in Cmd : Untouched(d)' <=> Untouched(d)
    BY <1>4 DEF CancelAll, Untouched, callVars
  <2>3. FreshPart' /\ DroppedPart'
    BY <1>0, <2>1, <2>2 DEF LineInv, FreshPart, DroppedPart, ListedPart, TypeOK
  <2>4. NoLostWakeup' /\ ListedPart' /\ SortedPart'
    BY <2>1 DEF NoLostWakeup, ListedPart, SortedPart
  <2>5. KeptPart'
    BY <1>0, <2>1, <2>2 DEF LineInv, KeptPart
  <2> QED
    BY <2>3, <2>4, <2>5 DEF LineInv
<1>5. CASE Pick
  <2>1. /\ Len(pending') = Len(pending) - 1
        /\ \A i \in 1..Len(pending') : pending'[i] = pending[i + 1]
    BY <1>5, HeadTailProperties DEF Pick, TypeOK
  <2>2. /\ Len(pending) # 0
        /\ current' = pending[1]
        /\ current' \in Cmd
    BY <1>0, <1>5, EmptySeq, HeadTailProperties DEF Pick, TypeOK
  <2>3. current = NoCmd
    BY <1>5 DEF Pick, ThreadInv
  <2>4. \A d \in Cmd : Untouched(d)' <=> Untouched(d) /\ d # pending[1]
    BY <1>5, <2>2, <2>3, NoCmdAssumption DEF Pick, Untouched, callVars
  <2>5. UNCHANGED <<wake, answer, ticket, tickets, dropped>>
    BY <1>5 DEF Pick, historyVars
  <2>6. NoLostWakeup'
    BY <1>5, <2>5 DEF Pick, LineInv, NoLostWakeup
  <2>7. FreshPart' /\ DroppedPart'
    BY <1>0, <2>2, <2>4, <2>5
       DEF LineInv, FreshPart, DroppedPart, ListedPart, TypeOK
  <2>8. ListedPart' /\ SortedPart'
    <3>1. \A i \in 1..Len(pending') :
             i + 1 \in 1..Len(pending) /\ 1 < i + 1 /\ 1 \in 1..Len(pending)
      BY <1>0, <2>1, <2>2
    <3>2. \A i \in 1..Len(pending') : pending'[i] # pending[1]
      BY <1>0, <2>1, <3>1 DEF LineInv, SortedPart, TypeOK
    <3>3. ListedPart'
      BY <1>0, <2>1, <2>4, <2>5, <3>1, <3>2 DEF LineInv, ListedPart
    <3>4. SortedPart'
      BY <1>0, <2>1, <2>2, <2>4, <2>5, <3>1 DEF LineInv, SortedPart
    <3> QED
      BY <3>3, <3>4
  <2>9. KeptPart'
    <3> SUFFICES ASSUME NEW d \in Cmd, answer[d] \notin {"none", "rejected"},
                        d \notin dropped, Untouched(d), d # pending[1]
                 PROVE  \E i \in 1..Len(pending') : pending'[i] = d
      BY <2>4, <2>5 DEF KeptPart
    <3>1. PICK i \in 1..Len(pending) : pending[i] = d
      BY DEF LineInv, KeptPart
    <3>2. i - 1 \in 1..Len(pending') /\ pending'[i - 1] = d
      BY <1>0, <2>1, <3>1
    <3> QED
      BY <3>2
  <2> QED
    BY <2>6, <2>7, <2>8, <2>9 DEF LineInv
<1>6. CASE Worker /\ ~Pick
  BY <1>6, WorkerFrame, LineFrameStep
<1>7. ASSUME NEW c \in Cmd, Call(c) PROVE LineInv'
  BY <1>7, CallFrame, LineFrameStep
<1>8. CASE UNCHANGED vars
  <2>1. LineFrame
    BY <1>8 DEF vars, callVars, historyVars, LineFrame, Untouched
  <2> QED
    BY <2>1, LineFrameStep
<1> QED
  BY <1>1, <1>2, <1>3, <1>4, <1>5, <1>6, <1>7, <1>8 DEF Next, Caller, Worker

-----------------------------------------------------------------------------
(* The theorems                                                            *)

(* ThreadInv and LineInv hold together. *)
LEMMA IInvariant == SafeSpec => [](TypeOK /\ ThreadInv /\ LineInv)
<1>1. Init => ThreadInv
  BY NoCmdAssumption DEF Init, ThreadInv, Terminal
<1>2. Init => LineInv
  <2> SUFFICES ASSUME Init PROVE LineInv
    OBVIOUS
  <2>1. Len(pending) = 0 /\ \A c \in Cmd : Untouched(c)
    BY NoCmdAssumption DEF Init, Untouched
  <2> QED
    BY <2>1 DEF Init, LineInv, NoLostWakeup, FreshPart, DroppedPart, ListedPart,
                SortedPart, KeptPart
<1>3. TypeOK /\ ThreadInv /\ LineInv /\ [Next]_vars => (ThreadInv /\ LineInv)'
  BY ThreadStep, LineStep
<1> QED
  BY <1>1, <1>2, <1>3, TypeCorrect, PTL DEF SafeSpec

(* However submits, overrides and cancels fall between the worker's steps,  *)
(* a waiting command never stands behind a cleared _wake event.             *)
THEOREM WakeupNotLost == SafeSpec => []NoLostWakeup
<1>1. LineInv => NoLostWakeup
  BY DEF LineInv
<1> QED
  BY <1>1, IInvariant, PTL

(* A command ends "cancelled" only if it was itself reported cancelled.     *)
THEOREM CancelsOnlyTheFlagged == SafeSpec => []NoSpuriousCancel
<1>1. ThreadInv => NoSpuriousCancel
  BY DEF ThreadInv, NoSpuriousCancel
<1> QED
  BY <1>1, IInvariant, PTL

(* Only the command the worker holds can be inside its fn uncancelled.      *)
THEOREM OneLive == SafeSpec => []OneLiveCommand
<1>1. ThreadInv => OneLiveCommand
  BY DEF ThreadInv, OneLiveCommand, Terminal
<1> QED
  BY <1>1, IInvariant, PTL

(* The worker never lets go of a command whose status is still open.        *)
THEOREM ReleasedAreSettled == SafeSpec => []SettledWhenReleased
<1>1. ThreadInv => SettledWhenReleased
  BY DEF ThreadInv, SettledWhenReleased
<1> QED
  BY <1>1, IInvariant, PTL

(* A command dropped by an override or a cancel_all never runs.             *)
THEOREM DroppedStayOut == SafeSpec => []DroppedNeverRuns
<1>1. TypeOK /\ LineInv => DroppedNeverRuns
  BY LenProperties
     DEF TypeOK, LineInv, DroppedPart, ListedPart, DroppedNeverRuns, Queued, Untouched
<1> QED
  BY <1>1, IInvariant, PTL

(* Every accepted command is waiting, current, started or reported dropped. *)
THEOREM NoneLost == SafeSpec => []NothingLost
<1>1. TypeOK /\ LineInv => NothingLost
  BY LenProperties DEF TypeOK, LineInv, KeptPart, NothingLost, Queued, Untouched
<1> QED
  BY <1>1, IInvariant, PTL

(* Commands are picked in the order in which they were submitted.           *)
THEOREM Fifo == SafeSpec => []FifoOrder
<1>1. TypeOK /\ LineInv => FifoOrder
  BY LenProperties DEF TypeOK, LineInv, SortedPart, FifoOrder, Untouched
<1> QED
  BY <1>1, IInvariant, PTL

(* A waiting override is the next command to be picked.                     *)
THEOREM OverrideFirst == SafeSpec => []OverrideIsNext
<1>1. TypeOK /\ LineInv => OverrideIsNext
  BY LenProperties DEF TypeOK, LineInv, ListedPart, OverrideIsNext, Queued
<1> QED
  BY <1>1, IInvariant, PTL

-----------------------------------------------------------------------------
(* Refinement                                                              *)

(* What the mapped variables do in a step of the threads other than Pick    *)
(* and Release: nothing, since the throwaway threads never un-start.        *)
LEMMA QuietStep ==
  ASSUME TypeOK, ThreadInv,
         (Worker /\ ~Pick /\ ~Release) \/ \E c \in Cmd : Call(c)
  PROVE  UNCHANGED <<pending, current, dropped, Released>>
<1> USE DEF TypeOK, Released, callVars, historyVars
<1>1. CASE WakeUp \/ PickNothing \/ SeeDone \/ SeeStop \/ Recheck \/ MarkCancelled
  BY <1>1 DEF WakeUp, PickNothing, SeeDone, SeeStop, Recheck, MarkCancelled
<1>2. CASE Start
  BY <1>2 DEF Start
<1>3. ASSUME NEW c \in Cmd, Call(c)
      PROVE  UNCHANGED <<pending, current, dropped, Released>>
  <2>1. UNCHANGED <<pending, current, dropped>>
        /\ \E to \in CallPcs \ {"none"} :
             callPc[c] # "none" /\ callPc' = [callPc EXCEPT ![c] = to]
    BY <1>3 DEF Call, AfterFn, FnEnds, CheckStatus, Record, Finish, CallGoes, CallPcs
  <2> QED
    BY <2>1
<1> QED
  BY <1>1, <1>2, <1>3 DEF Worker

(* An accepted request is new to the line, to the server and to over. *)
LEMMA FreshRequest ==
  ASSUME TypeOK, ThreadInv, LineInv, NEW c \in Cmd, answer[c] = "none"
  PROVE  Serial!Fresh(c)
BY LenProperties
   DEF TypeOK, LineInv, FreshPart, ListedPart, Untouched, Serial!Fresh,
       Serial!InLine, Released

(* Every step of CommandQueue is a step of SerialQueue or leaves it alone.  *)
LEMMA RefinementStep ==
  ASSUME TypeOK, ThreadInv, LineInv, [Next]_vars
  PROVE  [Serial!Next]_<<pending, current, dropped \union Released>>
<1> USE DEF Serial!Next
<1>1. ASSUME NEW c \in Cmd, Refuse(c)
      PROVE  UNCHANGED <<pending, current, dropped, Released>>
  BY <1>1 DEF Refuse, callVars, historyVars, Released
<1>2. ASSUME NEW c \in Cmd, NEW mode \in {"reject", "queue"}, Enqueue(c, mode)
      PROVE  Serial!Join(c)
  BY <1>2, FreshRequest
     DEF Enqueue, AtBack, callVars, Released, Serial!Join
<1>3. ASSUME NEW c \in Cmd, Override(c) PROVE Serial!Supplant(c)
  BY <1>3, FreshRequest
     DEF Override, ReportCancelled, Queued, callVars, Released,
         Serial!Supplant, Serial!InLine
<1>4. CASE CancelAll
  <2>1. Serial!Disband
    BY <1>4 DEF CancelAll, ReportCancelled, ClearListed, Queued, callVars,
                Released, Serial!Disband, Serial!InLine
  <2> QED
    BY <2>1
<1>5. CASE Pick
  <2>1. current = NoCmd /\ Untouched(Head(pending))
    BY <1>5, PickedIsUntouched DEF Pick, ThreadInv
  <2>2. Released' = Released
    BY <1>5, <2>1, NoCmdAssumption DEF Pick, Released, Untouched, callVars
  <2>3. Serial!Serve
    BY <1>5, <2>1, <2>2 DEF Pick, historyVars, Serial!Serve
  <2> QED
    BY <2>3
<1>6. CASE Release
  <2>1. current \in Cmd /\ callPc[current] # "none"
    BY <1>6, NoCmdAssumption DEF Release, ThreadInv, TypeOK
  <2>2. Released' = Released \union {current}
    BY <1>6, <2>1, NoCmdAssumption DEF Release, Released, callVars
  <2>3. Serial!Leave
    BY <1>6, <2>1, <2>2, NoCmdAssumption DEF Release, historyVars, Serial!Leave
  <2> QED
    BY <2>3
<1>7. CASE (Worker /\ ~Pick /\ ~Release) \/ \E c \in Cmd : Call(c)
  BY <1>7, QuietStep
<1>8. CASE UNCHANGED vars
  BY <1>8 DEF vars, callVars, historyVars, Released
<1> QED
  BY <1>1, <1>2, <1>3, <1>4, <1>5, <1>6, <1>7, <1>8 DEF Next, Caller, Worker

(* The queue implements SerialQueue: one line, one in service, served in    *)
(* order, and nobody is served after being told that it is over.            *)
THEOREM Refinement == SafeSpec => ImplementsSerialQueue
<1>1. Init => Serial!Init
  BY DEF Init, Serial!Init, Released
<1>2. TypeOK /\ ThreadInv /\ LineInv /\ [Next]_vars
        => [Serial!Next]_<<pending, current, dropped \union Released>>
  BY RefinementStep
<1> QED
  BY <1>1, <1>2, IInvariant, PTL
     DEF SafeSpec, ImplementsSerialQueue, Serial!SafeSpec, Serial!serialVars

-----------------------------------------------------------------------------
(* What SerialQueue is worth: a request in it is served once at most.       *)
Over == dropped \union Released
SerialType == pending \in Seq(Cmd) /\ current \in Cmd \union {NoCmd} /\ Over \subseteq Cmd

LEMMA SerialStep ==
  ASSUME SerialType, Serial!Apart, [Serial!Next]_(Serial!serialVars)
  PROVE  SerialType' /\ Serial!Apart' /\ Over \subseteq Over'
<1> USE NoCmdAssumption DEF SerialType, Over, Serial!Apart, Serial!InLine
<1> HIDE DEF Released
<1>1. ASSUME NEW c \in Cmd, Serial!Join(c)
      PROVE  SerialType' /\ Serial!Apart' /\ Over \subseteq Over'
  BY <1>1 DEF Serial!Join, Serial!Fresh
<1>2. ASSUME NEW c \in Cmd, Serial!Supplant(c)
      PROVE  SerialType' /\ Serial!Apart' /\ Over \subseteq Over'
  BY <1>2 DEF Serial!Supplant, Serial!Fresh
<1>3. CASE Serial!Disband  BY <1>3 DEF Serial!Disband
<1>4. CASE Serial!Serve  BY <1>4 DEF Serial!Serve
<1>5. CASE Serial!Leave  BY <1>5 DEF Serial!Leave
<1>6. CASE UNCHANGED Serial!serialVars  BY <1>6 DEF Serial!serialVars
<1> QED
  BY <1>1, <1>2, <1>3, <1>4, <1>5, <1>6 DEF Serial!Next

(* Whatever behaves like SerialQueue serves a request at most once, and     *)
(* never after it was told that it is over.                                 *)
THEOREM SerialServesOnce == ImplementsSerialQueue => Serial!ServedOnce
<1>1. Serial!Init => SerialType /\ Serial!Apart
  BY NoCmdAssumption DEF Serial!Init, SerialType, Over, Serial!Apart, Serial!InLine
<1>2. SerialType /\ Serial!Apart /\ [Serial!Next]_(Serial!serialVars)
        => SerialType' /\ Serial!Apart'
  BY SerialStep
<1>3. SerialType /\ Serial!Apart /\ [Serial!Next]_(Serial!serialVars)
        => [dropped \union Released \subseteq (dropped \union Released)']_(Serial!serialVars)
  BY SerialStep DEF Over
<1> QED
  BY <1>1, <1>2, <1>3, PTL DEF ImplementsSerialQueue, Serial!SafeSpec, Serial!ServedOnce

(* For every set of requests, the queue serves each at most once, and none  *)
(* that was reported cancelled while it waited or let go of.                *)
THEOREM ServedAtMostOnce == SafeSpec => Serial!ServedOnce
<1> QED
  BY Refinement, SerialServesOnce, PTL

-----------------------------------------------------------------------------
(* Progress.  What a command that was reported cancelled while current has  *)
(* to do with the stop flag: the flag stays until the worker lets go of it. *)
FlagInv ==
  \A c \in flagged : /\ c = current => stopRequested
                     /\ c = current \/ callPc[c] # "none"

LEMMA FlagStep ==
  ASSUME TypeOK, ThreadInv, LineInv, FlagInv, [Next]_vars
  PROVE  FlagInv'
<1> USE NoCmdAssumption DEF FlagInv
<1>1. CASE Caller
  <2>1. ASSUME NEW d \in Cmd, Refuse(d) \/ \E mode \in {"reject", "queue"} : Enqueue(d, mode)
        PROVE  FlagInv'
    BY <2>1 DEF Refuse, Enqueue, Accept, callVars, historyVars
  <2>2. ASSUME ReportCancelled, UNCHANGED <<current, callPc>> PROVE FlagInv'
    <3>1. CASE current = NoCmd
      BY <2>2, <3>1 DEF ReportCancelled, TypeOK
    <3>2. CASE current # NoCmd
      <4>1. stopRequested' = TRUE /\ flagged' = flagged \union {current}
        BY <2>2, <3>2 DEF ReportCancelled
      <4> QED
        BY <2>2, <4>1
    <3> QED
      BY <3>1, <3>2
  <2>3. ASSUME NEW d \in Cmd, Override(d) PROVE FlagInv'
    BY <2>3, <2>2 DEF Override, callVars
  <2>4. CASE CancelAll
    BY <2>4, <2>2 DEF CancelAll, callVars
  <2> QED
    BY <1>1, <2>1, <2>3, <2>4 DEF Caller
<1>2. CASE Pick
  <2>1. /\ Head(pending) \in Cmd /\ Untouched(Head(pending)) /\ current = NoCmd
        /\ current' = Head(pending) /\ UNCHANGED <<callPc, flagged>>
    BY <1>2, PickedIsUntouched DEF Pick, ThreadInv, callVars, historyVars
  <2>2. \A c \in flagged : c \in Cmd
    BY DEF TypeOK
  <2> QED
    BY <2>1, <2>2 DEF Untouched
<1>3. CASE Worker /\ ~Pick
  <2>1. /\ UNCHANGED <<flagged, stopRequested>> /\ (current' = current \/ workerPc = "release")
        /\ current' \in {current, NoCmd}
    BY <1>3 DEF Worker, WakeUp, PickNothing, Start, StopFlagAtStart, SeeDone, SeeStop,
                Recheck, MarkCancelled, Release, callVars, historyVars
  <2>2. \A c \in Cmd : callPc[c] # "none" => callPc'[c] # "none"
    BY <1>3 DEF Worker, WakeUp, PickNothing, Start, SeeDone, SeeStop,
                Recheck, MarkCancelled, Release, callVars, TypeOK
  <2>3. workerPc = "release" => callPc[current] # "none"
    BY DEF ThreadInv
  <2> QED
    BY <2>1, <2>2, <2>3 DEF TypeOK
<1>4. ASSUME NEW d \in Cmd, Call(d) PROVE FlagInv'
  <2>1. /\ UNCHANGED <<current, flagged, stopRequested>>
        /\ \A c \in Cmd : callPc[c] # "none" => callPc'[c] # "none"
    BY <1>4 DEF Call, AfterFn, FnEnds, CheckStatus, Record, Finish, CallGoes, historyVars,
                TypeOK
  <2> QED
    BY <2>1 DEF TypeOK
<1>5. CASE UNCHANGED vars
  BY <1>5 DEF vars, callVars, historyVars
<1> QED
  BY <1>1, <1>2, <1>3, <1>4, <1>5 DEF Next

QInv == TypeOK /\ ThreadInv /\ LineInv /\ FlagInv

LEMMA QInvariant == SafeSpec => []QInv
<1>1. Init => FlagInv
  BY DEF Init, FlagInv
<1> QED
  BY <1>1, FlagStep, IInvariant, PTL DEF SafeSpec, QInv

(* When the worker can go on.                                               *)
WorkerMayGo ==
  \/ workerPc \in {"pick", "start", "recheck", "cancel", "release"}
  \/ workerPc = "wait" /\ wake
  \/ workerPc = "await" /\ (callPc[current] = "ended" \/ stopRequested)

(* The worker with c: where it is, and whether the thread of c has ended.   *)
At(c, pc) == current = c /\ workerPc = pc
Awaits(c) == At(c, "await") /\ callPc[c] # "ended"
Done(c) == At(c, "await") /\ callPc[c] = "ended"

(* Where the worker is led by its own steps, once it has c.                 *)
LEMMA WorkerWith ==
  ASSUME QInv, Worker, NEW c \in Cmd, current = c
  PROVE  /\ At(c, "start") => Awaits(c)'
         /\ Awaits(c) => At(c, "recheck")'
         /\ At(c, "recheck") => Done(c)' \/ At(c, "cancel")'
         /\ Done(c) => At(c, "release")'
         /\ At(c, "cancel") => At(c, "release")'
         /\ At(c, "release") => current' # c
<1> USE NoCmdAssumption DEF At, Awaits, Done, callVars, QInv, TypeOK
<1>1. CASE WakeUp \/ PickNothing \/ Pick
  BY <1>1 DEF WakeUp, PickNothing, Pick, ThreadInv
<1>2. CASE Start
  BY <1>2 DEF Start
<1>3. CASE SeeDone \/ SeeStop \/ Recheck
  BY <1>3 DEF SeeDone, SeeStop, Recheck
<1>4. CASE MarkCancelled \/ Release
  BY <1>4 DEF MarkCancelled, Release
<1> QED
  BY <1>1, <1>2, <1>3, <1>4 DEF Worker

LEMMA WorkerKeeps ==
  ASSUME QInv, Worker
  PROVE  flagged' = flagged
<1> QED
  BY DEF Worker, WakeUp, PickNothing, Pick, Start, SeeDone, SeeStop, Recheck, MarkCancelled,
         Release, historyVars

(* All other steps leave the worker where it is, and a thread that ended    *)
(* stays so.                                                                *)
LEMMA OthersWith ==
  ASSUME QInv, [Next]_vars, ~Worker
  PROVE  /\ UNCHANGED <<current, workerPc>>
         /\ flagged \subseteq flagged'
         /\ \A c \in Cmd : callPc[c] = "ended" => callPc'[c] = "ended"
<1> USE DEF QInv, TypeOK
<1>1. CASE Caller
  BY <1>1 DEF Caller, Refuse, Enqueue, Override, CancelAll, ReportCancelled, Accept,
              callVars, historyVars
<1>2. ASSUME NEW d \in Cmd, Call(d)
      PROVE  /\ UNCHANGED <<current, workerPc, flagged>>
             /\ \A c \in Cmd : callPc[c] = "ended" => callPc'[c] = "ended"
  BY <1>2 DEF Call, AfterFn, FnEnds, CheckStatus, Record, Finish, CallGoes, historyVars
<1>3. CASE UNCHANGED vars
  BY <1>3 DEF vars, callVars, historyVars
<1> QED
  BY <1>1, <1>2, <1>3 DEF Next

(* A cancelled command frees the queue, whether or not its fn ever ends.    *)
(* No prover here expands ENABLED, so the theorem says when the worker can  *)
(* go on: the guards of its actions.                                        *)
THEOREM CancelFrees ==
  Spec /\ [](WorkerMayGo => ENABLED <<Worker>>_vars) => CancelFreesQueue
<1> SUFFICES ASSUME NEW c \in Cmd
             PROVE  Spec /\ [](WorkerMayGo => ENABLED <<Worker>>_vars)
                      => ((c \in flagged /\ current = c) ~> current # c)
  BY DEF CancelFreesQueue
<1> DEFINE Its == c \in flagged /\ current = c
           S == Its /\ workerPc = "start"
           A == Its /\ Awaits(c)
           R == Its /\ workerPc = "recheck"
           D == Its /\ Done(c)
           C == Its /\ workerPc = "cancel"
           L == Its /\ workerPc = "release"
           Gone == current # c
<1>1. QInv /\ Its => S \/ A \/ R \/ D \/ C \/ L
  BY NoCmdAssumption DEF QInv, ThreadInv, TypeOK, WorkerPcs, Awaits, Done, At
<1>2. QInv /\ (S \/ A \/ R \/ D \/ C \/ L) => WorkerMayGo
  BY DEF QInv, FlagInv, WorkerMayGo, Awaits, Done, At
<1>3. QInv /\ [Next]_vars /\ S => (S \/ A \/ Gone)'
  BY WorkerWith, OthersWith, WorkerKeeps DEF At, Awaits
<1>4. QInv /\ [Next]_vars /\ A => (A \/ D \/ R \/ Gone)'
  BY WorkerWith, OthersWith, WorkerKeeps DEF At, Awaits, Done
<1>5. QInv /\ [Next]_vars /\ R => (R \/ D \/ C \/ Gone)'
  BY WorkerWith, OthersWith, WorkerKeeps DEF At, Done
<1>6. QInv /\ [Next]_vars /\ D => (D \/ L \/ Gone)'
  BY WorkerWith, OthersWith, WorkerKeeps DEF At, Done
<1>7. QInv /\ [Next]_vars /\ C => (C \/ L \/ Gone)'
  BY WorkerWith, OthersWith, WorkerKeeps DEF At
<1>8. QInv /\ [Next]_vars /\ L => (L \/ Gone)'
  BY WorkerWith, OthersWith, WorkerKeeps DEF At
<1>9. /\ QInv /\ <<Next /\ Worker>>_vars /\ S => (A \/ Gone)'
      /\ QInv /\ <<Next /\ Worker>>_vars /\ A => (R \/ Gone)'
      /\ QInv /\ <<Next /\ Worker>>_vars /\ R => (D \/ C \/ Gone)'
      /\ QInv /\ <<Next /\ Worker>>_vars /\ D => (L \/ Gone)'
      /\ QInv /\ <<Next /\ Worker>>_vars /\ C => (L \/ Gone)'
      /\ QInv /\ <<Next /\ Worker>>_vars /\ L => Gone'
  BY WorkerWith, WorkerKeeps DEF At, Awaits, Done
<1>10. Gone <=> ~(current = c)
  OBVIOUS
<1> HIDE DEF S, A, R, D, C, L, Gone
<1> QED
  BY <1>1, <1>2, <1>3, <1>4, <1>5, <1>6, <1>7, <1>8, <1>9, QInvariant, PTL DEF Spec, SafeSpec, Its, Gone

(* What the thread of c does once it is out of fn, and what others can do   *)
(* to it: nothing.                                                          *)
LEMMA ThreadGoesOn ==
  ASSUME QInv, [Next]_vars, NEW c \in Cmd, callPc[c] # "none"
  PROVE  \/ callPc'[c] = callPc[c]
         \/ callPc[c] = "fn" /\ callPc'[c] = "check"
         \/ callPc[c] = "check" /\ callPc'[c] \in {"record", "finish"}
         \/ callPc[c] = "record" /\ callPc'[c] = "finish"
         \/ callPc[c] = "finish" /\ callPc'[c] = "ended"
<1> USE DEF QInv, TypeOK
<1>1. CASE Caller
  BY <1>1 DEF Caller, Refuse, Enqueue, Override, CancelAll, callVars
<1>2. CASE Worker
  BY <1>2 DEF Worker, WakeUp, PickNothing, Pick, Start, SeeDone, SeeStop, Recheck,
              MarkCancelled, Release, callVars, ThreadInv
<1>3. ASSUME NEW d \in Cmd, Call(d)
      PROVE  \/ callPc'[c] = callPc[c]
             \/ callPc[c] = "fn" /\ callPc'[c] = "check"
             \/ callPc[c] = "check" /\ callPc'[c] \in {"record", "finish"}
             \/ callPc[c] = "record" /\ callPc'[c] = "finish"
             \/ callPc[c] = "finish" /\ callPc'[c] = "ended"
  <2>1. /\ callPc' = [callPc EXCEPT ![d] = callPc'[d]]
        /\ \/ callPc[d] = "fn" /\ callPc'[d] = "check"
           \/ callPc[d] = "check" /\ callPc'[d] \in {"record", "finish"}
           \/ callPc[d] = "record" /\ callPc'[d] = "finish"
           \/ callPc[d] = "finish" /\ callPc'[d] = "ended"
    BY <1>3 DEF Call, AfterFn, FnEnds, CheckStatus, Record, Finish, CallGoes
  <2> QED
    BY <2>1
<1>4. CASE UNCHANGED vars
  BY <1>4 DEF vars, callVars
<1> QED
  BY <1>1, <1>2, <1>3, <1>4 DEF Next

LEMMA ThreadMoves ==
  ASSUME QInv, NEW c \in Cmd, AfterFn(c)
  PROVE  callPc'[c] # callPc[c]
BY DEF QInv, TypeOK, AfterFn, CheckStatus, Record, Finish, CallGoes

(* The worker gets done with every command c whose fn ends, whether c is    *)
(* stopped or not.  The fairness is what Spec says of the worker and of c's *)
(* thread, and the fn is what FnsEnd says of c; that Spec and FnsEnd say it *)
(* of every c is beyond the temporal prover.                                *)
THEOREM CurrentEnds ==
  ASSUME NEW c \in Cmd
  PROVE  /\ SafeSpec /\ WF_vars(Worker) /\ WF_vars(AfterFn(c))
         /\ callPc[c] = "fn" ~> callPc[c] # "fn"
         /\ [](WorkerMayGo => ENABLED <<Worker>>_vars)
         /\ [](callPc[c] \in {"check", "record", "finish"} => ENABLED <<AfterFn(c)>>_vars)
         => (current = c ~> current # c)
<1> DEFINE S == At(c, "start")
           F == Awaits(c) /\ callPc[c] = "fn"
           K == Awaits(c) /\ callPc[c] = "check"
           W == Awaits(c) /\ callPc[c] = "record"
           E == Awaits(c) /\ callPc[c] = "finish"
           R == At(c, "recheck")
           D == Done(c)
           C == At(c, "cancel")
           L == At(c, "release")
           Gone == current # c
           InFn == callPc[c] = "fn"
<1>1. QInv /\ current = c => S \/ F \/ K \/ W \/ E \/ R \/ D \/ C \/ L
  BY NoCmdAssumption DEF QInv, ThreadInv, TypeOK, WorkerPcs, CallPcs, Awaits, Done, At
<1>2. QInv /\ (S \/ R \/ D \/ C \/ L) => WorkerMayGo
  BY DEF WorkerMayGo, Done, At
<1>3. K \/ W \/ E => callPc[c] \in {"check", "record", "finish"}
  OBVIOUS
<1>4. QInv /\ [Next]_vars /\ S => (S \/ F \/ K \/ W \/ E \/ Gone)'
  <2>1. ASSUME QInv, S, Worker PROVE F'
    BY <2>1, NoCmdAssumption DEF At, Awaits, QInv, TypeOK, ThreadInv, Worker, WakeUp, PickNothing,
       Pick, Start, SeeDone, SeeStop, Recheck, MarkCancelled, Release
  <2> QED
    BY <2>1, OthersWith DEF At
<1>5. QInv /\ [Next]_vars /\ (F \/ K \/ W \/ E) /\ Worker => R'
  BY WorkerWith DEF At, Awaits
<1>6. QInv /\ [Next]_vars /\ F => (F \/ K \/ R)'
  BY <1>5, OthersWith, ThreadGoesOn DEF At, Awaits
<1>7. QInv /\ [Next]_vars /\ K => (K \/ W \/ E \/ R)'
  BY <1>5, OthersWith, ThreadGoesOn DEF At, Awaits
<1>8. QInv /\ [Next]_vars /\ W => (W \/ E \/ R)'
  BY <1>5, OthersWith, ThreadGoesOn DEF At, Awaits
<1>9. QInv /\ [Next]_vars /\ E => (E \/ D \/ R)'
  BY <1>5, OthersWith, ThreadGoesOn DEF At, Awaits, Done
<1>10. /\ QInv /\ <<Next /\ AfterFn(c)>>_vars /\ K => (W \/ E \/ R)'
       /\ QInv /\ <<Next /\ AfterFn(c)>>_vars /\ W => (E \/ R)'
       /\ QInv /\ <<Next /\ AfterFn(c)>>_vars /\ E => (D \/ R)'
  BY <1>7, <1>8, <1>9, ThreadMoves
<1>11. /\ QInv /\ [Next]_vars /\ R => (R \/ D \/ C)'
       /\ QInv /\ [Next]_vars /\ D => (D \/ L)'
       /\ QInv /\ [Next]_vars /\ C => (C \/ L)'
       /\ QInv /\ [Next]_vars /\ L => (L \/ Gone)'
  BY WorkerWith, OthersWith DEF At, Done
<1>12. /\ QInv /\ <<Next /\ Worker>>_vars /\ S => (F \/ K \/ W \/ E \/ Gone)'
       /\ QInv /\ <<Next /\ Worker>>_vars /\ R => (D \/ C)'
       /\ QInv /\ <<Next /\ Worker>>_vars /\ D => L'
       /\ QInv /\ <<Next /\ Worker>>_vars /\ C => L'
       /\ QInv /\ <<Next /\ Worker>>_vars /\ L => Gone'
  BY WorkerWith, <1>4 DEF At, Awaits, Done
<1>13. F => InFn
  OBVIOUS
<1>14. ~InFn <=> callPc[c] # "fn"
  OBVIOUS
<1>15. ~Gone <=> current = c
  OBVIOUS
<1> HIDE DEF S, F, K, W, E, R, D, C, L
<1> QED
  BY <1>1, <1>2, <1>3, <1>4, <1>6, <1>7, <1>8, <1>9, <1>10, <1>11, <1>12, <1>13, <1>14, <1>15,
     QInvariant, PTL DEF SafeSpec

(* While commands wait the worker does not rest: it picks one, or somebody  *)
(* cancels them all.  This is what the wake-up that is never lost is for.   *)
THEOREM LineMoves ==
  SafeSpec /\ WF_vars(Worker) /\ [](WorkerMayGo => ENABLED <<Worker>>_vars)
    => ((pending # <<>> /\ current = NoCmd) ~> (current # NoCmd \/ pending = <<>>))
<1> DEFINE Idle == pending # <<>> /\ current = NoCmd
           W == Idle /\ workerPc = "wait"
           P == Idle /\ workerPc = "pick"
           Out == current # NoCmd \/ pending = <<>>
<1>1. QInv /\ Idle => W \/ P
  BY DEF QInv, ThreadInv
<1>2. QInv /\ (W \/ P) => WorkerMayGo
  BY DEF QInv, LineInv, NoLostWakeup, WorkerMayGo
<1>3. ASSUME QInv, [Next]_vars, Worker
      PROVE  (W => (P \/ Out)') /\ (P => Out')
  <2>1. ASSUME W PROVE (P \/ Out)'
    BY <1>3, <2>1 DEF Worker, WakeUp, PickNothing, Pick, Start, SeeDone, SeeStop, Recheck,
                      MarkCancelled, Release
  <2>2. ASSUME P PROVE Out'
    <3>1. Pick
      BY <1>3, <2>2 DEF Worker, WakeUp, PickNothing, Start, SeeDone, SeeStop, Recheck,
                        MarkCancelled, Release
    <3> QED
      BY <1>3, <2>2, <3>1, PickedIsUntouched, NoCmdAssumption DEF Pick, QInv
  <2> QED
    BY <2>1, <2>2
<1>4. QInv /\ [Next]_vars /\ W => (W \/ P \/ Out)'
  BY <1>3, OthersWith
<1>5. QInv /\ [Next]_vars /\ P => (P \/ Out)'
  BY <1>3, OthersWith
<1>6. /\ QInv /\ <<Next /\ Worker>>_vars /\ W => (P \/ Out)'
      /\ QInv /\ <<Next /\ Worker>>_vars /\ P => Out'
  BY <1>3
<1> HIDE DEF W, P, Idle, Out
<1>7. ((pending # <<>> /\ current = NoCmd) <=> Idle) /\ ((current # NoCmd \/ pending = <<>>) <=> Out)
  BY DEF Idle, Out
<1> QED
  BY <1>1, <1>2, <1>4, <1>5, <1>6, <1>7, QInvariant, PTL DEF SafeSpec
=============================================================================
