---------------------------- MODULE CommandQueue ----------------------------
(***************************************************************************)
(* case1/queue_manager.py: the CommandQueue behind move_robot_queued,      *)
(* program_start, get_queue and stop_robot.                                *)
(*                                                                         *)
(* Threads: the callers of submit and cancel_all (each call is one         *)
(* critical section of _lock, hence one action); the worker, which runs    *)
(* _run; and for every command the worker starts a throwaway thread that   *)
(* runs _call.  The throwaway thread and the worker share cmd.status       *)
(* without the lock, so every access to it is a step of its own.           *)
(*                                                                         *)
(* A member of Cmd is a request: an accepted one becomes a Command with a  *)
(* fresh id, a refused one never does.  cmd.fn is left open: it may return *)
(* or raise at any time.  MotionServer says what it does to the robot.     *)
(***************************************************************************)
EXTENDS Naturals, Sequences

CONSTANTS Cmd,    (* the requests that may be submitted                    *)
          NoCmd   (* Python's None, for _current                           *)

ASSUME NoCmdAssumption == NoCmd \notin Cmd

Answers  == {"none", "accepted", "queued", "accepted_override", "rejected"}
Statuses == {"pending", "running", "done", "failed", "cancelled"}
Terminal == {"done", "failed", "cancelled"}
WorkerPcs == {"wait", "pick", "start", "await", "recheck", "cancel", "release"}
CallPcs   == {"none", "fn", "check", "record", "finish", "ended"}
Outcomes  == {"none", "returned", "raised"}

VARIABLES
  pending,        (* _pending, the FIFO list                               *)
  current,        (* _current                                              *)
  wake,           (* the _wake event                                       *)
  stopRequested,  (* the stop_requested event                              *)
  workerPc,       (* where the worker is in _run                           *)
  status,         (* Command.status                                        *)
  callPc,         (* where a command's throwaway thread is in _call;       *)
                  (* "ended" is done.set()                                 *)
  outcome,        (* how cmd.fn ended                                      *)
  answer,         (* the status field of submit's response                 *)
  ticket,         (* history: place in the order of submission, 0 if none  *)
  tickets,        (* history: how many were accepted                       *)
  dropped,        (* history: reported cancelled while still pending       *)
  flagged         (* history: reported cancelled while current             *)

callVars    == <<callPc, outcome>>
historyVars == <<ticket, tickets, dropped, flagged>>
vars == <<pending, current, wake, stopRequested, workerPc, status, callVars,
          answer, historyVars>>

Queued == {pending[i] : i \in DOMAIN pending}
Busy   == current # NoCmd \/ pending # <<>>

Init ==
  /\ pending = <<>>
  /\ current = NoCmd
  /\ wake = FALSE
  /\ stopRequested = FALSE
  /\ workerPc = "wait"
  /\ status = [c \in Cmd |-> "pending"]
  /\ callPc = [c \in Cmd |-> "none"]
  /\ outcome = [c \in Cmd |-> "none"]
  /\ answer = [c \in Cmd |-> "none"]
  /\ ticket = [c \in Cmd |-> 0]
  /\ tickets = 0
  /\ dropped = {}
  /\ flagged = {}

-----------------------------------------------------------------------------
(* The callers: submit and cancel_all.                                     *)

(* Hand c its place in the order of submission. *)
Accept(c, response) ==
  /\ answer' = [answer EXCEPT ![c] = response]
  /\ tickets' = tickets + 1
  /\ ticket' = [ticket EXCEPT ![c] = tickets + 1]

(* submit answers "rejected": nothing but the response changes. *)
Refuse(c) ==
  /\ answer[c] = "none"
  /\ Busy
  /\ answer' = [answer EXCEPT ![c] = "rejected"]
  /\ UNCHANGED <<pending, current, wake, stopRequested, workerPc, status,
                 callVars, historyVars>>

(* Mutant: submit forgets the wake-up. *)
WakeKept == wake
(* _wake.set() at the end of submit, inside the critical section. *)
WakeSet == TRUE

(* Mutant: a newcomer is put at the front of the list. *)
AtFront(c) == <<c>> \o pending
(* _pending.append(cmd) *)
AtBack(c) == Append(pending, c)

(* submit with mode "queue", or "reject" when nothing runs or waits. *)
Enqueue(c, mode) ==
  /\ answer[c] = "none"
  /\ mode = "queue" \/ (mode = "reject" /\ ~Busy)
  /\ pending' = AtBack(c)
  /\ Accept(c, IF Busy THEN "queued" ELSE "accepted")
  /\ wake' = WakeSet
  /\ UNCHANGED <<current, stopRequested, workerPc, status, callVars, dropped,
                 flagged>>

(* Mutant: the list is reported as cancelled but not cleared. *)
KeepListed == pending
(* _pending.clear() *)
ClearListed == <<>>

(* Mutant: only the head of the list is reported. *)
HeadCancelled ==
  /\ dropped' = dropped \union (IF pending = <<>> THEN {} ELSE {Head(pending)})
  /\ flagged' = IF current = NoCmd THEN flagged ELSE flagged \union {current}
  /\ stopRequested' = (stopRequested \/ current # NoCmd)
(* What override and cancel_all share: every pending id and the current one *)
(* are reported, and stop_requested is set if something is current.         *)
ReportCancelled ==
  /\ dropped' = dropped \union Queued
  /\ flagged' = IF current = NoCmd THEN flagged ELSE flagged \union {current}
  /\ stopRequested' = (stopRequested \/ current # NoCmd)

(* submit with mode "override". *)
Override(c) ==
  /\ answer[c] = "none"
  /\ ReportCancelled
  /\ pending' = <<c>>
  /\ Accept(c, "accepted_override")
  /\ wake' = WakeSet
  /\ UNCHANGED <<current, workerPc, status, callVars>>

(* cancel_all: _wake is left as it is. *)
CancelAll ==
  /\ ReportCancelled
  /\ pending' = ClearListed
  /\ UNCHANGED <<current, wake, workerPc, status, callVars, answer, ticket,
                 tickets>>

Caller == \/ \E c \in Cmd : Refuse(c)
          \/ \E c \in Cmd, mode \in {"reject", "queue"} : Enqueue(c, mode)
          \/ \E c \in Cmd : Override(c)
          \/ CancelAll

-----------------------------------------------------------------------------
(* The worker: _run.                                                       *)

(* _wake.wait() returns. *)
WakeUp ==
  /\ workerPc = "wait" /\ wake
  /\ workerPc' = "pick"
  /\ UNCHANGED <<pending, current, wake, stopRequested, status, callVars,
                 answer, historyVars>>

(* Woken with nothing to do: a cancel_all emptied the list. *)
PickNothing ==
  /\ workerPc = "pick" /\ pending = <<>>
  /\ wake' = FALSE
  /\ workerPc' = "wait"
  /\ UNCHANGED <<pending, current, stopRequested, status, callVars, answer,
                 historyVars>>

(* Mutant: the flag that stopped the previous command is left set. *)
StopFlagKept == stopRequested
(* stop_requested.clear(), in the critical section that pops the command. *)
StopFlagCleared == FALSE

Pick ==
  /\ workerPc = "pick" /\ pending # <<>>
  /\ current' = Head(pending)
  /\ pending' = Tail(pending)
  /\ stopRequested' = StopFlagCleared
  /\ workerPc' = "start"
  /\ UNCHANGED <<wake, status, callVars, answer, historyVars>>

(* Mutant: the flag is cleared after the critical section, not inside it. *)
StopFlagClearedLate == FALSE
(* A stop_requested set since the command was picked stays set. *)
StopFlagAtStart == stopRequested

(* status = "running", and the throwaway thread is started whether or not   *)
(* stop_requested was set since the command was picked.                     *)
Start ==
  /\ workerPc = "start"
  /\ status' = [status EXCEPT ![current] = "running"]
  /\ callPc' = [callPc EXCEPT ![current] = "fn"]
  /\ stopRequested' = StopFlagAtStart
  /\ workerPc' = "await"
  /\ UNCHANGED <<pending, current, wake, outcome, answer, historyVars>>

(* Mutant: done is waited for with a timeout whose result is ignored. *)
SeeDoneOrTimeout ==
  /\ workerPc = "await"
  /\ workerPc' = "release"
  /\ UNCHANGED <<pending, current, wake, stopRequested, status, callVars,
                 answer, historyVars>>
(* The while loop ends because done is set. *)
SeeDone ==
  /\ workerPc = "await" /\ callPc[current] = "ended"
  /\ workerPc' = "release"
  /\ UNCHANGED <<pending, current, wake, stopRequested, status, callVars,
                 answer, historyVars>>

(* stop_requested.wait returns True. *)
SeeStop ==
  /\ workerPc = "await" /\ callPc[current] # "ended" /\ stopRequested
  /\ workerPc' = "recheck"
  /\ UNCHANGED <<pending, current, wake, stopRequested, status, callVars,
                 answer, historyVars>>

(* "and not done.is_set()", read after the wait. *)
Recheck ==
  /\ workerPc = "recheck"
  /\ workerPc' = IF callPc[current] = "ended" THEN "await" ELSE "cancel"
  /\ UNCHANGED <<pending, current, wake, stopRequested, status, callVars,
                 answer, historyVars>>

(* Mutant: the loop is left without writing the status. *)
StatusLeft == status
(* Mutant: a status outside the documented life cycle. *)
StatusStopped == [status EXCEPT ![current] = "stopped"]
(* cmd.status = "cancelled" *)
StatusCancelled == [status EXCEPT ![current] = "cancelled"]

MarkCancelled ==
  /\ workerPc = "cancel"
  /\ status' = StatusCancelled
  /\ workerPc' = "release"
  /\ UNCHANGED <<pending, current, wake, stopRequested, callVars, answer,
                 historyVars>>

(* Mutant: the event is cleared without looking at the list. *)
WakeCleared == FALSE
(* if not self._pending: self._wake.clear() *)
WakeIfListed == wake /\ pending # <<>>

Release ==
  /\ workerPc = "release"
  /\ current' = NoCmd
  /\ wake' = WakeIfListed
  /\ workerPc' = "wait"
  /\ UNCHANGED <<pending, stopRequested, status, callVars, answer,
                 historyVars>>

Worker == \/ WakeUp \/ PickNothing \/ Pick \/ Start \/ SeeDone \/ SeeStop
          \/ Recheck \/ MarkCancelled \/ Release

-----------------------------------------------------------------------------
(* The throwaway thread of command c: _call.                               *)

CallGoes(c, from, to) ==
  /\ callPc[c] = from
  /\ callPc' = [callPc EXCEPT ![c] = to]
  /\ UNCHANGED <<pending, current, wake, stopRequested, workerPc, answer,
                 historyVars>>

(* cmd.fn() returns or raises. *)
FnEnds(c, how) ==
  /\ CallGoes(c, "fn", "check")
  /\ outcome' = [outcome EXCEPT ![c] = how]
  /\ UNCHANGED status

(* if cmd.status != "cancelled", the same test on both paths. *)
CheckStatus(c) ==
  /\ CallGoes(c, "check", IF status[c] = "cancelled" THEN "finish" ELSE "record")
  /\ UNCHANGED <<outcome, status>>

(* The result or the error, and the status, are written. *)
Record(c) ==
  /\ CallGoes(c, "record", "finish")
  /\ status' = [status EXCEPT ![c] =
                  IF outcome[c] = "returned" THEN "done" ELSE "failed"]
  /\ UNCHANGED outcome

(* finally: done.set() *)
Finish(c) ==
  /\ CallGoes(c, "finish", "ended")
  /\ UNCHANGED <<outcome, status>>

AfterFn(c) == CheckStatus(c) \/ Record(c) \/ Finish(c)
Call(c) == AfterFn(c) \/ \E how \in {"returned", "raised"} : FnEnds(c, how)

Next == Caller \/ Worker \/ \E c \in Cmd : Call(c)

SafeSpec == Init /\ [][Next]_vars

(* The worker is a daemon thread that never exits, and a throwaway thread   *)
(* runs to its end once its fn has.  Whether fn ends is up to the robot, and *)
(* no caller has to call.                                                   *)
Spec ==
  /\ SafeSpec
  /\ WF_vars(Worker)
  /\ \A c \in Cmd : WF_vars(AfterFn(c))

(* What the poll timeouts of URClient are there for. *)
FnsEnd == \A c \in Cmd : callPc[c] = "fn" ~> callPc[c] # "fn"

-----------------------------------------------------------------------------
(* Type invariant. *)
TypeOK ==
  /\ pending \in Seq(Cmd)
  /\ current \in Cmd \union {NoCmd}
  /\ wake \in BOOLEAN
  /\ stopRequested \in BOOLEAN
  /\ workerPc \in WorkerPcs
  /\ status \in [Cmd -> Statuses]
  /\ callPc \in [Cmd -> CallPcs]
  /\ outcome \in [Cmd -> Outcomes]
  /\ answer \in [Cmd -> Answers]
  /\ ticket \in [Cmd -> Nat]
  /\ tickets \in Nat
  /\ dropped \in SUBSET Cmd
  /\ flagged \in SUBSET Cmd

(* No wake-up is lost: whenever a command waits in _pending the _wake event *)
(* is set, although three places clear or leave it (_run twice, cancel_all).*)
NoLostWakeup == pending # <<>> => wake

(* A command is marked "cancelled" only if some override or cancel_all      *)
(* reported that very command as cancelled while it was current: a stop     *)
(* flag raised for one command never cancels the next one.                  *)
NoSpuriousCancel == \A c \in Cmd : status[c] = "cancelled" => c \in flagged

(* A command dropped from the list by an override or by cancel_all is never *)
(* picked and its fn is never called.                                       *)
DroppedNeverRuns ==
  \A c \in dropped : c \notin Queued /\ c # current /\ callPc[c] = "none"

(* No accepted command disappears: it is waiting, current, was started, or  *)
(* its id was returned in a cancelled_command_ids.                          *)
NothingLost ==
  \A c \in Cmd :
    answer[c] \notin {"none", "rejected"} =>
      c \in Queued \union {current} \union dropped \/ callPc[c] # "none"

(* First in, first out: the list is in the order of submission and whatever *)
(* was picked was submitted before everything that still waits.             *)
FifoOrder ==
  /\ \A i, j \in DOMAIN pending :
       i < j => ticket[pending[i]] < ticket[pending[j]]
  /\ \A c \in Cmd, i \in DOMAIN pending :
       c = current \/ callPc[c] # "none" => ticket[c] < ticket[pending[i]]

(* An override that is still waiting waits at the head of the list: nothing *)
(* submitted before or after it runs first.                                 *)
OverrideIsNext ==
  \A c \in Queued : answer[c] = "accepted_override" => pending[1] = c

(* Only the command the worker holds executes uncancelled: a throwaway      *)
(* thread that is still inside fn after the worker moved on belongs to a    *)
(* command marked "cancelled".                                              *)
OneLiveCommand ==
  \A c \in Cmd : callPc[c] = "fn" /\ status[c] # "cancelled" => c = current

(* A command the worker is finished with has a final status.                *)
SettledWhenReleased ==
  \A c \in Cmd : callPc[c] # "none" /\ c # current => status[c] \in Terminal

(* What holds of the worker, the threads, the flag and the statuses at      *)
(* every step; inductive, and strong enough for NoSpuriousCancel,           *)
(* OneLiveCommand and SettledWhenReleased.  stop_requested, while a command *)
(* is current, speaks of that command; a thread that left fn for the last   *)
(* time leaves a final status behind.                                       *)
ThreadInv ==
  /\ current = NoCmd <=> workerPc \in {"wait", "pick"}
  /\ workerPc = "start" => callPc[current] = "none"
  /\ workerPc \in {"await", "recheck", "cancel", "release"} =>
       callPc[current] # "none"
  /\ workerPc = "release" => status[current] \in Terminal
  /\ workerPc \in {"recheck", "cancel"} \/ (stopRequested /\ current # NoCmd) =>
       current \in flagged
  /\ \A c \in Cmd :
       /\ callPc[c] = "none" => status[c] = "pending"
       /\ callPc[c] = "fn" => status[c] \in {"running", "cancelled"}
       /\ callPc[c] \in {"finish", "ended"} => status[c] \in Terminal
       /\ callPc[c] # "none" /\ c # current => status[c] \in Terminal
       /\ status[c] = "cancelled" => c \in flagged

(* A request that is untouched: not picked, and without a thread. *)
Untouched(c) == c # current /\ callPc[c] = "none"

(* What holds of the list and the tickets at every step, in parts: nobody   *)
(* who was never accepted, or was dropped, has been touched; the list is    *)
(* sorted, holds untouched requests that were not dropped, and follows      *)
(* everything touched; an override is never behind another; nobody is lost. *)
FreshPart ==
  \A c \in Cmd :
    /\ ticket[c] <= tickets
    /\ answer[c] \in {"none", "rejected"} => Untouched(c) /\ c \notin dropped
DroppedPart == \A c \in dropped : Untouched(c)
ListedPart ==
  \A i \in 1..Len(pending) :
    /\ Untouched(pending[i])
    /\ pending[i] \notin dropped
    /\ answer[pending[i]] \notin {"none", "rejected"}
    /\ answer[pending[i]] = "accepted_override" => i = 1
SortedPart ==
  \A i \in 1..Len(pending) :
    /\ \A j \in 1..Len(pending) :
         i < j => ticket[pending[i]] < ticket[pending[j]]
    /\ \A c \in Cmd : ~Untouched(c) => ticket[c] < ticket[pending[i]]
KeptPart ==
  \A c \in Cmd :
    \/ answer[c] \in {"none", "rejected"}
    \/ c \in dropped
    \/ ~Untouched(c)
    \/ \E i \in 1..Len(pending) : pending[i] = c

(* With ThreadInv it is inductive, and strong enough for NoLostWakeup,      *)
(* DroppedNeverRuns, NothingLost, FifoOrder and OverrideIsNext.             *)
LineInv ==
  NoLostWakeup /\ FreshPart /\ DroppedPart /\ ListedPart /\ SortedPart /\ KeptPart

(* As long as no fn runs for ever, every waiting command is eventually      *)
(* picked or dropped.                                                       *)
EveryCommandServed == FnsEnd => \A c \in Cmd : c \in Queued ~> c \notin Queued

(* queue_manager.py:150 "so a cancellation can free the queue immediately   *)
(* instead of waiting out that timeout": once a command is reported         *)
(* cancelled the worker lets go of it, whether or not its fn ever returns.  *)
CancelFreesQueue ==
  \A c \in Cmd : (c \in flagged /\ current = c) ~> current # c
=============================================================================
