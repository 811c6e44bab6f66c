---------------------------- MODULE Conversation ----------------------------
(***************************************************************************)
(* llm_client/chat.py: the loop that takes a command, typed or spoken      *)
(* (voice.py, wakeword.py), and lets a language model call the server's    *)
(* tools until it answers in words (tts.py).  The microphone, the model    *)
(* and the tools are external: the stream of audio may end at any chunk,   *)
(* the model may ask for tools for ever, and each of them may fail.        *)
(*                                                                         *)
(* One chunk of audio is one tick of the clock; a chunk is its loudness:   *)
(* "loud" trips START_RMS, "quiet" is below SILENCE_RMS.                   *)
(***************************************************************************)
EXTENDS Naturals, Sequences

CONSTANTS Preroll,        (* PREROLL_S, in chunks                          *)
          MaxWait,        (* MAX_WAIT_S                                    *)
          SilenceHang,    (* SILENCE_HANG_S                                *)
          MaxUtterance,   (* MAX_UTTERANCE_S                               *)
          MaxToolRounds,  (* MAX_TOOL_ROUNDS                               *)
          MaxCalls        (* bound: the tool calls of one answer           *)

ASSUME ConversationAssumption ==
  {Preroll, MaxWait, SilenceHang, MaxUtterance, MaxToolRounds, MaxCalls} \subseteq Nat

Level == {"loud", "medium", "quiet"}

VARIABLES
  mode,      (* "text", "voice" or "wake": --voice, --wake-word            *)
  pc,        (* where the program is                                       *)
  stream,    (* history: the chunks of this listen() so far                *)
  preroll,   (* the last quiet chunks, by their place in the stream        *)
  collected, (* the recorded chunks, by their place in the stream          *)
  silence,   (* silence_start: the chunk it began with, 0 for None         *)
  ended,     (* history: the audio ended by itself                         *)
  round,     (* round_num                                                  *)
  calls,     (* the tool calls of the model's last message                 *)
  todo,      (* those still to make                                        *)
  answers    (* the tool messages since, by the call they answer           *)

recording == <<stream, preroll, collected, silence, ended>>
turn == <<round, calls, todo, answers>>
vars == <<mode, pc, recording, turn>>

ForgetRecording ==
  stream' = <<>> /\ preroll' = <<>> /\ collected' = <<>> /\ silence' = 0 /\ ended' = FALSE
ForgetTurn == round' = 0 /\ calls' = <<>> /\ todo' = <<>> /\ answers' = <<>>

Init ==
  /\ mode \in {"text", "voice", "wake"} /\ pc = "input"
  /\ stream = <<>> /\ preroll = <<>> /\ collected = <<>> /\ silence = 0 /\ ended = FALSE
  /\ round = 0 /\ calls = <<>> /\ todo = <<>> /\ answers = <<>>

Goes(from, to) == pc = from /\ pc' = to /\ UNCHANGED mode

-----------------------------------------------------------------------------
(* get_input.  A blank line is skipped; a message starts a new turn.        *)

TextInput ==
  /\ mode = "text"
  /\ Goes("input", "llm")
  /\ ForgetTurn /\ UNCHANGED recording

VoiceInput ==
  /\ mode # "text"
  /\ Goes("input", IF mode = "wake" THEN "wake" ELSE "listen")
  /\ UNCHANGED <<recording, turn>>
(* wait_for_wake_word returns at the word; it returns as well when the      *)
(* stream of the microphone ends.                                           *)
WaitForWakeWord == Goes("wake", "listen") /\ UNCHANGED <<recording, turn>>

-----------------------------------------------------------------------------
(* _collect_utterance, one chunk at a time.                                 *)

Speaking == collected # <<>>
Pop(s) == IF Len(s) > Preroll THEN Tail(s) ELSE s

WaitsForSpeech ==
  LET n == Len(stream) + 1 IN
  /\ pc = "listen" /\ ~Speaking
  /\ \E l \in Level \ {"loud"} : stream' = Append(stream, l)
  /\ preroll' = Pop(Append(preroll, n))
  /\ n < MaxWait
  /\ UNCHANGED <<mode, pc, collected, silence, ended, turn>>
(* MAX_WAIT_S have passed, or the stream ends: None. *)
HearsNothing ==
  /\ ~Speaking
  /\ Goes("listen", "input")
  /\ Len(stream) + 1 >= MaxWait
  /\ ForgetRecording /\ UNCHANGED turn
StreamFails ==
  /\ ~Speaking
  /\ Goes("listen", "input")
  /\ ForgetRecording /\ UNCHANGED turn

WithPreroll(n) == Append(preroll, n)
SpeechStarts ==
  LET n == Len(stream) + 1 IN
  /\ pc = "listen" /\ ~Speaking
  /\ stream' = Append(stream, "loud")
  /\ collected' = WithPreroll(n)
  /\ UNCHANGED <<mode, pc, preroll, silence, ended, turn>>

(* Mutant: a sound within a pause does not end it. *)
SilenceKept(l, n) == IF silence = 0 /\ l = "quiet" THEN n ELSE silence
SilenceSince(l, n) == IF l # "quiet" THEN 0 ELSE IF silence = 0 THEN n ELSE silence
Hung(since, n) == since # 0 /\ n - since >= SilenceHang
Records ==
  LET n == Len(stream) + 1 IN
  /\ pc = "listen" /\ Speaking
  /\ \E l \in Level :
       LET since == SilenceSince(l, n)
           over == Hung(since, n) \/ n >= MaxUtterance IN
       /\ stream' = Append(stream, l)
       /\ silence' = since
       /\ pc' = IF over THEN "transcribe" ELSE "listen"
  /\ collected' = Append(collected, n)
  /\ UNCHANGED <<mode, preroll, ended, turn>>
(* parec ends while somebody speaks: what was recorded is used. *)
RecordingEnds ==
  /\ Speaking
  /\ Goes("listen", "transcribe")
  /\ ended' = TRUE /\ UNCHANGED <<stream, preroll, collected, silence, turn>>

(* transcribe: words, or nothing (no words, or only a filler). *)
Understands ==
  /\ Goes("transcribe", "llm")
  /\ ForgetRecording /\ ForgetTurn
CatchesNothing ==
  /\ Goes("transcribe", "input")
  /\ ForgetRecording /\ UNCHANGED turn

-----------------------------------------------------------------------------
(* The rounds of one turn.  The model's message is appended, with the tool  *)
(* calls it asks for; without any it is the reply, which is spoken.         *)

RoundsLeft == round < MaxToolRounds
(* Mutant: the rounds are not counted. *)
SameRound == round
NextRound == round + 1

AsksTools ==
  /\ RoundsLeft
  /\ Goes("llm", "tools")
  /\ \E k \in 1..MaxCalls : calls' = [i \in 1..k |-> i] /\ todo' = calls'
  /\ answers' = <<>>
  /\ UNCHANGED <<recording, round>>
Replies ==
  /\ RoundsLeft
  /\ Goes("llm", "input")
  /\ ForgetTurn /\ UNCHANGED recording
(* The request fails: nothing catches it. *)
RequestFails ==
  /\ RoundsLeft
  /\ Goes("llm", "exit")
  /\ UNCHANGED <<recording, turn>>
(* The loop's else: it says so, and leaves the last answers in messages. *)
StopsAfterRounds ==
  /\ ~RoundsLeft
  /\ Goes("llm", "input")
  /\ ForgetTurn /\ UNCHANGED recording

CallTool ==
  /\ pc = "tools" /\ todo # <<>>
  /\ todo' = Tail(todo) /\ answers' = Append(answers, Head(todo))
  /\ UNCHANGED <<mode, pc, recording, round, calls>>
(* Mutant: the message is appended only when the tool returns. *)
NoAnswer == answers
ErrorAnswer == Append(answers, Head(todo))
(* The tool raised: the error is the answer. *)
ToolRaises ==
  /\ pc = "tools" /\ todo # <<>>
  /\ todo' = Tail(todo) /\ answers' = ErrorAnswer
  /\ UNCHANGED <<mode, pc, recording, round, calls>>
(* The arguments are no JSON: they are parsed outside the try. *)
BadArguments ==
  /\ todo # <<>>
  /\ Goes("tools", "exit")
  /\ UNCHANGED <<recording, turn>>
RoundEnds ==
  /\ todo = <<>>
  /\ Goes("tools", "llm")
  /\ round' = NextRound
  /\ UNCHANGED <<recording, calls, todo, answers>>
(* Ctrl-C, the end of the typed input, an exception of the speech model. *)
Interrupt == pc # "exit" /\ pc' = "exit" /\ UNCHANGED <<mode, recording, turn>>

Listen == \/ WaitsForSpeech \/ HearsNothing \/ StreamFails
          \/ SpeechStarts \/ Records \/ RecordingEnds
Transcribe == Understands \/ CatchesNothing
AskModel == AsksTools \/ Replies \/ RequestFails \/ StopsAfterRounds
UseTools == CallTool \/ ToolRaises \/ BadArguments \/ RoundEnds

Next == \/ TextInput \/ VoiceInput \/ WaitForWakeWord
        \/ Listen \/ Transcribe \/ AskModel \/ UseTools \/ Interrupt

(* The microphone delivers a chunk or ends; the model and the tools answer  *)
(* or fail.  Nobody has to speak, and the model never has to stop.          *)
Spec == Init /\ [][Next]_vars /\ WF_vars(Listen) /\ WF_vars(Transcribe)
             /\ WF_vars(AskModel) /\ WF_vars(UseTools)

-----------------------------------------------------------------------------
(* What is transcribed is whole: one piece of the stream without a gap,     *)
(* from Preroll chunks before the first loud one to the last chunk read;    *)
(* and a pause shorter than SilenceHang never ends it: it ends after so     *)
(* many quiet chunks in a row, at the cap, or with the stream               *)
(* (_collect_utterance, voice.py:86-152).                                   *)
UtteranceIsWhole ==
  pc = "transcribe" =>
    LET n == Len(stream)
        first == CHOOSE i \in 1..n : stream[i] = "loud" /\ \A j \in 1..(i - 1) : stream[j] # "loud"
        from == IF first > Preroll THEN first - Preroll ELSE 1 IN
    /\ collected = [i \in 1..(n - from + 1) |-> from + i - 1]
    /\ \/ ended \/ n >= MaxUtterance
       \/ \A i \in (n - SilenceHang)..n : stream[i] = "quiet"

(* The model is asked again, and the user heard again, only when each call  *)
(* of its last message has exactly one answer, in the order of the calls,   *)
(* whether the tool returned or raised: the protocol refuses anything else  *)
(* (the tool messages of main, chat.py:184-196).                            *)
EveryCallAnswered == pc \in {"llm", "input"} => answers = calls

(* The program comes back to its user, or to its wake word, however noisy   *)
(* the room is and even if the model asks for tools in every message; or it *)
(* has ended (MAX_TOOL_ROUNDS, chat.py:170; MAX_UTTERANCE_S, voice.py:149). *)
ComesBack == []<>(pc \in {"input", "wake", "exit"})
=============================================================================
