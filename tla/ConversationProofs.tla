------------------------- MODULE ConversationProofs -------------------------
(* Proofs about the conversation: every tool call is answered before the    *)
(* model is asked again, and what is transcribed is a whole utterance.      *)
EXTENDS Conversation, SequenceTheorems, TLAPS

-----------------------------------------------------------------------------
(* The answers of a message are its calls up to those still to make.        *)

TurnInv ==
  /\ calls \in Seq(Nat) /\ todo \in Seq(Nat) /\ answers \in Seq(Nat)
  /\ pc \notin {"tools", "exit"} => answers = calls
  /\ pc = "tools" => calls = answers \o todo

LEMMA MovesOver ==
  ASSUME NEW a \in Seq(Nat), NEW t \in Seq(Nat), t # <<>>
  PROVE  /\ Append(a, Head(t)) \in Seq(Nat) /\ Tail(t) \in Seq(Nat)
         /\ Append(a, Head(t)) \o Tail(t) = a \o t
PROOF
<1>1. Head(t) \in Nat /\ Tail(t) \in Seq(Nat)  BY HeadTailProperties
<1>2. <<Head(t)>> \in Seq(Nat)  BY <1>1
<1>3. t = <<Head(t)>> \o Tail(t)
  <2>1. /\ <<Head(t)>> \o Tail(t) \in Seq(Nat)
        /\ Len(<<Head(t)>> \o Tail(t)) = 1 + Len(Tail(t))
        /\ \A i \in 1..(1 + Len(Tail(t))) : (<<Head(t)>> \o Tail(t))[i] =
              IF i <= 1 THEN <<Head(t)>>[i] ELSE Tail(t)[i - 1]
    <3>1. Len(<<Head(t)>>) = 1  OBVIOUS
    <3>2. QED  BY <1>1, <1>2, <3>1, ConcatProperties
  <2>2. Len(t) \in Nat \ {0} /\ Len(Tail(t)) = Len(t) - 1 /\ Head(t) = t[1]
        /\ \A i \in 1..(Len(t) - 1) : Tail(t)[i] = t[i + 1]
    BY HeadTailProperties
  <2>3. <<Head(t)>>[1] = t[1]  BY <2>2
  <2> DEFINE r == <<Head(t)>> \o Tail(t)
  <2>4. Len(t) = Len(r)  BY <2>1, <2>2
  <2>5. ASSUME NEW i \in 1..Len(t) PROVE t[i] = r[i]
    <3>1. CASE i = 1  BY <2>1, <2>2, <2>3, <3>1
    <3>2. CASE i # 1
      <4>1. i - 1 \in 1..(Len(t) - 1) /\ (i - 1) + 1 = i /\ i \in 1..(1 + Len(Tail(t)))
            /\ ~(i <= 1)
        BY <2>2, <3>2
      <4>2. r[i] = Tail(t)[i - 1]  BY <2>1, <4>1, Zenon
      <4>3. QED  BY <2>2, <4>1, <4>2, Zenon
    <3>3. QED  BY <3>1, <3>2
  <2>6. QED  BY <2>1, <2>4, <2>5, SeqEqual
<1>4. Append(a, Head(t)) = a \o <<Head(t)>>  BY <1>1, AppendIsConcat
<1>5. (a \o <<Head(t)>>) \o Tail(t) = a \o (<<Head(t)>> \o Tail(t))
  BY <1>1, <1>2, ConcatAssociative
<1>6. Append(a, Head(t)) \in Seq(Nat)  BY <1>1, AppendProperties
<1>7. QED  BY <1>1, <1>3, <1>4, <1>5, <1>6, Zenon

LEMMA TurnStep ==
  ASSUME TurnInv, [Next]_vars
  PROVE  TurnInv'
PROOF
<1> USE DEF TurnInv, turn, recording
<1>0. <<>> \in Seq(Nat)  OBVIOUS
<1>1. CASE TextInput  BY <1>1 DEF TextInput, Goes, ForgetTurn
<1>2. CASE VoiceInput  BY <1>2 DEF VoiceInput, Goes
<1>3. CASE WaitForWakeWord  BY <1>3 DEF WaitForWakeWord, Goes
<1>4. CASE Listen
  BY <1>4 DEF Listen, WaitsForSpeech, HearsNothing, StreamFails, SpeechStarts,
     Records, RecordingEnds, Goes
<1>5. CASE Transcribe
  <2>1. CASE Understands  BY <1>0, <2>1 DEF Understands, Goes, ForgetTurn
  <2>2. CASE CatchesNothing  BY <2>2 DEF CatchesNothing, Goes
  <2>3. QED  BY <1>5, <2>1, <2>2 DEF Transcribe
<1>6. CASE AskModel
  <2>1. CASE AsksTools
    <3>1. PICK k \in 1..MaxCalls : calls' = [i \in 1..k |-> i] /\ todo' = calls'
      BY <2>1 DEF AsksTools
    <3>2. k \in Nat  BY ConversationAssumption
    <3>3. calls' \in Seq(Nat)
      <4>1. [i \in 1..k |-> i] \in Seq(Nat)  BY <3>2
      <4>2. QED  BY <3>1, <4>1
    <3>4. answers' = <<>> /\ pc' = "tools" /\ <<>> \o calls' = calls'
      BY <2>1, <3>3 DEF AsksTools, Goes
    <3>5. QED  BY <3>1, <3>3, <3>4
  <2>2. CASE Replies  BY <1>0, <2>2 DEF Replies, Goes, ForgetTurn
  <2>3. CASE RequestFails  BY <2>3 DEF RequestFails, Goes
  <2>4. CASE StopsAfterRounds  BY <1>0, <2>4 DEF StopsAfterRounds, Goes, ForgetTurn
  <2>5. QED  BY <1>6, <2>1, <2>2, <2>3, <2>4 DEF AskModel
<1>7. CASE UseTools
  <2>1. CASE CallTool \/ ToolRaises
    <3>1. /\ pc = "tools" /\ pc' = "tools" /\ todo # <<>> /\ calls' = calls
          /\ todo' = Tail(todo) /\ answers' = Append(answers, Head(todo))
      BY <2>1 DEF CallTool, ToolRaises, ErrorAnswer
    <3>2. QED  BY <3>1, MovesOver
  <2>2. CASE BadArguments  BY <2>2 DEF BadArguments, Goes
  <2>3. CASE RoundEnds
    <3>1. answers \o <<>> = answers  OBVIOUS
    <3>2. pc = "tools" /\ pc' = "llm" /\ todo = <<>> /\ UNCHANGED <<calls, todo, answers>>
      BY <2>3 DEF RoundEnds, Goes
    <3>3. QED  BY <3>1, <3>2
  <2>4. QED  BY <1>7, <2>1, <2>2, <2>3 DEF UseTools
<1>8. CASE Interrupt  BY <1>8 DEF Interrupt
<1>9. CASE UNCHANGED vars  BY <1>9 DEF vars
<1>10. QED  BY <1>1, <1>2, <1>3, <1>4, <1>5, <1>6, <1>7, <1>8, <1>9 DEF Next

(* Whichever tools fail, the model is asked again only when each call of    *)
(* its last message has its answer, in their order (chat.py).               *)
THEOREM Answered == Spec => []EveryCallAnswered
PROOF
<1>1. Init => TurnInv
  <2>1. ASSUME Init PROVE TurnInv
    <3>1. <<>> \in Seq(Nat)  OBVIOUS
    <3>2. QED  BY <2>1, <3>1 DEF Init, TurnInv
  <2>2. QED  BY <2>1
<1>2. TurnInv => EveryCallAnswered  BY DEF TurnInv, EveryCallAnswered
<1>3. QED  BY <1>1, <1>2, TurnStep, PTL DEF Spec

-----------------------------------------------------------------------------
(* The recording: before the first loud chunk the preroll is the last       *)
(* chunks read; from it on, all chunks since.  silence is where the last    *)
(* quiet stretch began.                                                     *)

Consecutive(s, first, last) ==
  /\ s \in Seq(Nat) /\ Len(s) = last - first + 1
  /\ \A i \in 1..Len(s) : s[i] = first + i - 1
Before(f) == IF f > Preroll THEN f - Preroll ELSE 1
FirstLoud(f) ==
  /\ f \in 1..Len(stream) /\ stream[f] = "loud"
  /\ \A j \in 1..(f - 1) : stream[j] # "loud"

QuietPart ==
  /\ pc # "transcribe" /\ silence = 0
  /\ \A i \in 1..Len(stream) : stream[i] # "loud"
  /\ Consecutive(preroll, Before(Len(stream) + 1), Len(stream))
SpeechPart ==
  /\ \E f \in 1..Len(stream) :
       FirstLoud(f) /\ Consecutive(collected, Before(f), Len(stream))
  /\ silence \in 0..Len(stream)
  /\ silence # 0 => \A i \in silence..Len(stream) : stream[i] = "quiet"
  /\ pc = "transcribe" =>
       \/ ended \/ Len(stream) >= MaxUtterance
       \/ \A i \in (Len(stream) - SilenceHang)..Len(stream) : stream[i] = "quiet"

RecordingInv ==
  /\ stream \in Seq(Level)
  /\ pc \in {"listen", "transcribe"} =>
       IF collected = <<>> THEN QuietPart ELSE SpeechPart
  /\ pc \notin {"listen", "transcribe", "exit"} =>
       stream = <<>> /\ preroll = <<>> /\ collected = <<>> /\ silence = 0

LEMMA GrowsByOne ==
  ASSUME NEW s, NEW first \in Nat, NEW last \in Nat, Consecutive(s, first, last)
  PROVE  Consecutive(Append(s, last + 1), first, last + 1)
PROOF
<1> DEFINE t == Append(s, last + 1)
<1>1. /\ s \in Seq(Nat) /\ Len(s) = last - first + 1 /\ Len(s) \in Nat
      /\ \A i \in 1..Len(s) : s[i] = first + i - 1
  BY DEF Consecutive
<1>2. /\ t \in Seq(Nat) /\ Len(t) = Len(s) + 1 /\ t[Len(s) + 1] = last + 1
      /\ \A i \in 1..Len(s) : t[i] = s[i]
  BY <1>1, AppendProperties
<1> HIDE DEF t
<1>3. ASSUME NEW i \in 1..Len(t) PROVE t[i] = first + i - 1
  <2>1. CASE i = Len(s) + 1  BY <1>1, <1>2, <2>1
  <2>2. CASE i # Len(s) + 1  BY <1>1, <1>2, <2>2
  <2>3. QED  BY <2>1, <2>2
<1>4. Len(t) = (last + 1) - first + 1  BY <1>1, <1>2
<1>5. QED  BY <1>2, <1>3, <1>4 DEF Consecutive, t

LEMMA DropsTheFirst ==
  ASSUME NEW s, NEW first \in Nat, NEW last \in Nat, Consecutive(s, first, last),
         first <= last
  PROVE  Consecutive(Tail(s), first + 1, last)
PROOF
<1>1. /\ s \in Seq(Nat) /\ Len(s) = last - first + 1 /\ Len(s) \in Nat \ {0}
      /\ \A i \in 1..Len(s) : s[i] = first + i - 1
  BY DEF Consecutive
<1>2. s # <<>>  BY <1>1, EmptySeq
<1>3. /\ Tail(s) \in Seq(Nat) /\ Len(Tail(s)) = Len(s) - 1
      /\ \A i \in 1..Len(Tail(s)) : Tail(s)[i] = s[i + 1]
  BY <1>1, <1>2, HeadTailProperties
<1>4. \A i \in 1..Len(Tail(s)) : Tail(s)[i] = (first + 1) + i - 1
  <2> SUFFICES ASSUME NEW i \in 1..Len(Tail(s))
               PROVE  Tail(s)[i] = (first + 1) + i - 1
    OBVIOUS
  <2>1. i + 1 \in 1..Len(s) /\ i \in Nat  BY <1>1, <1>3
  <2>2. Tail(s)[i] = first + (i + 1) - 1  BY <1>1, <1>3, <2>1
  <2>3. QED  BY <2>1, <2>2
<1>5. Len(Tail(s)) = last - (first + 1) + 1  BY <1>1, <1>3
<1>6. QED  BY <1>3, <1>4, <1>5 DEF Consecutive

LEMMA StreamGrows ==
  ASSUME NEW l \in Level, stream \in Seq(Level), stream' = Append(stream, l)
  PROVE  /\ stream' \in Seq(Level) /\ Len(stream') = Len(stream) + 1
         /\ Len(stream) \in Nat /\ stream'[Len(stream) + 1] = l
         /\ \A i \in 1..Len(stream) : stream'[i] = stream[i]
PROOF
<1>1. QED  BY AppendProperties, LenProperties

LEMMA BeforeIs ==
  ASSUME NEW m \in Nat \ {0}
  PROVE  /\ Preroll \in Nat /\ Before(m) \in 1..m
         /\ m > Preroll => Before(m) = m - Preroll
         /\ ~(m > Preroll) => Before(m) = 1
PROOF
<1>1. Preroll \in Nat  BY ConversationAssumption
<1>2. CASE m > Preroll  BY <1>1, <1>2 DEF Before
<1>3. CASE ~(m > Preroll)  BY <1>1, <1>3 DEF Before
<1>4. QED  BY <1>1, <1>2, <1>3

LEMMA PrerollSlides ==
  ASSUME NEW n \in Nat, NEW p, Consecutive(p, Before(n + 1), n)
  PROVE  Consecutive(Pop(Append(p, n + 1)), Before(n + 2), n + 1)
PROOF
<1>1. PICK s : s = Append(p, n + 1)  OBVIOUS
<1>2. PICK f : f = Before(n + 1)  OBVIOUS
<1>3. PICK g : g = Before(n + 2)  OBVIOUS
<1>4. /\ f \in 1..(n + 1) /\ Preroll \in Nat
      /\ n + 1 > Preroll => f = n + 1 - Preroll
      /\ ~(n + 1 > Preroll) => f = 1
  <2>1. n + 1 \in Nat \ {0}  OBVIOUS
  <2>2. QED  BY <1>2, <2>1, BeforeIs
<1>5. /\ n + 2 > Preroll => g = n + 2 - Preroll
      /\ ~(n + 2 > Preroll) => g = 1
  <2>1. n + 2 \in Nat \ {0}  OBVIOUS
  <2>2. QED  BY <1>3, <2>1, BeforeIs
<1>6. Consecutive(s, f, n + 1)  BY <1>1, <1>2, <1>4, GrowsByOne
<1>7. Len(s) = n + 2 - f  BY <1>4, <1>6 DEF Consecutive
<1>8. CASE n + 1 > Preroll
  <2>1. Len(s) > Preroll /\ g = f + 1  BY <1>4, <1>5, <1>7, <1>8
  <2>2. Consecutive(Tail(s), f + 1, n + 1)  BY <1>4, <1>6, DropsTheFirst
  <2>3. QED  BY <1>1, <1>3, <2>1, <2>2 DEF Pop
<1>9. CASE ~(n + 1 > Preroll)
  <2>1. ~(Len(s) > Preroll) /\ g = f  BY <1>4, <1>5, <1>7, <1>9
  <2>2. QED  BY <1>1, <1>3, <1>6, <2>1 DEF Pop
<1>10. QED  BY <1>8, <1>9

LEMMA WaitsStep ==
  ASSUME RecordingInv, WaitsForSpeech
  PROVE  RecordingInv'
PROOF
<1> DEFINE n == Len(stream)
<1>1. PICK l \in Level \ {"loud"} : stream' = Append(stream, l)
  BY DEF WaitsForSpeech
<1>2. /\ pc = "listen" /\ collected = <<>> /\ preroll' = Pop(Append(preroll, n + 1))
      /\ UNCHANGED <<pc, collected, silence>>
  BY DEF WaitsForSpeech, Speaking
<1>3. /\ stream' \in Seq(Level) /\ Len(stream') = n + 1 /\ n \in Nat
      /\ stream'[n + 1] = l /\ \A i \in 1..n : stream'[i] = stream[i]
  BY <1>1, StreamGrows DEF RecordingInv
<1>4. QuietPart  BY <1>2 DEF RecordingInv
<1>5. \A i \in 1..(n + 1) : stream'[i] # "loud"
  BY <1>1, <1>3, <1>4 DEF QuietPart
<1>6. Consecutive(preroll', Before(n + 2), n + 1)
  BY <1>2, <1>3, <1>4, PrerollSlides DEF QuietPart
<1>7. QuietPart'
  <2>1. (n + 1) + 1 = n + 2  BY <1>3
  <2>2. Len(stream') = n + 1 /\ Before(Len(stream) + 1)' = Before(n + 2)
    BY <1>3, <2>1 DEF Before
  <2>3. QED
    BY <1>2, <1>4, <1>5, <1>6, <2>2 DEF QuietPart, Consecutive
<1>8. QED  BY <1>2, <1>3, <1>7 DEF RecordingInv

LEMMA StartsStep ==
  ASSUME RecordingInv, SpeechStarts
  PROVE  RecordingInv'
PROOF
<1>1. PICK n \in Nat : n = Len(stream)  BY LenProperties DEF RecordingInv
<1>2. /\ pc = "listen" /\ collected = <<>> /\ stream' = Append(stream, "loud")
      /\ collected' = Append(preroll, n + 1) /\ UNCHANGED <<pc, silence>>
  BY <1>1 DEF SpeechStarts, Speaking, WithPreroll
<1>3. /\ stream' \in Seq(Level) /\ Len(stream') = n + 1
      /\ stream'[n + 1] = "loud" /\ \A i \in 1..n : stream'[i] = stream[i]
  BY <1>1, <1>2, StreamGrows DEF RecordingInv, Level
<1>4. QuietPart  BY <1>2 DEF RecordingInv
<1>5. Consecutive(collected', Before(n + 1), n + 1)
  <2>1. Before(n + 1) \in Nat  BY BeforeIs
  <2>2. QED  BY <1>1, <1>2, <1>4, <2>1, GrowsByOne DEF QuietPart
<1>6. FirstLoud(n + 1)'
  <2>1. \A j \in 1..n : stream'[j] # "loud"  BY <1>1, <1>3, <1>4 DEF QuietPart
  <2>2. QED  BY <1>3, <2>1 DEF FirstLoud
<1>7. SpeechPart'
  <2>1. n + 1 \in 1..Len(stream')  BY <1>3
  <2>2. \E f \in 1..Len(stream') : FirstLoud(f)' /\ Consecutive(collected', Before(f), Len(stream'))
    BY <1>3, <1>5, <1>6, <2>1
  <2>3. silence' = 0 /\ pc' = "listen"  BY <1>2, <1>4 DEF QuietPart
  <2>4. QED  BY <1>3, <2>2, <2>3 DEF SpeechPart
<1>8. collected' # <<>>
  <2>1. preroll \in Seq(Nat)  BY <1>4 DEF QuietPart, Consecutive
  <2>2. QED  BY <1>2, <2>1, AppendProperties
<1>9. QED  BY <1>2, <1>3, <1>7, <1>8 DEF RecordingInv

LEMMA RecordsStep ==
  ASSUME RecordingInv, Records
  PROVE  RecordingInv'
PROOF
<1>1. PICK n \in Nat : n = Len(stream)  BY LenProperties DEF RecordingInv
<1>2. PICK l, since :
        /\ l \in Level
        /\ since = SilenceSince(l, n + 1)
        /\ stream' = Append(stream, l) /\ silence' = since
        /\ pc' = IF Hung(since, n + 1) \/ n + 1 >= MaxUtterance
                 THEN "transcribe" ELSE "listen"
  BY <1>1 DEF Records
<1>3. /\ pc = "listen" /\ collected # <<>>
      /\ collected' = Append(collected, n + 1) /\ ended' = ended
  BY <1>1 DEF Records, Speaking
<1>4. /\ stream' \in Seq(Level) /\ Len(stream') = n + 1
      /\ stream'[n + 1] = l /\ \A i \in 1..n : stream'[i] = stream[i]
  BY <1>1, <1>2, StreamGrows DEF RecordingInv
<1>5. SpeechPart  BY <1>3 DEF RecordingInv
<1>6. PICK f \in 1..n : FirstLoud(f) /\ Consecutive(collected, Before(f), n)
  BY <1>1, <1>5 DEF SpeechPart
<1>7. FirstLoud(f)' /\ f \in 1..Len(stream')
  BY <1>1, <1>4, <1>6 DEF FirstLoud
<1>8. Consecutive(collected', Before(f), n + 1)
  <2>1. Before(f) \in Nat  BY <1>6, BeforeIs
  <2>2. QED  BY <1>3, <1>6, <2>1, GrowsByOne
<1>9. /\ since \in 0..(n + 1)
      /\ since # 0 => \A i \in since..(n + 1) : stream'[i] = "quiet"
  <2>1. /\ silence \in 0..n
        /\ silence # 0 => \A i \in silence..n : stream[i] = "quiet"
    BY <1>1, <1>5 DEF SpeechPart
  <2>2. CASE l # "quiet"  BY <1>2, <2>2 DEF SilenceSince
  <2>3. CASE l = "quiet" /\ silence = 0
    <3>1. since = n + 1  BY <1>2, <2>3 DEF SilenceSince
    <3>2. QED  BY <1>4, <2>3, <3>1
  <2>4. CASE l = "quiet" /\ silence # 0
    <3>1. since = silence  BY <1>2, <2>4 DEF SilenceSince
    <3>2. QED  BY <1>4, <2>1, <2>4, <3>1
  <2>5. QED  BY <2>2, <2>3, <2>4
<1>10. pc' = "transcribe" =>
         \/ n + 1 >= MaxUtterance
         \/ \A i \in ((n + 1) - SilenceHang)..(n + 1) : stream'[i] = "quiet"
  <2> SUFFICES ASSUME pc' = "transcribe", ~(n + 1 >= MaxUtterance),
                      NEW i \in ((n + 1) - SilenceHang)..(n + 1)
               PROVE  stream'[i] = "quiet"
    OBVIOUS
  <2>1. since # 0 /\ (n + 1) - since >= SilenceHang  BY <1>2 DEF Hung
  <2>2. SilenceHang \in Nat  BY ConversationAssumption
  <2>3. i \in since..(n + 1)  BY <1>9, <2>1, <2>2
  <2>4. QED  BY <1>9, <2>1, <2>3
<1>11. collected' # <<>>
  <2>1. collected \in Seq(Nat)  BY <1>6 DEF Consecutive
  <2>2. QED  BY <1>3, <2>1, AppendProperties
<1>12. SpeechPart'
  BY <1>2, <1>4, <1>7, <1>8, <1>9, <1>10 DEF SpeechPart
<1>13. pc' \in {"listen", "transcribe"}  BY <1>2
<1>14. QED  BY <1>4, <1>11, <1>12, <1>13 DEF RecordingInv

LEMMA RecordingStep ==
  ASSUME RecordingInv, [Next]_vars
  PROVE  RecordingInv'
PROOF
<1>0. <<>> \in Seq(Level) /\ Len(<<>>) = 0 /\ 0 + 1 = 1  BY EmptySeq
<1>1. ASSUME stream' = <<>>, preroll' = <<>>, collected' = <<>>, silence' = 0,
             pc' # "transcribe"
      PROVE  RecordingInv'
  <2>1. Before(1) = 1
    <3>1. Preroll \in Nat  BY ConversationAssumption
    <3>2. CASE 1 > Preroll
      <4>1. Preroll = 0  BY <3>1, <3>2
      <4>2. QED  BY <4>1 DEF Before
    <3>3. CASE ~(1 > Preroll)  BY <3>3 DEF Before
    <3>4. QED  BY <3>2, <3>3
  <2>2. Consecutive(<<>>, 1, 0)
    <3>1. <<>> \in Seq(Nat)  OBVIOUS
    <3>2. QED  BY <1>0, <3>1 DEF Consecutive
  <2>3. Consecutive(preroll, Before(Len(stream) + 1), Len(stream))'
    BY <1>0, <1>1, <2>1, <2>2 DEF Before
  <2>4. QuietPart'  BY <1>0, <1>1, <2>3 DEF QuietPart
  <2>5. QED  BY <1>0, <1>1, <2>4 DEF RecordingInv
<1>2. ASSUME UNCHANGED recording, pc' \notin {"listen", "transcribe"},
             pc' = "exit" \/ pc \notin {"listen", "transcribe", "exit"}
      PROVE  RecordingInv'
  BY <1>2 DEF RecordingInv, recording
<1>3. CASE TextInput  BY <1>2, <1>3 DEF TextInput, Goes
<1>4. CASE VoiceInput \/ WaitForWakeWord
  <2>1. /\ stream = <<>> /\ preroll = <<>> /\ collected = <<>> /\ silence = 0
        /\ UNCHANGED recording /\ pc' \in {"wake", "listen"}
    BY <1>4 DEF VoiceInput, WaitForWakeWord, Goes, RecordingInv
  <2>2. QED  BY <1>1, <2>1 DEF recording
<1>5. CASE HearsNothing \/ StreamFails \/ Transcribe
  <2>1. ForgetRecording /\ pc' \in {"input", "llm"}
    BY <1>5 DEF HearsNothing, StreamFails, Transcribe, Understands, CatchesNothing, Goes
  <2>2. QED  BY <1>1, <2>1 DEF ForgetRecording
<1>6. CASE RecordingEnds
  <2>1. /\ pc = "listen" /\ pc' = "transcribe" /\ ended' = TRUE /\ collected # <<>>
        /\ UNCHANGED <<stream, preroll, collected, silence>>
    BY <1>6 DEF RecordingEnds, Goes, Speaking
  <2>2. SpeechPart  BY <2>1 DEF RecordingInv
  <2>3. SpeechPart'  BY <2>1, <2>2 DEF SpeechPart, FirstLoud
  <2>4. QED  BY <2>1, <2>3 DEF RecordingInv
<1>7. CASE AskModel \/ UseTools
  <2>1. /\ UNCHANGED recording /\ pc \in {"llm", "tools"}
        /\ pc' \in {"llm", "tools", "input", "exit"}
    <3>1. CASE AskModel
      BY <3>1 DEF AskModel, AsksTools, Replies, RequestFails, StopsAfterRounds, Goes
    <3>2. CASE UseTools
      BY <3>2 DEF UseTools, CallTool, ToolRaises, BadArguments, RoundEnds, Goes
    <3>3. QED  BY <1>7, <3>1, <3>2
  <2>2. QED  BY <1>2, <2>1
<1>8. CASE Interrupt  BY <1>2, <1>8 DEF Interrupt
<1>9. CASE UNCHANGED vars
  BY <1>9 DEF vars, recording, RecordingInv, QuietPart, SpeechPart, FirstLoud
<1>10. QED
  BY <1>3, <1>4, <1>5, <1>6, <1>7, <1>8, <1>9, WaitsStep, StartsStep, RecordsStep
     DEF Next, Listen

LEMMA RecordingInit == Init => RecordingInv
PROOF
<1>1. <<>> \in Seq(Level)  OBVIOUS
<1>2. QED  BY <1>1 DEF Init, RecordingInv

(* For every length of the pauses and of the preroll: what is transcribed   *)
(* is the stream from the preroll of its first loud chunk to its end, and   *)
(* it ends for one of the three reasons only (voice.py).                    *)
THEOREM Whole == Spec => []UtteranceIsWhole
PROOF
<1>1. ASSUME RecordingInv, pc = "transcribe" PROVE UtteranceIsWhole
  <2> DEFINE P(i) == stream[i] = "loud" /\ \A j \in 1..(i - 1) : stream[j] # "loud"
  <2>1. SpeechPart  BY <1>1 DEF RecordingInv, QuietPart
  <2>2. PICK n \in Nat : n = Len(stream)  BY <1>1, LenProperties DEF RecordingInv
  <2>3. PICK f \in 1..n : FirstLoud(f) /\ Consecutive(collected, Before(f), n)
    BY <2>1, <2>2 DEF SpeechPart
  <2>4. P(f)  BY <2>3 DEF FirstLoud
  <2>5. ASSUME NEW g \in 1..n, P(g) PROVE g = f
    <3>1. CASE g < f
      <4>1. g \in 1..(f - 1)  BY <3>1
      <4>2. QED  BY <2>4, <2>5, <4>1
    <3>2. CASE f < g
      <4>1. f \in 1..(g - 1)  BY <3>2
      <4>2. QED  BY <2>4, <2>5, <4>1
    <3>3. QED  BY <3>1, <3>2
  <2>6. (CHOOSE i \in 1..n : P(i)) = f
    <3>1. (CHOOSE i \in 1..n : P(i)) \in 1..n /\ P(CHOOSE i \in 1..n : P(i))
      BY <2>4, Zenon
    <3>2. QED  BY <2>5, <3>1
  <2>7. collected = [i \in 1..(n - Before(f) + 1) |-> Before(f) + i - 1]
    <3>1. /\ collected \in Seq(Nat) /\ Len(collected) = n - Before(f) + 1
          /\ \A i \in 1..Len(collected) : collected[i] = Before(f) + i - 1
      BY <2>3 DEF Consecutive
    <3>2. collected = [i \in 1..Len(collected) |-> collected[i]]
      BY <3>1, LenProperties
    <3> HIDE DEF P
    <3>3. QED  BY <3>1, <3>2
  <2>8. \/ ended \/ n >= MaxUtterance
        \/ \A i \in (n - SilenceHang)..n : stream[i] = "quiet"
    BY <1>1, <2>1, <2>2 DEF SpeechPart
  <2> DEFINE first == CHOOSE i \in 1..Len(stream) : P(i)
             from == IF first > Preroll THEN first - Preroll ELSE 1
  <2>9. from = Before(f)
    <3>1. first = f  BY <2>2, <2>6
    <3> HIDE DEF first
    <3>2. QED  BY <3>1 DEF Before
  <2>10. /\ collected = [i \in 1..(Len(stream) - from + 1) |-> from + i - 1]
         /\ \/ ended \/ Len(stream) >= MaxUtterance
            \/ \A i \in (Len(stream) - SilenceHang)..Len(stream) : stream[i] = "quiet"
    <3> HIDE DEF from
    <3>1. QED  BY <2>2, <2>7, <2>8, <2>9
  <2>11. QED  BY <2>10, Zenon DEF UtteranceIsWhole
<1>2. RecordingInv => UtteranceIsWhole
  BY <1>1 DEF UtteranceIsWhole
<1>3. QED  BY <1>2, RecordingInit, RecordingStep, PTL DEF Spec

-----------------------------------------------------------------------------
(* A turn runs down.  StepsLeft bounds what the program can still do before *)
(* it is back with its user: the chunks of the recording, and for each      *)
(* round the model's answer and the calls it may ask for.                   *)
Home == {"input", "wake", "exit"}
LongestStream == MaxWait + MaxUtterance + 1
RoundSteps == MaxCalls + 3
RoundsAfter == (MaxToolRounds - round) * RoundSteps
StepsLeft ==
  CASE pc = "listen"     -> MaxToolRounds * RoundSteps + RoundSteps + 1
                              + (LongestStream - Len(stream))
    [] pc = "transcribe" -> MaxToolRounds * RoundSteps + RoundSteps
    [] pc = "llm"        -> RoundsAfter + RoundSteps - 1
    [] pc = "tools"      -> RoundsAfter + 1 + Len(todo)
    [] OTHER             -> 0

BoundsInv ==
  /\ pc \in Home \union {"listen", "transcribe", "llm", "tools"}
  /\ round \in 0..MaxToolRounds
  /\ pc = "tools" => round < MaxToolRounds /\ Len(todo) <= MaxCalls
  /\ pc = "listen" => Len(stream) <= LongestStream /\ (~Speaking => Len(stream) <= MaxWait)

LEMMA RoundProduct ==
  ASSUME NEW a \in Nat, NEW r \in Nat
  PROVE  a * r \in Nat /\ (a > 0 => (a - 1) * r = a * r - r)
PROOF
<1>1. a * r \in Nat  OBVIOUS
<1>2. ASSUME a > 0 PROVE (a - 1) * r = a * r - r  BY <1>2
<1>3. QED  BY <1>1, <1>2

LEMMA StepsAre ==
  /\ pc = "listen" => StepsLeft = MaxToolRounds * RoundSteps + RoundSteps + 1
                                     + (LongestStream - Len(stream))
  /\ pc = "transcribe" => StepsLeft = MaxToolRounds * RoundSteps + RoundSteps
  /\ pc = "llm" => StepsLeft = RoundsAfter + RoundSteps - 1
  /\ pc = "tools" => StepsLeft = RoundsAfter + 1 + Len(todo)
  /\ pc \in Home => StepsLeft = 0
PROOF
<1>1. CASE pc = "listen"  BY <1>1 DEF StepsLeft, Home
<1>2. CASE pc = "transcribe"  BY <1>2 DEF StepsLeft, Home
<1>3. CASE pc = "llm"  BY <1>3 DEF StepsLeft, Home
<1>4. CASE pc = "tools"  BY <1>4 DEF StepsLeft, Home
<1>5. CASE pc \in Home  BY <1>5 DEF StepsLeft, Home
<1>6. QED  BY <1>1, <1>2, <1>3, <1>4, <1>5

(* The bounds, and what each step leaves.                                   *)
LEMMA RunsDown ==
  ASSUME TurnInv, RecordingInv, BoundsInv, [Next]_vars
  PROVE  BoundsInv' /\ (vars' # vars /\ pc \notin Home => StepsLeft' < StepsLeft)
PROOF
<1> DEFINE P == MaxToolRounds * RoundSteps
           Good == BoundsInv' /\ (vars' # vars /\ pc \notin Home => StepsLeft' < StepsLeft)
<1>1. {MaxWait, MaxUtterance, MaxToolRounds, MaxCalls} \subseteq Nat /\ RoundSteps \in Nat
  BY ConversationAssumption DEF RoundSteps
<1>2. /\ P \in Nat /\ RoundsAfter \in Nat
      /\ round < MaxToolRounds => (MaxToolRounds - (round + 1)) * RoundSteps = RoundsAfter - RoundSteps
  <2>1. MaxToolRounds - round \in Nat /\ round \in Nat  BY <1>1 DEF BoundsInv
  <2>2. P \in Nat  BY <1>1, RoundProduct
  <2>3. QED
    <3>1. PICK a \in Nat : a = MaxToolRounds - round  BY <2>1
    <3>2. a * RoundSteps \in Nat /\ (a > 0 => (a - 1) * RoundSteps = a * RoundSteps - RoundSteps)
      BY <1>1, RoundProduct
    <3>3. round < MaxToolRounds => a > 0 /\ MaxToolRounds - (round + 1) = a - 1
      BY <1>1, <2>1, <3>1
    <3>4. QED  BY <2>2, <3>1, <3>2, <3>3 DEF RoundsAfter
<1>3. Len(stream) \in Nat /\ Len(todo) \in Nat
  BY LenProperties DEF TurnInv, RecordingInv
<1>4. pc \notin Home => StepsLeft \in Nat \ {0}
  <2>1. RoundSteps > 0 /\ LongestStream \in Nat
    BY <1>1 DEF RoundSteps, LongestStream
  <2>2. CASE pc = "listen"
    <3>1. Len(stream) <= LongestStream  BY <2>2 DEF BoundsInv
    <3>2. StepsLeft = P + RoundSteps + 1 + (LongestStream - Len(stream))  BY <2>2, StepsAre
    <3> HIDE DEF P
    <3>3. QED  BY <1>1, <1>2, <1>3, <2>1, <3>1, <3>2
  <2>3. CASE pc = "transcribe"
    <3>1. StepsLeft = P + RoundSteps  BY <2>3, StepsAre
    <3> HIDE DEF P
    <3>2. QED  BY <1>1, <1>2, <2>1, <3>1
  <2>4. CASE pc = "llm"
    <3>1. StepsLeft = RoundsAfter + RoundSteps - 1  BY <2>4, StepsAre
    <3>2. RoundSteps >= 3  BY <1>1 DEF RoundSteps
    <3>3. QED  BY <1>1, <1>2, <3>1, <3>2
  <2>5. CASE pc = "tools"
    <3>1. StepsLeft = RoundsAfter + 1 + Len(todo)  BY <2>5, StepsAre
    <3>2. QED  BY <1>2, <1>3, <3>1
  <2>6. QED  BY <2>2, <2>3, <2>4, <2>5 DEF BoundsInv
<1>5. ASSUME pc' \in Home, round' \in {0, round} PROVE Good
  <2>1. StepsLeft' = 0  BY <1>5 DEF StepsLeft, Home
  <2>2. 0 \in 0..MaxToolRounds  BY <1>1
  <2>3. BoundsInv'  BY <1>5, <2>2 DEF BoundsInv, Home
  <2>4. QED  BY <1>4, <2>1, <2>3
<1> HIDE DEF P
<1>6. CASE TextInput \/ VoiceInput \/ WaitForWakeWord
  <2>1. /\ pc \in Home /\ pc' \in {"llm", "wake", "listen"} /\ round' \in {0, round}
        /\ pc' = "listen" => stream' = <<>> /\ collected' = <<>>
    BY <1>6 DEF TextInput, VoiceInput, WaitForWakeWord, Goes, ForgetTurn, turn, recording, Home,
                RecordingInv
  <2>2. 0 \in 0..MaxToolRounds /\ Len(<<>>) = 0 /\ 0 <= LongestStream /\ 0 <= MaxWait
    BY <1>1, EmptySeq DEF LongestStream
  <2>3. BoundsInv'  BY <2>1, <2>2 DEF BoundsInv, Home
  <2>4. QED  BY <2>1, <2>3
<1>7. CASE Listen
  <2>1. CASE HearsNothing \/ StreamFails
    <3>1. pc' = "input" /\ round' = round
      BY <2>1 DEF HearsNothing, StreamFails, Goes, turn
    <3>2. QED  BY <1>5, <3>1 DEF Home
  <2>2. CASE RecordingEnds
    <3>1. pc = "listen" /\ pc' = "transcribe" /\ round' = round
      BY <2>2 DEF RecordingEnds, Goes, turn
    <3>2. StepsLeft' = P + RoundSteps  BY <3>1 DEF StepsLeft, P
    <3>3. QED
      BY <1>1, <1>2, <1>3, <3>1, <3>2 DEF BoundsInv, StepsLeft, P, LongestStream
  <2>3. CASE WaitsForSpeech \/ SpeechStarts \/ Records
    <3>1. PICK l \in Level : stream' = Append(stream, l)
      BY <2>3 DEF WaitsForSpeech, SpeechStarts, Records, Level
    <3>2. Len(stream') = Len(stream) + 1
      BY <3>1, StreamGrows DEF RecordingInv
    <3>3. /\ pc = "listen" /\ pc' \in {"listen", "transcribe"} /\ round' = round
          /\ pc' = "listen" => \/ Len(stream) + 1 < MaxWait
                               \/ ~Speaking /\ collected' # <<>>
                               \/ Len(stream) + 1 < MaxUtterance /\ collected' # <<>>
      <4>1. CASE WaitsForSpeech  BY <4>1 DEF WaitsForSpeech, turn
      <4>2. CASE SpeechStarts
        <5>1. RecordingInv'  BY <4>2, StartsStep
        <5>2. pc = "listen" /\ pc' = "listen" /\ round' = round /\ ~Speaking
              /\ collected' = Append(preroll, Len(stream) + 1) /\ preroll \in Seq(Nat)
          BY <4>2 DEF SpeechStarts, WithPreroll, turn, RecordingInv, Speaking, QuietPart,
                      Consecutive
        <5>3. collected' # <<>>  BY <5>2, <1>3, AppendProperties
        <5>4. QED  BY <5>2, <5>3
      <4>3. CASE Records
        <5>1. pc = "listen" /\ round' = round /\ pc' \in {"listen", "transcribe"}
              /\ (pc' = "listen" => ~(Len(stream) + 1 >= MaxUtterance))
              /\ collected' = Append(collected, Len(stream) + 1)
          BY <4>3 DEF Records, turn
        <5>2. collected \in Seq(Nat)
          BY <4>3, <5>1 DEF Records, Speaking, RecordingInv, SpeechPart, Consecutive
        <5>3. collected' # <<>>  BY <5>1, <5>2, <1>3, AppendProperties
        <5>4. QED  BY <1>1, <1>3, <5>1, <5>3
      <4>4. QED  BY <2>3, <4>1, <4>2, <4>3
    <3>4. CASE pc' = "listen"
      <4>1. Len(stream') <= LongestStream /\ (~Speaking' => Len(stream') <= MaxWait)
        BY <1>1, <1>3, <3>2, <3>3, <3>4 DEF BoundsInv, Speaking, LongestStream
      <4>2. StepsLeft' = P + RoundSteps + 1 + (LongestStream - (Len(stream) + 1))
        BY <3>2, <3>4 DEF StepsLeft, P
      <4>3. StepsLeft = P + RoundSteps + 1 + (LongestStream - Len(stream))
        BY <3>3 DEF StepsLeft, P
      <4>4. StepsLeft' < StepsLeft  BY <1>1, <1>2, <1>3, <4>2, <4>3 DEF LongestStream
      <4>5. QED  BY <3>3, <3>4, <4>1, <4>4 DEF BoundsInv
    <3>5. CASE pc' = "transcribe"
      <4>1. StepsLeft' = P + RoundSteps  BY <3>5 DEF StepsLeft, P
      <4>2. QED  BY <1>1, <1>2, <1>3, <3>3, <3>5, <4>1 DEF BoundsInv, StepsLeft, P, LongestStream
    <3>6. QED  BY <3>3, <3>4, <3>5
  <2>4. QED  BY <1>7, <2>1, <2>2, <2>3 DEF Listen
<1>8. CASE Transcribe
  <2>1. CASE Understands
    <3>1. pc = "transcribe" /\ pc' = "llm" /\ round' = 0
      BY <2>1 DEF Understands, Goes, ForgetTurn
    <3>2. RoundsAfter' = P  BY <1>1, <3>1 DEF RoundsAfter, P
    <3>3. StepsLeft' = P + RoundSteps - 1 /\ StepsLeft = P + RoundSteps
      BY <3>1, <3>2 DEF StepsLeft, P
    <3>4. QED  BY <1>1, <1>2, <3>1, <3>3 DEF BoundsInv
  <2>2. CASE CatchesNothing
    <3>1. pc' = "input" /\ round' = round  BY <2>2 DEF CatchesNothing, Goes, turn
    <3>2. QED  BY <1>5, <3>1 DEF Home
  <2>3. QED  BY <1>8, <2>1, <2>2 DEF Transcribe
<1>9. CASE AskModel
  <2>1. CASE AsksTools
    <3>1. PICK k \in 1..MaxCalls : calls' = [i \in 1..k |-> i] /\ todo' = calls'
      BY <2>1 DEF AsksTools
    <3>2. k \in Nat /\ k <= MaxCalls  BY <1>1, <3>1
    <3>3. Len(todo') = k  BY <3>1, <3>2
    <3>4. pc = "llm" /\ pc' = "tools" /\ round' = round /\ round < MaxToolRounds
      BY <2>1 DEF AsksTools, Goes, RoundsLeft
    <3>5. StepsLeft' = RoundsAfter + 1 + k /\ StepsLeft = RoundsAfter + RoundSteps - 1
      BY <3>3, <3>4 DEF StepsLeft, RoundsAfter
    <3>6. StepsLeft' < StepsLeft  BY <1>1, <1>2, <3>2, <3>5 DEF RoundSteps
    <3>7. BoundsInv'  BY <3>2, <3>3, <3>4 DEF BoundsInv
    <3>8. QED  BY <3>6, <3>7
  <2>2. CASE Replies \/ RequestFails \/ StopsAfterRounds
    <3>1. pc' \in {"input", "exit"} /\ round' \in {0, round}
      BY <2>2 DEF Replies, RequestFails, StopsAfterRounds, Goes, ForgetTurn, turn
    <3>2. QED  BY <1>5, <3>1 DEF Home
  <2>3. QED  BY <1>9, <2>1, <2>2 DEF AskModel
<1>10. CASE UseTools
  <2>1. CASE CallTool \/ ToolRaises
    <3>1. /\ pc = "tools" /\ pc' = "tools" /\ todo # <<>> /\ todo' = Tail(todo)
          /\ round' = round
      BY <2>1 DEF CallTool, ToolRaises
    <3>2. Len(todo') = Len(todo) - 1
      BY <3>1, HeadTailProperties DEF TurnInv
    <3>3. /\ StepsLeft' = RoundsAfter + 1 + (Len(todo) - 1)
          /\ StepsLeft = RoundsAfter + 1 + Len(todo)
      BY <3>1, <3>2 DEF StepsLeft, RoundsAfter
    <3>4. QED  BY <1>1, <1>2, <1>3, <3>1, <3>2, <3>3 DEF BoundsInv
  <2>2. CASE BadArguments
    <3>1. pc' = "exit" /\ round' = round  BY <2>2 DEF BadArguments, Goes, turn
    <3>2. QED  BY <1>5, <3>1 DEF Home
  <2>3. CASE RoundEnds
    <3>1. pc = "tools" /\ pc' = "llm" /\ round' = round + 1
      BY <2>3 DEF RoundEnds, Goes, NextRound
    <3>2. round < MaxToolRounds /\ round \in Nat  BY <1>1, <3>1 DEF BoundsInv
    <3>3. RoundsAfter' = RoundsAfter - RoundSteps
      BY <1>2, <3>1, <3>2 DEF RoundsAfter
    <3>4. /\ StepsLeft' = RoundsAfter - RoundSteps + RoundSteps - 1
          /\ StepsLeft = RoundsAfter + 1 + Len(todo)
      BY <3>1, <3>3 DEF StepsLeft
    <3>5. QED  BY <1>1, <1>2, <1>3, <3>1, <3>2, <3>4 DEF BoundsInv
  <2>4. QED  BY <1>10, <2>1, <2>2, <2>3 DEF UseTools
<1>11. CASE Interrupt
  <2>1. pc' = "exit" /\ round' = round  BY <1>11 DEF Interrupt, turn
  <2>2. QED  BY <1>5, <2>1 DEF Home
<1>12. CASE UNCHANGED vars
  BY <1>12 DEF vars, turn, recording, BoundsInv, Speaking
<1>13. QED
  BY <1>6, <1>7, <1>8, <1>9, <1>10, <1>11, <1>12 DEF Next

(* However noisy the room is, and even if the model asks for tools in every *)
(* message, each step away from the user leaves fewer: the caps on the      *)
(* recording and on the rounds (voice.py:149, chat.py:170) leave no way to  *)
(* go on for ever.                                                          *)
THEOREM TurnsRunDown ==
  Spec => []BoundsInv /\ [][pc \notin Home => StepsLeft' < StepsLeft]_vars
PROOF
<1>1. Init => BoundsInv
  <2>1. 0 \in 0..MaxToolRounds  BY ConversationAssumption
  <2>2. QED  BY <2>1 DEF Init, BoundsInv, Home
<1>2. TurnInv /\ RecordingInv /\ BoundsInv /\ [Next]_vars
        => BoundsInv' /\ [pc \notin Home => StepsLeft' < StepsLeft]_vars
  BY RunsDown
<1>3. Init => TurnInv
  <2>1. <<>> \in Seq(Nat)  OBVIOUS
  <2>2. QED  BY <2>1 DEF Init, TurnInv
<1>4. QED  BY <1>1, <1>2, <1>3, TurnStep, RecordingInit, RecordingStep, PTL DEF Spec
=============================================================================
