--------------------------- MODULE InferenceProofs ---------------------------
(***************************************************************************)
(* What InferenceSession satisfies for every number of utterances,         *)
(* sentences and chunks and every length of history: the types, the two    *)
(* queues with their poison pills, the order of what is heard, the context *)
(* of replies.                                                             *)
(***************************************************************************)
EXTENDS InferenceSession, SequenceTheorems, FiniteSetTheorems, TLAPS

---------------------------------------------------------------------------
(* Queues. *)

LEMMA Appended ==
    ASSUME NEW S, NEW q \in Seq(S), NEW x \in S
    PROVE  /\ Append(q, x) \in Seq(S) /\ Append(q, x) # <<>>
           /\ Len(q) \in Nat /\ Len(Append(q, x)) = Len(q) + 1
           /\ Append(q, x)[Len(q) + 1] = x
           /\ \A i \in 1 .. Len(q) : Append(q, x)[i] = q[i]
           /\ \A i \in 1 .. Len(q) + 1 : i \in 1 .. Len(q) \/ i = Len(q) + 1
<1>1. /\ Append(q, x) \in Seq(S) /\ Len(Append(q, x)) = Len(q) + 1
      /\ Len(q) \in Nat
      /\ Append(q, x)[Len(q) + 1] = x
      /\ \A i \in 1 .. Len(q) : Append(q, x)[i] = q[i]
  BY AppendProperties, LenProperties
<1>2. Append(q, x) # <<>>
  BY <1>1, EmptySeq, SMT
<1>3. \A i \in 1 .. Len(q) + 1 : i \in 1 .. Len(q) \/ i = Len(q) + 1
  BY <1>1, SMT
<1> QED BY <1>1, <1>2, <1>3

LEMMA Tailed ==
    ASSUME NEW S, NEW q \in Seq(S), q # <<>>
    PROVE  /\ Tail(q) \in Seq(S)
           /\ Len(q) \in Nat \ {0} /\ Len(Tail(q)) = Len(q) - 1
           /\ 1 \in 1 .. Len(q) /\ Head(q) = q[1] /\ Head(q) \in S
           /\ \A i \in 1 .. Len(Tail(q)) : Tail(q)[i] = q[i + 1]
                                           /\ i + 1 \in 1 .. Len(q)
<1>1. /\ Tail(q) \in Seq(S) /\ Len(q) \in Nat \ {0}
      /\ Len(Tail(q)) = Len(q) - 1 /\ Head(q) = q[1] /\ Head(q) \in S
      /\ \A i \in 1 .. Len(Tail(q)) : Tail(q)[i] = q[i + 1]
  BY HeadTailProperties, EmptySeq, SMT
<1>2. 1 \in 1 .. Len(q) /\ \A i \in 1 .. Len(Tail(q)) : i + 1 \in 1 .. Len(q)
  BY <1>1, SMT
<1> QED BY <1>1, <1>2

---------------------------------------------------------------------------
(* Types. *)

\* What keeps the numbers within their bounds: the event being handled is one
\* the client could still send, prompts only get newer, no utterance is taken
\* up that was not dispatched, and a chunk belongs to a sentence.
Counts ==
    /\ Len(dispatched) <= MaxUtterances
    /\ pump = "handling" =>
          /\ event.type = "END_OF_UTTERANCE" => MoreUtterances
          /\ event.profile => systemPrompt < MaxProfiles
    /\ \A k \in 1 .. Len(dispatched) : dispatched[k] <= systemPrompt
    /\ task <= Len(dispatched)
    /\ worker \in {"stt", "llm", "put"} => task >= 1
    /\ worker = "put" => sentence >= 1 /\ chunk < chunks
    /\ worker # "put" => chunk = 0

\* utterance_queue holds what was dispatched and not taken up, then the pill.
Waiting == Len(dispatched) - task
InTurn == \A i \in 1 .. Waiting : utteranceQueue[i] = task + i
Open == worker # "done" /\ Len(utteranceQueue) = Waiting /\ InTurn
Closed ==
    /\ worker # "done" /\ pump = "dead"
    /\ Len(utteranceQueue) = Waiting + 1
    /\ utteranceQueue[Waiting + 1] = STOP /\ InTurn
Over ==
    /\ worker = "done" /\ pump = "dead"
    /\ utteranceQueue = <<>> /\ task = Len(dispatched)
Numbered == Open \/ Closed \/ Over

Inv1 == ThreadTypes /\ Counts /\ Numbered

LEMMA Constants ==
    /\ MaxProfiles \in Nat /\ MaxUtterances \in Nat
    /\ MaxSentences \in Nat /\ MaxChunks \in Nat
    /\ HistoryMax \in Nat /\ VADLoads \in BOOLEAN
BY InferenceAssumption

LEMMA Inv1Init == Init => Inv1
<1> SUFFICES ASSUME Init PROVE Inv1
  OBVIOUS
<1> USE Constants
<1>1. \A S : <<>> \in Seq(S) /\ Len(<<>>) = 0
  BY EmptySeq
<1>2. NoReply \in Reply
  BY <1>1 DEF NoReply, Reply
<1>3. ThreadTypes
  <2>1. /\ rpc \in {"active", "cancelled", "finished"}
        /\ inbound \in {"open", "closed"} /\ event \in Event
        /\ pump \in {"starting", "recv", "handling", "dead"}
        /\ buffered \in BOOLEAN
        /\ worker \in {"get", "stt", "llm", "put", "done"}
        /\ relay \in {"get", "exited", "dropped"}
    BY DEF Init, Event
  <2>2. /\ systemPrompt \in 0 .. MaxProfiles
        /\ task \in 0 .. MaxUtterances /\ sentence \in 0 .. MaxSentences
        /\ chunk \in 0 .. MaxChunks /\ chunks \in 0 .. MaxChunks
    BY SMT DEF Init
  <2>3. /\ utteranceQueue = <<>> /\ outboundQueue = <<>> /\ dispatched = <<>>
        /\ conversationHistory = <<>> /\ completed = <<>> /\ delivered = <<>>
        /\ reply = NoReply
    BY DEF Init
  <2> QED BY <1>1, <1>2, <2>1, <2>2, <2>3, Zenon DEF ThreadTypes
<1>4. Counts
  BY <1>1, SMT DEF Init, Counts
<1>5. Numbered
  BY <1>1, SMT DEF Init, Numbered, Open, Waiting, InTurn
<1> QED BY <1>3, <1>4, <1>5 DEF Inv1

\* The numbers of a state in which the types and counts hold.
LEMMA Numbers ==
    ASSUME Inv1
    PROVE  /\ Len(dispatched) \in Nat /\ systemPrompt \in Nat /\ task \in Nat
           /\ task <= Len(dispatched) /\ Len(dispatched) <= MaxUtterances
           /\ systemPrompt <= MaxProfiles /\ Waiting \in Nat
           /\ sentence \in Nat /\ chunk \in Nat /\ chunks \in Nat
           /\ Len(utteranceQueue) \in Nat /\ Len(outboundQueue) \in Nat
<1> USE Constants DEF Inv1, ThreadTypes
<1>1. Len(dispatched) \in Nat /\ Len(utteranceQueue) \in Nat /\ Len(outboundQueue) \in Nat
  BY LenProperties
<1>2. /\ systemPrompt \in Nat /\ systemPrompt <= MaxProfiles
      /\ task \in Nat /\ sentence \in Nat /\ chunk \in Nat /\ chunks \in Nat
  BY SMT
<1>3. task <= Len(dispatched) /\ Len(dispatched) <= MaxUtterances
  BY DEF Counts
<1> QED BY <1>1, <1>2, <1>3, SMT DEF Waiting

\* A control is handled within the bounds: one that ends an utterance meets
\* room for it, and the prompt it leaves is the next one or the same.
LEMMA Controls ==
    ASSUME Inv1, HandleControl
    PROVE  /\ event.type = "END_OF_UTTERANCE" => MoreUtterances
           /\ systemPrompt' \in {systemPrompt, systemPrompt + 1}
           /\ systemPrompt' \in 0 .. MaxProfiles
           /\ systemPrompt <= systemPrompt'
<1>1. /\ systemPrompt \in Nat /\ systemPrompt <= MaxProfiles
      /\ event.profile => systemPrompt < MaxProfiles
      /\ event.type = "END_OF_UTTERANCE" => MoreUtterances
  BY Numbers DEF Inv1, Counts, HandleControl
<1>2. systemPrompt' = IF event.profile THEN systemPrompt + 1 ELSE systemPrompt
  BY DEF HandleControl
<1>3. \/ systemPrompt' = systemPrompt
      \/ systemPrompt' = systemPrompt + 1 /\ systemPrompt < MaxProfiles
  BY <1>1, <1>2
<1>4. /\ systemPrompt' \in {systemPrompt, systemPrompt + 1}
      /\ systemPrompt' \in 0 .. MaxProfiles /\ systemPrompt <= systemPrompt'
  BY <1>1, <1>3, Constants, SMT
<1> QED BY <1>1, <1>4

\* A dispatch: the queue and the count grow by the same utterance.
LEMMA Dispatches ==
    ASSUME Inv1, MoreUtterances, NEW prompt \in 0 .. MaxProfiles, Dispatch(prompt)
    PROVE  /\ utteranceQueue' \in Seq(0 .. MaxUtterances)
           /\ dispatched' \in Seq(0 .. MaxProfiles)
           /\ Len(dispatched') = Len(dispatched) + 1
           /\ Len(dispatched') <= MaxUtterances
           /\ dispatched'[Len(dispatched) + 1] = prompt
           /\ \A k \in 1 .. Len(dispatched) : dispatched'[k] = dispatched[k]
           /\ \A k \in 1 .. Len(dispatched') :
                 k \in 1 .. Len(dispatched) \/ k = Len(dispatched) + 1
           /\ Len(utteranceQueue') = Len(utteranceQueue) + 1
           /\ utteranceQueue'[Len(utteranceQueue) + 1] = Len(dispatched) + 1
           /\ \A k \in 1 .. Len(utteranceQueue) :
                 utteranceQueue'[k] = utteranceQueue[k]
<1> DEFINE T == 0 .. MaxUtterances
           P == 0 .. MaxProfiles
<1>0. Len(dispatched) + 1 \in Nat /\ Len(dispatched) + 1 <= MaxUtterances
  BY Numbers, Constants, SMT DEF MoreUtterances
<1>1. Len(dispatched) + 1 \in T
  BY <1>0, Constants, SMT
<1>2. utteranceQueue \in Seq(T) /\ dispatched \in Seq(P) /\ prompt \in P
  BY DEF Inv1, ThreadTypes
<1> HIDE DEF T, P
<1>3. /\ utteranceQueue' = Append(utteranceQueue, Len(dispatched) + 1)
      /\ dispatched' = Append(dispatched, prompt)
  BY DEF Dispatch
<1>4. /\ dispatched' \in Seq(P)
      /\ Len(dispatched') = Len(dispatched) + 1
      /\ dispatched'[Len(dispatched) + 1] = prompt
      /\ \A k \in 1 .. Len(dispatched) : dispatched'[k] = dispatched[k]
      /\ \A k \in 1 .. Len(dispatched) + 1 :
            k \in 1 .. Len(dispatched) \/ k = Len(dispatched) + 1
  BY <1>2, <1>3, Appended
<1>5. /\ utteranceQueue' \in Seq(T)
      /\ Len(utteranceQueue') = Len(utteranceQueue) + 1
      /\ utteranceQueue'[Len(utteranceQueue) + 1] = Len(dispatched) + 1
      /\ \A k \in 1 .. Len(utteranceQueue) : utteranceQueue'[k] = utteranceQueue[k]
  BY <1>1, <1>2, <1>3, Appended
<1> QED BY <1>0, <1>4, <1>5 DEF T, P

\* The poison pill of the utterance queue.
LEMMA Pills ==
    ASSUME Inv1, PumpFinally
    PROVE  /\ utteranceQueue' \in Seq(0 .. MaxUtterances)
           /\ Len(utteranceQueue') = Len(utteranceQueue) + 1
           /\ utteranceQueue'[Len(utteranceQueue) + 1] = STOP
           /\ \A k \in 1 .. Len(utteranceQueue) :
                 utteranceQueue'[k] = utteranceQueue[k]
<1> DEFINE T == 0 .. MaxUtterances
<1>1. STOP \in T /\ utteranceQueue \in Seq(T)
  BY Constants, SMT DEF STOP, Inv1, ThreadTypes
<1> HIDE DEF T
<1>2. utteranceQueue' = Append(utteranceQueue, STOP)
  BY DEF PumpFinally
<1>3. /\ utteranceQueue' \in Seq(T)
      /\ Len(utteranceQueue') = Len(utteranceQueue) + 1
      /\ utteranceQueue'[Len(utteranceQueue) + 1] = STOP
      /\ \A k \in 1 .. Len(utteranceQueue) : utteranceQueue'[k] = utteranceQueue[k]
  BY <1>1, <1>2, Appended
<1> QED BY <1>3 DEF T

\* The history after a reply: the pair at its end, and of what was there the
\* last HistoryMax entries.
UserEntry(u) == [role |-> "user", utt |-> u]
AssistantEntry(u) == [role |-> "assistant", utt |-> u]
WithPair(h, u) == Trimmed(h \o <<UserEntry(u), AssistantEntry(u)>>)
EndsInPair(g, h, u) ==
    /\ g \in Seq(Entry) /\ Len(h) \in Nat /\ Len(g) \in Nat
    /\ Len(g) = IF Len(h) + 2 < HistoryMax THEN Len(h) + 2 ELSE HistoryMax
    /\ \A k \in 1 .. Len(g) :
          LET at == Len(h) + 2 - Len(g) + k
          IN  g[k] = IF at <= Len(h) THEN h[at]
                     ELSE IF at = Len(h) + 1 THEN UserEntry(u) ELSE AssistantEntry(u)
LEMMA Remembered ==
    ASSUME NEW h \in Seq(Entry), NEW u \in Nat, NEW g, g = WithPair(h, u)
    PROVE  EndsInPair(g, h, u)
<1> DEFINE pair == <<UserEntry(u), AssistantEntry(u)>>
           all == h \o pair
           from == IF Len(all) > HistoryMax THEN Len(all) - HistoryMax + 1 ELSE 1
<1>1. /\ pair \in Seq(Entry) /\ Len(pair) = 2
      /\ pair[1] = UserEntry(u) /\ pair[2] = AssistantEntry(u)
  BY DEF UserEntry, AssistantEntry, Entry
<1> HIDE DEF pair
<1>2. /\ all \in Seq(Entry) /\ Len(all) = Len(h) + Len(pair)
      /\ \A i \in 1 .. Len(h) + Len(pair) :
            all[i] = IF i <= Len(h) THEN h[i] ELSE pair[i - Len(h)]
  BY <1>1, ConcatProperties
<1>3. Len(h) \in Nat /\ HistoryMax \in Nat
  BY LenProperties, Constants
<1>4. Len(all) = Len(h) + 2 /\ Len(all) \in Nat
  BY <1>1, <1>2, <1>3
<1>5. g = SubSeq(all, from, Len(all))
  BY DEF WithPair, Trimmed, pair
<1>6. \A i \in 1 .. Len(h) + 2 :
         all[i] = IF i <= Len(h) THEN h[i]
                  ELSE IF i = Len(h) + 1 THEN UserEntry(u) ELSE AssistantEntry(u)
  <2>1. ASSUME NEW i \in 1 .. Len(h) + 2
        PROVE  all[i] = IF i <= Len(h) THEN h[i]
                        ELSE IF i = Len(h) + 1 THEN UserEntry(u)
                                               ELSE AssistantEntry(u)
    <3>1. \/ i <= Len(h)
          \/ i - Len(h) = 1 /\ i = Len(h) + 1
          \/ i - Len(h) = 2 /\ i # Len(h) + 1 /\ ~(i <= Len(h))
      BY <1>3, SMT
    <3>2. all[i] = IF i <= Len(h) THEN h[i] ELSE pair[i - Len(h)]
      BY <1>1, <1>2
    <3>3. i = Len(h) + 1 => ~(i <= Len(h))
      BY <1>3, SMT
    <3> HIDE DEF all
    <3> QED BY <1>1, <3>1, <3>2, <3>3
  <2> QED BY <2>1
<1> HIDE DEF all
<1>7. /\ from \in Nat /\ 1 <= from
      /\ Len(all) - from + 1 = IF Len(h) + 2 < HistoryMax THEN Len(h) + 2 ELSE HistoryMax
      /\ from <= Len(all) + 1
  <2>1. CASE Len(all) > HistoryMax
    <3>1. from = Len(all) - HistoryMax + 1
      BY <2>1
    <3> HIDE DEF from
    <3> QED BY <1>3, <1>4, <2>1, <3>1, SMT
  <2>2. CASE ~(Len(all) > HistoryMax)
    <3>1. from = 1
      BY <2>2
    <3> HIDE DEF from
    <3> QED BY <1>3, <1>4, <2>2, <3>1, SMT
  <2> QED BY <2>1, <2>2
<1> HIDE DEF from
<1>8. \A i \in from .. Len(all) : all[i] \in Entry
  <2>1. \A i \in from .. Len(all) : i \in 1 .. Len(all)
    BY <1>4, <1>7, SMT
  <2> QED BY <1>2, <2>1, ElementOfSeq DEF all
<1>9. /\ g \in Seq(Entry)
      /\ Len(g) = IF from <= Len(all) THEN Len(all) - from + 1 ELSE 0
      /\ \A k \in 1 .. Len(all) - from + 1 : g[k] = all[from + k - 1]
  <2>1. from \in Int /\ Len(all) \in Int
    BY <1>4, <1>7
  <2> DEFINE n == Len(all)
  <2>2. from \in Int /\ n \in Int /\ \A i \in from .. n : all[i] \in Entry
    BY <1>8, <2>1
  <2> HIDE DEF n
  <2>3. /\ SubSeq(all, from, n) \in Seq(Entry)
        /\ Len(SubSeq(all, from, n)) = IF from <= n THEN n - from + 1 ELSE 0
        /\ \A k \in 1 .. n - from + 1 : SubSeq(all, from, n)[k] = all[from + k - 1]
    BY <2>2, SubSeqProperties
  <2> QED BY <1>5, <2>3 DEF n
<1>10. Len(g) = Len(all) - from + 1 /\ Len(g) \in Nat
  BY <1>4, <1>7, <1>9, SMT
<1>11. ASSUME NEW k \in 1 .. Len(g)
       PROVE  /\ g[k] = all[Len(h) + 2 - Len(g) + k]
              /\ Len(h) + 2 - Len(g) + k \in 1 .. Len(h) + 2
  <2>1. /\ from + k - 1 = Len(h) + 2 - Len(g) + k
        /\ Len(h) + 2 - Len(g) + k \in 1 .. Len(h) + 2
        /\ k \in 1 .. Len(all) - from + 1
    <3>1. k \in Int /\ 1 <= k /\ k <= Len(g) /\ from \in Int /\ 1 <= from
      BY <1>7, <1>10
    <3> QED BY <1>3, <1>4, <1>10, <3>1, SMT
  <2> QED BY <1>9, <2>1
<1>12. Len(g) = IF Len(h) + 2 < HistoryMax THEN Len(h) + 2 ELSE HistoryMax
  BY <1>7, <1>10
<1> QED BY <1>3, <1>6, <1>9, <1>10, <1>11, <1>12 DEF EndsInPair

LEMMA TypesStep == Inv1 /\ [Next]_vars => ThreadTypes'
<1> SUFFICES ASSUME Inv1, [Next]_vars PROVE ThreadTypes'
  OBVIOUS
<1> USE Constants DEF ThreadTypes, pumpVars, workerVars, ghosts
<1>0. ThreadTypes /\ Counts
  BY DEF Inv1
<1>1. CASE HalfClose \/ Cancel \/ PumpStart
  BY <1>0, <1>1 DEF HalfClose, Cancel, PumpStart
<1>2. ASSUME NEW e \in Event, PumpRecv(e)
      PROVE  ThreadTypes'
  BY <1>0, <1>2 DEF PumpRecv
<1>3. CASE HandleControl
  <2>1. /\ systemPrompt' \in 0 .. MaxProfiles
        /\ event.type = "END_OF_UTTERANCE" => MoreUtterances
    BY <1>3, Controls
  <2>2. /\ utteranceQueue' \in Seq(0 .. MaxUtterances)
        /\ dispatched' \in Seq(0 .. MaxProfiles)
        /\ buffered' \in BOOLEAN
    BY <1>0, <1>3, <2>1, Dispatches DEF HandleControl
  <2>3. Audio \in Event
    BY DEF Event
  <2> QED BY <1>0, <1>3, <2>1, <2>2, <2>3 DEF HandleControl
<1>4. CASE FramesToBoundary
  <2>1. /\ utteranceQueue' \in Seq(0 .. MaxUtterances)
        /\ dispatched' \in Seq(0 .. MaxProfiles)
    BY <1>0, <1>4, Dispatches DEF FramesToBoundary
  <2> QED BY <1>0, <1>4, <2>1 DEF FramesToBoundary
<1>4a. CASE FramesUsedUp
  BY <1>0, <1>4a DEF FramesUsedUp
<1>5. CASE PumpEnd \/ PumpRaises
  <2>1. utteranceQueue' \in Seq(0 .. MaxUtterances)
    BY <1>5, Pills DEF PumpEnd, PumpRaises
  <2>2. Audio \in Event
    BY DEF Event
  <2> QED BY <1>0, <1>5, <2>1, <2>2 DEF PumpEnd, PumpRaises, PumpFinally
<1>6. CASE WorkerGet
  <2>1. task' \in 0 .. MaxUtterances /\ utteranceQueue' \in Seq(0 .. MaxUtterances)
    BY <1>0, <1>6, Tailed DEF WorkerGet
  <2> QED BY <1>0, <1>6, <2>1 DEF WorkerGet
<1>7. CASE WorkerStop
  <2>1. utteranceQueue' \in Seq(0 .. MaxUtterances)
    BY <1>0, <1>7, Tailed DEF WorkerStop
  <2>2. outboundQueue' \in Seq(Chunk \cup {SHUTDOWN})
    BY <1>0, <1>7, Appended DEF WorkerStop
  <2> QED BY <1>0, <1>7, <2>1, <2>2 DEF WorkerStop
<1>8. CASE Transcribe
  <2>1. reply' \in Reply
    BY <1>0, <1>8 DEF Transcribe, Reply
  <2> QED BY <1>0, <1>8, <2>1 DEF Transcribe
<1>9. CASE Abandon \/ SentenceAfterCancel
  <2>1. NoReply \in Reply
    BY EmptySeq DEF NoReply, Reply
  <2>2. /\ worker' = "get" /\ sentence' = 0 /\ reply' = NoReply
        /\ UNCHANGED <<rpc, inbound, pump, event, buffered, systemPrompt,
             utteranceQueue, outboundQueue, task, chunk, chunks,
             conversationHistory, relay, dispatched, completed, delivered>>
    BY <1>9 DEF Abandon, SentenceAfterCancel
  <2>3. 0 \in 0 .. MaxSentences
    BY SMT
  <2> QED BY <1>0, <2>1, <2>2, <2>3
<1>10. ASSUME NEW n \in 0 .. MaxChunks, NextSentence(n)
       PROVE  ThreadTypes'
  <2>1. sentence' \in 0 .. MaxSentences
    BY <1>0, <1>10, SMT DEF NextSentence
  <2> QED BY <1>0, <1>10, <2>1 DEF NextSentence
<1>11. CASE PutChunk
  <2> DEFINE new == [utt |-> task, sentence |-> sentence, chunk |-> chunk + 1]
  <2>1. new \in Chunk
    <3>1. task \in 1 .. MaxUtterances /\ sentence \in 1 .. MaxSentences
          /\ chunk + 1 \in 1 .. MaxChunks
      BY <1>0, <1>11, SMT DEF PutChunk, Counts
    <3> QED BY <3>1 DEF Chunk, Utterance
  <2>2. chunk' \in 0 .. MaxChunks /\ chunks' \in 0 .. MaxChunks
    <3>1. /\ chunk \in 0 .. MaxChunks /\ chunks \in 0 .. MaxChunks /\ chunk < chunks
          /\ \/ chunk' = 0 /\ chunks' = 0
             \/ chunk' = chunk + 1 /\ chunks' = chunks
      BY <1>0, <1>11 DEF PutChunk, Counts
    <3> QED BY <3>1, SMT
  <2>3. outboundQueue' = Append(outboundQueue, new)
    BY <1>11 DEF PutChunk
  <2> HIDE DEF new
  <2>4. outboundQueue' \in Seq(Chunk \cup {SHUTDOWN})
    BY <1>0, <2>1, <2>3, Appended
  <2> QED BY <1>0, <1>11, <2>2, <2>4 DEF PutChunk
<1>12. CASE ReplyEnds
  <2>1. NoReply \in Reply
    BY EmptySeq DEF NoReply, Reply
  <2>2. completed' \in Seq(Utterance)
    <3> DEFINE T == Utterance
    <3>1. task \in T /\ completed \in Seq(T)
      BY <1>0, <1>12, SMT DEF ReplyEnds, Counts, Utterance
    <3> HIDE DEF T
    <3>2. completed' \in Seq(T)
      BY <1>12, <3>1, Appended DEF ReplyEnds
    <3> QED BY <3>2 DEF T
  <2>3. conversationHistory' \in Seq(Entry)
    <3>1. task \in Nat
      BY <1>0, SMT
    <3>2. CASE sentence # 0
      BY <1>0, <1>12, <3>1, <3>2, Remembered
         DEF ReplyEnds, WithPair, UserEntry, AssistantEntry, EndsInPair
    <3> QED BY <1>0, <1>12, <3>2 DEF ReplyEnds
  <2> QED BY <1>0, <1>12, <2>1, <2>2, <2>3 DEF ReplyEnds
<1>13. CASE RelayYield
  <2>1. outboundQueue' \in Seq(Chunk \cup {SHUTDOWN}) /\ RelayGets \in Chunk
    BY <1>0, <1>13, Tailed DEF RelayYield, RelayGets
  <2>2. delivered' \in Seq(Chunk)
    BY <1>13, <2>1 DEF RelayYield
  <2> QED BY <1>0, <1>13, <2>1, <2>2 DEF RelayYield
<1>14. CASE RelayDropped \/ RelayExit
  <2>1. outboundQueue' \in Seq(Chunk \cup {SHUTDOWN})
    <3>1. outboundQueue # <<>> /\ outboundQueue' = Tail(outboundQueue)
      BY <1>14 DEF RelayDropped, RelayExit
    <3> QED BY <1>0, <3>1, Tailed
  <2> QED BY <1>0, <1>14, <2>1 DEF RelayDropped, RelayExit
<1>15. CASE UNCHANGED vars
  BY <1>0, <1>15 DEF vars
<1> QED BY <1>1, <1>2, <1>3, <1>4, <1>4a, <1>5, <1>6, <1>7, <1>8, <1>9, <1>10, <1>11,
           <1>12, <1>13, <1>14, <1>15 DEF Next, Client, Pump, HandleAudio, Worker, Relay

LEMMA CountsStep == Inv1 /\ [Next]_vars => Counts'
<1> SUFFICES ASSUME Inv1, [Next]_vars PROVE Counts'
  OBVIOUS
<1> USE DEF Counts, MoreUtterances, pumpVars, workerVars, ghosts
<1>0. Counts /\ ThreadTypes
  BY DEF Inv1
<1>00. /\ Len(dispatched) \in Nat /\ systemPrompt \in Nat
       /\ task \in Nat /\ task <= Len(dispatched)
       /\ sentence \in Nat /\ chunk \in Nat /\ chunks \in Nat
       /\ \A k \in 1 .. Len(dispatched) : dispatched[k] \in Nat
  <2>1. \A k \in 1 .. Len(dispatched) : dispatched[k] \in 0 .. MaxProfiles
    BY <1>0, ElementOfSeq DEF ThreadTypes
  <2> QED BY <2>1, Numbers, SMT
<1>1. CASE HalfClose \/ Cancel \/ PumpStart \/ RelayYield \/ RelayDropped \/ RelayExit
           \/ WorkerStop \/ Transcribe
  BY <1>0, <1>1 DEF HalfClose, Cancel, PumpStart, RelayYield, RelayDropped, RelayExit,
                    WorkerStop, Transcribe
<1>2. ASSUME NEW e \in Event, PumpRecv(e)
      PROVE  Counts'
  BY <1>0, <1>00, <1>2, SMT DEF PumpRecv
<1>3. ASSUME NEW prompt \in 0 .. MaxProfiles, MoreUtterances, Dispatch(prompt),
             systemPrompt' = prompt, systemPrompt <= prompt,
             \/ pump' = "recv"
             \/ pump' = "handling" /\ event' = Audio,
             UNCHANGED workerVars
      PROVE  Counts'
  <2>1. /\ Len(dispatched') = Len(dispatched) + 1
        /\ Len(dispatched') <= MaxUtterances
        /\ dispatched'[Len(dispatched) + 1] = prompt
        /\ \A k \in 1 .. Len(dispatched) : dispatched'[k] = dispatched[k]
        /\ \A k \in 1 .. Len(dispatched') :
              k \in 1 .. Len(dispatched) \/ k = Len(dispatched) + 1
    BY <1>3, Dispatches
  <2>2. \A k \in 1 .. Len(dispatched') : dispatched'[k] <= systemPrompt'
    <3>1. ASSUME NEW k \in 1 .. Len(dispatched)
          PROVE  dispatched'[k] <= systemPrompt'
      <4>1. dispatched[k] <= systemPrompt /\ dispatched'[k] = dispatched[k]
            /\ dispatched[k] \in Nat
        BY <1>0, <1>00, <2>1
      <4> QED BY <1>00, <1>3, <4>1, SMT
    <3> QED BY <1>3, <2>1, <3>1, SMT
  <2>3. Audio.type # "END_OF_UTTERANCE" /\ ~Audio.profile
    BY DEF Audio
  <2>4. pump' = "handling" =>
           /\ event'.type = "END_OF_UTTERANCE" => MoreUtterances'
           /\ event'.profile => systemPrompt' < MaxProfiles
    BY <1>3, <2>3, Zenon
  <2>5. task' <= Len(dispatched')
    BY <1>00, <1>3, <2>1, SMT
  <2> QED BY <1>0, <1>3, <2>1, <2>2, <2>4, <2>5
<1>4. CASE HandleControl
  <2>1. /\ systemPrompt' \in {systemPrompt, systemPrompt + 1}
        /\ systemPrompt' \in 0 .. MaxProfiles /\ systemPrompt <= systemPrompt'
        /\ event.type = "END_OF_UTTERANCE" => MoreUtterances
    BY <1>4, Controls
  <2>2. CASE event.type = "END_OF_UTTERANCE" /\ buffered
    BY <1>3, <1>4, <2>1, <2>2 DEF HandleControl
  <2>3. CASE ~(event.type = "END_OF_UTTERANCE" /\ buffered)
    <3>1. UNCHANGED dispatched /\ pump' = "recv" /\ UNCHANGED workerVars
      BY <1>4, <2>3 DEF HandleControl
    <3>2. \A k \in 1 .. Len(dispatched) : dispatched[k] <= systemPrompt'
      <4>1. ASSUME NEW k \in 1 .. Len(dispatched)
            PROVE  dispatched[k] <= systemPrompt'
        <5>1. dispatched[k] <= systemPrompt /\ dispatched[k] \in Nat
          BY <1>0, <1>00
        <5> QED BY <1>00, <2>1, <5>1, SMT
      <4> QED BY <4>1
    <3> QED BY <1>0, <1>00, <2>1, <3>1, <3>2, SMT
  <2> QED BY <2>2, <2>3
<1>5. CASE FramesToBoundary
  <2>1. systemPrompt \in 0 .. MaxProfiles /\ systemPrompt <= systemPrompt
    BY <1>0, <1>00, SMT DEF ThreadTypes
  <2> QED BY <1>3, <1>5, <2>1 DEF FramesToBoundary
<1>5a. CASE FramesUsedUp
  BY <1>0, <1>5a DEF FramesUsedUp
<1>6. CASE PumpEnd \/ PumpRaises
  BY <1>0, <1>00, <1>6, SMT DEF PumpEnd, PumpRaises, PumpFinally
<1>7. CASE WorkerGet
  <2>1. /\ Len(utteranceQueue) \in Nat \ {0}
        /\ Head(utteranceQueue) = utteranceQueue[1]
    BY <1>0, <1>7, Tailed DEF WorkerGet, ThreadTypes
  <2>2. Head(utteranceQueue) = task + 1 /\ task + 1 <= Len(dispatched)
    BY <1>7, <1>00, <2>1, SMT DEF Inv1, Numbered, Open, Closed, Over, Waiting, InTurn, WorkerGet
  <2> QED BY <1>0, <1>00, <1>7, <2>2, SMT DEF WorkerGet
<1>8. CASE Abandon \/ SentenceAfterCancel \/ ReplyEnds
  BY <1>0, <1>8 DEF Abandon, SentenceAfterCancel, ReplyEnds
<1>9. ASSUME NEW n \in 0 .. MaxChunks, NextSentence(n)
      PROVE  Counts'
  BY <1>0, <1>00, <1>9, Constants, SMT DEF NextSentence
<1>10. CASE PutChunk
  BY <1>0, <1>00, <1>10, SMT DEF PutChunk
<1>11. CASE UNCHANGED vars
  BY <1>0, <1>11 DEF vars
<1> QED BY <1>1, <1>2, <1>4, <1>5, <1>5a, <1>6, <1>7, <1>8, <1>9, <1>10, <1>11
        DEF Next, Client, Pump, HandleAudio, Worker, Relay

\* Dispatches and takings keep the queue numbered; the pill closes it, and the
\* worker that takes the pill finds nothing behind it.
LEMMA NumberedStep == Inv1 /\ [Next]_vars => Numbered'
<1> SUFFICES ASSUME Inv1, [Next]_vars PROVE Numbered'
  OBVIOUS
<1> USE DEF Numbered, Open, Closed, Over, Waiting, InTurn, pumpVars, workerVars, ghosts
<1>0. Numbered /\ ThreadTypes /\ Counts
  BY DEF Inv1
<1>00. /\ Len(dispatched) \in Nat /\ task \in Nat /\ task <= Len(dispatched)
       /\ Len(utteranceQueue) \in Nat
  BY Numbers
<1>1. ASSUME UNCHANGED <<utteranceQueue, dispatched, task>>,
             worker' = "done" <=> worker = "done", pump = "dead" => pump' = "dead"
      PROVE  Numbered'
  BY <1>0, <1>1
<1>2. CASE HalfClose \/ Cancel \/ PumpStart \/ RelayYield \/ RelayDropped \/ RelayExit
           \/ Transcribe \/ Abandon \/ SentenceAfterCancel \/ PutChunk \/ ReplyEnds
           \/ UNCHANGED vars
  BY <1>1, <1>2 DEF HalfClose, Cancel, PumpStart, RelayYield, RelayDropped, RelayExit,
     Transcribe, Abandon, SentenceAfterCancel, PutChunk, ReplyEnds, vars
<1>3. ASSUME NEW e \in Event, PumpRecv(e)
      PROVE  Numbered'
  BY <1>1, <1>3 DEF PumpRecv
<1>4. ASSUME NEW n \in 0 .. MaxChunks, NextSentence(n)
      PROVE  Numbered'
  BY <1>1, <1>4 DEF NextSentence
<1>5. ASSUME NEW prompt \in 0 .. MaxProfiles, pump = "handling",
             MoreUtterances, Dispatch(prompt), UNCHANGED <<worker, task>>
      PROVE  Numbered'
  <2>1. Open
    BY <1>0, <1>5
  <2>2. /\ Len(dispatched') = Len(dispatched) + 1
        /\ Len(utteranceQueue') = Len(utteranceQueue) + 1
        /\ utteranceQueue'[Len(utteranceQueue) + 1] = Len(dispatched) + 1
        /\ \A k \in 1 .. Len(utteranceQueue) :
              utteranceQueue'[k] = utteranceQueue[k]
    BY <1>5, Dispatches
  <2>3. Len(utteranceQueue') = Waiting'
    BY <1>00, <1>5, <2>1, <2>2, SMT
  <2>4. ASSUME NEW k \in 1 .. Waiting'
        PROVE  utteranceQueue'[k] = task' + k
    <3>1. CASE k \in 1 .. Waiting
      BY <1>5, <2>1, <2>2, <3>1
    <3>2. CASE k \notin 1 .. Waiting
      <4>1. k = Len(utteranceQueue) + 1 /\ task + k = Len(dispatched) + 1
        BY <1>00, <1>5, <2>1, <2>2, <3>2, SMT
      <4> QED BY <1>5, <2>2, <4>1
    <3> QED BY <3>1, <3>2
  <2> QED BY <1>5, <2>1, <2>3, <2>4
<1>6. CASE HandleControl
  <2>1. /\ systemPrompt' \in 0 .. MaxProfiles
        /\ event.type = "END_OF_UTTERANCE" => MoreUtterances
    BY <1>6, Controls
  <2> QED BY <1>1, <1>5, <1>6, <2>1 DEF HandleControl
<1>7. CASE HandleAudio
  BY <1>0, <1>1, <1>5, <1>7
     DEF HandleAudio, FramesToBoundary, FramesUsedUp, ThreadTypes
<1>8. CASE PumpEnd \/ PumpRaises
  <2>1. Open /\ PumpFinally /\ UNCHANGED <<worker, task, dispatched>>
    BY <1>0, <1>8 DEF PumpEnd, PumpRaises
  <2>2. /\ Len(utteranceQueue') = Len(utteranceQueue) + 1
        /\ utteranceQueue'[Len(utteranceQueue) + 1] = STOP
        /\ \A k \in 1 .. Len(utteranceQueue) :
              utteranceQueue'[k] = utteranceQueue[k]
    BY <2>1, Pills
  <2>3. pump' = "dead"
    BY <2>1 DEF PumpFinally
  <2>4. Waiting' = Waiting /\ Len(utteranceQueue) = Waiting
    BY <2>1
  <2> QED BY <2>1, <2>2, <2>3, <2>4
<1>9. CASE WorkerGet \/ WorkerStop
  <2>1. /\ utteranceQueue # <<>> /\ utteranceQueue' = Tail(utteranceQueue)
        /\ UNCHANGED <<pump, dispatched>>
    BY <1>9 DEF WorkerGet, WorkerStop
  <2>2. /\ Len(utteranceQueue) \in Nat \ {0}
        /\ Len(utteranceQueue') = Len(utteranceQueue) - 1
        /\ 1 \in 1 .. Len(utteranceQueue)
        /\ Head(utteranceQueue) = utteranceQueue[1]
        /\ utteranceQueue' \in Seq(0 .. MaxUtterances)
        /\ \A i \in 1 .. Len(utteranceQueue') :
              utteranceQueue'[i] = utteranceQueue[i + 1]
    BY <1>0, <2>1, Tailed DEF ThreadTypes
  <2>3. Open \/ Closed
    BY <1>0, <2>1
  <2>4. CASE WorkerGet
    <3>1. Waiting >= 1 /\ task' = task + 1
      <4>1. utteranceQueue[1] # STOP /\ task' = utteranceQueue[1]
        BY <2>2, <2>4 DEF WorkerGet
      <4>2. Waiting >= 1
        <5>1. Len(utteranceQueue) = Waiting
              \/ (Len(utteranceQueue) = Waiting + 1 /\ utteranceQueue[Waiting + 1] = STOP)
          BY <2>3
        <5>2. Waiting \in Int
          BY <1>00, SMT
        <5> HIDE DEF Waiting
        <5>3. Waiting # 0
          BY <2>2, <4>1, <5>1, SMT
        <5> QED BY <2>2, <5>1, <5>2, <5>3, SMT
      <4>3. 1 \in 1 .. Waiting
        BY <1>00, <4>2, SMT
      <4>4. utteranceQueue[1] = task + 1
        BY <2>3, <4>3
      <4> QED BY <4>1, <4>2, <4>4
    <3>2. Waiting' = Waiting - 1
      BY <1>00, <2>1, <3>1, SMT
    <3>3. ASSUME NEW i \in 1 .. Waiting'
          PROVE  utteranceQueue'[i] = task' + i
      <4>1. i \in 1 .. Len(utteranceQueue') /\ i + 1 \in 1 .. Waiting
            /\ task' + i = task + (i + 1)
        <5>1. Len(utteranceQueue') = Waiting - 1 \/ Len(utteranceQueue') = Waiting
          BY <1>00, <2>2, <2>3, SMT
        <5> QED BY <1>00, <3>1, <3>2, <5>1, SMT
      <4>2. utteranceQueue[i + 1] = task + (i + 1)
        BY <2>3, <4>1
      <4> QED BY <2>2, <4>1, <4>2
    <3>4. worker' # "done"
      BY <2>4 DEF WorkerGet
    <3>5. CASE Open
      <4>1. Len(utteranceQueue') = Waiting'
        BY <1>00, <2>2, <3>2, <3>5, SMT
      <4> QED BY <3>3, <3>4, <4>1
    <3>6. CASE Closed
      <4>1. Len(utteranceQueue') = Waiting' + 1 /\ Waiting' + 1 = Waiting
            /\ Waiting \in 1 .. Len(utteranceQueue')
        BY <1>00, <2>2, <3>1, <3>2, <3>6, SMT
      <4>2. utteranceQueue'[Waiting' + 1] = STOP
        BY <2>2, <3>6, <4>1
      <4> QED BY <2>1, <3>3, <3>4, <3>6, <4>1, <4>2
    <3> QED BY <2>3, <3>5, <3>6
  <2>5. CASE WorkerStop
    <3>1. utteranceQueue[1] = STOP /\ worker' = "done" /\ task' = task
      BY <2>2, <2>5 DEF WorkerStop
    <3>2. Waiting = 0
      <4>1. CASE Waiting # 0
        <5>1. 1 \in 1 .. Waiting /\ task + 1 # STOP
          BY <1>00, <4>1, SMT DEF STOP
        <5> QED BY <2>3, <3>1, <5>1
      <4> QED BY <4>1
    <3>3. Closed /\ Len(utteranceQueue) = 1
      BY <1>00, <2>2, <2>3, <3>2, SMT
    <3>4. utteranceQueue' = <<>>
      <4>1. Len(utteranceQueue') = 0
        <5>1. Len(utteranceQueue') = Len(utteranceQueue) - 1
          BY <2>2
        <5>2. Len(utteranceQueue) = 1
          BY <3>3
        <5> QED BY <5>1, <5>2, SMT
      <4>2. ~(Len(utteranceQueue') \in Nat \ {0})
        BY <4>1
      <4> QED BY <2>2, <4>2, EmptySeq, Zenon
    <3>5. task' = Len(dispatched')
      BY <1>00, <2>1, <3>1, <3>2, SMT
    <3> QED BY <2>1, <3>1, <3>3, <3>4, <3>5
  <2> QED BY <1>9, <2>4, <2>5
<1> QED BY <1>2, <1>3, <1>4, <1>6, <1>7, <1>8, <1>9 DEF Next, Client, Pump, Worker, Relay

LEMMA Inv1Step == Inv1 /\ [Next]_vars => Inv1'
BY TypesStep, CountsStep, NumberedStep DEF Inv1

---------------------------------------------------------------------------
(* The relay's queue. *)

\* The pill is put last, by a worker that is done.
PillLast ==
    /\ \A k \in 1 .. Len(outboundQueue) :
          outboundQueue[k] = SHUTDOWN => k = Len(outboundQueue) /\ worker = "done"
    /\ relay = "exited" => worker = "done" /\ outboundQueue = <<>>

LEMMA PillLastStep == Inv1 /\ PillLast /\ [Next]_vars => PillLast'
<1> SUFFICES ASSUME Inv1, PillLast, [Next]_vars PROVE PillLast'
  OBVIOUS
<1> USE DEF PillLast, pumpVars, workerVars, ghosts
<1>0. ThreadTypes /\ Counts /\ Numbered
  BY DEF Inv1
<1>1. ASSUME UNCHANGED outboundQueue, worker = "done" => worker' = "done",
             relay' = "exited" => relay = "exited"
      PROVE  PillLast'
  BY <1>1
<1>2. CASE HalfClose \/ Cancel \/ Pump \/ WorkerGet \/ Transcribe \/ Abandon
           \/ SentenceAfterCancel \/ ReplyEnds \/ UNCHANGED vars
  BY <1>1, <1>2 DEF HalfClose, Cancel, Pump, PumpStart, HandleControl, HandleAudio,
     FramesToBoundary, FramesUsedUp,
     PumpEnd, PumpRaises, PumpFinally, WorkerGet, Transcribe, Abandon,
     SentenceAfterCancel, ReplyEnds, vars
<1>3. ASSUME NEW e \in Event, PumpRecv(e)
      PROVE  PillLast'
  BY <1>1, <1>3 DEF PumpRecv
<1>4. ASSUME NEW n \in 0 .. MaxChunks, NextSentence(n)
      PROVE  PillLast'
  BY <1>1, <1>4 DEF NextSentence
<1>5. ASSUME NEW x \in Chunk \cup {SHUTDOWN}, worker # "done", UNCHANGED relay,
             outboundQueue' = Append(outboundQueue, x),
             x = SHUTDOWN => worker' = "done"
      PROVE  PillLast'
  <2>1. outboundQueue \in Seq(Chunk \cup {SHUTDOWN})
    BY <1>0 DEF ThreadTypes
  <2>2. /\ Len(outboundQueue') = Len(outboundQueue) + 1
        /\ outboundQueue'[Len(outboundQueue) + 1] = x
        /\ \A k \in 1 .. Len(outboundQueue) : outboundQueue'[k] = outboundQueue[k]
        /\ \A k \in 1 .. Len(outboundQueue) + 1 :
              k \in 1 .. Len(outboundQueue) \/ k = Len(outboundQueue) + 1
    BY <1>5, <2>1, Appended
  <2> QED BY <1>5, <2>2
<1>6. CASE WorkerStop
  BY <1>5, <1>6 DEF WorkerStop
<1>7. CASE PutChunk
  <2> DEFINE new == [utt |-> task, sentence |-> sentence, chunk |-> chunk + 1]
  <2>1. new \in Chunk /\ new # SHUTDOWN
    <3>1. task \in 1 .. MaxUtterances /\ sentence \in 1 .. MaxSentences
          /\ chunk + 1 \in 1 .. MaxChunks
      BY <1>0, <1>7, Constants, SMT DEF PutChunk, Counts, ThreadTypes
    <3>2. new.utt # SHUTDOWN.utt
      BY <3>1, SMT DEF SHUTDOWN
    <3> QED BY <3>1, <3>2 DEF Chunk, Utterance
  <2>2. outboundQueue' = Append(outboundQueue, new) /\ worker = "put"
        /\ relay' = relay
    BY <1>7 DEF PutChunk
  <2> HIDE DEF new
  <2> QED BY <1>5, <2>1, <2>2
<1>8. CASE RelayYield \/ RelayDropped \/ RelayExit
  <2>1. outboundQueue # <<>> /\ outboundQueue' = Tail(outboundQueue)
        /\ worker' = worker /\ relay = "get"
    BY <1>8 DEF RelayYield, RelayDropped, RelayExit
  <2>2. /\ Len(outboundQueue) \in Nat \ {0}
        /\ Len(outboundQueue') = Len(outboundQueue) - 1
        /\ 1 \in 1 .. Len(outboundQueue)
        /\ Head(outboundQueue) = outboundQueue[1]
        /\ outboundQueue' \in Seq(Chunk \cup {SHUTDOWN})
        /\ \A i \in 1 .. Len(outboundQueue') :
              outboundQueue'[i] = outboundQueue[i + 1] /\ i + 1 \in 1 .. Len(outboundQueue)
    BY <1>0, <2>1, Tailed DEF ThreadTypes
  <2>3. ASSUME NEW k \in 1 .. Len(outboundQueue'), outboundQueue'[k] = SHUTDOWN
        PROVE  k = Len(outboundQueue') /\ worker' = "done"
    <3>1. k + 1 = Len(outboundQueue) /\ worker = "done"
      BY <2>2, <2>3
    <3>2. k \in Int /\ Len(outboundQueue') = Len(outboundQueue) - 1
      BY <2>2
    <3>3. k + 1 = Len(outboundQueue) => k = Len(outboundQueue) - 1
      BY <2>2, <3>2, SMT
    <3> QED BY <2>1, <3>1, <3>2, <3>3
  <2>4. ASSUME relay' = "exited"
        PROVE  worker' = "done" /\ outboundQueue' = <<>>
    <3>1. outboundQueue[1] = SHUTDOWN
      BY <1>8, <2>1, <2>2, <2>4 DEF RelayYield, RelayDropped, RelayExit, RelayGets
    <3>2. 1 = Len(outboundQueue) /\ worker = "done"
      BY <2>2, <3>1
    <3>3. ~(Len(outboundQueue') \in Nat \ {0})
      <4>1. Len(outboundQueue') = Len(outboundQueue) - 1 /\ Len(outboundQueue) = 1
        BY <2>2, <3>2
      <4>2. Len(outboundQueue') = 0
        BY <4>1, SMT
      <4> QED BY <4>2
    <3> QED BY <2>1, <2>2, <3>2, <3>3, EmptySeq, Zenon
  <2> QED BY <2>3, <2>4
<1> QED BY <1>2, <1>3, <1>4, <1>6, <1>7, <1>8 DEF Next, Client, Worker, Relay

\* The call's threads and queues are well typed, for every bound and any number
\* of utterances in one audio event, and the queue goes on where the worker is.
THEOREM CallTypes == Spec => []TypeOK
<1>1. ASSUME Inv1 PROVE TypeOK
  <2>1. /\ task \in Nat /\ Len(dispatched) \in Nat /\ Len(utteranceQueue) \in Nat
        /\ task <= Len(dispatched)
    BY <1>1, Constants, SMT DEF Inv1, ThreadTypes, Counts
  <2>2. ASSUME NEW k \in 1 .. Len(utteranceQueue), utteranceQueue[k] # STOP
        PROVE  utteranceQueue[k] = task + k /\ task + k <= Len(dispatched)
    <3>1. k \in 1 .. Waiting
      BY <1>1, <2>1, <2>2, SMT DEF Inv1, Numbered, Open, Closed, Over, Waiting
    <3>2. InTurn
      BY <1>1, <2>1, <3>1, SMT DEF Inv1, Numbered, Open, Closed, Over, Waiting
    <3> QED BY <2>1, <3>1, <3>2, SMT DEF InTurn, Waiting
  <2> QED BY <1>1, <2>1, <2>2 DEF Inv1, TypeOK
<1> QED BY <1>1, Inv1Init, Inv1Step, PTL DEF Spec

LEMMA PillLastInit == Init => PillLast
<1>1. Len(<<>>) = 0
  BY EmptySeq
<1>2. 1 .. 0 = {}
  BY SMT
<1> QED BY <1>1, <1>2 DEF Init, PillLast

\* Half-close drains: the generator returns only on the worker's pill, which
\* is behind every chunk, and the worker puts it only on the pump's, which is
\* behind every utterance.
THEOREM HalfCloseDrains == Spec => []NothingLeftBehind
<1>1. Inv1 /\ PillLast => NothingLeftBehind
  BY DEF Inv1, PillLast, Numbered, Open, Closed, Over, NothingLeftBehind
<1> QED BY <1>1, Inv1Init, Inv1Step, PillLastInit, PillLastStep, PTL DEF Spec

---------------------------------------------------------------------------
(* Cancel. *)

\* Once the call is over no sentence is begun, so what is put belongs to the
\* one that was being put.
OneSentence ==
    /\ IsActive => afterCancel = {}
    /\ worker = "put" => afterCancel \subseteq {<<task, sentence>>}
    /\ \E p : afterCancel \subseteq {p}

LEMMA OneSentenceStep == OneSentence /\ [Next]_vars => OneSentence'
<1> SUFFICES ASSUME OneSentence, [Next]_vars PROVE OneSentence'
  OBVIOUS
<1> USE DEF OneSentence, IsActive, pumpVars, workerVars, ghosts
<1>1. ASSUME UNCHANGED afterCancel, rpc' = "active" => rpc = "active",
             worker' = "put" => UNCHANGED <<worker, task, sentence>>
      PROVE  OneSentence'
  BY <1>1
<1>2. CASE Client \/ Pump \/ Relay \/ UNCHANGED vars
  BY <1>1, <1>2 DEF Client, HalfClose, Cancel, PumpRecv, Pump, PumpStart,
     HandleControl, HandleAudio, FramesToBoundary, FramesUsedUp, PumpEnd,
     PumpRaises, PumpFinally, Relay, RelayYield,
     RelayDropped, RelayExit, vars
<1>3. CASE WorkerGet \/ WorkerStop \/ Transcribe \/ Abandon \/ SentenceAfterCancel
           \/ ReplyEnds
  BY <1>1, <1>3 DEF WorkerGet, WorkerStop, Transcribe, Abandon,
     SentenceAfterCancel, ReplyEnds
<1>4. ASSUME NEW n, NextSentence(n)
      PROVE  OneSentence'
  BY <1>4 DEF NextSentence, SessionStillOn
<1>5. CASE PutChunk
  BY <1>5 DEF PutChunk
<1> QED BY <1>2, <1>3, <1>4, <1>5 DEF Next, Worker

\* A cancelled call puts the rest of one sentence at most, however many
\* utterances are queued.
THEOREM CancelIsHeeded == Spec => []CancelStopsSpeech
<1>1. Init => OneSentence
  BY DEF Init, OneSentence
<1>2. OneSentence => CancelStopsSpeech
  <2> SUFFICES ASSUME NEW p, afterCancel \subseteq {p}
               PROVE  Cardinality(afterCancel) <= 1
    BY DEF OneSentence, CancelStopsSpeech
  <2>1. IsFiniteSet({p}) /\ Cardinality({p}) = 1
    BY FS_Singleton
  <2>2. Cardinality(afterCancel) <= Cardinality({p})
    BY <2>1, FS_Subset
  <2> QED BY <2>1, <2>2
<1> QED BY <1>1, <1>2, OneSentenceStep, PTL DEF Spec

---------------------------------------------------------------------------
(* The order of what is heard. *)

\* The newest chunk, on its way or heard: the one the next is put behind.
Tip == IF outboundQueue = <<>> THEN delivered
                               ELSE <<outboundQueue[Len(outboundQueue)]>>
TipOlder(c) ==
    /\ c.utt <= task
    /\ worker = "stt" => c.utt < task
    /\ worker \in {"llm", "put"} /\ c.utt = task => c.sentence <= sentence
    /\ worker = "put" /\ chunk = 0 /\ c.utt = task => c.sentence < sentence
    /\ chunk > 0 => c = [utt |-> task, sentence |-> sentence, chunk |-> chunk]
TipBefore ==
    relay # "dropped" /\ worker # "done" =>
        /\ Tip = <<>> => chunk = 0
        /\ Tip # <<>> => Tip[1] \in Chunk /\ TipOlder(Tip[1])

Inv2 == Inv1 /\ PillLast
Ordered == TipBefore /\ RepliesInOrder

LEMMA TakesNext == Inv1 /\ WorkerGet => task' = task + 1
<1> SUFFICES ASSUME Inv1, WorkerGet PROVE task' = task + 1
  OBVIOUS
<1>1. /\ Waiting \in Nat /\ task \in Nat /\ Len(utteranceQueue) \in Nat
  BY Numbers
<1>2. utteranceQueue # <<>> /\ task' = Head(utteranceQueue)
      /\ Head(utteranceQueue) # STOP
  BY DEF WorkerGet
<1>3. utteranceQueue \in Seq(0 .. MaxUtterances)
  BY DEF Inv1, ThreadTypes
<1>4. /\ Head(utteranceQueue) = utteranceQueue[1]
      /\ Len(utteranceQueue) \in Nat \ {0}
  BY <1>2, <1>3, Tailed
<1>5. InTurn /\ (\/ Len(utteranceQueue) = Waiting
                 \/ /\ Len(utteranceQueue) = Waiting + 1
                    /\ utteranceQueue[Waiting + 1] = STOP)
  BY <1>2 DEF Inv1, Numbered, Open, Closed, Over
<1> HIDE DEF Waiting
<1>6. Waiting # 0
  <2>1. Waiting = 0 => Waiting + 1 = 1 /\ ~(Len(utteranceQueue) = Waiting)
    BY <1>4, SMT
  <2> QED BY <1>2, <1>4, <1>5, <2>1
<1>7. 1 \in 1 .. Waiting
  BY <1>1, <1>6, SMT
<1> QED BY <1>2, <1>4, <1>5, <1>7 DEF InTurn

\* The worker's steps that put nothing.
LEMMA TipBeforeQuiet ==
    ASSUME Inv1, TipBefore, UNCHANGED <<outboundQueue, delivered, relay>>,
           \/ UNCHANGED <<worker, task, sentence, chunk>>
           \/ WorkerGet \/ Transcribe \/ Abandon \/ SentenceAfterCancel \/ ReplyEnds
           \/ \E n \in 0 .. MaxChunks : NextSentence(n)
    PROVE  TipBefore'
<1> SUFFICES ASSUME relay # "dropped", worker' # "done"
             PROVE  /\ Tip = <<>> => chunk' = 0
                    /\ Tip # <<>> => /\ Tip[1] \in Chunk
                                     /\ \A c : c = Tip[1] => TipOlder(c)'
  BY DEF TipBefore, Tip, TipOlder
<1>1. task \in Nat /\ sentence \in Nat /\ chunk \in Nat
  BY Numbers
<1>2. worker # "put" => chunk = 0
  BY DEF Inv1, Counts
<1>3. \A c \in Chunk : c.utt \in Nat /\ c.sentence \in Nat
  BY Constants, SMT DEF Chunk, Utterance
<1>4. worker # "done"
  BY DEF WorkerGet, Transcribe, Abandon, SentenceAfterCancel, ReplyEnds, NextSentence
<1>5. /\ Tip = <<>> => chunk = 0
      /\ Tip # <<>> => Tip[1] \in Chunk /\ TipOlder(Tip[1])
  BY <1>4 DEF TipBefore
<1>6. Tip = <<>> => chunk' = 0
  <2>1. chunk' = chunk
    BY DEF WorkerGet, Transcribe, Abandon, SentenceAfterCancel, ReplyEnds, NextSentence
  <2> QED BY <1>5, <2>1
<1>7. ASSUME NEW c \in Chunk, TipOlder(c) PROVE TipOlder(c)'
  <2>1. c.utt \in Nat /\ c.sentence \in Nat
    BY <1>3, <1>7
  <2>2. CASE UNCHANGED <<worker, task, sentence, chunk>>
    BY <1>7, <2>2 DEF TipOlder
  <2>3. CASE WorkerGet
    <3>1. task' = task + 1
      BY <2>3, TakesNext
    <3>2. worker' = "stt" /\ chunk' = chunk /\ chunk = 0
      BY <1>2, <2>3 DEF WorkerGet
    <3>3. c.utt < task + 1 /\ c.utt <= task + 1
      BY <1>1, <1>7, <2>1, SMT DEF TipOlder
    <3> QED BY <3>1, <3>2, <3>3 DEF TipOlder
  <2>4. CASE Transcribe
    <3>1. /\ worker' = "llm" /\ task' = task /\ chunk' = chunk /\ chunk = 0
          /\ worker = "stt"
      BY <1>2, <2>4 DEF Transcribe
    <3>2. c.utt < task /\ c.utt # task /\ c.utt <= task
      BY <1>1, <1>7, <2>1, <3>1, SMT DEF TipOlder
    <3> QED BY <3>1, <3>2 DEF TipOlder
  <2>5. CASE Abandon \/ SentenceAfterCancel \/ ReplyEnds
    <3>1. worker' = "get" /\ task' = task /\ chunk' = chunk /\ chunk = 0
      BY <1>2, <2>5 DEF Abandon, SentenceAfterCancel, ReplyEnds
    <3> QED BY <1>7, <3>1 DEF TipOlder
  <2>6. ASSUME NEW n, NextSentence(n) PROVE TipOlder(c)'
    <3>1. /\ worker' \in {"llm", "put"} /\ task' = task /\ chunk' = chunk
          /\ chunk = 0 /\ sentence' = sentence + 1 /\ worker = "llm"
      BY <1>2, <2>6 DEF NextSentence
    <3>2. c.utt <= task /\ (c.utt = task => c.sentence <= sentence)
      BY <1>7, <3>1 DEF TipOlder
    <3>3. c.sentence <= sentence =>
             c.sentence <= sentence + 1 /\ c.sentence < sentence + 1
      BY <1>1, <2>1, SMT
    <3> QED BY <3>1, <3>2, <3>3 DEF TipOlder
  <2> QED BY <2>2, <2>3, <2>4, <2>5, <2>6
<1> QED BY <1>5, <1>6, <1>7

\* What one step puts into the relay's queue or takes out of it.
LEMMA QueueStep ==
    ASSUME Inv2, [Next]_vars
    PROVE  \/ /\ UNCHANGED <<outboundQueue, delivered, relay>>
              /\ \/ UNCHANGED <<worker, task, sentence, chunk>>
                 \/ WorkerGet \/ Transcribe \/ Abandon \/ SentenceAfterCancel
                 \/ ReplyEnds \/ \E n \in 0 .. MaxChunks : NextSentence(n)
           \/ PutChunk \/ WorkerStop \/ Relay
BY DEF Next, vars, Client, HalfClose, Cancel, PumpRecv, Pump, PumpStart, HandleControl,
   HandleAudio, FramesToBoundary, FramesUsedUp, PumpEnd, PumpRaises, PumpFinally,
   Worker, WorkerGet, Transcribe,
   Abandon, SentenceAfterCancel, ReplyEnds, NextSentence, pumpVars, workerVars, ghosts

\* Something put behind the newest chunk.
LEMMA PutBehind ==
    ASSUME Inv2, Ordered, worker # "done", NEW x \in Chunk \cup {SHUTDOWN},
           outboundQueue' = Append(outboundQueue, x),
           UNCHANGED <<delivered, relay>>,
           relay # "dropped" /\ x # SHUTDOWN =>
               IF Tip = <<>> THEN x.chunk = 1 ELSE Follows(Tip[1], x)
    PROVE  RepliesInOrder' /\ Tip' = <<x>>
<1>1. outboundQueue \in Seq(Chunk \cup {SHUTDOWN})
  BY DEF Inv2, Inv1, ThreadTypes
<1>2. /\ Len(outboundQueue) \in Nat
      /\ outboundQueue' # <<>>
      /\ Len(outboundQueue') = Len(outboundQueue) + 1
      /\ outboundQueue'[Len(outboundQueue) + 1] = x
      /\ \A k \in 1 .. Len(outboundQueue) : outboundQueue'[k] = outboundQueue[k]
      /\ \A k \in 1 .. Len(outboundQueue) + 1 :
            k \in 1 .. Len(outboundQueue) \/ k = Len(outboundQueue) + 1
  BY <1>1, Appended
<1>3. Tip' = <<x>>
  BY <1>2 DEF Tip
<1>4. ASSUME NEW k \in 1 .. Len(outboundQueue)
      PROVE  Before(k)' = Before(k)
  <2>1. k > 1 => k - 1 \in 1 .. Len(outboundQueue)
    BY <1>2, SMT
  <2> QED BY <1>2, <2>1 DEF Before
<1>5. ASSUME NEW m, m = Len(outboundQueue) + 1
      PROVE  Before(m)' = Tip
  <2>1. CASE outboundQueue = <<>>
    <3>1. Len(outboundQueue') = 1 /\ Len(outboundQueue) = 0
      BY <1>2, <2>1, EmptySeq
    <3>2. ~(m > 1)
      BY <1>5, <3>1, SMT
    <3> QED BY <1>5, <2>1, <3>2 DEF Before, Tip
  <2>2. CASE outboundQueue # <<>>
    <3>1. m > 1 /\ m - 1 = Len(outboundQueue)
          /\ Len(outboundQueue) \in 1 .. Len(outboundQueue)
      <4>1. Len(outboundQueue) # 0
        BY <1>1, <2>2, EmptySeq
      <4> QED BY <1>2, <1>5, <4>1, SMT
    <3>2. Before(m)' = <<outboundQueue'[m - 1]>>
      BY <3>1 DEF Before
    <3> QED BY <1>2, <2>2, <3>1, <3>2 DEF Tip
  <2> QED BY <2>1, <2>2
<1>6. ASSUME relay # "dropped", NEW k \in 1 .. Len(outboundQueue')
      PROVE  LET next == outboundQueue'[k] IN
             /\ next = SHUTDOWN => k = Len(outboundQueue')
             /\ next # SHUTDOWN =>
                  IF Before(k)' = <<>> THEN next.chunk = 1
                                       ELSE Follows(Before(k)'[1], next)
  <2>1. CASE k \in 1 .. Len(outboundQueue)
    <3>1. outboundQueue[k] # SHUTDOWN
      BY <2>1 DEF Inv2, PillLast
    <3>2. IF Before(k) = <<>> THEN outboundQueue[k].chunk = 1
                              ELSE Follows(Before(k)[1], outboundQueue[k])
      BY <1>6, <2>1, <3>1 DEF Ordered, RepliesInOrder
    <3> QED BY <1>2, <1>4, <2>1, <3>1, <3>2
  <2>2. CASE k = Len(outboundQueue) + 1
    BY <1>2, <1>5, <1>6, <2>2
  <2> QED BY <1>2, <1>6, <2>1, <2>2
<1>7. RepliesInOrder'
  BY <1>6 DEF RepliesInOrder, Follows
<1> QED BY <1>3, <1>7

LEMMA OrderedStep == Inv2 /\ Ordered /\ [Next]_vars => Ordered'
<1> SUFFICES ASSUME Inv2, Ordered, [Next]_vars PROVE Ordered'
  OBVIOUS
<1>0. /\ task \in Nat /\ sentence \in Nat /\ chunk \in Nat /\ chunks \in Nat
      /\ (worker # "put" => chunk = 0)
      /\ (worker = "put" => task >= 1 /\ sentence >= 1 /\ chunk < chunks)
  BY Numbers DEF Inv2, Inv1, Counts
<1>1. CASE /\ UNCHANGED <<outboundQueue, delivered, relay>>
           /\ \/ UNCHANGED <<worker, task, sentence, chunk>>
              \/ WorkerGet \/ Transcribe \/ Abandon \/ SentenceAfterCancel
              \/ ReplyEnds \/ \E n \in 0 .. MaxChunks : NextSentence(n)
  <2>1. TipBefore'
    BY <1>1, TipBeforeQuiet DEF Inv2, Ordered
  <2>2. RepliesInOrder'
    BY <1>1 DEF Ordered, RepliesInOrder, Before, Follows
  <2> QED BY <2>1, <2>2 DEF Ordered
<1>2. CASE PutChunk
  <2> DEFINE x == [utt |-> task, sentence |-> sentence, chunk |-> chunk + 1]
  <2>1. x \in Chunk /\ x.utt = task /\ x.sentence = sentence /\ x.chunk = chunk + 1
        /\ x # SHUTDOWN
    <3>1. task \in 1 .. MaxUtterances /\ sentence \in 1 .. MaxSentences
          /\ chunk + 1 \in 1 .. MaxChunks
      BY <1>0, <1>2, Constants, SMT DEF PutChunk, Inv2, Inv1, ThreadTypes
    <3>2. x.utt # SHUTDOWN.utt
      BY <3>1, SMT DEF SHUTDOWN
    <3> QED BY <3>1, <3>2 DEF Chunk, Utterance
  <2>2. /\ outboundQueue' = Append(outboundQueue, x) /\ worker = "put"
        /\ relay' = relay /\ delivered' = delivered
        /\ task' = task /\ sentence' = sentence
        /\ \/ worker' = "llm" /\ chunk' = 0
           \/ worker' = "put" /\ chunk' = chunk + 1
    BY <1>2 DEF PutChunk
  <2>3. ASSUME relay # "dropped"
        PROVE  IF Tip = <<>> THEN x.chunk = 1 ELSE Follows(Tip[1], x)
    <3>1. /\ Tip = <<>> => chunk = 0
          /\ Tip # <<>> => Tip[1] \in Chunk /\ TipOlder(Tip[1])
      BY <2>2, <2>3 DEF Ordered, TipBefore
    <3>2. ASSUME NEW c \in Chunk, TipOlder(c) PROVE Follows(c, x)
      <4>1. c.utt \in Nat /\ c.sentence \in Nat
        BY <3>2, Constants, SMT DEF Chunk, Utterance
      <4>2. CASE chunk = 0
        <5>1. x.chunk = 1
          BY <2>1, <4>2, SMT
        <5>2. /\ c.utt <= task
              /\ c.utt = task => c.sentence < sentence
          BY <2>2, <3>2, <4>2 DEF TipOlder
        <5>3. task > c.utt \/ (task = c.utt /\ sentence > c.sentence)
          BY <1>0, <4>1, <5>2, SMT
        <5> HIDE DEF x
        <5> QED BY <2>1, <5>1, <5>3 DEF Follows
      <4>3. CASE chunk # 0
        <5>1. chunk > 0
          BY <1>0, <4>3, SMT
        <5>2. c = [utt |-> task, sentence |-> sentence, chunk |-> chunk]
          BY <3>2, <5>1 DEF TipOlder
        <5>3. c.utt = task /\ c.sentence = sentence /\ c.chunk = chunk
          BY <5>2
        <5> HIDE DEF x
        <5> QED BY <2>1, <5>3 DEF Follows
      <4> QED BY <4>2, <4>3
    <3>3. Tip = <<>> => x.chunk = 1
      BY <2>1, <3>1, <1>0, SMT
    <3> QED BY <3>1, <3>2, <3>3
  <2>4. x \in Chunk \cup {SHUTDOWN} /\ worker # "done"
    BY <2>1, <2>2
  <2>5. ASSUME NEW c, c = x
        PROVE  TipOlder(c)'
    <3>1. chunk' > 0 => c = [utt |-> task', sentence |-> sentence', chunk |-> chunk']
      <4>1. CASE worker' = "llm" /\ chunk' = 0
        <5>1. ~(chunk' > 0)
          BY <4>1, SMT
        <5> QED BY <5>1
      <4>2. CASE chunk' = chunk + 1
        BY <2>2, <2>5, <4>2
      <4> QED BY <2>2, <4>1, <4>2
    <3>2. worker' = "put" => chunk' # 0
      <4>1. chunk + 1 # 0
        BY <1>0, SMT
      <4> QED BY <2>2, <4>1
    <3>3. task <= task /\ sentence <= sentence
      BY <1>0, SMT
    <3>4. worker' # "stt"
      BY <2>2
    <3> HIDE DEF x
    <3> QED BY <2>1, <2>2, <2>5, <3>1, <3>2, <3>3, <3>4 DEF TipOlder
  <2> HIDE DEF x
  <2>6. RepliesInOrder' /\ Tip' = <<x>>
    BY <2>2, <2>3, <2>4, PutBehind
  <2>7. PICK c : c = x
    OBVIOUS
  <2>8. c \in Chunk /\ TipOlder(c)' /\ Tip' = <<c>>
    BY <2>1, <2>5, <2>6, <2>7
  <2>9. Tip' # <<>> /\ Tip'[1] = c
    BY <2>8
  <2>10. TipBefore'
    BY <2>8, <2>9 DEF TipBefore, TipOlder
  <2> QED BY <2>6, <2>10 DEF Ordered
<1>3. CASE WorkerStop
  <2>1. /\ outboundQueue' = Append(outboundQueue, SHUTDOWN) /\ worker = "get"
        /\ worker' = "done" /\ UNCHANGED <<relay, delivered>>
    BY <1>3 DEF WorkerStop, ghosts
  <2>2. SHUTDOWN \in Chunk \cup {SHUTDOWN}
    OBVIOUS
  <2>3. RepliesInOrder'
    BY <2>1, <2>2, PutBehind
  <2>4. TipBefore'
    BY <2>1 DEF TipBefore
  <2> QED BY <2>3, <2>4 DEF Ordered
<1>4. CASE Relay
  <2>1. /\ relay = "get" /\ outboundQueue # <<>> /\ outboundQueue' = Tail(outboundQueue)
        /\ UNCHANGED <<worker, task, sentence, chunk>>
    BY <1>4 DEF Relay, RelayYield, RelayDropped, RelayExit, workerVars
  <2>2. /\ Len(outboundQueue) \in Nat \ {0}
        /\ Len(outboundQueue') = Len(outboundQueue) - 1
        /\ 1 \in 1 .. Len(outboundQueue)
        /\ Head(outboundQueue) = outboundQueue[1]
        /\ outboundQueue' \in Seq(Chunk \cup {SHUTDOWN})
        /\ \A i \in 1 .. Len(outboundQueue') :
              outboundQueue'[i] = outboundQueue[i + 1] /\ i + 1 \in 1 .. Len(outboundQueue)
    BY <2>1, Tailed DEF Inv2, Inv1, ThreadTypes
  <2>3. CASE RelayDropped
    BY <2>3 DEF RelayDropped, Ordered, TipBefore, RepliesInOrder
  <2>4. CASE RelayExit
    <3>1. relay' = "exited" /\ worker = "done" /\ Len(outboundQueue) = 1
      <4>1. outboundQueue[1] = SHUTDOWN
        BY <2>2, <2>4 DEF RelayExit, RelayGets
      <4> QED BY <2>2, <2>4, <4>1 DEF RelayExit, Inv2, PillLast
    <3>2. Len(outboundQueue') = 0 /\ 1 .. 0 = {}
      BY <2>2, <3>1, SMT
    <3> QED BY <2>1, <3>1, <3>2 DEF Ordered, TipBefore, RepliesInOrder
  <2>5. CASE RelayYield
    <3>1. delivered' = <<outboundQueue[1]>> /\ relay' = relay /\ relay = "get"
      BY <2>2, <2>5 DEF RelayYield, RelayGets
    <3>2. Tip' = Tip
      <4>1. CASE outboundQueue' = <<>>
        <5>1. Len(outboundQueue) = 1
          <6>1. Len(outboundQueue') = 0
            BY <4>1, EmptySeq
          <6>2. Len(outboundQueue') = Len(outboundQueue) - 1 /\ Len(outboundQueue) \in Nat
            BY <2>2
          <6> QED BY <6>1, <6>2, SMT
        <5> QED BY <2>1, <3>1, <4>1, <5>1 DEF Tip
      <4>2. CASE outboundQueue' # <<>>
        <5>1. Len(outboundQueue') \in Nat \ {0}
          BY <2>2, <4>2, EmptySeq, SMT
        <5>2. Len(outboundQueue') \in 1 .. Len(outboundQueue')
              /\ Len(outboundQueue') + 1 = Len(outboundQueue)
          BY <2>2, <5>1, SMT
        <5> QED BY <2>1, <2>2, <4>2, <5>2 DEF Tip
      <4> QED BY <4>1, <4>2
    <3>3. TipBefore'
      BY <2>1, <3>1, <3>2 DEF Ordered, TipBefore, TipOlder
    <3>4. ASSUME NEW k \in 1 .. Len(outboundQueue')
          PROVE  Before(k)' = Before(k + 1)
      <4>1. k \in Nat /\ k + 1 > 1 /\ k + 1 - 1 = k
        BY <2>2, SMT
      <4>2. CASE k > 1
        <5>1. k - 1 \in 1 .. Len(outboundQueue') /\ k - 1 + 1 = k
          BY <2>2, <4>2, SMT
        <5> QED BY <2>2, <4>1, <4>2, <5>1 DEF Before
      <4>3. CASE ~(k > 1)
        <5>1. k = 1
          BY <4>1, <4>3, SMT
        <5> QED BY <3>1, <4>1, <4>3, <5>1 DEF Before
      <4> QED BY <4>2, <4>3
    <3>5. ASSUME NEW k \in 1 .. Len(outboundQueue')
          PROVE  LET next == outboundQueue'[k] IN
                 /\ next = SHUTDOWN => k = Len(outboundQueue')
                 /\ next # SHUTDOWN =>
                      IF Before(k)' = <<>> THEN next.chunk = 1
                                           ELSE Follows(Before(k)'[1], next)
      <4>1. k + 1 = Len(outboundQueue) => k = Len(outboundQueue')
        BY <2>2, SMT
      <4>2. LET next == outboundQueue[k + 1] IN
            /\ next = SHUTDOWN => k + 1 = Len(outboundQueue)
            /\ next # SHUTDOWN =>
                 IF Before(k + 1) = <<>> THEN next.chunk = 1
                                         ELSE Follows(Before(k + 1)[1], next)
        BY <2>2, <3>1 DEF Ordered, RepliesInOrder
      <4> QED BY <2>2, <3>4, <4>1, <4>2
    <3>6. RepliesInOrder'
      BY <3>5 DEF RepliesInOrder, Follows
    <3> QED BY <3>3, <3>6 DEF Ordered
  <2> QED BY <1>4, <2>3, <2>4, <2>5 DEF Relay
<1> QED BY <1>1, <1>2, <1>3, <1>4, QueueStep

\* Two replies are never garbled together, whatever the number of utterances,
\* sentences and chunks: what the caller hears next always follows what he
\* heard last.
THEOREM RepliesKeepOrder == Spec => []RepliesInOrder
<1>1. Init => Ordered
  <2> SUFFICES ASSUME Init PROVE Ordered
    OBVIOUS
  <2>1. Len(<<>>) = 0 /\ 1 .. 0 = {}
    BY EmptySeq, SMT
  <2> QED BY <2>1 DEF Init, Ordered, TipBefore, Tip, RepliesInOrder
<1>2. Inv1 /\ PillLast <=> Inv2
  BY DEF Inv2
<1>3. Ordered => RepliesInOrder
  BY DEF Ordered
<1> QED
  BY <1>1, <1>2, <1>3, Inv1Init, Inv1Step, PillLastInit, PillLastStep, OrderedStep,
     PTL DEF Spec

---------------------------------------------------------------------------
(* The context of a reply. *)

\* What was answered is older than the utterance in hand, the history is the
\* end of it in pairs, and the reply in progress was given just that.
Remembers ==
    /\ \A k \in 1 .. Len(completed) :
          /\ completed[k] <= task
          /\ worker \in {"stt", "llm", "put"} => completed[k] < task
    /\ IsEndOf(conversationHistory, PairsOf(completed))
    /\ reply # NoReply =>
          /\ worker \in {"llm", "put"} /\ reply.utt = task
          /\ reply.prompt >= dispatched[task]
          /\ reply.history = conversationHistory

LEMMA Pairs ==
    ASSUME NEW s \in Seq(Nat)
    PROVE  /\ Len(s) \in Nat /\ Len(PairsOf(s)) = 2 * Len(s)
           /\ \A k \in 1 .. 2 * Len(s) : PairsOf(s)[k] =
                 [role |-> IF k % 2 = 1 THEN "user" ELSE "assistant",
                  utt |-> s[(k + 1) \div 2]]
<1>1. Len(s) \in Nat
  BY LenProperties
<1>2. 2 * Len(s) \in Nat
  BY <1>1, SMT
<1>3. Len(PairsOf(s)) = 2 * Len(s)
  <2> DEFINE n == 2 * Len(s)
             at(k) == [role |-> IF k % 2 = 1 THEN "user" ELSE "assistant",
                       utt |-> s[(k + 1) \div 2]]
  <2>1. PairsOf(s) = [k \in 1 .. n |-> at(k)] /\ n \in Nat
    BY <1>2 DEF PairsOf
  <2> HIDE DEF n, at
  <2>2. DOMAIN PairsOf(s) = 1 .. n /\ PairsOf(s) \in Seq({at(k) : k \in 1 .. n})
    <3> DEFINE S == {at(k) : k \in 1 .. n}
    <3>1. PairsOf(s) \in [1 .. n -> S] /\ DOMAIN PairsOf(s) = 1 .. n
      BY <2>1
    <3> HIDE DEF S
    <3>2. [1 .. n -> S] \in {[1 .. m -> S] : m \in Nat}
      BY <2>1
    <3>3. PairsOf(s) \in Seq(S)
      BY <3>1, <3>2, SeqDef
    <3> QED BY <3>1, <3>3 DEF S
  <2> QED BY <2>1, <2>2, LenProperties, SMT DEF n
<1> QED BY <1>1, <1>3 DEF PairsOf

\* An answered utterance is one pair more in what is remembered.
LEMMA OnePairMore ==
    ASSUME NEW s \in Seq(Nat), NEW u \in Nat, NEW h \in Seq(Entry),
           IsEndOf(h, PairsOf(s))
    PROVE  IsEndOf(WithPair(h, u), PairsOf(Append(s, u)))
<1> DEFINE P == PairsOf(s)
           Q == PairsOf(Append(s, u))
           n == Len(s)
<1>0. PICK g : g = WithPair(h, u)
  OBVIOUS
<1>01. EndsInPair(g, h, u)
  BY <1>0, Remembered
<1>1. /\ g \in Seq(Entry) /\ Len(h) \in Nat /\ Len(g) \in Nat
      /\ Len(g) = IF Len(h) + 2 < HistoryMax THEN Len(h) + 2 ELSE HistoryMax
      /\ \A k \in 1 .. Len(g) :
            LET at == Len(h) + 2 - Len(g) + k
            IN  g[k] = IF at <= Len(h) THEN h[at]
                       ELSE IF at = Len(h) + 1 THEN UserEntry(u) ELSE AssistantEntry(u)
  BY <1>01 DEF EndsInPair
<1>2. /\ Append(s, u) \in Seq(Nat) /\ Len(Append(s, u)) = n + 1
      /\ Append(s, u)[n + 1] = u
      /\ \A i \in 1 .. n : Append(s, u)[i] = s[i]
  BY Appended
<1>3. /\ n \in Nat /\ Len(P) = 2 * n
      /\ \A k \in 1 .. 2 * n : P[k] =
            [role |-> IF k % 2 = 1 THEN "user" ELSE "assistant",
             utt |-> s[(k + 1) \div 2]]
  BY Pairs
<1>4. /\ Len(Q) = 2 * (n + 1)
      /\ \A k \in 1 .. 2 * (n + 1) : Q[k] =
            [role |-> IF k % 2 = 1 THEN "user" ELSE "assistant",
             utt |-> Append(s, u)[(k + 1) \div 2]]
  BY <1>2, Pairs
<1>5. /\ Len(h) = IF 2 * n < HistoryMax THEN 2 * n ELSE HistoryMax
      /\ \A k \in 1 .. Len(h) : h[k] = P[2 * n - Len(h) + k]
  BY <1>3 DEF IsEndOf
<1> HIDE DEF P, Q, n
<1>6. \A k \in 1 .. 2 * n : Q[k] = P[k]
  <2> SUFFICES ASSUME NEW k \in 1 .. 2 * n PROVE Q[k] = P[k]
    OBVIOUS
  <2>1. k \in 1 .. 2 * (n + 1) /\ (k + 1) \div 2 \in 1 .. n
    BY <1>3, SMT
  <2> QED BY <1>2, <1>3, <1>4, <2>1
<1>7. Q[2 * n + 1] = UserEntry(u) /\ Q[2 * n + 2] = AssistantEntry(u)
  <2>1. /\ 2 * n + 1 \in 1 .. 2 * (n + 1) /\ 2 * n + 2 \in 1 .. 2 * (n + 1)
        /\ (2 * n + 1) % 2 = 1 /\ (2 * n + 2) % 2 # 1
        /\ (2 * n + 1 + 1) \div 2 = n + 1 /\ (2 * n + 2 + 1) \div 2 = n + 1
    <3>1. n \in Nat
      BY <1>3
    <3>2. 2 * n + 1 \in 1 .. 2 * (n + 1) /\ 2 * n + 2 \in 1 .. 2 * (n + 1)
      BY <3>1, SMT
    <3>3. (2 * n + 1) % 2 = 1 /\ (2 * n + 2) % 2 # 1
      BY <3>1, SMT
    <3>4. (2 * n + 1 + 1) \div 2 = n + 1 /\ (2 * n + 2 + 1) \div 2 = n + 1
      BY <3>1, SMT
    <3> QED BY <3>2, <3>3, <3>4
  <2> QED BY <1>2, <1>4, <2>1 DEF UserEntry, AssistantEntry
<1>8. Len(g) = IF Len(Q) < HistoryMax THEN Len(Q) ELSE HistoryMax
  BY <1>1, <1>3, <1>4, <1>5, Constants, SMT
<1>9. ASSUME NEW k \in 1 .. Len(g)
      PROVE  g[k] = Q[Len(Q) - Len(g) + k]
  <2> DEFINE at == Len(h) + 2 - Len(g) + k
  <2>0. Len(h) \in Nat /\ Len(g) \in Nat /\ n \in Nat
    BY <1>1, <1>3
  <2>1. k \in Nat /\ k >= 1 /\ k <= Len(g)
    BY <2>0, SMT
  <2>2. /\ at \in Int /\ at >= 1 /\ at <= Len(h) + 2
        /\ Len(Q) - Len(g) + k = 2 * n - Len(h) + at
        /\ Len(h) <= 2 * n
    BY <1>1, <1>3, <1>4, <1>5, <2>1, Constants, SMT
  <2>3. g[k] = IF at <= Len(h) THEN h[at]
               ELSE IF at = Len(h) + 1 THEN UserEntry(u) ELSE AssistantEntry(u)
    BY <1>1
  <2> HIDE DEF at
  <2>4. CASE at <= Len(h)
    <3>1. at \in 1 .. Len(h) /\ 2 * n - Len(h) + at \in 1 .. 2 * n
      <4>1. at \in Int /\ at >= 1 /\ Len(h) <= 2 * n
        BY <2>2
      <4> QED BY <2>0, <2>4, <4>1, SMT
    <3> QED BY <1>5, <1>6, <2>2, <2>3, <2>4, <3>1
  <2>5. CASE at = Len(h) + 1
    <3>1. ~(at <= Len(h)) /\ 2 * n - Len(h) + at = 2 * n + 1
      BY <2>0, <2>5, SMT
    <3> QED BY <1>7, <2>2, <2>3, <2>5, <3>1
  <2>6. CASE at = Len(h) + 2
    <3>1. ~(at <= Len(h)) /\ at # Len(h) + 1 /\ 2 * n - Len(h) + at = 2 * n + 2
      BY <2>0, <2>6, SMT
    <3> QED BY <1>7, <2>2, <2>3, <3>1
  <2>7. at <= Len(h) \/ at = Len(h) + 1 \/ at = Len(h) + 2
    <3>1. at \in Int /\ at <= Len(h) + 2
      BY <2>2
    <3> QED BY <2>0, <3>1, SMT
  <2> QED BY <2>4, <2>5, <2>6, <2>7
<1> QED BY <1>0, <1>8, <1>9 DEF IsEndOf, Q

LEMMA RemembersStep == Inv1 /\ Remembers /\ [Next]_vars => Remembers'
<1> SUFFICES ASSUME Inv1, Remembers, [Next]_vars PROVE Remembers'
  OBVIOUS
<1>0. /\ task \in Nat /\ Len(dispatched) \in Nat /\ task <= Len(dispatched)
      /\ completed \in Seq(Nat) /\ completed \in Seq(Utterance)
      /\ conversationHistory \in Seq(Entry)
      /\ worker \in {"stt", "llm", "put"} => task >= 1
  <2>1. \A q \in Seq(Utterance) : q \in Seq(Nat)
    <3>1. Utterance \subseteq Nat
      BY Constants, SMT DEF Utterance
    <3> QED BY <3>1, SeqMonotonic
  <2> QED BY <2>1, Numbers DEF Inv1, ThreadTypes, Counts
<1>00. \A k \in 1 .. Len(completed) : completed[k] \in Nat
  BY <1>0, ElementOfSeq
<1>1. ASSUME UNCHANGED <<conversationHistory, completed, task, worker, reply>>,
             worker \in {"llm", "put"} => dispatched'[task] = dispatched[task]
      PROVE  Remembers'
  BY <1>1 DEF Remembers, IsEndOf
<1>2. ASSUME NEW prompt, Dispatch(prompt),
             UNCHANGED <<conversationHistory, completed, task, worker, reply>>,
             MoreUtterances, prompt \in 0 .. MaxProfiles
      PROVE  Remembers'
  <2>1. \A k \in 1 .. Len(dispatched) : dispatched'[k] = dispatched[k]
    BY <1>2, Dispatches
  <2>2. worker \in {"llm", "put"} => task \in 1 .. Len(dispatched)
    BY <1>0, SMT
  <2> QED BY <1>1, <1>2, <2>1, <2>2
<1>3. CASE HandleControl
  <2>1. /\ UNCHANGED <<conversationHistory, completed, task, worker, reply>>
        /\ \/ Dispatch(systemPrompt') /\ event.type = "END_OF_UTTERANCE"
           \/ UNCHANGED dispatched
    BY <1>3 DEF HandleControl, workerVars
  <2>2. /\ systemPrompt' \in 0 .. MaxProfiles
        /\ event.type = "END_OF_UTTERANCE" => MoreUtterances
    BY <1>3, Controls
  <2> QED BY <1>1, <1>2, <2>1, <2>2
<1>4. CASE HandleAudio
  <2>1. /\ UNCHANGED <<conversationHistory, completed, task, worker, reply>>
        /\ \/ Dispatch(systemPrompt) /\ MoreUtterances
           \/ UNCHANGED dispatched
    BY <1>4 DEF HandleAudio, FramesToBoundary, FramesUsedUp, workerVars, ghosts
  <2>2. systemPrompt \in 0 .. MaxProfiles
    BY DEF Inv1, ThreadTypes
  <2> QED BY <1>1, <1>2, <2>1, <2>2
<1>5. CASE Client \/ PumpStart \/ PumpEnd \/ PumpRaises \/ Relay \/ UNCHANGED vars
  BY <1>1, <1>5 DEF Client, HalfClose, Cancel, PumpRecv, PumpStart, PumpEnd,
     PumpRaises, PumpFinally, Relay, RelayYield, RelayDropped, RelayExit, workerVars,
     ghosts, vars
<1>6. ASSUME UNCHANGED <<conversationHistory, completed, task, dispatched>>,
             worker' \in {"get", "done", "llm", "put"},
             worker' \in {"llm", "put"} => worker \in {"llm", "put"},
             reply' = NoReply
               \/ (reply' = reply /\ worker' \in {"llm", "put"})
               \/ (reply' = reply /\ worker \in {"get", "done"})
      PROVE  Remembers'
  BY <1>6 DEF Remembers, IsEndOf
<1>7. CASE WorkerStop \/ Abandon \/ SentenceAfterCancel
  BY <1>6, <1>7 DEF WorkerStop, Abandon, SentenceAfterCancel, ghosts
<1>8. CASE PutChunk
  BY <1>6, <1>8 DEF PutChunk
<1>9. ASSUME NEW n \in 0 .. MaxChunks, NextSentence(n)
      PROVE  Remembers'
  BY <1>6, <1>9 DEF NextSentence, ghosts
<1>10. CASE WorkerGet
  <2>1. /\ UNCHANGED <<conversationHistory, completed, reply, dispatched>>
        /\ worker = "get"
    BY <1>10 DEF WorkerGet, ghosts
  <2>2. task' = task + 1
    BY <1>10, TakesNext
  <2>3. \A k \in 1 .. Len(completed) : completed[k] <= task + 1 /\ completed[k] < task + 1
    BY <1>0, <1>00, SMT DEF Remembers
  <2>4. reply = NoReply
    BY <2>1 DEF Remembers
  <2> QED BY <2>1, <2>2, <2>3, <2>4 DEF Remembers, IsEndOf
<1>11. CASE Transcribe
  <2>1. /\ UNCHANGED <<conversationHistory, completed, task, dispatched>>
        /\ worker = "stt" /\ worker' = "llm"
        /\ reply' = [utt |-> task, prompt |-> systemPrompt,
                     history |-> conversationHistory]
    BY <1>11 DEF Transcribe
  <2>2. systemPrompt >= dispatched[task]
    <3>1. task \in 1 .. Len(dispatched)
      BY <1>0, <2>1, SMT
    <3>2. dispatched[task] <= systemPrompt
      BY <3>1 DEF Inv1, Counts
    <3> QED BY <3>2
  <2> QED BY <2>1, <2>2 DEF Remembers, IsEndOf
<1>12. CASE ReplyEnds
  <2>1. worker = "llm" /\ worker' = "get" /\ task' = task /\ reply' = NoReply
    BY <1>12 DEF ReplyEnds
  <2>2. CASE sentence = 0
    <3>1. UNCHANGED <<conversationHistory, completed>>
      BY <1>12, <2>2 DEF ReplyEnds
    <3> QED BY <2>1, <3>1 DEF Remembers, IsEndOf
  <2>3. CASE sentence # 0
    <3>1. /\ conversationHistory' = WithPair(conversationHistory, task)
          /\ completed' = Append(completed, task)
      BY <1>12, <2>3 DEF ReplyEnds, WithPair, UserEntry, AssistantEntry, EndsInPair
    <3>2. IsEndOf(conversationHistory', PairsOf(completed'))
      <4>1. IsEndOf(conversationHistory, PairsOf(completed))
        BY DEF Remembers
      <4> QED BY <1>0, <3>1, <4>1, OnePairMore
    <3>3. \A k \in 1 .. Len(completed') : completed'[k] <= task
      <4>1. /\ Len(completed') = Len(completed) + 1
            /\ completed'[Len(completed) + 1] = task
            /\ \A i \in 1 .. Len(completed) : completed'[i] = completed[i]
            /\ \A i \in 1 .. Len(completed) + 1 :
                  i \in 1 .. Len(completed) \/ i = Len(completed) + 1
        BY <1>0, <3>1, Appended
      <4>2. task <= task
        BY <1>0, SMT
      <4> QED BY <4>1, <4>2 DEF Remembers
    <3> QED BY <2>1, <3>2, <3>3 DEF Remembers, IsEndOf, PairsOf
  <2> QED BY <2>2, <2>3
<1> QED BY <1>3, <1>4, <1>5, <1>7, <1>8, <1>9, <1>10, <1>11, <1>12
        DEF Next, Pump, Worker

\* Every reply is generated with the whole of the remembered conversation,
\* whatever was abandoned in between and whatever is still queued.
THEOREM ContextIsComplete == Spec => []ContextComplete
<1>1. Init => Remembers
  <2> SUFFICES ASSUME Init PROVE Remembers
    OBVIOUS
  <2>1. completed = <<>> /\ conversationHistory = <<>> /\ reply = NoReply
    BY DEF Init
  <2>2. <<>> \in Seq(Nat) /\ Len(<<>>) = 0
    BY EmptySeq
  <2>3. Len(PairsOf(<<>>)) = 0
    <3>1. Len(PairsOf(<<>>)) = 2 * Len(<<>>)
      BY <2>2, Pairs
    <3> QED BY <2>2, <3>1, SMT
  <2>4. 1 .. 0 = {} /\ (IF 0 < HistoryMax THEN 0 ELSE HistoryMax) = 0
    BY Constants, SMT
  <2> QED BY <2>1, <2>2, <2>3, <2>4 DEF Remembers, IsEndOf
<1>2. Inv1 /\ Remembers => ContextComplete
  BY DEF Remembers, ContextComplete
<1> QED BY <1>1, <1>2, Inv1Init, Inv1Step, RemembersStep, PTL DEF Spec
=============================================================================
