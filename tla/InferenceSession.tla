-------------------------- MODULE InferenceSession --------------------------
(***************************************************************************)
(* One StreamEvents call of the inference engine (main.py): the read pump  *)
(* thread, the utterance worker thread and the generator that relays to    *)
(* gRPC, joined by two unbounded queues that a poison pill closes one      *)
(* after the other: _UTTERANCE_STOP in utterance_queue, _SHUTDOWN in       *)
(* outbound_queue.                                                         *)
(*                                                                         *)
(* An utterance is the number of its dispatch, an audio chunk is           *)
(* [utt, sentence, chunk], a history entry [role, utt], and a system       *)
(* prompt the number of profiles received so far (0: None).  Preprocessor  *)
(* and VAD are what the pump sees of them: whether an utterance is open    *)
(* with audio in its buffer, and that a boundary never finds the buffer    *)
(* empty (OnlyOpenUtterances of VADDetector).  STT, LLM and TTS return or  *)
(* raise, with any answer; a model that hangs is not in this model.        *)
(***************************************************************************)
EXTENDS Integers, Sequences, FiniteSets

CONSTANTS
    VADLoads,       \* whether VADDetector(VAD_MODEL_PATH) succeeds
    HistoryMax,     \* entries of conversation_history kept (12)
    MaxProfiles,    \* bound: system prompts the client sends
    MaxUtterances,  \* bound: utterances of the call
    MaxSentences,   \* bound: sentences of one reply
    MaxChunks       \* bound: audio chunks of one sentence

ASSUME InferenceAssumption ==
    /\ VADLoads \in BOOLEAN
    /\ HistoryMax \in Nat \ {0}
    /\ MaxProfiles \in Nat /\ MaxUtterances \in Nat
    /\ MaxSentences \in Nat /\ MaxChunks \in Nat

VARIABLES
    rpc,                 \* what grpc_context.is_active() is computed from
    inbound,             \* whether the client may still send
    pump, event,         \* _read_pump and the event it handles
    buffered,            \* whether the VAD holds utterance frames
    systemPrompt,
    utteranceQueue, outboundQueue,
    worker, task, sentence, chunk, chunks,   \* _utterance_worker
    conversationHistory,
    relay,               \* the generator StreamEvents
    dispatched,          \* history: prompt in force at each dispatch
    reply,               \* history: what the LLM call in progress was given
    completed,           \* history: utterances recorded as answered, in order
    delivered,           \* history: the chunk yielded to gRPC last, if any
    afterCancel          \* history: sentences with a chunk put after a cancel

pumpVars == <<pump, event, buffered, systemPrompt>>
workerVars == <<worker, task, sentence, chunk, chunks, conversationHistory>>
ghosts == <<dispatched, reply, completed, delivered, afterCancel>>
vars == <<rpc, inbound, pumpVars, utteranceQueue, outboundQueue,
          workerVars, relay, ghosts>>

STOP == 0                                        \* _UTTERANCE_STOP
SHUTDOWN == [utt |-> 0, sentence |-> 0, chunk |-> 0]   \* _SHUTDOWN

\* A control is told apart by whether it is END_OF_UTTERANCE and whether it
\* brings a system prompt; audio by nothing the pump can see beforehand.
Control == [type : {"END_OF_UTTERANCE", "OTHER"}, profile : BOOLEAN]
Audio == [type |-> "audio", profile |-> FALSE]
Event == Control \cup {Audio}
Utterance == 1 .. MaxUtterances
Chunk == [utt : Utterance, sentence : 1 .. MaxSentences, chunk : 1 .. MaxChunks]

NoReply == [utt |-> 0, prompt |-> 0, history |-> <<>>]

IsActive == rpc = "active"

Init ==
    /\ rpc = "active" /\ inbound = "open"
    /\ pump = "starting" /\ event = Audio
    /\ buffered = FALSE /\ systemPrompt = 0
    /\ utteranceQueue = <<>> /\ outboundQueue = <<>>
    /\ worker = "get" /\ task = 0 /\ sentence = 0 /\ chunk = 0 /\ chunks = 0
    /\ conversationHistory = <<>>
    /\ relay = "get"
    /\ dispatched = <<>> /\ reply = NoReply /\ completed = <<>>
    /\ delivered = <<>> /\ afterCancel = {}

---------------------------------------------------------------------------
(* The client and the gRPC runtime. *)

HalfClose ==
    /\ inbound = "open"
    /\ inbound' = "closed"
    /\ UNCHANGED <<rpc, pumpVars, utteranceQueue, outboundQueue,
                   workerVars, relay, ghosts>>

\* The client cancels, disconnects, or the server's grace period runs out.
Cancel ==
    /\ IsActive
    /\ rpc' = "cancelled" /\ inbound' = "closed"
    /\ UNCHANGED <<pumpVars, utteranceQueue, outboundQueue,
                   workerVars, relay, ghosts>>

---------------------------------------------------------------------------
(* _read_pump. *)

\* The VAD is constructed outside the try whose finally closes the queue: when
\* that raises, the thread ends with nothing queued.
PumpStart ==
    /\ pump = "starting"
    /\ pump' = IF VADLoads THEN "recv" ELSE "dead"
    /\ UNCHANGED <<rpc, inbound, event, buffered, systemPrompt,
                   utteranceQueue, outboundQueue, workerVars, relay, ghosts>>

MoreUtterances == Len(dispatched) < MaxUtterances

\* Any number of events, but no more profiles and boundaries than the bounds.
PumpRecv(e) ==
    /\ pump = "recv" /\ inbound = "open"
    /\ e.type = "END_OF_UTTERANCE" => MoreUtterances
    /\ e.profile => systemPrompt < MaxProfiles
    /\ pump' = "handling" /\ event' = e
    /\ UNCHANGED <<rpc, inbound, buffered, systemPrompt,
                   utteranceQueue, outboundQueue, workerVars, relay, ghosts>>

\* _dispatch_utterance with a nonempty buffer.
DispatchFirst(prompt) ==
    /\ utteranceQueue' = <<Len(dispatched) + 1>> \o utteranceQueue
    /\ dispatched' = Append(dispatched, prompt)
Dispatch(prompt) ==
    /\ utteranceQueue' = Append(utteranceQueue, Len(dispatched) + 1)
    /\ dispatched' = Append(dispatched, prompt)

\* Any control may carry a profile; of the types only END_OF_UTTERANCE does
\* anything more.
HandleControl ==
    /\ pump = "handling" /\ event \in Control
    /\ systemPrompt' = IF event.profile THEN systemPrompt + 1 ELSE systemPrompt
    /\ IF event.type = "END_OF_UTTERANCE" /\ buffered
       THEN Dispatch(systemPrompt') /\ buffered' = FALSE
       ELSE UNCHANGED <<utteranceQueue, dispatched, buffered>>
    /\ pump' = "recv" /\ event' = Audio
    /\ UNCHANGED <<rpc, inbound, outboundQueue, workerVars, relay,
                   reply, completed, delivered, afterCancel>>

\* The loop over the frames of one audio event, which may hold any number of
\* boundaries: each takes the VAD's buffer, which the frames up to it filled,
\* to the queue, and the frames behind the last one may open the buffer again.
\* The worker runs between any two frames.
FramesToBoundary ==
    /\ pump = "handling" /\ event = Audio /\ MoreUtterances
    /\ Dispatch(systemPrompt) /\ buffered' = FALSE
    /\ UNCHANGED <<rpc, inbound, pump, event, systemPrompt,
                   outboundQueue, workerVars, relay, reply, completed,
                   delivered, afterCancel>>

FramesUsedUp ==
    /\ pump = "handling" /\ event = Audio
    /\ pump' = "recv" /\ buffered' \in {buffered, TRUE}
    /\ UNCHANGED <<rpc, inbound, event, systemPrompt, utteranceQueue,
                   outboundQueue, workerVars, relay, ghosts>>

HandleAudio == FramesToBoundary \/ FramesUsedUp

\* The finally of _read_pump.
ClosesOutboundToo ==
    /\ pump' = "dead"
    /\ utteranceQueue' = Append(utteranceQueue, STOP)
    /\ outboundQueue' = Append(outboundQueue, SHUTDOWN)
ClosesUnlessCancelled ==
    /\ pump' = "dead"
    /\ utteranceQueue' = IF IsActive THEN Append(utteranceQueue, STOP)
                                     ELSE utteranceQueue
    /\ UNCHANGED outboundQueue
PumpFinally ==
    /\ pump' = "dead"
    /\ utteranceQueue' = Append(utteranceQueue, STOP)
    /\ UNCHANGED outboundQueue

\* The request iterator ends, or raises RpcError once the call is cancelled.
PumpEnd ==
    /\ pump = "recv" /\ inbound = "closed"
    /\ PumpFinally
    /\ UNCHANGED <<rpc, inbound, event, buffered,
                   systemPrompt, workerVars, relay, ghosts>>

\* Anything else a handler raises (an odd number of bytes, a failing ONNX run)
\* passes the except clause by and kills the thread after its finally, with
\* the frames of the event that are left.
PumpRaises ==
    /\ pump = "handling"
    /\ PumpFinally
    /\ event' = Audio
    /\ UNCHANGED <<rpc, inbound, buffered, systemPrompt, workerVars,
                   relay, ghosts>>

---------------------------------------------------------------------------
(* _utterance_worker and _run_utterance. *)

WorkerGet ==
    /\ worker = "get" /\ utteranceQueue # <<>> /\ Head(utteranceQueue) # STOP
    /\ task' = Head(utteranceQueue)
    /\ utteranceQueue' = Tail(utteranceQueue)
    /\ worker' = "stt"
    /\ UNCHANGED <<rpc, inbound, pumpVars, outboundQueue, sentence,
                   chunk, chunks, conversationHistory, relay, ghosts>>

WorkerStop ==
    /\ worker = "get" /\ utteranceQueue # <<>> /\ Head(utteranceQueue) = STOP
    /\ utteranceQueue' = Tail(utteranceQueue)
    /\ outboundQueue' = Append(outboundQueue, SHUTDOWN)
    /\ worker' = "done"
    /\ UNCHANGED <<rpc, inbound, pumpVars, task, sentence, chunk,
                   chunks, conversationHistory, relay, ghosts>>

\* transcribe returned text, and generate_stream is called with the prompt and
\* the history of that moment.
Transcribe ==
    /\ worker = "stt"
    /\ worker' = "llm"
    /\ reply' = [utt |-> task, prompt |-> systemPrompt,
                 history |-> conversationHistory]
    /\ UNCHANGED <<rpc, inbound, pumpVars, utteranceQueue,
                   outboundQueue, task, sentence, chunk, chunks,
                   conversationHistory, relay, dispatched, completed,
                   delivered, afterCancel>>

AbandonKillsWorker ==
    /\ worker \in {"stt", "llm"}
    /\ worker' = "done"
    /\ UNCHANGED <<rpc, inbound, pumpVars, utteranceQueue,
                   outboundQueue, task, sentence, chunk, chunks,
                   conversationHistory, relay, ghosts>>
\* Empty transcription, or STT, LLM, TTS or the WAV conversion raised: the
\* worker swallows it and goes back to the queue with nothing recorded.
Abandon ==
    /\ worker \in {"stt", "llm"}
    /\ worker' = "get" /\ sentence' = 0 /\ reply' = NoReply
    /\ UNCHANGED <<rpc, inbound, pumpVars, utteranceQueue,
                   outboundQueue, task, chunk, chunks, conversationHistory,
                   relay, dispatched, completed, delivered, afterCancel>>

\* The is_active test that generate_stream's next sentence meets.
NeverChecked == TRUE
SessionStillOn == IsActive

\* The next sentence, synthesized into n chunks; none when TTS returned no
\* bytes.
NextSentence(n) ==
    /\ worker = "llm" /\ sentence < MaxSentences
    /\ SessionStillOn
    /\ sentence' = sentence + 1
    /\ chunks' = n
    /\ worker' = IF n = 0 THEN "llm" ELSE "put"
    /\ UNCHANGED <<rpc, inbound, pumpVars, utteranceQueue,
                   outboundQueue, task, chunk, conversationHistory, relay,
                   ghosts>>

SentenceAfterCancel ==
    /\ worker = "llm" /\ sentence < MaxSentences
    /\ ~SessionStillOn
    /\ worker' = "get" /\ sentence' = 0 /\ reply' = NoReply
    /\ UNCHANGED <<rpc, inbound, pumpVars, utteranceQueue,
                   outboundQueue, task, chunk, chunks, conversationHistory,
                   relay, dispatched, completed, delivered, afterCancel>>

PutChunkOneTooMany ==
    /\ worker = "put"
    /\ outboundQueue' = Append(outboundQueue,
           [utt |-> task, sentence |-> sentence, chunk |-> chunk + 1])
    /\ IF chunk = chunks
       THEN worker' = "llm" /\ chunk' = 0 /\ chunks' = 0
       ELSE chunk' = chunk + 1 /\ UNCHANGED <<worker, chunks>>
    /\ UNCHANGED <<rpc, inbound, pumpVars, utteranceQueue, task,
                   sentence, conversationHistory, relay, ghosts>>
\* for i in range(0, len(pcm_bytes), CHUNK_SIZE), one put per turn
PutChunk ==
    /\ worker = "put"
    /\ outboundQueue' = Append(outboundQueue,
           [utt |-> task, sentence |-> sentence, chunk |-> chunk + 1])
    /\ IF chunk + 1 = chunks
       THEN worker' = "llm" /\ chunk' = 0 /\ chunks' = 0
       ELSE chunk' = chunk + 1 /\ UNCHANGED <<worker, chunks>>
    /\ afterCancel' = IF IsActive THEN afterCancel
                      ELSE afterCancel \cup {<<task, sentence>>}
    /\ UNCHANGED <<rpc, inbound, pumpVars, utteranceQueue, task,
                   sentence, conversationHistory, relay, dispatched, reply,
                   completed, delivered>>

\* conversation_history[-12:]
TrimmedToFirst(h) == SubSeq(h, 1, IF Len(h) > HistoryMax THEN HistoryMax ELSE Len(h))
Trimmed(h) == SubSeq(h, IF Len(h) > HistoryMax THEN Len(h) - HistoryMax + 1 ELSE 1,
                     Len(h))

\* generate_stream is exhausted; a reply without a sentence is not recorded.
ReplyEnds ==
    /\ worker = "llm"
    /\ worker' = "get" /\ sentence' = 0 /\ reply' = NoReply
    /\ IF sentence = 0
       THEN UNCHANGED <<conversationHistory, completed>>
       ELSE /\ conversationHistory' = Trimmed(conversationHistory \o
                   <<[role |-> "user", utt |-> task],
                     [role |-> "assistant", utt |-> task]>>)
            /\ completed' = Append(completed, task)
    /\ UNCHANGED <<rpc, inbound, pumpVars, utteranceQueue,
                   outboundQueue, task, chunk, chunks, relay, dispatched,
                   delivered, afterCancel>>

---------------------------------------------------------------------------
(* StreamEvents, the relay. *)

RelayGets == Head(outboundQueue)

RelayYield ==
    /\ relay = "get" /\ outboundQueue # <<>> /\ RelayGets # SHUTDOWN
    /\ IsActive
    /\ delivered' = <<RelayGets>>
    /\ outboundQueue' = Tail(outboundQueue)
    /\ UNCHANGED <<rpc, inbound, pumpVars, utteranceQueue, workerVars,
                   relay, dispatched, reply, completed, afterCancel>>

\* After a cancel gRPC does not send what the generator yields, and drops it.
RelayDropped ==
    /\ relay = "get" /\ outboundQueue # <<>> /\ RelayGets # SHUTDOWN
    /\ ~IsActive
    /\ relay' = "dropped"
    /\ outboundQueue' = Tail(outboundQueue)
    /\ UNCHANGED <<rpc, inbound, pumpVars, utteranceQueue, workerVars,
                   ghosts>>

\* The generator returns, and with it the call.
RelayExit ==
    /\ relay = "get" /\ outboundQueue # <<>> /\ RelayGets = SHUTDOWN
    /\ relay' = "exited"
    /\ outboundQueue' = Tail(outboundQueue)
    /\ rpc' = IF IsActive THEN "finished" ELSE rpc
    /\ inbound' = "closed"
    /\ UNCHANGED <<pumpVars, utteranceQueue, workerVars, ghosts>>

Client == HalfClose \/ Cancel \/ \E e \in Event : PumpRecv(e)
Pump == PumpStart \/ HandleControl \/ HandleAudio \/ PumpEnd \/ PumpRaises
Worker ==
    \/ WorkerGet \/ WorkerStop \/ Transcribe \/ Abandon
    \/ \E n \in 0 .. MaxChunks : NextSentence(n)
    \/ SentenceAfterCancel \/ PutChunk \/ ReplyEnds
Relay == RelayYield \/ RelayDropped \/ RelayExit

Next == Client \/ Pump \/ Worker \/ Relay

\* The three threads run; the client owes nothing.
Fairness == WF_vars(Pump) /\ WF_vars(Worker) /\ WF_vars(Relay)
Spec == Init /\ [][Next]_vars /\ Fairness
---------------------------------------------------------------------------
(* Properties. *)

Entry == [role : {"user", "assistant"}, utt : Nat]
Reply == [utt : Nat, prompt : Nat, history : Seq(Entry)]

ThreadTypes ==
    /\ rpc \in {"active", "cancelled", "finished"}
    /\ inbound \in {"open", "closed"}
    /\ pump \in {"starting", "recv", "handling", "dead"} /\ event \in Event
    /\ buffered \in BOOLEAN
    /\ systemPrompt \in 0 .. MaxProfiles
    /\ utteranceQueue \in Seq(0 .. MaxUtterances)
    /\ outboundQueue \in Seq(Chunk \cup {SHUTDOWN})
    /\ worker \in {"get", "stt", "llm", "put", "done"}
    /\ task \in 0 .. MaxUtterances
    /\ sentence \in 0 .. MaxSentences
    /\ chunk \in 0 .. MaxChunks /\ chunks \in 0 .. MaxChunks
    /\ conversationHistory \in Seq(Entry)
    /\ relay \in {"get", "exited", "dropped"}
    /\ dispatched \in Seq(0 .. MaxProfiles) /\ reply \in Reply
    /\ completed \in Seq(Utterance) /\ delivered \in Seq(Chunk)

\* The types of the threads' locals, the session's fields and the queues.  The
\* worker and its queue know of no utterance yet to be dispatched, and the queue
\* goes on where the worker is: however many utterances one audio event holds,
\* none is passed over and none is queued twice.
TypeOK ==
    /\ ThreadTypes
    /\ task <= Len(dispatched)
    /\ \A k \in 1 .. Len(utteranceQueue) :
          \/ utteranceQueue[k] = STOP
          \/ utteranceQueue[k] = task + k /\ task + k <= Len(dispatched)

\* What the caller hears, now and once the queue is relayed, is one reply after
\* the other in the order the utterances were dispatched, each sentence after
\* the one before and each from its first chunk without a gap: two replies are
\* never garbled together, the hazard docs/true_duplex.md gates against.  The
\* poison pill comes last.
Follows(a, b) ==
    \/ b.utt = a.utt /\ b.sentence = a.sentence /\ b.chunk = a.chunk + 1
    \/ b.utt = a.utt /\ b.sentence > a.sentence /\ b.chunk = 1
    \/ b.utt > a.utt /\ b.chunk = 1
Before(k) == IF k > 1 THEN <<outboundQueue[k - 1]>> ELSE delivered
RepliesInOrder ==
    relay # "dropped" =>
        \A k \in 1 .. Len(outboundQueue) :
            LET next == outboundQueue[k] IN
            /\ next = SHUTDOWN => k = Len(outboundQueue)
            /\ next # SHUTDOWN =>
                 IF Before(k) = <<>> THEN next.chunk = 1
                                     ELSE Follows(Before(k)[1], next)

\* Every reply is generated knowing exactly the last HistoryMax entries of the
\* answered utterances before it, questions and answers in pairs, and under a
\* prompt no older than the one in force when the caller stopped speaking.
PairsOf(s) == [k \in 1 .. 2 * Len(s) |->
    [role |-> IF k % 2 = 1 THEN "user" ELSE "assistant",
     utt |-> s[(k + 1) \div 2]]]
IsEndOf(h, s) ==
    /\ Len(h) = IF Len(s) < HistoryMax THEN Len(s) ELSE HistoryMax
    /\ \A k \in 1 .. Len(h) : h[k] = s[Len(s) - Len(h) + k]
ContextComplete ==
    reply # NoReply =>
        /\ reply.prompt >= dispatched[reply.utt]
        /\ \A k \in 1 .. Len(completed) : completed[k] < reply.utt
        /\ IsEndOf(reply.history, PairsOf(completed))

\* Half-close drains: when the generator returns nothing is left behind.  Every
\* dispatched utterance has been through the worker and every chunk it put has
\* been taken by the relay, so a caller who stops sending hears all replies.
NothingLeftBehind ==
    relay = "exited" =>
        /\ pump = "dead" /\ worker = "done"
        /\ utteranceQueue = <<>> /\ outboundQueue = <<>>
        /\ task = Len(dispatched)

\* A cancelled call costs at most the sentence being synthesized: no matter how
\* many utterances are still queued, at most one sentence is put after it.
CancelStopsSpeech == Cardinality(afterCancel) <= 1

\* Every utterance the pump dispatches is taken up by the worker, whatever the
\* ones before it raised and whether or not the call is still on: in the end it
\* has caught up with the pump for good.
UtterancesTakenUp == <>[](task = Len(dispatched))

\* Once the client closes or cancels, or the pump dies, all three threads end:
\* the pool thread and the two daemon threads of the call are given back.
Released ==
    pump = "dead" /\ worker = "done" /\ relay \in {"exited", "dropped"}
CallReleased == (inbound = "closed" \/ pump = "dead") ~> Released
=============================================================================
