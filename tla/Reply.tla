-------------------------------- MODULE Reply --------------------------------
(***************************************************************************)
(* One reply at a time, from the inside of the utterance worker:           *)
(* _run_utterance of main.py, the temporary file of stt/transcriber.py,    *)
(* the sentences llm/engine.py cuts out of the token stream, the WAV that  *)
(* tts/synthesizer.py makes of each, its chunks, the history and the BENCH *)
(* line.  InferenceSession has the same worker with all of this as chosen  *)
(* answers; ImplementsWorker relates the two.                              *)
(*                                                                         *)
(* A character is [kind, at], its kind and its place in the reply; a       *)
(* sentence is [first, last], the places it was cut between once its       *)
(* blanks are stripped.  A WAV is what its header says and its samples'    *)
(* number.  Whisper, Ollama and Piper answer anything or raise.            *)
(***************************************************************************)
EXTENDS Integers, Sequences, FiniteSets

CONSTANTS
    MinChunkLength,     \* _MIN_CHUNK_LENGTH (8)
    ChunkSize,          \* CHUNK_SIZE (4096)
    TTSRate,            \* TTS_OUTPUT_SAMPLE_RATE (8000)
    HistoryMax,         \* entries of conversation_history kept (12)
    Wavs,               \* WAVs Piper may write: [width, rate, samples]
    MaxUtterances,      \* bound: utterances of the call
    MaxText,            \* bound: characters of each reply, by utterance
    MaxToken,           \* bound: characters of one token
    MaxSentences,       \* bound: sentences of one reply
    MaxChunks           \* bound: chunks of one sentence

Ceil(a, b) == (a + b - 1) \div b

\* wav_to_pcm16_mono: the samples after resample_poly, two bytes each, and the
\* slices of CHUNK_SIZE they are put in.
PcmBytes(wav) ==
    2 * (IF wav.rate = TTSRate THEN wav.samples
                               ELSE Ceil(wav.samples * TTSRate, wav.rate))
Slices(wav) == Ceil(PcmBytes(wav), ChunkSize)

ASSUME ReplyAssumption ==
    /\ MinChunkLength \in Nat /\ ChunkSize \in Nat \ {0}
    /\ TTSRate \in Nat \ {0} /\ HistoryMax \in Nat \ {0}
    /\ Wavs \subseteq [width : {1, 2}, rate : Nat \ {0}, samples : Nat]
    /\ MaxUtterances \in Nat /\ MaxText \in [1 .. MaxUtterances -> Nat]
    /\ MaxToken \in Nat
    /\ MaxSentences \in Nat /\ MaxChunks \in Nat
    /\ \A wav \in Wavs : Slices(wav) \in 0 .. MaxChunks

VARIABLES
    rpc,                 \* what grpc_context.is_active() is computed from
    voice,               \* whether Piper's model was loaded at startup
    queue,               \* utterances dispatched and not yet taken up
    worker, task,
    tempFiles,           \* utterances whose temporary file exists
    unremoved,           \* history: those whose file os.unlink refused to remove
    buffer, pending,     \* generate_stream: its text and sentences to yield
    streaming,           \* whether the LLM may still send tokens
    parts,               \* assistant_parts
    wav, chunk,          \* what TTS returned, and its chunks already put
    conversationHistory,
    outboundQueue,
    bench,               \* the BENCH record in the making
    text,                \* history: the reply's characters so far
    failed,              \* history: the LLM stream broke off
    benchLog,            \* history: BENCH lines of the log
    answered,            \* history: utterances recorded as answered
    afterCancel          \* history: sentences with a chunk put after a cancel

llmVars == <<buffer, pending, streaming, text, failed>>
ttsVars == <<wav, chunk>>
sessionVars == <<conversationHistory, outboundQueue, answered, afterCancel>>
fileVars == <<tempFiles, unremoved>>
vars == <<rpc, voice, queue, worker, task, fileVars, llmVars, parts, ttsVars,
          sessionVars, bench, benchLog>>

Kinds == {"letter", "blank", "ending"}
Char == [kind : Kinds, at : Nat \ {0}]
Sentence == [first : Nat \ {0}, last : Nat \ {0}]
ErrorReply == [first |-> 0, last |-> 0]      \* "I encountered an error ..."
NoWav == [width |-> 0, rate |-> 1, samples |-> 0]   \* b"", and no call
Raises == [width |-> 1, rate |-> 1, samples |-> 0]  \* an exception let through

\* The timings are told apart by whether they were taken.
NewBench == [stt |-> FALSE, firstSentence |-> FALSE, firstAudio |-> FALSE,
             sentences |-> 0, completed |-> FALSE]

Init ==
    /\ rpc = "active" /\ voice \in BOOLEAN
    /\ queue = [u \in 1 .. MaxUtterances |-> u]
    /\ worker = "get" /\ task = 0
    /\ tempFiles = {} /\ unremoved = {}
    /\ buffer = <<>> /\ pending = <<>> /\ streaming = FALSE
    /\ text = <<>> /\ failed = FALSE
    /\ parts = <<>> /\ wav = NoWav /\ chunk = 0
    /\ conversationHistory = <<>> /\ outboundQueue = <<>>
    /\ bench = NewBench /\ benchLog = <<>>
    /\ answered = <<>> /\ afterCancel = {}

Cancel ==
    /\ rpc = "active" /\ rpc' = "cancelled"
    /\ UNCHANGED <<voice, queue, worker, task, fileVars, llmVars, parts,
                   ttsVars, sessionVars, bench, benchLog>>

---------------------------------------------------------------------------
(* _run_utterance up to the transcription. *)

TakeUp ==
    /\ worker = "get" /\ queue # <<>>
    /\ task' = Head(queue) /\ queue' = Tail(queue)
    /\ worker' = "stt"
    /\ bench' = NewBench
    /\ UNCHANGED <<rpc, voice, fileVars, llmVars, parts, ttsVars, sessionVars,
                   benchLog>>

\* _transcribe_bytes before its try's end: the file is made with delete=False.
MakeTempFile ==
    /\ worker = "stt" /\ task \notin tempFiles
    /\ tempFiles' = tempFiles \cup {task}
    /\ UNCHANGED <<unremoved, rpc, voice, queue, worker, task, llmVars, parts,
                   ttsVars, sessionVars, bench, benchLog>>

\* _run_utterance's way out, whichever it is: return, exception or the end.
EndsOnlyReturning(record) ==
    /\ worker' = "get"
    /\ benchLog' = IF record.completed
                   THEN Append(benchLog, [utt |-> task, bench |-> record])
                   ELSE benchLog
    /\ buffer' = <<>> /\ pending' = <<>> /\ streaming' = FALSE
    /\ text' = <<>> /\ failed' = FALSE
    /\ parts' = <<>> /\ wav' = NoWav /\ chunk' = 0 /\ bench' = NewBench
Ends(record) ==
    /\ worker' = "get"
    /\ benchLog' = Append(benchLog, [utt |-> task, bench |-> record])
    /\ buffer' = <<>> /\ pending' = <<>> /\ streaming' = FALSE
    /\ text' = <<>> /\ failed' = FALSE
    /\ parts' = <<>> /\ wav' = NoWav /\ chunk' = 0 /\ bench' = NewBench

\* The finally of _transcribe_bytes: an OSError of its unlink is swallowed.
Unlink ==
    \/ tempFiles' = tempFiles \ {task} /\ UNCHANGED unremoved
    \/ tempFiles' = tempFiles /\ unremoved' = unremoved \cup ({task} \cap tempFiles)

\* Whisper has found text, and generate_stream is called.
Transcribed ==
    /\ worker = "stt" /\ task \in tempFiles
    /\ Unlink
    /\ worker' = "llm" /\ streaming' = TRUE
    /\ bench' = [bench EXCEPT !.stt = TRUE]
    /\ UNCHANGED <<rpc, voice, queue, task, buffer, pending, text, failed,
                   parts, ttsVars, sessionVars, benchLog>>

\* No text: silence, or an OSError or RuntimeError that _run_transcription
\* turns into an empty answer.
NothingTranscribed ==
    /\ worker = "stt" /\ task \in tempFiles
    /\ Unlink
    /\ Ends([bench EXCEPT !.stt = TRUE])
    /\ UNCHANGED <<rpc, voice, queue, task, sessionVars>>

\* Anything else: the file could not be made, or Whisper raised more.
TranscriptionLeavesFile ==
    /\ worker = "stt"
    /\ Ends(bench)
    /\ UNCHANGED <<rpc, voice, queue, task, fileVars, sessionVars>>
TranscriptionRaises ==
    /\ worker = "stt"
    /\ Unlink
    /\ Ends(bench)
    /\ UNCHANGED <<rpc, voice, queue, task, sessionVars>>

---------------------------------------------------------------------------
(* generate_stream. *)

Strip(q) ==
    LET inside == {i \in 1 .. Len(q) : q[i].kind # "blank"}
        least == CHOOSE i \in inside : \A j \in inside : i <= j
        greatest == CHOOSE i \in inside : \A j \in inside : j <= i
    IN  IF inside = {} THEN <<>> ELSE SubSeq(q, least, greatest)
AsSentence(q) == [first |-> Strip(q)[1].at, last |-> Strip(q)[Len(Strip(q))].at]

\* _extract_sentences: where each sentence of q ends, the search for its ending
\* starting past MinChunkLength characters of it, and q's end once none is left.
EndingsAfter(q, start) ==
    {i \in start + MinChunkLength + 1 .. Len(q) : q[i].kind = "ending"}
NextCut(q, start) ==
    IF EndingsAfter(q, start) = {} THEN 0
    ELSE CHOOSE i \in EndingsAfter(q, start) :
            \A j \in EndingsAfter(q, start) : i <= j
Cuts(q) ==
    LET cutsFrom[start \in 0 .. Len(q)] ==
            IF NextCut(q, start) = 0 THEN <<start>>
            ELSE <<start>> \o cutsFrom[NextCut(q, start)]
    IN  cutsFrom[0]
Extracted(q) ==
    [k \in 1 .. Len(Cuts(q)) - 1 |->
        AsSentence(SubSeq(q, Cuts(q)[k] + 1, Cuts(q)[k + 1]))]
RemainingUncut(q) == q
Remaining(q) == SubSeq(q, Cuts(q)[Len(Cuts(q))] + 1, Len(q))

Resumed == worker = "llm" /\ pending = <<>> /\ streaming

Token(kinds) ==
    LET grown == buffer \o
            [k \in 1 .. Len(kinds) |-> [kind |-> kinds[k], at |-> Len(text) + k]]
    IN  /\ Resumed /\ Len(text) + Len(kinds) <= MaxText[task]
        /\ text' = text \o kinds
        /\ pending' = Extracted(grown)
        /\ buffer' = Remaining(grown)
        /\ UNCHANGED <<rpc, voice, queue, worker, task, fileVars, streaming,
                       failed, parts, ttsVars, sessionVars, bench, benchLog>>

\* The stream's end: what is left is a sentence if it is long enough.
Flushed(q) ==
    IF Len(Strip(q)) > 0 /\ Len(Strip(q)) >= MinChunkLength
    THEN <<AsSentence(q)>> ELSE <<>>
StreamEnds ==
    /\ Resumed
    /\ streaming' = FALSE
    /\ pending' = Flushed(buffer)
    /\ UNCHANGED <<rpc, voice, queue, worker, task, fileVars, buffer, text,
                   failed, parts, ttsVars, sessionVars, bench, benchLog>>

\* ResponseError or RequestError: an apology instead of the rest.
StreamFails ==
    /\ Resumed
    /\ streaming' = FALSE /\ failed' = TRUE
    /\ pending' = <<ErrorReply>>
    /\ UNCHANGED <<rpc, voice, queue, worker, task, fileVars, buffer, text,
                   parts, ttsVars, sessionVars, bench, benchLog>>

StreamRaises ==
    /\ Resumed
    /\ Ends(bench)
    /\ UNCHANGED <<rpc, voice, queue, task, fileVars, sessionVars>>

---------------------------------------------------------------------------
(* The loop of _run_utterance over the sentences. *)

\* What synthesize may do with a sentence: without its model it returns b"".
Synthesized == IF voice THEN Wavs \cup {NoWav, Raises} ELSE {NoWav}

\* The generator yields, the call is still on and synthesize begins; w is what
\* it will have made.
Yielded ==
    /\ worker = "llm" /\ pending # <<>> /\ Len(parts) < MaxSentences
    /\ parts' = Append(parts, Head(pending))
    /\ pending' = Tail(pending)
SynthesizeUnchecked(w) ==
    /\ Yielded
    /\ worker' = "tts" /\ wav' = w
    /\ bench' = [bench EXCEPT !.firstSentence = TRUE]
    /\ UNCHANGED <<rpc, voice, queue, task, fileVars, buffer, streaming, text,
                   failed, chunk, sessionVars, benchLog>>
Synthesize(w) ==
    /\ Yielded
    /\ rpc = "active"
    /\ worker' = "tts" /\ wav' = w
    /\ bench' = [bench EXCEPT !.firstSentence = TRUE]
    /\ UNCHANGED <<rpc, voice, queue, task, fileVars, buffer, streaming, text,
                   failed, chunk, sessionVars, benchLog>>

CancelSeen ==
    /\ worker = "llm" /\ pending # <<>> /\ Len(parts) < MaxSentences
    /\ rpc # "active"
    /\ Ends([bench EXCEPT !.firstSentence = TRUE])
    /\ UNCHANGED <<rpc, voice, queue, task, fileVars, sessionVars>>

\* No bytes: on to the next sentence, with this one in assistant_parts.
NoBytes ==
    /\ worker = "tts" /\ wav = NoWav
    /\ worker' = "llm"
    /\ UNCHANGED <<rpc, voice, queue, task, fileVars, llmVars, parts, ttsVars,
                   sessionVars, bench, benchLog>>

\* synthesize raised what it does not catch, or the samples are not 16 bits.
Unconvertible ==
    /\ worker = "tts" /\ wav.width = 1
    /\ Ends(bench)
    /\ UNCHANGED <<rpc, voice, queue, task, fileVars, sessionVars>>

\* A WAV may hold no samples: a sentence that counts, and no chunk.
Converted ==
    /\ worker = "tts" /\ wav.width = 2
    /\ worker' = IF Slices(wav) = 0 THEN "llm" ELSE "put"
    /\ wav' = IF Slices(wav) = 0 THEN NoWav ELSE wav
    /\ bench' = [bench EXCEPT !.sentences = @ + 1]
    /\ UNCHANGED <<rpc, voice, queue, task, fileVars, llmVars, parts, chunk,
                   sessionVars, benchLog>>

PutSliceOneTooMany ==
    /\ worker = "put"
    /\ outboundQueue' = Append(outboundQueue,
           [utt |-> task, sentence |-> Len(parts), chunk |-> chunk + 1])
    /\ IF chunk = Slices(wav)
       THEN worker' = "llm" /\ chunk' = 0 /\ wav' = NoWav
       ELSE chunk' = chunk + 1 /\ UNCHANGED <<worker, wav>>
    /\ bench' = [bench EXCEPT !.firstAudio = TRUE]
    /\ UNCHANGED <<rpc, voice, queue, task, fileVars, llmVars, parts,
                   conversationHistory, answered, benchLog, afterCancel>>
PutSlice ==
    /\ worker = "put"
    /\ outboundQueue' = Append(outboundQueue,
           [utt |-> task, sentence |-> Len(parts), chunk |-> chunk + 1])
    /\ IF chunk + 1 = Slices(wav)
       THEN worker' = "llm" /\ chunk' = 0 /\ wav' = NoWav
       ELSE chunk' = chunk + 1 /\ UNCHANGED <<worker, wav>>
    /\ bench' = [bench EXCEPT !.firstAudio = TRUE]
    /\ afterCancel' = IF rpc = "active" THEN afterCancel
                      ELSE afterCancel \cup {<<task, Len(parts)>>}
    /\ UNCHANGED <<rpc, voice, queue, task, fileVars, llmVars, parts,
                   conversationHistory, answered, benchLog>>

\* conversation_history[-12:]
Trimmed(h) == SubSeq(h, IF Len(h) > HistoryMax THEN Len(h) - HistoryMax + 1 ELSE 1,
                     Len(h))

Complete ==
    /\ worker = "llm" /\ pending = <<>> /\ ~streaming
    /\ IF parts = <<>>
       THEN UNCHANGED <<conversationHistory, answered>>
       ELSE /\ conversationHistory' = Trimmed(conversationHistory \o
                   <<[role |-> "user", utt |-> task],
                     [role |-> "assistant", utt |-> task]>>)
            /\ answered' = Append(answered, task)
    /\ Ends([bench EXCEPT !.completed = TRUE])
    /\ UNCHANGED <<rpc, voice, queue, task, fileVars, outboundQueue, afterCancel>>

STT == TakeUp \/ MakeTempFile \/ Transcribed \/ NothingTranscribed
       \/ TranscriptionRaises
LLM ==
    \/ \E n \in 1 .. MaxToken : \E kinds \in [1 .. n -> Kinds] : Token(kinds)
    \/ StreamEnds \/ StreamFails \/ StreamRaises
TTS ==
    \/ \E w \in Synthesized : Synthesize(w)
    \/ CancelSeen \/ NoBytes \/ Unconvertible \/ Converted \/ PutSlice

Next == Cancel \/ STT \/ LLM \/ TTS \/ Complete

Spec == Init /\ [][Next]_vars

---------------------------------------------------------------------------
(* Properties. *)

Entry == [role : {"user", "assistant"}, utt : Nat]
Bench == [stt : BOOLEAN, firstSentence : BOOLEAN, firstAudio : BOOLEAN,
          sentences : 0 .. MaxSentences, completed : BOOLEAN]
Utterances == 1 .. MaxUtterances

\* The types of the worker's locals, the generator's and the session's fields.
TypeOK ==
    /\ rpc \in {"active", "cancelled"} /\ voice \in BOOLEAN
    /\ queue \in Seq(Utterances) /\ task \in 0 .. MaxUtterances
    /\ worker \in {"get", "stt", "llm", "tts", "put"}
    /\ tempFiles \subseteq Utterances /\ unremoved \subseteq Utterances
    /\ text \in Seq(Kinds) /\ buffer \in Seq(Char)
    /\ streaming \in BOOLEAN /\ failed \in BOOLEAN
    /\ pending \in Seq(Sentence \cup {ErrorReply})
    /\ parts \in Seq(Sentence \cup {ErrorReply})
    /\ wav \in Wavs \cup {NoWav, Raises} /\ chunk \in 0 .. MaxChunks
    /\ worker = "put" => chunk < Slices(wav)
    /\ conversationHistory \in Seq(Entry) /\ answered \in Seq(Utterances)
    /\ outboundQueue \in Seq([utt : Utterances, sentence : 1 .. MaxSentences,
                              chunk : 1 .. MaxChunks])
    /\ bench \in Bench /\ benchLog \in Seq([utt : Utterances, bench : Bench])
    /\ afterCancel \subseteq Utterances \X (1 .. MaxSentences)

\* What is spoken is the text the LLM sent, whatever tokens it came in: each
\* sentence goes from the end of the one before to the first ending that leaves
\* it longer than MinChunkLength, none is skipped, only the stream's end makes
\* another cut, and only a rest shorter than MinChunkLength remains unsaid.
\* Behind it stands the apology of a reply whose stream broke off.
Said == parts \o pending
Cut == SubSeq(Said, 1, IF failed THEN Len(Said) - 1 ELSE Len(Said))
From(k) == IF k = 1 THEN 0 ELSE Cut[k - 1].last
EndingsPast(from) ==
    {i \in from + MinChunkLength + 1 .. Len(text) : text[i] = "ending"}
IsLeast(i, S) == i \in S /\ \A j \in S : i <= j
WordsPast(from) == {i \in from + 1 .. Len(text) : text[i] # "blank"}
Span(S) == IF S = {} THEN 0
           ELSE 1 + CHOOSE d \in 0 .. Len(text) :
                        \E i, j \in S : d = j - i /\ \A l \in S : i <= l /\ l <= j
CutByTextAlone ==
    /\ \A k \in 1 .. Len(Cut) :
          /\ IsLeast(Cut[k].first, WordsPast(From(k)))
          /\ IF k = Len(Cut) /\ ~streaming /\ EndingsPast(From(k)) = {}
             THEN Cut[k].last - Cut[k].first + 1 = Span(WordsPast(From(k)))
             ELSE IsLeast(Cut[k].last, EndingsPast(From(k)))
    /\ failed => Said # <<>> /\ Said[Len(Said)] = ErrorReply
    /\ worker # "get" /\ ~failed =>
          LET rest == WordsPast(From(Len(Cut) + 1))
          IN  /\ EndingsPast(From(Len(Cut) + 1)) = {}
              /\ ~streaming => Span(rest) < MinChunkLength \/ Span(rest) = 0

\* docs/benchmarks.md takes the server's timers from "one BENCH log line per
\* utterance": every utterance taken up ends in exactly one, however it ends,
\* and what the line says is so.  It has a first-audio time when a chunk was
\* put, counts at least the sentences that were heard, and says "completed" of
\* the replies that made it into the history and of the empty ones.
Heard(utt) == {k \in 1 .. Len(outboundQueue) : outboundQueue[k].utt = utt}
SentencesHeard(utt) == {outboundQueue[k].sentence : k \in Heard(utt)}
BenchTruthful ==
    /\ Len(benchLog) = IF worker = "get" THEN task ELSE task - 1
    /\ \A u \in 1 .. Len(benchLog) : LET line == benchLog[u].bench IN
          /\ benchLog[u].utt = u
          /\ line.firstAudio <=> Heard(u) # {}
          /\ line.sentences >= Cardinality(SentencesHeard(u))
          /\ line.completed /\ line.firstSentence <=>
                 \E k \in 1 .. Len(answered) : answered[k] = u

\* "_run_utterance's finally block removes the temp file" (docs/true_duplex.md):
\* no utterance leaves its recording on disk, however its transcription ends,
\* unless the system itself refused to remove it.
TempFilesRemoved ==
    tempFiles \subseteq unremoved \cup (IF worker = "stt" THEN {task} ELSE {})

\* InferenceSession's worker, which chooses what STT, LLM and TTS answer, allows
\* all of this: every step of a reply is one of its steps, or none.
Worker ==
    INSTANCE InferenceSession WITH
        VADLoads <- TRUE,
        MaxProfiles <- 0, MaxUtterances <- MaxUtterances,
        inbound <- IF rpc = "active" THEN "open" ELSE "closed",
        pump <- "recv",
        event <- [type |-> "audio", profile |-> FALSE],
        buffered <- FALSE, systemPrompt <- 0,
        utteranceQueue <- queue,
        worker <- IF worker # "tts" THEN worker
                  ELSE IF wav.width = 2 /\ Slices(wav) > 0 THEN "put" ELSE "llm",
        sentence <- Len(parts),
        chunks <- IF wav.width = 2 THEN Slices(wav) ELSE 0,
        relay <- "get",
        dispatched <- [u \in Utterances |-> 0],
        reply <- IF worker \in {"get", "stt"}
                 THEN [utt |-> 0, prompt |-> 0, history |-> <<>>]
                 ELSE [utt |-> task, prompt |-> 0, history |-> conversationHistory],
        completed <- answered,
        delivered <- <<>>
ImplementsWorker == [][Worker!Worker \/ Worker!Cancel]_(Worker!vars)
=============================================================================
