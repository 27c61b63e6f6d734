------------------------------ MODULE ReplyProofs ------------------------------
(***************************************************************************)
(* What Reply satisfies for every text, token, WAV and number of           *)
(* utterances: the files, the BENCH lines, and that it implements the      *)
(* worker of InferenceSession.                                             *)
(***************************************************************************)
EXTENDS Reply, SequenceTheorems, FiniteSetTheorems, TLAPS

---------------------------------------------------------------------------
(* The worker's shape. *)

\* What TTS returned and the chunks already put exist only while a sentence is
\* being spoken.
Shape ==
    /\ rpc \in {"active", "cancelled"} /\ voice \in BOOLEAN
    /\ worker \in {"get", "stt", "llm", "tts", "put"}
    /\ queue \in Seq(Utterances)
    /\ \E S : parts \in Seq(S)
    /\ wav \in Wavs \cup {NoWav, Raises}
    /\ worker \in {"get", "stt", "llm"} => wav = NoWav
    /\ worker # "put" => chunk = 0
    /\ worker = "put" => wav.width = 2 /\ chunk \in Nat /\ chunk < Slices(wav)
    /\ worker \in {"get", "stt"} => parts = <<>>

LEMMA WavsAreWhole ==
    \A w \in Wavs \cup {NoWav, Raises} :
        /\ w.width \in {0, 1, 2}
        /\ w.width = 2 => w \in Wavs /\ Slices(w) \in 0 .. MaxChunks /\ Slices(w) \in Nat
<1>1. \A w \in Wavs : w.width \in {1, 2} /\ Slices(w) \in 0 .. MaxChunks
  BY ReplyAssumption
<1>2. NoWav.width = 0 /\ Raises.width = 1
  BY DEF NoWav, Raises
<1> QED BY <1>1, <1>2, ReplyAssumption, SMT

LEMMA QueueNumbered ==
    /\ [u \in Utterances |-> u] \in Seq(Utterances)
    /\ Len([u \in Utterances |-> u]) = MaxUtterances
BY ReplyAssumption, SMT DEF Utterances

LEMMA PartsGrow ==
    ASSUME NEW x, NEW q, \E S : q \in Seq(S)
    PROVE  /\ \E S : Append(q, x) \in Seq(S)
           /\ Len(Append(q, x)) = Len(q) + 1
           /\ Len(q) \in Nat
           /\ Append(q, x) # <<>>
<1>1. PICK S : q \in Seq(S)
  OBVIOUS
<1>2. q \in Seq(S \cup {x})
  BY <1>1, SeqMonotonic
<1>3. Append(q, x) \in Seq(S \cup {x}) /\ Len(Append(q, x)) = Len(q) + 1
      /\ Len(q) \in Nat
  BY <1>2, SMT
<1>4. Append(q, x) # <<>>
  BY <1>3, EmptySeq, SMT
<1> QED BY <1>3, <1>4

LEMMA ShapeInit == Init => Shape
<1> SUFFICES ASSUME Init PROVE Shape
  OBVIOUS
<1>1. <<>> \in Seq({})
  BY EmptySeq
<1>2. queue \in Seq(Utterances)
  BY QueueNumbered DEF Init, Utterances
<1> QED BY <1>1, <1>2 DEF Init, Shape

LEMMA ShapeStep == Shape /\ [Next]_vars => Shape'
<1> SUFFICES ASSUME Shape, [Next]_vars PROVE Shape'
  OBVIOUS
<1> USE DEF Shape, llmVars, ttsVars, sessionVars, fileVars
<1>0. <<>> \in Seq({})
  BY EmptySeq
<1>1. CASE Cancel
  BY <1>1 DEF Cancel
<1>2. CASE TakeUp
  BY <1>2, HeadTailProperties DEF TakeUp
<1>3. CASE MakeTempFile
  BY <1>3 DEF MakeTempFile
<1>4. CASE Transcribed
  BY <1>4 DEF Transcribed
<1>5. CASE NothingTranscribed \/ TranscriptionRaises \/ StreamRaises \/ CancelSeen
           \/ Unconvertible
  BY <1>0, <1>5 DEF NothingTranscribed, TranscriptionRaises, StreamRaises,
                    CancelSeen, Unconvertible, Ends
<1>6. ASSUME NEW n, NEW kinds, Token(kinds)
      PROVE  Shape'
  BY <1>6 DEF Token, Resumed
<1>7. CASE StreamEnds \/ StreamFails
  BY <1>7 DEF StreamEnds, StreamFails, Resumed
<1>8. ASSUME NEW w \in Synthesized, Synthesize(w)
      PROVE  Shape'
  BY <1>8, PartsGrow DEF Synthesize, Yielded, Synthesized
<1>9. CASE NoBytes
  BY <1>9 DEF NoBytes
<1>10. CASE Converted
  <2>1. wav \in Wavs /\ Slices(wav) \in Nat
    BY <1>10, WavsAreWhole DEF Converted
  <2> QED BY <1>10, <2>1, SMT DEF Converted
<1>11. CASE PutSlice
  <2>1. wav \in Wavs /\ Slices(wav) \in Nat
    BY <1>11, WavsAreWhole DEF PutSlice
  <2> QED BY <1>11, <2>1, SMT DEF PutSlice
<1>12. CASE Complete
  BY <1>0, <1>12 DEF Complete, Ends
<1>13. CASE UNCHANGED vars
  BY <1>13 DEF vars
<1> QED BY <1>1, <1>2, <1>3, <1>4, <1>5, <1>6, <1>7, <1>8, <1>9, <1>10, <1>11, <1>12,
           <1>13 DEF Next, STT, LLM, TTS

---------------------------------------------------------------------------
(* The temporary files. *)

\* No utterance leaves its recording on disk, whatever the transcription does,
\* unless the system refused to remove it.
THEOREM FilesAreRemoved == Spec => []TempFilesRemoved
<1>1. Init => TempFilesRemoved
  BY DEF Init, TempFilesRemoved
<1>2. ASSUME Shape, TempFilesRemoved, [Next]_vars
      PROVE  TempFilesRemoved'
  <2> USE <1>2 DEF TempFilesRemoved, llmVars, ttsVars, sessionVars, fileVars
  <2>1. CASE Cancel \/ TakeUp \/ MakeTempFile
    BY <2>1 DEF Cancel, TakeUp, MakeTempFile
  <2>2. CASE Transcribed \/ NothingTranscribed \/ TranscriptionRaises
    BY <2>2 DEF Transcribed, NothingTranscribed, TranscriptionRaises, Unlink, Ends
  <2>3. CASE LLM
    BY <2>3 DEF LLM, Token, StreamEnds, StreamFails, StreamRaises, Resumed, Ends
  <2>4. CASE TTS \/ Complete
    BY <2>4 DEF TTS, Synthesize, Yielded, CancelSeen, NoBytes, Unconvertible,
                Converted, PutSlice, Complete, Ends
  <2>5. CASE UNCHANGED vars
    BY <2>5 DEF vars
  <2> QED BY <2>1, <2>2, <2>3, <2>4, <2>5 DEF Next, STT
<1> QED BY <1>1, <1>2, ShapeInit, ShapeStep, PTL DEF Spec

---------------------------------------------------------------------------
(* The refinement. *)

\* Every step of a reply is a step of InferenceSession's worker, or none, or
\* the cancel both have.
THEOREM RefinesWorker == Spec => ImplementsWorker
<1> DEFINE Allowed == [Worker!Worker \/ Worker!Cancel]_(Worker!vars)
<1>1. ASSUME Shape, [Next]_vars
      PROVE  Allowed
  <2> USE <1>1 DEF Shape, llmVars, ttsVars, sessionVars, fileVars, Worker!vars,
          Worker!pumpVars, Worker!workerVars, Worker!ghosts
  <2>1. CASE Cancel
    <3>1. Worker!Cancel
      BY <2>1 DEF Cancel, Worker!Cancel, Worker!IsActive
    <3> QED BY <3>1
  <2>2. CASE TakeUp
    <3>1. Head(queue) # 0
      BY <2>2, HeadTailProperties, ReplyAssumption, SMT DEF TakeUp, Utterances
    <3>2. Worker!WorkerGet
      BY <2>2, <3>1 DEF TakeUp, Worker!WorkerGet, Worker!STOP
    <3> QED BY <3>2 DEF Worker!Worker
  <2>3. CASE MakeTempFile
    BY <2>3 DEF MakeTempFile
  <2>4. CASE Transcribed
    <3>1. Worker!Transcribe
      BY <2>4 DEF Transcribed, Worker!Transcribe
    <3> QED BY <3>1 DEF Worker!Worker
  <2>5. CASE NothingTranscribed \/ TranscriptionRaises \/ StreamRaises \/ Unconvertible
    <3>1. Worker!Abandon
      BY <2>5, EmptySeq DEF NothingTranscribed, TranscriptionRaises, StreamRaises,
          Unconvertible, Resumed, Ends, Worker!Abandon, Worker!NoReply, NoWav
    <3> QED BY <3>1 DEF Worker!Worker
  <2>6. ASSUME NEW kinds, Token(kinds)
        PROVE  Allowed
    BY <2>6 DEF Token, Resumed
  <2>14. CASE NoBytes
    BY <2>14 DEF NoBytes, NoWav
  <2>7. CASE StreamEnds \/ StreamFails
    BY <2>7 DEF StreamEnds, StreamFails, Resumed
  <2>8. ASSUME NEW w \in Synthesized, Synthesize(w)
        PROVE  Allowed
    <3> DEFINE spoken == w.width = 2 /\ Slices(w) > 0
               n == IF spoken THEN Slices(w) ELSE 0
    <3>1. w \in Wavs \cup {NoWav, Raises}
      BY <2>8 DEF Synthesized
    <3>2. n \in 0 .. MaxChunks /\ n \in Nat /\ (spoken <=> n # 0)
          /\ n = (IF w.width = 2 THEN Slices(w) ELSE 0)
      BY <3>1, WavsAreWhole, ReplyAssumption, SMT
    <3>3. Len(parts') = Len(parts) + 1
      BY <2>8, PartsGrow DEF Synthesize, Yielded
    <3>5. worker = "llm" /\ worker' = "tts" /\ wav' = w /\ rpc = "active"
          /\ Len(parts) < MaxSentences
      BY <2>8 DEF Synthesize, Yielded
    <3>6. (IF worker' # "tts" THEN worker'
           ELSE IF wav'.width = 2 /\ Slices(wav)' > 0 THEN "put" ELSE "llm")
          = IF n = 0 THEN "llm" ELSE "put"
      <4>1. Slices(wav)' = Slices(w)
        BY <3>5 DEF Slices, PcmBytes
      <4>2. CASE spoken
        BY <3>2, <3>5, <4>1, <4>2
      <4>3. CASE ~spoken
        BY <3>2, <3>5, <4>1, <4>3
      <4> QED BY <4>2, <4>3
    <3>7. (IF wav'.width = 2 THEN Slices(wav)' ELSE 0) = n
      <4>1. Slices(wav)' = Slices(w)
        BY <3>5 DEF Slices, PcmBytes
      <4> QED BY <3>2, <3>5, <4>1
    <3> HIDE DEF n, spoken
    <3>4. Worker!NextSentence(n)
      BY <2>8, <3>3, <3>5, <3>6, <3>7 DEF Synthesize, Yielded, Worker!NextSentence,
          Worker!SessionStillOn, Worker!IsActive
    <3> QED BY <3>2, <3>4 DEF Worker!Worker
  <2>9. CASE CancelSeen
    <3>1. Worker!SentenceAfterCancel
      BY <2>9, EmptySeq DEF CancelSeen, Ends, Worker!SentenceAfterCancel,
          Worker!SessionStillOn, Worker!IsActive, Worker!NoReply, NoWav
    <3> QED BY <3>1 DEF Worker!Worker
  <2>10. CASE Converted
    <3>1. wav \in Wavs /\ Slices(wav) \in Nat
      BY <2>10, WavsAreWhole DEF Converted
    <3>2. NoWav.width = 0
      BY DEF NoWav
    <3>3. CASE Slices(wav) = 0
      BY <2>10, <3>2, <3>3 DEF Converted
    <3>4. CASE Slices(wav) # 0
      <4>1. Slices(wav) > 0
        BY <3>1, <3>4
      <4>2. Slices(wav)' = Slices(wav)
        BY <2>10, <3>4 DEF Converted, Slices, PcmBytes
      <4> QED BY <2>10, <3>4, <4>1, <4>2 DEF Converted
    <3> QED BY <3>3, <3>4
  <2>11. CASE PutSlice
    <3>1. Worker!PutChunk
      BY <2>11 DEF PutSlice, Worker!PutChunk, Worker!IsActive, NoWav
    <3> QED BY <3>1 DEF Worker!Worker
  <2>12. CASE Complete
    <3>1. Len(parts) = 0 <=> parts = <<>>
      BY EmptySeq
    <3>2. Worker!ReplyEnds
      BY <2>12, <3>1, EmptySeq DEF Complete, Ends, Worker!ReplyEnds, Worker!NoReply,
          Worker!Trimmed, Trimmed, NoWav
    <3> QED BY <3>2 DEF Worker!Worker
  <2>13. CASE UNCHANGED vars
    BY <2>13 DEF vars
  <2> QED BY <2>1, <2>2, <2>3, <2>4, <2>5, <2>6, <2>7, <2>8, <2>9, <2>10, <2>11,
             <2>12, <2>13, <2>14 DEF Next, STT, LLM, TTS
<1>2. ImplementsWorker <=> [][Worker!Worker \/ Worker!Cancel]_(Worker!vars)
  BY DEF ImplementsWorker
<1> QED BY <1>1, <1>2, ShapeInit, ShapeStep, PTL DEF Spec

---------------------------------------------------------------------------
(* The BENCH lines. *)

BenchRecord == [stt : BOOLEAN, firstSentence : BOOLEAN, firstAudio : BOOLEAN,
                sentences : Nat, completed : BOOLEAN]

\* The sentences of the reply in the making that have been heard, and the one
\* that is about to be.
Counted == SentencesHeard(task) \cup (IF worker = "put" THEN {Len(parts)} ELSE {})

\* The record in the making tells of the utterance in work what the log will.
InTheMaking ==
    /\ task # 0
    /\ bench \in BenchRecord /\ ~bench.completed
    /\ bench.firstAudio <=> Heard(task) # {}
    /\ IsFiniteSet(Counted) /\ Cardinality(Counted) <= bench.sentences
    /\ bench.firstSentence <=> parts # <<>>
    /\ \A k \in 1 .. Len(answered) : answered[k] # task

Books ==
    /\ task \in Nat
    /\ \A i \in 1 .. Len(queue) : queue[i] = task + i
    /\ \E S : benchLog \in Seq(S)
    /\ \E S : outboundQueue \in Seq(S)
    /\ \E S : answered \in Seq(S)
    /\ \A k \in 1 .. Len(outboundQueue) :
          outboundQueue[k].utt \in Nat /\ outboundQueue[k].utt <= task
    /\ \A k \in 1 .. Len(answered) : answered[k] \in Nat /\ answered[k] <= task
    /\ worker # "get" => InTheMaking

BenchInv == Shape /\ Books /\ BenchTruthful

LEMMA BenchInit == Init => BenchInv
<1> SUFFICES ASSUME Init PROVE BenchInv
  OBVIOUS
<1>1. <<>> \in Seq({}) /\ Len(<<>>) = 0
  BY EmptySeq
<1>2. Books
  <2>1. \A i \in 1 .. Len(queue) : queue[i] = task + i
    <3>1. Len(queue) = MaxUtterances /\ \A i \in 1 .. MaxUtterances : queue[i] = i
      BY QueueNumbered DEF Init, Utterances
    <3> QED BY <3>1, ReplyAssumption, SMT DEF Init
  <2>2. /\ task \in Nat /\ worker = "get"
        /\ benchLog = <<>> /\ outboundQueue = <<>> /\ answered = <<>>
    BY SMT DEF Init
  <2>3. 1 .. Len(<<>>) = {}
    BY <1>1, SMT
  <2> QED BY <1>1, <2>1, <2>2, <2>3, Zenon DEF Books
<1>3. BenchTruthful
  BY <1>1, SMT DEF Init, BenchTruthful
<1> QED BY <1>2, <1>3, ShapeInit DEF BenchInv

\* The steps that put no chunk and write no line.
LEMMA BenchQuiet ==
    ASSUME BenchInv, worker # "get", worker' # "get", worker' # "put",
           UNCHANGED <<queue, task, outboundQueue, answered, benchLog>>,
           bench' \in BenchRecord, ~bench'.completed,
           bench'.firstAudio = bench.firstAudio,
           bench'.sentences >= bench.sentences,
           bench'.firstSentence <=> parts' # <<>>
    PROVE  Books' /\ BenchTruthful'
<1> USE DEF BenchInv, Books, InTheMaking
<1>1. \A u : Heard(u)' = Heard(u)
  BY DEF Heard
<1>2. \A u : SentencesHeard(u)' = SentencesHeard(u)
  BY <1>1 DEF SentencesHeard, Heard
<1>3. IsFiniteSet(Counted') /\ Cardinality(Counted') <= bench'.sentences
  <2>1. Counted' \subseteq Counted
    BY <1>2 DEF Counted
  <2>2. IsFiniteSet(Counted') /\ Cardinality(Counted') <= Cardinality(Counted)
        /\ Cardinality(Counted) \in Nat /\ Cardinality(Counted') \in Nat
    BY <2>1, FS_Subset, FS_CardinalityType
  <2>3. bench.sentences \in Nat /\ bench'.sentences \in Nat
    BY DEF BenchRecord
  <2> QED BY <2>2, <2>3, SMT
<1>4. Books'
  BY <1>1, <1>3
<1>5. BenchTruthful'
  BY <1>1, <1>2 DEF BenchTruthful
<1> QED BY <1>4, <1>5

\* The way out: the line that is written tells the truth.
LEMMA BenchEnds ==
    ASSUME BenchInv, worker # "get", NEW record \in BenchRecord, Ends(record),
           UNCHANGED <<queue, task, outboundQueue>>,
           record.firstAudio = bench.firstAudio,
           record.sentences = bench.sentences,
           \/ record.completed /\ record.firstSentence
              /\ answered' = Append(answered, task)
           \/ ~(record.completed /\ record.firstSentence)
              /\ answered' = answered
    PROVE  Books' /\ BenchTruthful'
<1> USE DEF BenchInv, Books, InTheMaking
<1>1. \A u : Heard(u)' = Heard(u)
  BY DEF Heard
<1>2. \A u : SentencesHeard(u)' = SentencesHeard(u)
  BY <1>1 DEF SentencesHeard, Heard
<1>3. worker' = "get" /\ benchLog' = Append(benchLog, [utt |-> task, bench |-> record])
  BY DEF Ends
<1>4. /\ \E S : benchLog' \in Seq(S)
      /\ Len(benchLog') = task /\ Len(benchLog) = task - 1
      /\ benchLog'[task] = [utt |-> task, bench |-> record]
      /\ \A u \in 1 .. Len(benchLog) : benchLog'[u] = benchLog[u]
  <2>1. Len(benchLog) = task - 1
    BY DEF BenchTruthful
  <2>2. PICK S : benchLog \in Seq(S)
    OBVIOUS
  <2>3. benchLog \in Seq(S \cup {[utt |-> task, bench |-> record]})
    BY <2>2, SeqMonotonic
  <2> HIDE DEF InTheMaking, BenchInv, Books
  <2>4. /\ benchLog' \in Seq(S \cup {[utt |-> task, bench |-> record]})
        /\ Len(benchLog') = Len(benchLog) + 1
        /\ benchLog'[Len(benchLog) + 1] = [utt |-> task, bench |-> record]
        /\ \A u \in 1 .. Len(benchLog) : benchLog'[u] = benchLog[u]
    BY <1>3, <2>3, SMT
  <2>5. (task - 1) + 1 = task
    BY SMT DEF BenchInv, Books
  <2> QED BY <2>1, <2>4, <2>5
<1>5. /\ \E S : answered' \in Seq(S)
      /\ \A k \in 1 .. Len(answered') : answered'[k] \in Nat /\ answered'[k] <= task
      /\ \A u \in Nat : (\E k \in 1 .. Len(answered') : answered'[k] = u) <=>
            \/ \E k \in 1 .. Len(answered) : answered[k] = u
            \/ u = task /\ record.completed /\ record.firstSentence
  <2>1. CASE ~(record.completed /\ record.firstSentence)
    BY <2>1
  <2>2. CASE record.completed /\ record.firstSentence
    <3>1. PICK S : answered \in Seq(S)
      OBVIOUS
    <3>2. answered \in Seq(S \cup {task}) /\ answered' = Append(answered, task)
      BY <2>2, <3>1, SeqMonotonic
    <3> HIDE DEF InTheMaking, BenchInv, Books
    <3>3. /\ answered' \in Seq(S \cup {task})
          /\ Len(answered') = Len(answered) + 1 /\ Len(answered) \in Nat
          /\ answered'[Len(answered) + 1] = task
          /\ \A k \in 1 .. Len(answered) : answered'[k] = answered[k]
      BY <3>2, SMT
    <3>4. task \in Nat
          /\ \A k \in 1 .. Len(answered) : answered[k] \in Nat /\ answered[k] <= task
      BY DEF BenchInv, Books
    <3>5. 1 .. Len(answered) + 1 = 1 .. Len(answered) \cup {Len(answered) + 1}
      BY <3>3, SMT
    <3>6. task <= task
      BY <3>4, SMT
    <3> HIDE <2>2
    <3>7. \A k \in 1 .. Len(answered') : answered'[k] \in Nat /\ answered'[k] <= task
      BY <3>3, <3>4, <3>5, <3>6, Zenon
    <3>8. \A u \in Nat : (\E k \in 1 .. Len(answered') : answered'[k] = u) <=>
             \/ \E k \in 1 .. Len(answered) : answered[k] = u
             \/ u = task
      BY <3>3, <3>5, Zenon
    <3> QED BY <2>2, <3>3, <3>7, <3>8, Zenon
  <2> QED BY <2>1, <2>2
<1>6. Books'
  BY <1>3, <1>4, <1>5
<1>7. ASSUME NEW u \in 1 .. task
      PROVE  /\ benchLog'[u].utt = u
             /\ benchLog'[u].bench.firstAudio <=> Heard(u) # {}
             /\ benchLog'[u].bench.sentences >= Cardinality(SentencesHeard(u))
             /\ benchLog'[u].bench.completed /\ benchLog'[u].bench.firstSentence <=>
                    \E k \in 1 .. Len(answered') : answered'[k] = u
  <2>1. CASE u = task
    <3>1. benchLog'[u].utt = u /\ benchLog'[u].bench = record
      BY <1>4, <2>1
    <3>2. Cardinality(SentencesHeard(task)) <= record.sentences
          /\ Cardinality(SentencesHeard(task)) \in Nat /\ record.sentences \in Nat
      <4>1. SentencesHeard(task) \subseteq Counted
        BY DEF Counted
      <4>2. Cardinality(SentencesHeard(task)) <= Cardinality(Counted)
            /\ IsFiniteSet(SentencesHeard(task))
            /\ Cardinality(Counted) \in Nat
            /\ Cardinality(SentencesHeard(task)) \in Nat
        BY <4>1, FS_Subset, FS_CardinalityType
      <4> QED BY <4>2, SMT DEF BenchRecord
    <3>3. record.completed /\ record.firstSentence <=>
              \E k \in 1 .. Len(answered') : answered'[k] = u
      BY <1>5, <2>1
    <3> QED BY <2>1, <3>1, <3>2, <3>3
  <2>2. CASE u # task
    <3>1. u \in 1 .. Len(benchLog) /\ u \in Nat
      BY <1>4, <2>2, SMT
    <3>2. benchLog'[u] = benchLog[u]
      BY <1>4, <3>1
    <3>3. /\ benchLog[u].utt = u
          /\ benchLog[u].bench.firstAudio <=> Heard(u) # {}
          /\ benchLog[u].bench.sentences >= Cardinality(SentencesHeard(u))
          /\ benchLog[u].bench.completed /\ benchLog[u].bench.firstSentence <=>
                 \E k \in 1 .. Len(answered) : answered[k] = u
      BY <3>1 DEF BenchTruthful
    <3> QED BY <1>5, <2>2, <3>1, <3>2, <3>3, Zenon
  <2> QED BY <2>1, <2>2
<1>8. BenchTruthful'
  BY <1>1, <1>2, <1>3, <1>4, <1>7, Zenon DEF BenchTruthful
<1> QED BY <1>6, <1>8

LEMMA BenchTakesUp ==
    ASSUME BenchInv, TakeUp
    PROVE  Books' /\ BenchTruthful'
<1> USE DEF BenchInv, Books, fileVars, llmVars, ttsVars, sessionVars
<1>1. worker = "get" /\ worker' = "stt" /\ bench' = NewBench
      /\ UNCHANGED <<outboundQueue, answered, benchLog, parts>>
  BY DEF TakeUp
<1>2. /\ queue # <<>> /\ queue \in Seq(Utterances) /\ task' = Head(queue)
      /\ queue' = Tail(queue)
  BY DEF TakeUp, Shape
<1>3. /\ task' = task + 1
      /\ \A i \in 1 .. Len(queue') : queue'[i] = task' + i
  <2>1. /\ Len(queue) \in Nat \ {0} /\ Head(queue) = queue[1]
        /\ Len(queue') = Len(queue) - 1
        /\ \A i \in 1 .. Len(queue') : queue'[i] = queue[i + 1]
    BY <1>2, HeadTailProperties, EmptySeq, SMT
  <2>2. task' = task + 1
    <3>1. 1 \in 1 .. Len(queue)
      BY <2>1, SMT
    <3> QED BY <1>2, <2>1, <3>1
  <2>3. ASSUME NEW i \in 1 .. Len(queue')
        PROVE  queue'[i] = task' + i
    <3>1. i + 1 \in 1 .. Len(queue)
      BY <2>1, SMT
    <3>2. queue'[i] = task + (i + 1)
      BY <2>1, <3>1
    <3>3. task + (i + 1) = (task + 1) + i
      BY SMT
    <3> QED BY <2>2, <3>2, <3>3
  <2> QED BY <2>2, <2>3
<1>4. \A u : Heard(u)' = Heard(u)
  BY <1>1 DEF Heard
<1>5. Heard(task') = {} /\ SentencesHeard(task') = {}
  <2>1. \A k \in 1 .. Len(outboundQueue) : outboundQueue[k].utt # task'
    BY <1>3, SMT
  <2> QED BY <2>1 DEF Heard, SentencesHeard
<1>6. InTheMaking'
  <2>1. Counted' = {}
    BY <1>1, <1>4, <1>5 DEF Counted, SentencesHeard, Heard
  <2>2. IsFiniteSet({}) /\ Cardinality({}) = 0
    BY FS_EmptySet
  <2>3. /\ bench' \in BenchRecord /\ ~bench'.completed /\ ~bench'.firstAudio
        /\ ~bench'.firstSentence /\ bench'.sentences = 0
    BY <1>1 DEF NewBench, BenchRecord
  <2>4. parts' = <<>>
    BY <1>1 DEF Shape
  <2>5. task' # 0 /\ \A k \in 1 .. Len(answered') : answered'[k] # task'
    BY <1>1, <1>3, SMT
  <2> HIDE DEF BenchInv, Books
  <2> QED BY <1>4, <1>5, <2>1, <2>2, <2>3, <2>4, <2>5 DEF InTheMaking
<1>7. Books'
  <2>1. task' \in Nat /\ task <= task'
    BY <1>3, SMT
  <2>2. \A n \in Nat : n <= task => n <= task'
    BY <1>3, SMT
  <2> QED BY <1>1, <1>3, <1>6, <2>1, <2>2
<1>8. BenchTruthful'
  <2>1. Len(benchLog') = task' - 1
    <3>1. (task + 1) - 1 = task
      BY SMT
    <3> QED BY <1>1, <1>3, <3>1 DEF BenchTruthful
  <2>2. \A u : SentencesHeard(u)' = SentencesHeard(u)
    BY <1>1, <1>4 DEF SentencesHeard, Heard
  <2>3. worker' # "get" /\ UNCHANGED <<benchLog, answered>>
    BY <1>1
  <2> HIDE DEF BenchInv, Books
  <2>4. BenchTruthful
    BY DEF BenchInv
  <2> QED BY <1>4, <2>1, <2>2, <2>3, <2>4 DEF BenchTruthful
<1> QED BY <1>7, <1>8

\* A WAV with samples: its sentence counts before its first chunk is put.
LEMMA BenchCounts ==
    ASSUME BenchInv, worker = "tts", worker' = "put",
           UNCHANGED <<queue, task, outboundQueue, answered, benchLog, parts>>,
           bench' = [bench EXCEPT !.sentences = @ + 1]
    PROVE  Books' /\ BenchTruthful'
<1> USE DEF BenchInv, Books, InTheMaking
<1>1. \A u : Heard(u)' = Heard(u)
  BY DEF Heard
<1>2. \A u : SentencesHeard(u)' = SentencesHeard(u)
  BY <1>1 DEF SentencesHeard, Heard
<1>3. /\ bench' \in BenchRecord /\ bench'.sentences = bench.sentences + 1
      /\ bench'.completed = bench.completed
      /\ bench'.firstAudio = bench.firstAudio
      /\ bench'.firstSentence = bench.firstSentence
      /\ bench.sentences \in Nat
  <2>1. bench \in BenchRecord /\ bench' = [bench EXCEPT !.sentences = @ + 1]
    OBVIOUS
  <2> HIDE DEF BenchInv, Books, InTheMaking
  <2> QED BY <2>1, SMT DEF BenchRecord
<1>4. IsFiniteSet(Counted') /\ Cardinality(Counted') <= bench'.sentences
  <2>1. Counted' = Counted \cup {Len(parts)}
    BY <1>2 DEF Counted
  <2>2. IsFiniteSet(Counted')
        /\ Cardinality(Counted') \in {Cardinality(Counted), Cardinality(Counted) + 1}
        /\ Cardinality(Counted) \in Nat
    BY <2>1, FS_AddElement, FS_CardinalityType
  <2> QED BY <1>3, <2>2, SMT
<1>5. Books'
  BY <1>1, <1>3, <1>4
<1>6. BenchTruthful'
  BY <1>1, <1>2 DEF BenchTruthful
<1> QED BY <1>5, <1>6

LEMMA BenchPuts ==
    ASSUME BenchInv, PutSlice
    PROVE  Books' /\ BenchTruthful'
<1> USE DEF BenchInv, Books, fileVars, llmVars
<1> DEFINE new == [utt |-> task, sentence |-> Len(parts), chunk |-> chunk + 1]
<1>1. /\ worker = "put" /\ worker' \in {"put", "llm"}
      /\ outboundQueue' = Append(outboundQueue, new)
      /\ bench' = [bench EXCEPT !.firstAudio = TRUE]
      /\ UNCHANGED <<queue, task, parts, answered, benchLog>>
  BY DEF PutSlice
<1>2. /\ \E S : outboundQueue' \in Seq(S)
      /\ Len(outboundQueue) \in Nat /\ Len(outboundQueue') = Len(outboundQueue) + 1
      /\ outboundQueue'[Len(outboundQueue) + 1] = new
      /\ \A k \in 1 .. Len(outboundQueue) : outboundQueue'[k] = outboundQueue[k]
  <2>1. PICK S : outboundQueue \in Seq(S)
    OBVIOUS
  <2>2. outboundQueue \in Seq(S \cup {new})
    BY <2>1, SeqMonotonic
  <2> HIDE DEF BenchInv, Books, new
  <2>3. /\ outboundQueue' \in Seq(S \cup {new}) /\ Len(outboundQueue) \in Nat
        /\ Len(outboundQueue') = Len(outboundQueue) + 1
        /\ outboundQueue'[Len(outboundQueue) + 1] = new
        /\ \A k \in 1 .. Len(outboundQueue) : outboundQueue'[k] = outboundQueue[k]
    BY <1>1, <2>2, SMT
  <2> QED BY <2>3
<1>3. /\ 1 .. Len(outboundQueue') = 1 .. Len(outboundQueue) \cup {Len(outboundQueue) + 1}
      /\ Len(outboundQueue) + 1 \notin 1 .. Len(outboundQueue)
  BY <1>2, SMT
<1>4. new.utt = task /\ new.sentence = Len(parts)
  OBVIOUS
<1> HIDE DEF new
<1>5. \A u : u # task => Heard(u)' = Heard(u) /\ SentencesHeard(u)' = SentencesHeard(u)
  <2>1. ASSUME NEW u, u # task
        PROVE  Heard(u)' = Heard(u) /\ SentencesHeard(u)' = SentencesHeard(u)
    <3>1. Heard(u)' = Heard(u)
      BY <1>2, <1>3, <1>4, <2>1, Zenon DEF Heard
    <3>2. \A k \in Heard(u) : outboundQueue'[k] = outboundQueue[k]
      BY <1>2 DEF Heard
    <3> QED BY <3>1, <3>2 DEF SentencesHeard
  <2> QED BY <2>1
<1>6. Heard(task)' # {} /\ SentencesHeard(task)' = SentencesHeard(task) \cup {Len(parts)}
  <2>1. Heard(task)' = Heard(task) \cup {Len(outboundQueue) + 1}
    BY <1>1, <1>2, <1>3, <1>4, Zenon DEF Heard
  <2>2. \A k \in Heard(task) : outboundQueue'[k] = outboundQueue[k]
    BY <1>2 DEF Heard
  <2>3. SentencesHeard(task)' = {outboundQueue'[k].sentence : k \in Heard(task)'}
    BY <1>1 DEF SentencesHeard, Heard
  <2>4. outboundQueue'[Len(outboundQueue) + 1].sentence = Len(parts)
    BY <1>2, <1>4
  <2>5. SentencesHeard(task)' = SentencesHeard(task) \cup {Len(parts)}
    <3> HIDE DEF BenchInv, Books
    <3> QED BY <2>1, <2>2, <2>3, <2>4, Zenon DEF SentencesHeard
  <2> QED BY <2>1, <2>5
<1>7. /\ bench' \in BenchRecord /\ bench'.sentences = bench.sentences
      /\ bench'.completed = bench.completed /\ bench'.firstAudio
      /\ bench'.firstSentence = bench.firstSentence
  BY <1>1 DEF BenchRecord, InTheMaking
<1>8. InTheMaking'
  <2>1. Counted' \subseteq Counted
    BY <1>1, <1>6 DEF Counted
  <2>2. IsFiniteSet(Counted') /\ Cardinality(Counted') <= Cardinality(Counted)
        /\ Cardinality(Counted) \in Nat /\ Cardinality(Counted') \in Nat
    BY <1>1, <2>1, FS_Subset, FS_CardinalityType DEF InTheMaking
  <2>3. Cardinality(Counted') <= bench'.sentences
    BY <1>1, <1>7, <2>2, SMT DEF InTheMaking, BenchRecord
  <2> QED BY <1>1, <1>6, <1>7, <2>2, <2>3 DEF InTheMaking
<1>9. Books'
  <2>1. \A k \in 1 .. Len(outboundQueue') :
           outboundQueue'[k].utt \in Nat /\ outboundQueue'[k].utt <= task
    <3>1. task <= task
      BY SMT
    <3> QED BY <1>2, <1>3, <1>4, <3>1, Zenon
  <2> QED BY <1>1, <1>2, <1>8, <2>1
<1>10. BenchTruthful'
  <2>1. Len(benchLog) = task - 1 /\ Len(benchLog') = task' - 1 /\ worker' # "get"
    BY <1>1 DEF BenchTruthful
  <2>2. \A u \in 1 .. Len(benchLog) : u # task
    BY <2>1, SMT
  <2> QED BY <1>1, <1>5, <2>1, <2>2 DEF BenchTruthful
<1> QED BY <1>9, <1>10

LEMMA BenchStep == BenchInv /\ [Next]_vars => BenchInv'
<1> SUFFICES ASSUME BenchInv, [Next]_vars PROVE Books' /\ BenchTruthful'
  BY ShapeStep DEF BenchInv
<1> USE DEF fileVars, llmVars, ttsVars, sessionVars
<1>0. /\ worker # "get" => InTheMaking
      /\ worker \in {"get", "stt"} => parts = <<>>
      /\ \E S : parts \in Seq(S)
      /\ wav \in Wavs \cup {NoWav, Raises}
  BY DEF BenchInv, Books, Shape
<1>1. CASE Cancel \/ UNCHANGED vars
  <2>1. UNCHANGED <<queue, worker, task, parts, outboundQueue, answered, bench,
                    benchLog>>
    BY <1>1 DEF Cancel, vars
  <2>2. \A u : Heard(u)' = Heard(u)
    BY <2>1 DEF Heard
  <2>3. \A u : SentencesHeard(u)' = SentencesHeard(u)
    BY <2>1, <2>2 DEF SentencesHeard, Heard
  <2>4. InTheMaking' <=> InTheMaking
    BY <2>1, <2>2, <2>3 DEF InTheMaking, Counted
  <2> QED BY <2>1, <2>2, <2>3, <2>4 DEF BenchInv, Books, BenchTruthful
<1>2. CASE TakeUp
  BY <1>2, BenchTakesUp
<1>3. CASE MakeTempFile \/ NoBytes \/ StreamEnds \/ StreamFails
  <2>1. /\ worker # "get" /\ worker' # "get" /\ worker' # "put"
        /\ UNCHANGED <<queue, task, outboundQueue, answered, benchLog, parts, bench>>
    BY <1>3 DEF MakeTempFile, NoBytes, StreamEnds, StreamFails, Resumed
  <2>2. bench.sentences >= bench.sentences
    BY <1>0, <2>1, SMT DEF InTheMaking, BenchRecord
  <2> QED BY <1>0, <2>1, <2>2, BenchQuiet DEF InTheMaking
<1>4. ASSUME NEW kinds, Token(kinds)
      PROVE  Books' /\ BenchTruthful'
  <2>1. /\ worker # "get" /\ worker' # "get" /\ worker' # "put"
        /\ UNCHANGED <<queue, task, outboundQueue, answered, benchLog, parts, bench>>
    BY <1>4 DEF Token, Resumed
  <2>2. bench.sentences >= bench.sentences
    BY <1>0, <2>1, SMT DEF InTheMaking, BenchRecord
  <2> QED BY <1>0, <2>1, <2>2, BenchQuiet DEF InTheMaking
<1>5. CASE Transcribed
  <2>1. /\ worker = "stt" /\ worker' = "llm"
        /\ UNCHANGED <<queue, task, outboundQueue, answered, benchLog, parts>>
        /\ bench' = [bench EXCEPT !.stt = TRUE]
    BY <1>5 DEF Transcribed
  <2>2. bench \in BenchRecord
    BY <1>0, <2>1 DEF InTheMaking
  <2>3. /\ bench' \in BenchRecord /\ bench'.completed = bench.completed
        /\ bench'.firstAudio = bench.firstAudio
        /\ bench'.sentences >= bench.sentences
        /\ bench'.firstSentence = bench.firstSentence
    <3>1. bench' \in BenchRecord /\ bench'.sentences = bench.sentences
          /\ bench.sentences \in Nat
      BY <2>1, <2>2 DEF BenchRecord
    <3>2. bench'.sentences >= bench.sentences
      BY <3>1, SMT
    <3> QED BY <2>1, <2>2, <3>1, <3>2 DEF BenchRecord
  <2> QED BY <1>0, <2>1, <2>3, BenchQuiet DEF InTheMaking
<1>6. ASSUME NEW w, Synthesize(w)
      PROVE  Books' /\ BenchTruthful'
  <2>1. /\ worker = "llm" /\ worker' = "tts"
        /\ UNCHANGED <<queue, task, outboundQueue, answered, benchLog>>
        /\ bench' = [bench EXCEPT !.firstSentence = TRUE]
        /\ parts' = Append(parts, Head(pending))
    BY <1>6 DEF Synthesize, Yielded
  <2>2. bench \in BenchRecord
    BY <1>0, <2>1 DEF InTheMaking
  <2>3. /\ bench' \in BenchRecord /\ bench'.completed = bench.completed
        /\ bench'.firstAudio = bench.firstAudio
        /\ bench'.sentences >= bench.sentences
        /\ bench'.firstSentence
    <3>1. bench' \in BenchRecord /\ bench'.sentences = bench.sentences
          /\ bench.sentences \in Nat
      BY <2>1, <2>2 DEF BenchRecord
    <3>2. bench'.sentences >= bench.sentences
      BY <3>1, SMT
    <3> QED BY <2>1, <2>2, <3>1, <3>2 DEF BenchRecord
  <2>4. parts' # <<>>
    BY <1>0, <2>1, PartsGrow
  <2> QED BY <1>0, <2>1, <2>3, <2>4, BenchQuiet DEF InTheMaking
<1>7. CASE Converted
  <2>1. /\ worker = "tts" /\ wav \in Wavs /\ Slices(wav) \in Nat
        /\ UNCHANGED <<queue, task, outboundQueue, answered, benchLog, parts>>
        /\ bench' = [bench EXCEPT !.sentences = @ + 1]
        /\ worker' = IF Slices(wav) = 0 THEN "llm" ELSE "put"
    BY <1>0, <1>7, WavsAreWhole DEF Converted
  <2>2. CASE Slices(wav) # 0
    BY <2>1, <2>2, BenchCounts
  <2>3. CASE Slices(wav) = 0
    <3>1. bench \in BenchRecord
      BY <1>0, <2>1 DEF InTheMaking
    <3>2. /\ bench' \in BenchRecord /\ bench'.completed = bench.completed
          /\ bench'.firstAudio = bench.firstAudio
          /\ bench'.sentences >= bench.sentences
          /\ bench'.firstSentence = bench.firstSentence
      BY <2>1, <3>1, SMT DEF BenchRecord
    <3> QED BY <1>0, <2>1, <2>3, <3>2, BenchQuiet DEF InTheMaking
  <2> QED BY <2>2, <2>3
<1>8. CASE PutSlice
  BY <1>8, BenchPuts
<1>9. CASE TranscriptionRaises \/ StreamRaises \/ Unconvertible
  <2>1. /\ worker # "get" /\ Ends(bench)
        /\ UNCHANGED <<queue, task, outboundQueue, answered>>
    BY <1>9 DEF TranscriptionRaises, StreamRaises, Unconvertible, Resumed
  <2>2. bench \in BenchRecord /\ ~bench.completed
    BY <1>0, <2>1 DEF InTheMaking
  <2> QED BY <1>0, <2>1, <2>2, BenchEnds
<1>10. CASE NothingTranscribed
  <2> DEFINE record == [bench EXCEPT !.stt = TRUE]
  <2>1. /\ worker # "get" /\ Ends(record)
        /\ UNCHANGED <<queue, task, outboundQueue, answered>>
    BY <1>10 DEF NothingTranscribed
  <2>2. bench \in BenchRecord /\ ~bench.completed
    BY <1>0, <2>1 DEF InTheMaking
  <2>3. /\ record \in BenchRecord /\ ~record.completed
        /\ record.firstAudio = bench.firstAudio
        /\ record.sentences = bench.sentences
    BY <2>2 DEF BenchRecord
  <2> HIDE DEF record
  <2> QED BY <2>1, <2>3, BenchEnds
<1>11. CASE CancelSeen
  <2> DEFINE record == [bench EXCEPT !.firstSentence = TRUE]
  <2>1. /\ worker # "get" /\ Ends(record)
        /\ UNCHANGED <<queue, task, outboundQueue, answered>>
    BY <1>11 DEF CancelSeen
  <2>2. bench \in BenchRecord /\ ~bench.completed
    BY <1>0, <2>1 DEF InTheMaking
  <2>3. /\ record \in BenchRecord /\ ~record.completed
        /\ record.firstAudio = bench.firstAudio
        /\ record.sentences = bench.sentences
    BY <2>2 DEF BenchRecord
  <2> HIDE DEF record
  <2> QED BY <2>1, <2>3, BenchEnds
<1>12. CASE Complete
  <2> DEFINE record == [bench EXCEPT !.completed = TRUE]
  <2>1. /\ worker # "get" /\ Ends(record)
        /\ UNCHANGED <<queue, task, outboundQueue>>
        /\ IF parts = <<>> THEN answered' = answered
                          ELSE answered' = Append(answered, task)
    BY <1>12 DEF Complete
  <2>2. bench \in BenchRecord /\ (bench.firstSentence <=> parts # <<>>)
    BY <1>0, <2>1 DEF InTheMaking
  <2>3. /\ record \in BenchRecord /\ record.completed
        /\ record.firstSentence = bench.firstSentence
        /\ record.firstAudio = bench.firstAudio
        /\ record.sentences = bench.sentences
    BY <2>2 DEF BenchRecord
  <2> HIDE DEF record
  <2> QED BY <2>1, <2>2, <2>3, BenchEnds
<1> QED BY <1>1, <1>2, <1>3, <1>4, <1>5, <1>6, <1>7, <1>8, <1>9, <1>10, <1>11, <1>12
        DEF Next, STT, LLM, TTS

\* Each utterance taken up ends in exactly one BENCH line, and the line is true
\* to what was heard of it and to the history, however the utterance ended.
THEOREM BenchLinesAreTrue == Spec => []BenchTruthful
<1>1. BenchInv => BenchTruthful
  BY DEF BenchInv
<1> QED BY <1>1, BenchInit, BenchStep, PTL DEF Spec
=============================================================================
