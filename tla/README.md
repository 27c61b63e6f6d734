# A verification project for voice-agent-runtime

TLA+ models of the runtime's stateful core and of the benchmark that measures
it, the TLC runs that check them on small instances, and theorems that hold for
every value of the constants, proved with TLAPS.  Paths are relative to the
repository's root (`src/` here).

    tlc -workers 2 -config vad.cfg MCVADDetector           # one run
    tlapm VADDetectorProofs.tla                            # one module of proofs

`PROJECT.json` lists the components, the runs with the properties of each, a
mutation of the code's model that breaks each property, the source lines each
definition stands for, the hazards and the theorems.

## 1. The system

A caller's audio goes through three processes:

    caller (AetherRTC, or the test harness)
      | gRPC, bidirectional stream of events
    orchestrator-go    gateway or harness + one Session per call
      | gRPC, bidirectional stream StreamEvents
    inference-py       one InferenceSession per call: VAD, STT, LLM, TTS

A fourth program, `scripts/bench/bench_latency.py`, starts the last two, calls
the gateway as a caller does, and reads the engine's log for its timings.

| Component | State it keeps | Operations | Interacts by | What makes it correct | Model |
| --- | --- | --- | --- | --- | --- |
| VAD detector `vad/detector.py` | debounce state, three counters, lookback, candidate and utterance buffers | `process_frames`, `get_utterance_frames`, `reset` | called by the read pump only | an utterance starts on enough speech, ends on enough silence, is gapless and in order, sends no speech twice, and is bounded | `VADDetector` |
| Audio preprocessor `vad/preprocessor.py` | two buffers with remainders, the source rate | `push`: bytes to blocks, resampled, to 512-sample frames | made and called by the read pump | loses and repeats no sample, lags by less than a block and a frame, keeps the caller's time | `AudioPreprocessor` |
| Inference call `inference-py/main.py` | utterance and outbound queues, history, prompt | read pump, utterance worker, generator | two queues, poison pills, `is_active()` | replies in order and whole, context current, half-close drains, cancel stops, threads are given back | `InferenceSession` |
| Reply: `_run_utterance`, `llm/engine.py`, `stt/transcriber.py`, `tts/synthesizer.py` | text buffer of the generator, temporary file, BENCH record, assistant parts | transcribe, `generate_stream`, `_extract_sentences`, synthesize, convert, chunk | calls inside the worker | sentences depend on the text alone, one true BENCH line, no file left, and all of it is what `InferenceSession` allows its worker | `Reply` |
| Session `internal/session` | call state behind a mutex, channels `AgentAudioChan` and `DoneChan`, idle timer | Attach, readPump, Terminate, idle callback, Stream* | goroutines, channels, timer | nothing lost, TERMINATED is final and is told, RESPONDING follows the audio | `Session` |
| Gateway `internal/gateway` | nothing beyond the call: its goroutines and contexts | `StreamAudio` and two relay goroutines | the session's channels, both gRPC streams | relays in order, hears the engine out, returns, leaves no goroutine but in one case | `Gateway` |
| Latency benchmark `bench_latency.py` | child processes, log tail with its queue, reader thread with its queue, GPU sampler, loop deadlines | `Stack.start/stop`, `LogTail`, `Call`, `run_turn`, `run_call`, `cold_run`, `warm_run`, `main` | gRPC stream, the engine's log file, ports, kill | an ok turn has measured its own answer, calls run on their own stack, the program ends | `BenchTurn`, `BenchRun` |
| Test harness `cmd/main.go` | playback and capture goroutines, exit timing | reads a wave file, sends, waits, writes | owns a Session | does not exit before the reply ended | - |
| WAV helpers, gateway process, manual client, configuration, protocol stubs, report scripts, tests | - | - | - | - | - |

Where it is hard: three threads and two unbounded queues per engine call;
four goroutines, a mutex that protects single reads and writes only, a timer
whose callback cannot be taken back, and a bounded channel per orchestrator
call; both ends of the gRPC stream may half-close, cancel or break at any
moment; engine calls raise in the middle of a reply; buffers with several
thresholds, remainders and resets; a benchmark that joins two unsynchronised
sources by order of arrival and starts processes it may fail to kill.  The
runtime persists nothing, so there is no crash recovery; gRPC delivers in order
and once, so there is no loss or reordering of messages, only broken streams.

## 2. What is modelled

### VADDetector

A frame is its position in the call and `heard` says whether Silero scored it
above the threshold; the recurrent state of the network is abstracted, so every
sequence of scores is possible.  `vadState`, the counters, `lookback`,
`pendingFrames` and `utteranceFrames` are the attributes of `VADDetector`
(`vad/detector.py`).  `HandleSilence`, `HandleSpeechStarting`, `HandleSpeech`
and `HandleSpeechEnding` are the handlers, `ProcessFrames` one frame of
`process_frames`.  On END_OF_UTTERANCE `_handle_audio_event` drains the buffer
before the next call, so `Dispatch` is part of the action that closes an
utterance.  `Override` is a manual END_OF_UTTERANCE (`_handle_control_event`),
which drains and does not touch the debounce state; `Reset` is `reset()`, which
the benchmarks call.  The gateway never forwards END_OF_UTTERANCE: overrides
come from a client that uses `Session.StreamUtterance`, or another client of
the engine.  Deployed values are 8 speech, 25 silence, 469 ceiling, 10 lookback
frames and no dips.

### AudioPreprocessor

A raw sample is its number in the call; a resampled one is the block it was
made of and its place in it, because `resample_poly` is applied to each 100 ms
block alone and makes `ceil(len * up / down)` samples of it.  `rawBuffer` and
`remainder` are `_raw_buffer` and `_remainder`.  `StartSession` and `Audio` are
the branches of `_read_pump` that make the preprocessor (the first of them
fixes the rate for the call), `PushBlock` is one turn of `push`'s loop,
`OddBytes` the packet that `np.frombuffer` refuses.

### InferenceSession

One `StreamEvents` call.  `pump` is the position of `_read_pump`, `worker` of
`_utterance_worker` with `_run_utterance`, `relay` of the generator;
`utteranceQueue` and `outboundQueue` are the two `queue.Queue`s with their
poison pills.  One action per queue operation and per engine call: `PumpRecv`,
`HandleControl`, `HandleAudio`, `PumpEnd`, `PumpRaises`, `WorkerGet`,
`Transcribe`, `NextSentence`, `PutChunk`, `ReplyEnds`, `Abandon`, and so on.
`HandleAudio` is the loop over the frames of one audio event: it dispatches at
every boundary among them (`FramesToBoundary`), any number, with the worker
running in between, and may leave the buffer open again (`FramesUsedUp`).
VAD and preprocessor are what the pump sees of them: an open utterance or not,
and that a boundary never finds an empty buffer - which is `OnlyOpenUtterances`
of VADDetector.  STT, LLM and TTS are external: they return anything or raise.
A call that hangs is outside the model.

### Reply

The same worker from the inside, for a queue of utterances: the temporary file
of the transcriber (`MakeTempFile`, `Unlink`), the token loop of
`generate_stream` (`Token`, `StreamEnds`, `StreamFails`, `StreamRaises`), the
cuts of `_extract_sentences` (`Cuts`, `Extracted`, `Remaining`), the
synthesizer's WAV, its conversion to 8 kHz bytes and slices (`PcmBytes`,
`Slices`), the chunks, the history and the BENCH record with its `finally`
(`Ends`).  A character is a letter, a blank or an ending, and its place in the
reply; a sentence is the two places it was cut between.  Whisper, Ollama and
Piper answer anything or raise, what each wrapper catches is caught, and Piper
may be missing altogether.

Its refinement mapping onto InferenceSession (`Worker == INSTANCE
InferenceSession WITH ...`): the queue, the task, the chunks put, the history
and the cancel are the same; `sentence` is the number of sentences yielded;
while synthesis runs (`"tts"`) the abstract worker is already putting chunks if
the WAV has any, and is still with the LLM if it has none, because
`NextSentence(n)` decides both at the `is_active` test; pump and relay stand
still.  `ImplementsWorker` then says that each step is a step of the abstract
worker, the cancel, or none; `RefinesWorker` proves it.  What is checked of
InferenceSession with "any answer" therefore covers what the real wrappers
answer.

### Session

`state` with `validTransitions` is the table of `session.go`.  `GetState` and
`transitionTo` each take the mutex, so `handleAudioEvent` is four steps
(`CheckState`, `MarkResponding`, `ResetTimer`, `SendChunk`) and the idle
callback two (`CallbackChecks`, `CallbackSets`); everything else runs between
them.  The deferred calls of `readPump` are `StopTimer`, `SignalDone`,
`CloseChan`, in that order.  `Consume` is the owner's receive.  `InterruptChan`
is never used by the code.  The sending half (`StreamAudio`, `StreamUtterance`,
`StreamSilence`, `SendAudio`) changes none of this state.

### Gateway

EXTENDS Session and adds one `StreamAudio` call: the handler's positions from
the first Recv to its return, the outbound goroutine (`OutboundTake`,
`OutboundSend`, `OutboundFails`, `OutboundEnds`), the inbound goroutine, the
one-place channel `inboundErr` and the cancellation of the engine's context.
The handler is the session's owner (`Attach`, `Run`), the outbound goroutine its
reader (`Consume`); the other steps of Session appear as they are, and
`GatewayOwnsSession` proves that none is added.

### BenchTurn and BenchRun

`BenchTurn` is `run_call` and `run_turn` with the two threads that feed them:
`phase` is the program's position, `rx` and `benchQ` the two queues, `late` the
loop's deadline, `Record` what becomes of the turn.  The services are external:
the VAD may find no utterance in a turn's speech or cut it in two, a worker per
call answers one utterance after the other, even for a call hung up on, with
any number of chunks and then a BENCH line; nothing ties the arrival of the
audio to that of the log lines.  What is sent carries, as a history, the turn
it answers, which the code cannot see (it does not compare `session_id`).
`AwaitAudio`/`AwaitBench` and `CompleteAudio`/`CompleteBench` are the two loops,
one queue operation each; `PauseEnds` is the pause and the record.

`BenchRun` EXTENDS it with the program around the calls: `Program` is the
sequence of operations that `cold_run` and `warm_run` come to for the given
arguments, `pc` the one in progress, `step` the position within `Stack.start`.
Operations may raise; `Finally` is `main`'s.  `Stop` may leave any process
running, which is what `kill_tree`'s ten seconds allow; `forgotten` holds these
by kind, with whether they listen.  A survivor that was still starting may come
to listen (`SurvivorListens`) and take the port from the stack's own service,
and any may end after all (`SurvivorEnds`).  `CheckPorts` and `WaitForGateway`
test what the code tests, `PortOpen`: somebody listens.  `CheckPorts` may also
find a port held by a program that is none of ours.  What answers a call is the
engine that listens, ours or not (`EngineStep`), but only ours writes the log
that is read.  The tail thread may open a log of an earlier run before
`Stack.start` truncates it.

`MCVADDetector`, `MCAudioPreprocessor`, `MCInferenceSession`, `MCReply`,
`MCSession`, `MCGateway` and `MCBenchRun` are the instances for TLC;
`VADDetectorProofs`, `AudioPreprocessorProofs`, `InferenceProofs`,
`ReplyProofs`, `CutProofs`, `SessionProofs`, `GatewayProofs` and `BenchProofs`
hold the theorems.

## 3. The runs

| Run | Instance | Shows |
| --- | --- | --- |
| `vad` | speech 3, silence 2, ceiling 6, lookback 2, dips of 1, overrides and resets anywhere, 11 frames | both directions of the debounce; open utterances only, gapless, in order, speech sent once, pauses close on time, buffers bounded |
| `preprocessor` | rates 40, 20, 25, default 30 to 40; frames of 3; packets of up to 7 of 30 samples | nothing lost, repeated or reordered, lag bounded, clock kept |
| `inference` | any number of events, 2 utterances, one change of prompt, 2 sentences, 2 chunks, history of one entry | replies in order, context complete, half-close drains, cancel stops speech, utterances are taken up, threads are given back |
| `reply` | 2 utterances of 6 and 3 characters, tokens of up to 4, three kinds of WAV, every exception | cuts by the text alone, true BENCH lines, no file left, refinement of InferenceSession's worker |
| `session` | channel of 2, 4 chunks, 2 callbacks, Terminate at any time | lossless relay, final and told termination, RESPONDING ends |
| `gateway` | channel of 2, 4 chunks, 1 callback | order, draining, return on every hang-up, the one way to leak |
| `bench` | one cold repeat of two turns, one warm run with a warm-up and one pass, one split, an old log for the cold repeat | own measurements, own stack, the program ends |
| `vad_bleeding` | violation | section 6 |
| `inference_vad_missing` | violation | section 6 |
| `session_recv_error` | violation | section 6 |
| `session_idle_race` | violation | section 6 |
| `gateway_leak` | violation | section 6 |

Bounds and why they suffice.  `MaxFrames` is longer than the ceiling plus a
confirmation, and than two confirmed utterances with their pauses, so an
utterance that follows one, cut by the ceiling or by silence, is reached; the
theorems of section 5 remove the bound for all of the detector's properties.
The preprocessor's rates are in units of 400 Hz: equal to the target, half of
it, and one that neither fills its block with whole samples nor divides the
target; 30 samples make several blocks, whose remainders of 3-sample frames go
through every residue.  A call of `inference` has
events without end, in which `MaxUtterances = 2` utterances are found, both in
one audio event or apart, and `MaxProfiles = 1` prompt comes beside the default:
the least where one utterance waits behind another, and where the prompt changes
before, between or after them; with a
history of one entry the second reply is already given a trimmed one.  A reply
of two sentences of two chunks has every kind of neighbour a stream can have.  In `reply` six characters with a least
chunk of two make two sentences, or one and a rest, in every division into
tokens; the second utterance meets what the first left; the WAVs make two chunks
(the last one short), one, or none.  A channel of two with four chunks fills,
drains and fills again with one chunk in the pump's hand and one in the relay's.
Two callbacks of the idle timer are the fewest that can race; the gateway's
properties do not depend on the session's state, so one serves.  In `bench` a
stack sees two turns, in one call (cold) and in two (warm), which is what it
takes for an earlier answer to be taken for a later one.  Its replies are two
chunks, so that audio has a first chunk and others; once a turn was cut in two
they are one, its answers being several as it is (`MoreChunks`).  The old log lets the
cold repeat be stopped with its engine still starting, and the warm run begin
beside that survivor, or fail because it listens.
`HistoryMax`, `ChanCap`, the thresholds, rates and sizes are parameters of the
code made small; `MaxFrames`, `MaxPacket`, `MaxSamples`, `MaxProfiles`,
`MaxUtterances`, `MaxSentences`, `MaxText`, `MaxToken`, `MaxChunks`,
`MaxCallbacks`, `MaxSplits` and `MaxReply` are bounds of the models.

Deadlock is not checked, in any run: a call ends.  The detector's and the
preprocessor's models stop at their bounds, and the others when the call or the
program is over; that they stop nowhere else is what `CallReleased`,
`RespondingEnds`, `StreamEndIsTold`, `HandlerReturns`, `OnlyFullChannelLeaks`
and `RunEnds` say.

### Fairness

- `InferenceSession`: weak fairness of each of the three threads, which the
  operating system schedules.  The client owes nothing: it may send no more and
  never close.  Each external engine call returns or raises.
- `Session`: weak fairness of the pump between two Recvs, of the timer and its
  callbacks, of the second half of Terminate, and of the reader, which the
  session assumes.  Recv is not fair: the engine may be silent for ever.
- `Gateway`: weak fairness of the same, of the relay goroutine and of the
  handler; a Recv on a cancelled stream fails (gRPC), a Recv on a stream whose
  peer half-closed or whose RPC is over returns, and the setup calls of a lost
  caller return.  A caller that stays connected and stops reading (flow control)
  is not modelled: Send returns.
- `BenchRun`: weak fairness of the program's threads together (`Main`, the
  reader and the tail: as long as one can go on, one does) and of time
  (`Deadline`).  The services owe nothing: they may answer never, so
  only the deadlines can bring the program to its end.
- `AudioPreprocessor` and `Reply` state no fairness and no liveness: the
  liveness of the worker is InferenceSession's.

## 4. The properties

Each is stated in prose above its definition; these are the ones that relate
most.

- `SpeechNotRepeated`, `Gapless`, `InOrder`: of the frames of different
  utterances, across ceilings, overrides and resets, only silent lookback is
  shared.  Nothing is missing from an utterance's first speech frame on, and
  what a manual boundary cut goes on with the very next frame, without a gap
  from there, in the next utterance or in the open buffer (`GoesOn`).
- `Debounced` and `SpeechCaptured` are the two directions of the debounce.
  Both need exact wording: the first frame of a candidate and of a pause is
  counted without a comparison, so a threshold of one behaves as two
  (`EffSpeech`, `EffSilence`), and a ceiling may throw away the remainder of a run.
- `MemoryCeiling`: the limit the code keeps is the ceiling only when the ceiling
  exceeds what a candidate can bring along (`UtteranceCeiling`).
- `StreamIntact` gives every sample in the frames and both buffers its place in
  the call; `ClockKept` bounds how far block-wise resampling runs ahead of the
  caller's clock, which the 250 ms and 800 ms of the VAD are measured on.
- `RepliesInOrder`, `ContextComplete`, `NothingLeftBehind`, `CancelStopsSpeech`
  relate the queues, the threads and the history of the call.
- `CutByTextAlone` defines the sentences from the whole text, without tokens;
  `BenchTruthful` ties each BENCH line to what was heard of its utterance and
  to the history.
- `Lossless`: what was read, what is queued and what the pump holds is what the
  engine sent.  `EndOfStreamTerminates`, `TerminatedIsFinal`, `RespondingEnds`
  concern goroutines with stale readings of the state.
- `EngineHeardOut`, `HandlerReturns`, `OnlyFullChannelLeaks`: the gateway's
  goroutines wait on each other in a ring that the cancel breaks; the last
  states the only exception there is.
- `OwnMeasurements` says what a turn with status ok has measured, and names the
  three ways it can be wrong: an earlier turn split or answered late, a BENCH
  line that outran its audio, and a tail on an old log.
- `StackOwned`: `port_open` cannot tell whose port it is, and what an earlier
  stop failed to kill may listen at any time; still every call is made to this
  stack's gateway and, an old log apart, answered by this stack's engine.  An
  engine that was given up on while it loaded may run beside the call: it then
  takes memory and time of the GPU, but does not answer.

## 5. What is proved

All theorems hold for every value of the constants under the named assumptions
only: `VADAssumption`, `PreprocessorAssumption`, `InferenceAssumption`,
`ReplyAssumption`, `SessionAssumption` and `TurnAssumption` (positive
thresholds, capacities, rates, sizes and history length, where the code has them
positive), `GatewayAssumption` (the gateway never calls Terminate) and
`RunAssumption` (the benchmark's arguments are numbers, and the logs of earlier
runs have names of the kind it gives).  The constants that bound the runs are
arbitrary naturals in the proofs, so calls are of any length.

Every invariant and every action property of the passing runs has its theorem.

`VADDetectorProofs`:

- `TypeCorrect`.  Frames in buffers are positions already heard.
- `OpenUtterancesOnly`, from the correspondence of buffers and debounce state.
- `MemoryBounded`.  Not inductive alone: an unconfirmed candidate's length
  depends on its speech and dip counts.  `CandidateBounded` says its length is
  at most the lookback plus, per speech frame, itself and a whole dip, plus the
  current dip; `CandidateFits` carries that to the ceiling.
- `PausesClose`.  `PauseCounted` says that the counter is the length of the
  silent suffix of what was heard, and that it is below the threshold while an
  utterance is open; `AllEndInSilence` is the second half of the property over
  all utterances.
- `OrderKept`.  Everything in a buffer is older than the next frame, so
  appending keeps `Ascending`.
- `SpeechSentOnce`.  `LookbackSilent` says the lookback holds silent frames
  only; `BuffersFresh` that the open buffers are disjoint from what was
  dispatched except for such a prefix; a dispatch keeps both because it empties
  the buffer.
- `UtterancesGapless`.  `BuffersGapless` says the same of the open buffers, and
  that they end in the frame heard last.  For the join at a manual boundary the
  invariant is `UtterancesJoin`, which follows what was cut to the buffer that
  goes on with it until that is dispatched (`StillOpen`).  That gaps lie in
  front of the first speech frame is `SilentLookback`, shared with
  `SpeechSentOnce`.
- `NoCoughs`.  `Debounced` looks back at a window of the utterance, so the
  invariant has to keep the window while it is heard.  `CandidateSpoken`: from
  some frame of the candidate on it holds as many speech frames as were counted,
  and no more frames have passed than these and the tolerated dips take.
  `OpenDebounced`: the open utterance holds such a window, or goes on where a
  manual boundary cut the one before.  `SpokenGrows` is the frame that adds one
  to the count of a window, `SpokenStays` the frame past its end.
- `RunsAreCaptured`.  `StreakKept`: a run of speech that reaches the present,
  nothing of which a ceiling or a reset has lost, is in the open utterance, or
  it is in the candidate and was counted there; when it is as long as the
  threshold, only the first is possible.

`AudioPreprocessorProofs`: `FramesAreWhole`, `NothingLostOrRepeated`,
`LagIsBounded`, `ClockIsKept`.  `StreamIntact` and `LagBounded` are inductive
together with the types and `Aligned`: what has left the raw buffer is a whole
number of blocks, and the frames and the remainder are what these make.  `Cutting` says what
the cut of a sequence into frames and a rest contains, from the bounds of
division; `ClockKept` follows from the number of blocks and the bounds of
`ResampledSize`.

`InferenceProofs`:

- `CallTypes`, which includes that the queue goes on where the worker is, with
  any number of dispatches in one audio event.  Types hold because the numbers
  stay in their bounds: `Counts` (no utterance is taken up that was not
  dispatched, prompts only get newer, a chunk belongs to a sentence), and
  `Numbered`, the three lives of the utterance queue: `Open`
  (it holds what was dispatched and not taken up, in order), `Closed` (the same,
  and the pill behind it, once the pump is dead), `Over`.
- `HalfCloseDrains`, from `Over` and `PillLast`: the relay's pill is the last
  entry of its queue, put by a worker that is done.
- `RepliesKeepOrder`.  `RepliesInOrder` alone says nothing of what the worker
  will put next; `TipBefore` says that the newest chunk, queued or heard, is
  older than anything the worker's position allows it to put, and in the middle
  of a sentence is exactly the one before.  `TakesNext`, from `Numbered`, is the
  step to the next utterance.
- `ContextIsComplete`.  `Remembers` says that the history is at all times the
  end of the answered pairs; `OnePairMore` that trimming after an append keeps
  that, by index arithmetic over `Trimmed` and `PairsOf`.
- `CancelIsHeeded`.  `OneSentence`: after a cancel what is put belongs to the
  sentence in hand, which cannot be succeeded by another.

`ReplyProofs`:

- `FilesAreRemoved`, inductive with a case for each way out of a transcription.
- `RefinesWorker`: the initial states need none, for the property is about
  steps; each action of Reply is mapped to one of InferenceSession's worker or
  to a stutter, under `Shape` (a sentence in hand has a WAV, a chunk is below
  its number of slices, and so on).
- `BenchLinesAreTrue`, with `InTheMaking`, what the record of the utterance in
  progress owes to what was heard so far, and `Books`, which numbers the lines,
  the chunks and the answered utterances.

`CutProofs`, on top of `ReplyProofs`:

- `SentencesFromText`.  What `_extract_sentences` returns depends on the buffer
  it is given, and so on the tokens; `CutByTextAlone` has none.  `Sentences`
  relates the two at every token: the buffer is the `Piece` of the text behind
  the last cut, the sentences so far are those the text up to here determines
  (`CutUp`), and no sentence could have been ended in what is left.  `TokenCuts`
  is the step for a token, `FlushCuts` the one for the end of the stream, where
  the rest is said if it is long enough, or left.
  What the recursive function `Cuts` computes for every buffer (`CutsAre`) is an
  induction over data, for which the library's theorems cannot be instantiated
  here.  It is done by the least counterexample: `LeastNumber` derives that a
  nonempty set of naturals has a least member from `WFMin` and the
  well-foundedness of inclusion on finite sets; `CutsSolved` gives the equation
  of `Cuts` from the existence of a solution, built up length by length.
- `ReplyTypes`, with `InProgress`: an utterance is in the worker's hands
  wherever it uses one, and sentences are counted at most once each.

`SessionProofs`:

- `TerminationIsFinal`: an action property; the table has no exit from TERMINATED and
  every write goes through `TransitionTo`.
- `EOFTerminates`: not inductive alone; one needs that a pump that runs has been
  attached (`PumpFollowsAttach`), otherwise the transition at EOF could be refused.
- `SessionTypes`: a chunk in hand has been received (`HoldsReceived`), so the
  channel holds received chunks.
- `NothingLost`: `Lossless`, for every capacity; the lemma `NextChunk` is the
  step in which a received chunk extends the sequence.

`GatewayProofs` rests on the session's: `StepOfSession` says that every step of
the gateway is a step of the session or leaves it alone, so the step lemmas of
`SessionProofs` carry over, and `GatewayOwnsSession` states it as a theorem.
`Relayed` says that what was sent is what was consumed, less the chunk in the
relay's hand or lost with its caller, and that a relay that did not lose its
caller ended on a closed and drained channel: it gives `RelayKeepsOrder` and
`CallerHearsAll`.  It needs `ConsumedInOrder`, from the session's `Lossless`,
and `ClosedLast`: the channel closes only when the pump has nothing in hand.
`Positions` and `Flags` give `GatewayTypes`.

`BenchProofs`:

- The program.  `ProgramShape` says, for any number of repeats, turns, runs and
  passes, which operation may follow which: stacks are started where nothing
  runs, a call after the start of its services or another call on them, and a
  sampler that is started is stopped.  `Program` is built of repeated blocks, so
  the lemmas locate an operation in its block by division.
- `BenchTypes`.  `Fresh` says that the locals of `run_turn` are as it
  initialises them whenever no turn is in progress.
- `CallsOwnTheirStack`.  `StackOwned` speaks of calls; the invariant has to say
  what every operation finds.  `DownBetween` and `DownAtEnd`: nothing of ours
  runs before a start and when the program ends; `StartsInOrder` and
  `UpForCalls`: what each step of `Stack.start` has made sure of, up to the
  calls; `SamplerOwed`: the sampler runs only where its stop is to come.  That
  the port belongs to our gateway is `PortInv`: until the program's end a stack
  is stopped only when its gateway listens or was never started, so a gateway
  that survives is one that listens and `CheckPorts` finds it; past the check
  no gateway is left but ours.  A surviving engine may be one that was starting,
  and only `OnePort` keeps it from the call: the marker in a new log says that
  ours has the port.
- `OkTurnsAreTheirOwn`.  `OwnMeasurements` is about the record at the end of a
  turn.  `TurnsOwn` says, as long as no earlier turn was split or answered late
  and no old log is read: between turns nothing is under way anywhere
  (`Settled`), and in a turn everything in the engine, the log, the wire and the
  two queues is of this turn (`AllOfTurn`), and its utterance, unless the VAD
  cuts it in two, is in one of six stages, from the VAD (`Held`) to its BENCH
  line in the program's hands (`Taken`).  In each, audio that is out or heard is
  audio that the BENCH line tells of.

Left to TLC: liveness alone (`UtterancesTakenUp`, `CallReleased`,
`RespondingEnds`, `StreamEndIsTold`, `HandlerReturns`, `OnlyFullChannelLeaks`,
`RunEnds`), since the proof system has no ENABLED and no fairness reasoning.

## 6. Where the documents and the code disagree

1. `vad_bleeding`.  The README promises "zero audio bleeding" between
   utterances.  The lookback is copied and never cleared: a caller who resumes
   right after a boundary gets the frames that preceded the last utterance, up
   to 320 ms, in front of the new one.  What does hold is `SpeechNotRepeated`:
   those frames are silent.
2. `inference_vad_missing`.  `_read_pump` constructs the detector before the
   try whose finally closes the queues; when that raises, the worker and the
   generator of the call wait for ever, against `docs/LLD.md`'s "Release
   Resources".
3. `session_recv_error`.  `docs/qna.md` says EOF or error terminates the
   session; only EOF does.
4. `session_idle_race`.  A callback of the idle timer that read RESPONDING
   before a chunk came writes ACTIVE after it, in the middle of a reply.
5. `gateway_leak`.  `docs/qna.md` says closing the channels tears down the
   session's goroutines.  When Send to a lost caller fails, the relay returns
   without draining; a pump that finds the channel full then blocks for ever.

## 7. What is not modelled

- The audio itself: sample values, resample_poly's filter, the WAV header bytes,
  Silero's and the other models' outputs.  No property here depends on them;
  counts and places of samples are modelled.
- Engine calls that hang, a caller that stops reading, the server's pool of 20
  threads: the code has no timeout for any of them and no document promises one;
  the pool is in the plan below.
- The test harness, start-up, configuration, generated stubs, and the methods
  only tests use (`LLMEngine.generate`, transcription of a path).
- `BARGE_IN` and the other control types the protocol declares: no code handles them.
- Of the benchmark: `unload_model` and what Ollama keeps in memory,
  KeyboardInterrupt and exceptions out of a call, the log handle, the
  computations (`playback_gaps`, `word_error_rate`, `summarize`), the
  environment record and its merge into an existing `latency.json`, and the
  other scripts, which compute tables or drive a browser of another repository.
  Three assumptions are named in the modules: the one-second pause between
  turns outlasts what is in transit (`PauseEnds`), nvidia-smi ends when it is
  killed (`SamplerStop`), and a port has at most one listener, who keeps it
  until it ends (`PortOpen`).  The third is what Windows, on which the benchmark
  kills with `taskkill`, and gRPC give: an engine that cannot bind its port
  raises before it prints its marker.  A service that crashes by itself is one
  that says nothing more; that a survivor then takes its port is left out.

## 8. Plan

Written: VADDetector, InferenceSession, Session, Gateway, AudioPreprocessor,
Reply with its refinement, BenchTurn and BenchRun, and the proofs for all of
them.  Left, in this order:

1. `Relay`, an abstract bounded FIFO with an end mark, which Session and
   Gateway implement (`INSTANCE Relay WITH`), and `CallLifecycle`, the states
   of a call without goroutines; refinement checked, then proved.
2. `Harness`: `cmd/main.go` on top of Session, with its 700 ms of silence
   against the detector's 800 ms and an exit that does not wait for the capture.
3. `EnginePool`: several calls that hold one pool thread each.
4. `VoiceCall`: Gateway and InferenceSession joined by the gRPC stream, end to
   end from an utterance to its reply.
