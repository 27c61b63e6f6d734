---------------------------- MODULE VADDetector ----------------------------
(***************************************************************************)
(* The four-state debounce machine of vad/detector.py together with the    *)
(* two places of main.py that drain it: _handle_audio_event, which         *)
(* dispatches the buffer on END_OF_UTTERANCE in the same call that scored  *)
(* the frame, and _handle_control_event, which drains it on the client's   *)
(* manual END_OF_UTTERANCE without touching the debounce state.            *)
(*                                                                         *)
(* A frame is the position at which it was heard: the n-th 512-sample      *)
(* frame of the call is n, and heard[n] is whether Silero scored it above  *)
(* the threshold.  heard, utterances and forgotten are history: what went  *)
(* in, what was handed to the utterance queue, and the frames that reset() *)
(* threw away with the one it came after.                                  *)
(***************************************************************************)
EXTENDS Integers, Sequences, FiniteSets

CONSTANTS
    MinSpeechFrames,     \* _min_speech_frames (8 as deployed: 250 ms)
    MinSilenceFrames,    \* _min_silence_frames (25 as deployed: 800 ms)
    MaxUtteranceFrames,  \* _max_utterance_frames (469 as deployed: 15 s)
    LookbackFrames,      \* maxlen of _lookback (10 as deployed: 320 ms)
    MaxDipFrames,        \* _max_dip_frames (0 as deployed)
    Calls,               \* which of the optional calls below the owner makes
    MaxFrames            \* bound: frames heard in the call

ASSUME VADAssumption ==
    /\ MinSpeechFrames \in Nat \ {0}
    /\ MinSilenceFrames \in Nat \ {0}
    /\ MaxUtteranceFrames \in Nat
    /\ LookbackFrames \in Nat \ {0}
    /\ MaxDipFrames \in Nat
    /\ Calls \subseteq {"override", "reset"}
    /\ MaxFrames \in Nat

VARIABLES
    vadState,
    speechFrameCount, silenceFrameCount, dipFrameCount,
    lookback, pendingFrames, utteranceFrames,
    heard, utterances, forgotten

counters == <<speechFrameCount, silenceFrameCount, dipFrameCount>>
vars == <<vadState, counters, lookback, pendingFrames, utteranceFrames,
          heard, utterances, forgotten>>

VADState == {"SILENCE", "SPEECH_STARTING", "SPEECH", "SPEECH_ENDING"}
Cause == {"silence", "ceiling", "override"}

\* The frame being processed: one past those already heard.
Frame == Len(heard) + 1
FramesOf(q) == {q[k] : k \in 1 .. Len(q)}

---------------------------------------------------------------------------
(* The tests and buffers of the machine. *)

\* collections.deque(maxlen=...): a full deque drops its oldest element.
PushLookback(q, f) ==
    IF Len(q) < LookbackFrames THEN Append(q, f) ELSE Append(Tail(q), f)

SpeechConfirmedAtOnce(n) == TRUE
SpeechConfirmed(n) == n >= MinSpeechFrames

DipTolerated(n) == n <= MaxDipFrames

SilenceClosedLate(n) == n > MinSilenceFrames
SilenceClosed(n) == n >= MinSilenceFrames

CeilingNever(frames) == FALSE
CeilingReached(frames) == Len(frames) >= MaxUtteranceFrames

Init ==
    /\ vadState = "SILENCE"
    /\ speechFrameCount = 0 /\ silenceFrameCount = 0 /\ dipFrameCount = 0
    /\ lookback = <<>> /\ pendingFrames = <<>> /\ utteranceFrames = <<>>
    /\ heard = <<>> /\ utterances = <<>> /\ forgotten = {}

\* What get_utterance_frames leaves in the buffer it has returned.
NotDrained(frames) == frames
Drained(frames) == <<>>

\* get_utterance_frames empties the buffer; the pump queues what it returned.
Dispatch(frames, cause) ==
    /\ utterances' = Append(utterances, [frames |-> frames, cause |-> cause])
    /\ utteranceFrames' = Drained(frames)

---------------------------------------------------------------------------
(* process_frames: one handler per state. *)

\* A speech frame opens a candidate with the lookback in front of it.
CandidateReversed == <<Frame>> \o lookback
Candidate == Append(lookback, Frame)

HandleSilence(speech) ==
    /\ vadState = "SILENCE"
    /\ IF speech
       THEN /\ vadState' = "SPEECH_STARTING"
            /\ pendingFrames' = Candidate
            /\ speechFrameCount' = 1
            /\ dipFrameCount' = 0
            /\ UNCHANGED lookback
       ELSE /\ lookback' = PushLookback(lookback, Frame)
            /\ UNCHANGED <<vadState, pendingFrames, speechFrameCount,
                           dipFrameCount>>
    /\ UNCHANGED <<silenceFrameCount, utteranceFrames, utterances>>

\* The candidate with the frame that SPEECH_STARTING appends while it lasts.
PendingExtended == Append(pendingFrames, Frame)

StartingDipUncounted ==
    /\ dipFrameCount' = dipFrameCount - 1
    /\ pendingFrames' = PendingExtended
    /\ UNCHANGED <<vadState, speechFrameCount, utteranceFrames>>
StartingDipKeepsPending ==
    /\ dipFrameCount' = dipFrameCount + 1
    /\ IF DipTolerated(dipFrameCount + 1)
       THEN /\ pendingFrames' = PendingExtended
            /\ UNCHANGED vadState
       ELSE /\ vadState' = "SILENCE"
            /\ UNCHANGED pendingFrames
    /\ UNCHANGED <<speechFrameCount, utteranceFrames>>
\* A dip beyond the tolerance is a false start: the candidate is dropped, the
\* lookback that preceded it stays.
StartingDip ==
    /\ dipFrameCount' = dipFrameCount + 1
    /\ IF DipTolerated(dipFrameCount + 1)
       THEN /\ pendingFrames' = PendingExtended
            /\ UNCHANGED vadState
       ELSE /\ pendingFrames' = <<>>
            /\ vadState' = "SILENCE"
    /\ UNCHANGED <<speechFrameCount, utteranceFrames>>

StartingSpeechForgetsPending ==
    /\ dipFrameCount' = 0
    /\ speechFrameCount' = speechFrameCount + 1
    /\ IF SpeechConfirmed(speechFrameCount + 1)
       THEN /\ vadState' = "SPEECH"
            /\ utteranceFrames' = <<Frame>>
            /\ pendingFrames' = <<>>
       ELSE /\ pendingFrames' = PendingExtended
            /\ UNCHANGED <<vadState, utteranceFrames>>
StartingSpeech ==
    /\ dipFrameCount' = 0
    /\ speechFrameCount' = speechFrameCount + 1
    /\ IF SpeechConfirmed(speechFrameCount + 1)
       THEN /\ vadState' = "SPEECH"
            /\ utteranceFrames' = PendingExtended
            /\ pendingFrames' = <<>>
       ELSE /\ pendingFrames' = PendingExtended
            /\ UNCHANGED <<vadState, utteranceFrames>>

HandleSpeechStarting(speech) ==
    /\ vadState = "SPEECH_STARTING"
    /\ IF speech THEN StartingSpeech ELSE StartingDip
    /\ UNCHANGED <<silenceFrameCount, lookback, utterances>>

\* The buffer with the frame that SPEECH and SPEECH_ENDING always append.
UtteranceExtended == Append(utteranceFrames, Frame)

ForceEndOfUtterance ==
    /\ vadState' = "SILENCE"
    /\ silenceFrameCount' = 0
    /\ Dispatch(UtteranceExtended, "ceiling")

HandleSpeech(speech) ==
    /\ vadState = "SPEECH"
    /\ \/ CeilingReached(UtteranceExtended) /\ ForceEndOfUtterance
       \/ /\ ~CeilingReached(UtteranceExtended)
          /\ utteranceFrames' = UtteranceExtended
          /\ IF speech
             THEN UNCHANGED <<vadState, silenceFrameCount>>
             ELSE vadState' = "SPEECH_ENDING" /\ silenceFrameCount' = 1
          /\ UNCHANGED utterances
    /\ UNCHANGED <<speechFrameCount, dipFrameCount, lookback, pendingFrames>>

HandleSpeechEnding(speech) ==
    /\ vadState = "SPEECH_ENDING"
    /\ \/ CeilingReached(UtteranceExtended) /\ ForceEndOfUtterance
       \/ /\ ~CeilingReached(UtteranceExtended) /\ speech
          /\ utteranceFrames' = UtteranceExtended
          /\ vadState' = "SPEECH" /\ silenceFrameCount' = 0
          /\ UNCHANGED utterances
       \/ /\ ~CeilingReached(UtteranceExtended) /\ ~speech
          /\ ~SilenceClosed(silenceFrameCount + 1)
          /\ utteranceFrames' = UtteranceExtended
          /\ silenceFrameCount' = silenceFrameCount + 1
          /\ UNCHANGED <<vadState, utterances>>
       \/ /\ ~CeilingReached(UtteranceExtended) /\ ~speech
          /\ SilenceClosed(silenceFrameCount + 1)
          /\ vadState' = "SILENCE" /\ silenceFrameCount' = 0
          /\ Dispatch(UtteranceExtended, "silence")
    /\ UNCHANGED <<speechFrameCount, dipFrameCount, lookback, pendingFrames>>

ProcessFrames(speech) ==
    /\ Len(heard) < MaxFrames
    /\ heard' = Append(heard, speech)
    /\ \/ HandleSilence(speech)
       \/ HandleSpeechStarting(speech)
       \/ HandleSpeech(speech)
       \/ HandleSpeechEnding(speech)
    /\ UNCHANGED forgotten

---------------------------------------------------------------------------
(* The other calls. *)

OverrideStopsListening ==
    /\ "override" \in Calls
    /\ utteranceFrames # <<>>
    /\ Dispatch(utteranceFrames, "override")
    /\ vadState' = "SILENCE" /\ silenceFrameCount' = 0
    /\ UNCHANGED <<speechFrameCount, dipFrameCount, lookback, pendingFrames,
                   heard, forgotten>>
\* A manual END_OF_UTTERANCE.  With an empty buffer _dispatch_utterance only
\* logs; otherwise the buffer goes out and the debounce state stays put.
Override ==
    /\ "override" \in Calls
    /\ utteranceFrames # <<>>
    /\ Dispatch(utteranceFrames, "override")
    /\ UNCHANGED <<vadState, counters, lookback, pendingFrames, heard,
                   forgotten>>

\* reset(): a session boundary, or the per-utterance reset of the benchmarks.
Reset ==
    /\ "reset" \in Calls
    /\ vadState' = "SILENCE"
    /\ speechFrameCount' = 0 /\ silenceFrameCount' = 0 /\ dipFrameCount' = 0
    /\ lookback' = <<>> /\ pendingFrames' = <<>> /\ utteranceFrames' = <<>>
    /\ forgotten' = forgotten \cup FramesOf(pendingFrames)
           \cup FramesOf(utteranceFrames) \cup ({Len(heard)} \ {0})
    /\ UNCHANGED <<heard, utterances>>

Next ==
    \/ \E speech \in BOOLEAN : ProcessFrames(speech)
    \/ Override
    \/ Reset

Spec == Init /\ [][Next]_vars

---------------------------------------------------------------------------
(* Properties. *)

Talking == vadState \in {"SPEECH", "SPEECH_ENDING"}

\* The first frame of a candidate, and of a pause, is counted without being
\* compared with its threshold, so a threshold of one behaves as two.
AtLeastTwo(n) == IF n < 2 THEN 2 ELSE n
EffSpeech == AtLeastTwo(MinSpeechFrames)
EffSilence == AtLeastTwo(MinSilenceFrames)

\* The most frames an unconfirmed candidate may hold: the lookback, and the
\* speech frames short of confirmation each followed by a whole dip.
PendingCeiling == LookbackFrames + (EffSpeech - 1) * (MaxDipFrames + 1)
\* The confirming frame and the one that trips the ceiling come on top of it.
UtteranceCeiling ==
    IF MaxUtteranceFrames < PendingCeiling + 2
    THEN PendingCeiling + 2 ELSE MaxUtteranceFrames

Frames == 1 .. Len(heard)
Ascending(q) == \A j, k \in 1 .. Len(q) : j < k => q[j] < q[k]

\* The variables have the types of the Python attributes; frames are positions
\* already heard.
TypeOK ==
    /\ vadState \in VADState
    /\ speechFrameCount \in Nat
    /\ silenceFrameCount \in Nat
    /\ dipFrameCount \in Nat
    /\ heard \in Seq(BOOLEAN)
    /\ lookback \in Seq(Frames)
    /\ pendingFrames \in Seq(Frames)
    /\ utteranceFrames \in Seq(Frames)
    /\ utterances \in Seq([frames : Seq(Frames), cause : Cause])
    /\ forgotten \subseteq Frames

\* The memory safety ceiling of docs/vad.md with the margin the code really
\* leaves: the ceiling is not compared with the length when speech is
\* confirmed, so the candidate it inherits can overshoot it.  No buffer and no
\* dispatched utterance outgrows these lengths, whatever is overridden or reset.
MemoryCeiling ==
    /\ Len(lookback) <= LookbackFrames
    /\ Len(pendingFrames) <= PendingCeiling
    /\ Len(utteranceFrames) < UtteranceCeiling
    /\ \A u \in 1 .. Len(utterances) :
          Len(utterances[u].frames) <= UtteranceCeiling

\* A manual boundary finds audio only while an utterance is open: frames that
\* await confirmation, or that an earlier boundary took, are never dispatched,
\* and what is dispatched is never empty.
OnlyOpenUtterances ==
    /\ utteranceFrames # <<>> => Talking
    /\ pendingFrames # <<>> <=> vadState = "SPEECH_STARTING"
    /\ \A u \in 1 .. Len(utterances) : utterances[u].frames # <<>>

\* Time never runs backwards inside an utterance: the lookback, which can be
\* many utterances old, and the candidate it is put in front of come in the
\* order heard and no frame is in an utterance twice.
InOrder ==
    /\ Ascending(lookback) /\ Ascending(pendingFrames)
    /\ Ascending(utteranceFrames)
    /\ \A u \in 1 .. Len(utterances) : Ascending(utterances[u].frames)

\* No heard frame is lost in the middle of speech.  An utterance skips frames
\* only inside or right behind its lookback, before its first speech frame; and
\* what a manual boundary cut goes on with the very next frame, unbroken from
\* there, in the next utterance or in the open buffer, unless reset() came
\* between: dips, pauses and the frames around a manual boundary are all kept.
Unbroken(q) == \A k \in 1 .. Len(q) - 1 : q[k + 1] = q[k] + 1
UnbrokenSpeech(q) ==
    \A k \in 1 .. Len(q) - 1 :
        \/ q[k + 1] = q[k] + 1
        \/ k <= LookbackFrames /\ \A j \in 1 .. k : ~heard[q[j]]
NextBuffer(u) ==
    IF u < Len(utterances) THEN utterances[u + 1].frames ELSE utteranceFrames
GoesOn(u) ==
    LET last == utterances[u].frames[Len(utterances[u].frames)]
    IN  /\ utterances[u].cause = "override"
        /\ last + 1 \in Frames
        /\ {last, last + 1} \cap forgotten = {}
        => /\ NextBuffer(u) # <<>>
           /\ NextBuffer(u)[1] = last + 1
           /\ Unbroken(NextBuffer(u))
Gapless ==
    \A u \in 1 .. Len(utterances) :
        UnbrokenSpeech(utterances[u].frames) /\ GoesOn(u)

\* What two utterances may share is stale lookback and nothing else: at most
\* LookbackFrames frames, in front of the later one, none scored as speech.
\* No spoken frame is ever transcribed twice.
SpeechNotRepeated ==
    \A u, w \in 1 .. Len(utterances) :
        u < w => \A k \in 1 .. Len(utterances[w].frames) :
            utterances[w].frames[k] \in FramesOf(utterances[u].frames) =>
                /\ k <= LookbackFrames
                /\ ~heard[utterances[w].frames[k]]

\* Every utterance carries the speech that confirmed it, EffSpeech speech frames
\* that only tolerated dips interrupt: a cough shorter than min_speech_duration
\* is never transcribed, and neither is silence.  Only what a manual boundary
\* cut off may go on without: the next utterance, if it starts where that ends.
ConfirmingSpan == (EffSpeech - 1) * (MaxDipFrames + 1)
Continued(u) ==
    /\ u > 1 /\ utterances[u - 1].cause = "override"
    /\ LET cut == utterances[u - 1].frames
       IN  utterances[u].frames[1] = cut[Len(cut)] + 1
Debounced ==
    \A u \in 1 .. Len(utterances) :
        \/ Continued(u)
        \/ \E a \in FramesOf(utterances[u].frames) :
              LET spoken == {f \in FramesOf(utterances[u].frames) :
                                 f \in a .. a + ConfirmingSpan /\ heard[f]}
              IN  Cardinality(spoken) >= EffSpeech

\* Conversely a run of EffSpeech speech frames is always captured: it is in an
\* utterance or in the open buffer, unless the ceiling cut it, when a remainder
\* shorter than min_speech_duration is thrown away, or a reset cut it.
Captured ==
    FramesOf(utteranceFrames)
        \cup UNION {FramesOf(utterances[u].frames) : u \in 1 .. Len(utterances)}
CutAt == {utterances[u].frames[Len(utterances[u].frames)] :
            u \in {v \in 1 .. Len(utterances) : utterances[v].cause = "ceiling"}}
SpeechCaptured ==
    \A a \in 1 .. Len(heard) - EffSpeech + 1 :
        LET run == a .. a + EffSpeech - 1
        IN  (\A f \in run : heard[f]) =>
                run \subseteq Captured \/ run \cap (CutAt \cup forgotten) # {}

\* A pause is closed exactly on time: while an utterance is open the caller has
\* not yet been silent for EffSilence frames, and an utterance the silence rule
\* closed ends in EffSilence silent ones, after manual boundaries too.
PauseCloses ==
    /\ Talking =>
         \E f \in Frames : f > Len(heard) - EffSilence /\ heard[f]
    /\ \A u \in 1 .. Len(utterances) :
         utterances[u].cause = "silence" =>
           LET last == utterances[u].frames[Len(utterances[u].frames)]
           IN  \A f \in Frames : f \in last - EffSilence + 1 .. last => ~heard[f]

---------------------------------------------------------------------------
(* What the documents promise and the code does not do. *)

\* README.md: multi-utterance sessions with "zero audio bleeding", i.e. no
\* frame of one utterance comes back in another.  The lookback is only pushed
\* to in SILENCE and never cleared, so a caller who resumes right after a
\* boundary gets the lookback of the previous utterance once more.
NoBleeding ==
    \A u, w \in 1 .. Len(utterances) :
        u # w => FramesOf(utterances[u].frames)
                   \cap FramesOf(utterances[w].frames) = {}
=============================================================================
