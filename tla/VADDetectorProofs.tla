------------------------- MODULE VADDetectorProofs -------------------------
(***************************************************************************)
(* What VADDetector satisfies for all thresholds, all lengths of call and  *)
(* every mix of manual boundaries and resets.  The layers build on each    *)
(* other: types, the buffers' relation to the state, then the properties.  *)
(***************************************************************************)
EXTENDS VADDetector, SequenceTheorems, FiniteSetTheorems, TLAPS

UtteranceOver(F) == [frames : Seq(F), cause : Cause]

\* Hearing a frame makes it a frame, keeps all that were, and every buffer
\* stays typed and can take it.
LEMMA HearingTypes ==
    ASSUME TypeOK, NEW speech \in BOOLEAN, heard' = Append(heard, speech)
    PROVE  /\ heard' \in Seq(BOOLEAN)
           /\ Len(heard') = Frame
           /\ Frame \in Frames'
           /\ Frames \subseteq Frames'
           /\ lookback \in Seq(Frames')
           /\ pendingFrames \in Seq(Frames')
           /\ utteranceFrames \in Seq(Frames')
           /\ utterances \in Seq(UtteranceOver(Frames'))
<1>1. heard' \in Seq(BOOLEAN) /\ Len(heard') = Len(heard) + 1
  BY AppendProperties DEF TypeOK
<1>2. Len(heard) \in Nat
  BY LenProperties DEF TypeOK
<1>3. Frame \in Frames' /\ Frames \subseteq Frames'
  BY <1>1, <1>2 DEF Frame, Frames
<1>4. /\ lookback \in Seq(Frames')
      /\ pendingFrames \in Seq(Frames')
      /\ utteranceFrames \in Seq(Frames')
  BY <1>3, SeqMonotonic DEF TypeOK
<1>5. UtteranceOver(Frames) \subseteq UtteranceOver(Frames')
  <2>1. \A q \in Seq(Frames) : q \in Seq(Frames')
    BY <1>3, SeqMonotonic
  <2> QED BY <2>1 DEF UtteranceOver
<1>6. utterances \in Seq(UtteranceOver(Frames'))
  <2>1. utterances \in Seq(UtteranceOver(Frames))
    BY DEF TypeOK, UtteranceOver
  <2> QED BY <2>1, <1>5, SeqMonotonic
<1> QED BY <1>1, <1>3, <1>4, <1>6 DEF Frame

LEMMA PushLookbackType ==
    ASSUME NEW S, NEW q \in Seq(S), NEW f \in S
    PROVE  PushLookback(q, f) \in Seq(S)
<1>1. CASE Len(q) < LookbackFrames
  BY <1>1, AppendProperties DEF PushLookback
<1>2. CASE ~(Len(q) < LookbackFrames)
  <2>1. q # <<>>
    BY <1>2, VADAssumption DEF VADAssumption
  <2>2. Tail(q) \in Seq(S)
    BY <2>1, HeadTailProperties
  <2> QED BY <1>2, <2>2, AppendProperties DEF PushLookback
<1> QED BY <1>1, <1>2

\* A dispatched buffer is an utterance, and leaves an empty buffer.
LEMMA DispatchType ==
    ASSUME NEW F, utterances \in Seq(UtteranceOver(F)),
           NEW q \in Seq(F), NEW c \in Cause, Dispatch(q, c)
    PROVE  /\ utterances' \in Seq(UtteranceOver(F))
           /\ Len(utterances') = Len(utterances) + 1
           /\ \A u \in 1 .. Len(utterances) : utterances'[u] = utterances[u]
           /\ utterances'[Len(utterances')] = [frames |-> q, cause |-> c]
           /\ utteranceFrames' = <<>>
<1>1. [frames |-> q, cause |-> c] \in UtteranceOver(F)
  BY DEF UtteranceOver
<1>2. Len(utterances) \in Nat
  BY LenProperties
<1> QED BY <1>1, <1>2, AppendProperties DEF Dispatch, Drained

THEOREM TypeCorrect == Spec => []TypeOK
<1>1. Init => TypeOK
  BY VADAssumption DEF Init, TypeOK, VADState, Frames
<1>2. ASSUME TypeOK, [Next]_vars PROVE TypeOK'
  <2>1. ASSUME NEW speech \in BOOLEAN, ProcessFrames(speech) PROVE TypeOK'
    <3> DEFINE U == UtteranceOver(Frames')
    <3>0. heard' = Append(heard, speech)
      BY <2>1 DEF ProcessFrames
    <3>1. /\ heard' \in Seq(BOOLEAN)
          /\ Frame \in Frames'
          /\ lookback \in Seq(Frames')
          /\ pendingFrames \in Seq(Frames')
          /\ utteranceFrames \in Seq(Frames')
          /\ utterances \in Seq(U)
      BY <1>2, <3>0, HearingTypes
    <3>2. /\ Candidate \in Seq(Frames')
          /\ PendingExtended \in Seq(Frames')
          /\ UtteranceExtended \in Seq(Frames')
      BY <3>1, AppendProperties DEF Candidate, PendingExtended, UtteranceExtended
    <3>3. <<>> \in Seq(Frames') /\ PushLookback(lookback, Frame) \in Seq(Frames')
      BY <3>1, PushLookbackType, EmptySeq
    <3>4. /\ vadState \in VADState /\ speechFrameCount \in Nat
          /\ silenceFrameCount \in Nat /\ dipFrameCount \in Nat
      BY <1>2 DEF TypeOK
    <3>. forgotten' \subseteq Frames'
      <4>1. Frames \subseteq Frames'
        BY <1>2, <3>0, HearingTypes
      <4> QED BY <1>2, <2>1, <4>1 DEF ProcessFrames, TypeOK
    <3>5. SUFFICES /\ vadState' \in VADState /\ speechFrameCount' \in Nat
                   /\ silenceFrameCount' \in Nat /\ dipFrameCount' \in Nat
                   /\ lookback' \in Seq(Frames')
                   /\ pendingFrames' \in Seq(Frames')
                   /\ utteranceFrames' \in Seq(Frames')
                   /\ utterances' \in Seq(U)
      BY <3>1 DEF TypeOK, UtteranceOver
    <3>6. CASE HandleSilence(speech)
      BY <3>1, <3>2, <3>3, <3>4, <3>6 DEF HandleSilence, VADState
    <3>7. CASE HandleSpeechStarting(speech)
      <4>0. UNCHANGED <<silenceFrameCount, lookback, utterances>>
        BY <3>7 DEF HandleSpeechStarting
      <4>1. CASE StartingSpeech
        <5>1. CASE SpeechConfirmed(speechFrameCount + 1)
          BY <3>1, <3>2, <3>3, <3>4, <4>0, <4>1, <5>1 DEF StartingSpeech, VADState
        <5>2. CASE ~SpeechConfirmed(speechFrameCount + 1)
          BY <3>1, <3>2, <3>4, <4>0, <4>1, <5>2 DEF StartingSpeech, VADState
        <5> QED BY <5>1, <5>2
      <4>2. CASE StartingDip
        <5>1. CASE DipTolerated(dipFrameCount + 1)
          BY <3>1, <3>2, <3>4, <4>0, <4>2, <5>1 DEF StartingDip, VADState
        <5>2. CASE ~DipTolerated(dipFrameCount + 1)
          BY <3>1, <3>3, <3>4, <4>0, <4>2, <5>2 DEF StartingDip, VADState
        <5> QED BY <5>1, <5>2
      <4> QED BY <3>7, <4>1, <4>2 DEF HandleSpeechStarting
    <3>8. ASSUME ForceEndOfUtterance
          PROVE  /\ vadState' \in VADState /\ silenceFrameCount' \in Nat
                 /\ utteranceFrames' \in Seq(Frames') /\ utterances' \in Seq(U)
      BY <3>1, <3>2, <3>3, <3>8, DispatchType
         DEF ForceEndOfUtterance, VADState, Cause
    <3>9. CASE HandleSpeech(speech)
      BY <3>1, <3>2, <3>4, <3>8, <3>9 DEF HandleSpeech, VADState
    <3>10. CASE HandleSpeechEnding(speech)
      <4>1. CASE Dispatch(UtteranceExtended, "silence")
        <5>1. utterances' \in Seq(U) /\ utteranceFrames' = <<>>
          BY <3>1, <3>2, <4>1, DispatchType DEF Cause
        <5> QED BY <3>1, <3>3, <3>4, <3>8, <3>10, <5>1
               DEF HandleSpeechEnding, VADState
      <4>2. CASE ~Dispatch(UtteranceExtended, "silence")
        BY <3>1, <3>2, <3>4, <3>8, <3>10, <4>2
           DEF HandleSpeechEnding, VADState
      <4> QED BY <4>1, <4>2
    <3> QED BY <2>1, <3>6, <3>7, <3>9, <3>10 DEF ProcessFrames
  <2>2. CASE Override
    <3>1. /\ utterances \in Seq(UtteranceOver(Frames))
          /\ utteranceFrames \in Seq(Frames)
      BY <1>2 DEF TypeOK, UtteranceOver
    <3>2. utterances' \in Seq(UtteranceOver(Frames)) /\ utteranceFrames' = <<>>
      BY <2>2, <3>1, DispatchType DEF Override, Cause
    <3> QED BY <1>2, <2>2, <3>2 DEF Override, counters, TypeOK, UtteranceOver, Frames
  <2>3. CASE Reset
    <3>1. \A q \in Seq(Frames) : FramesOf(q) \subseteq Frames
      BY DEF FramesOf
    <3>2. {Len(heard)} \ {0} \subseteq Frames
      BY <1>2, LenProperties DEF TypeOK, Frames
    <3>3. forgotten' \subseteq Frames
      BY <1>2, <2>3, <3>1, <3>2 DEF Reset, TypeOK
    <3>4. /\ lookback' \in Seq(Frames) /\ pendingFrames' \in Seq(Frames)
          /\ utteranceFrames' \in Seq(Frames)
      BY <2>3 DEF Reset
    <3> QED BY <1>2, <2>3, <3>3, <3>4 DEF Reset, TypeOK, VADState, Frames
  <2>4. CASE UNCHANGED vars
    BY <1>2, <2>4 DEF vars, counters, TypeOK, Frames
  <2> QED BY <1>2, <2>1, <2>2, <2>3, <2>4 DEF Next
<1> QED BY <1>1, <1>2, PTL DEF Spec

---------------------------------------------------------------------------
(* What a frame can do, whichever handler takes it. *)

\* SILENCE hears silence.
Idles(speech) ==
    /\ vadState = "SILENCE" /\ ~speech
    /\ lookback' = PushLookback(lookback, Frame)
    /\ UNCHANGED <<vadState, pendingFrames, utteranceFrames, utterances>>
\* SILENCE hears speech.
Opens(speech) ==
    /\ vadState = "SILENCE" /\ speech
    /\ vadState' = "SPEECH_STARTING"
    /\ speechFrameCount' = 1 /\ dipFrameCount' = 0
    /\ pendingFrames' = Candidate
    /\ UNCHANGED <<lookback, utteranceFrames, utterances>>
\* A candidate takes a frame, a tolerated dip or speech short of confirmation.
Waits(speech) ==
    /\ vadState = "SPEECH_STARTING" /\ vadState' = "SPEECH_STARTING"
    /\ pendingFrames' = PendingExtended
    /\ \/ /\ ~speech /\ DipTolerated(dipFrameCount + 1)
          /\ dipFrameCount' = dipFrameCount + 1
          /\ speechFrameCount' = speechFrameCount
       \/ /\ speech /\ ~SpeechConfirmed(speechFrameCount + 1)
          /\ dipFrameCount' = 0
          /\ speechFrameCount' = speechFrameCount + 1
    /\ UNCHANGED <<lookback, utteranceFrames, utterances>>
\* A candidate is given up.
GivesUp(speech) ==
    /\ vadState = "SPEECH_STARTING" /\ vadState' = "SILENCE" /\ ~speech
    /\ pendingFrames' = <<>>
    /\ UNCHANGED <<lookback, utteranceFrames, utterances>>
\* A candidate becomes an utterance.
Confirms(speech) ==
    /\ vadState = "SPEECH_STARTING" /\ vadState' = "SPEECH" /\ speech
    /\ utteranceFrames' = PendingExtended /\ pendingFrames' = <<>>
    /\ UNCHANGED <<lookback, utterances>>
\* An open utterance takes a frame.
Continues(speech) ==
    /\ Talking /\ ~CeilingReached(UtteranceExtended)
    /\ utteranceFrames' = UtteranceExtended
    /\ \/ speech /\ vadState' = "SPEECH"
       \/ /\ ~speech /\ vadState = "SPEECH"
          /\ vadState' = "SPEECH_ENDING" /\ silenceFrameCount' = 1
       \/ /\ ~speech /\ vadState = "SPEECH_ENDING"
          /\ vadState' = "SPEECH_ENDING"
          /\ silenceFrameCount' = silenceFrameCount + 1
          /\ ~SilenceClosed(silenceFrameCount + 1)
    /\ UNCHANGED <<lookback, pendingFrames, utterances>>
\* An open utterance takes its last frame and goes out.
Closes(speech, cause) ==
    /\ Talking /\ vadState' = "SILENCE"
    /\ Dispatch(UtteranceExtended, cause)
    /\ \/ cause = "ceiling"
       \/ /\ cause = "silence" /\ ~speech /\ vadState = "SPEECH_ENDING"
          /\ SilenceClosed(silenceFrameCount + 1)
    /\ UNCHANGED <<lookback, pendingFrames>>

LEMMA FrameCases ==
    ASSUME NEW speech \in BOOLEAN, ProcessFrames(speech)
    PROVE  /\ heard' = Append(heard, speech)
           /\ \/ Idles(speech) \/ Opens(speech) \/ Waits(speech)
              \/ GivesUp(speech) \/ Confirms(speech) \/ Continues(speech)
              \/ \E cause \in {"silence", "ceiling"} : Closes(speech, cause)
<1>1. heard' = Append(heard, speech)
  BY DEF ProcessFrames
<1>2. CASE HandleSilence(speech)
  BY <1>1, <1>2 DEF HandleSilence, Idles, Opens
<1>3. CASE HandleSpeechStarting(speech)
  <2>1. /\ vadState = "SPEECH_STARTING"
        /\ UNCHANGED <<silenceFrameCount, lookback, utterances>>
        /\ IF speech THEN StartingSpeech ELSE StartingDip
    BY <1>3 DEF HandleSpeechStarting
  <2>2. CASE speech /\ SpeechConfirmed(speechFrameCount + 1)
    BY <2>1, <2>2, <1>1 DEF StartingSpeech, Confirms
  <2>3. CASE speech /\ ~SpeechConfirmed(speechFrameCount + 1)
    BY <2>1, <2>3, <1>1 DEF StartingSpeech, Waits
  <2>4. CASE ~speech /\ DipTolerated(dipFrameCount + 1)
    BY <2>1, <2>4, <1>1 DEF StartingDip, Waits
  <2>5. CASE ~speech /\ ~DipTolerated(dipFrameCount + 1)
    BY <2>1, <2>5, <1>1 DEF StartingDip, GivesUp
  <2> QED BY <2>2, <2>3, <2>4, <2>5
<1>4. ASSUME Talking, ForceEndOfUtterance, UNCHANGED <<lookback, pendingFrames>>
      PROVE  Closes(speech, "ceiling")
  BY <1>4 DEF ForceEndOfUtterance, Closes
<1>5. CASE HandleSpeech(speech)
  <2>1. Talking
    BY <1>5 DEF HandleSpeech, Talking
  <2>2. CASE CeilingReached(UtteranceExtended)
    <3>1. Closes(speech, "ceiling")
      BY <1>4, <1>5, <2>1, <2>2 DEF HandleSpeech
    <3> QED BY <1>1, <3>1
  <2>3. CASE ~CeilingReached(UtteranceExtended)
    <3>1. Continues(speech)
      BY <1>5, <2>1, <2>3 DEF HandleSpeech, Continues
    <3> QED BY <1>1, <3>1
  <2> QED BY <2>2, <2>3
<1>6. CASE HandleSpeechEnding(speech)
  <2>1. Talking
    BY <1>6 DEF HandleSpeechEnding, Talking
  <2>2. CASE CeilingReached(UtteranceExtended)
    <3>1. Closes(speech, "ceiling")
      BY <1>4, <1>6, <2>1, <2>2 DEF HandleSpeechEnding
    <3> QED BY <1>1, <3>1
  <2>3. CASE ~CeilingReached(UtteranceExtended) /\ ~speech
                /\ SilenceClosed(silenceFrameCount + 1)
    <3>1. Closes(speech, "silence")
      BY <1>6, <2>1, <2>3 DEF HandleSpeechEnding, Closes
    <3> QED BY <1>1, <3>1
  <2>4. CASE ~CeilingReached(UtteranceExtended)
                /\ (speech \/ ~SilenceClosed(silenceFrameCount + 1))
    <3>1. Continues(speech)
      BY <1>6, <2>1, <2>4 DEF HandleSpeechEnding, Continues
    <3> QED BY <1>1, <3>1
  <2> QED BY <2>2, <2>3, <2>4
<1> QED BY <1>1, <1>2, <1>3, <1>5, <1>6 DEF ProcessFrames

\* What every frame finds typed: the buffers before it and the ones it makes.
LEMMA BufferTypes ==
    ASSUME TypeOK
    PROVE  /\ Len(heard) \in Nat /\ Frame = Len(heard) + 1
           /\ utterances \in Seq(UtteranceOver(Frames))
           /\ Candidate # <<>> /\ PendingExtended # <<>> /\ UtteranceExtended # <<>>
           /\ UtteranceExtended \in Seq(Frames \cup {Frame})
           /\ PendingExtended \in Seq(Frames \cup {Frame})
           /\ Candidate \in Seq(Frames \cup {Frame})
           /\ utterances \in Seq(UtteranceOver(Frames \cup {Frame}))
<1>1. Len(heard) \in Nat /\ Frame = Len(heard) + 1
  BY LenProperties DEF TypeOK, Frame
<1> DEFINE F == Frames \cup {Frame}
<1>2. /\ lookback \in Seq(F) /\ pendingFrames \in Seq(F)
      /\ utteranceFrames \in Seq(F)
  BY SeqMonotonic DEF TypeOK
<1>3. utterances \in Seq(UtteranceOver(Frames))
  BY DEF TypeOK, UtteranceOver
<1>4. UtteranceOver(Frames) \subseteq UtteranceOver(F)
  <2>1. \A q \in Seq(Frames) : q \in Seq(F)
    BY SeqMonotonic
  <2> QED BY <2>1 DEF UtteranceOver
<1>5. utterances \in Seq(UtteranceOver(F))
  BY <1>3, <1>4, SeqMonotonic
<1>6. Frame \in F
  OBVIOUS
<1> HIDE DEF F
<1>7. /\ Candidate # <<>> /\ PendingExtended # <<>> /\ UtteranceExtended # <<>>
      /\ UtteranceExtended \in Seq(F) /\ PendingExtended \in Seq(F)
      /\ Candidate \in Seq(F)
  BY <1>2, <1>6, AppendProperties
     DEF Candidate, PendingExtended, UtteranceExtended
<1> QED BY <1>1, <1>3, <1>5, <1>7 DEF F

\* A manual boundary finds audio only while an utterance is open, the pending
\* buffer is exactly the unconfirmed candidate, and no empty utterance is
\* queued, whatever the thresholds and whenever the owner overrides or resets.
THEOREM OpenUtterancesOnly == Spec => []OnlyOpenUtterances
<1>1. Init => OnlyOpenUtterances
  BY DEF Init, OnlyOpenUtterances, Talking
<1>2. ASSUME TypeOK, OnlyOpenUtterances, [Next]_vars
      PROVE  OnlyOpenUtterances'
  <2> DEFINE F == Frames \cup {Frame}
  <2>1. ASSUME NEW q \in Seq(F), q # <<>>, NEW c \in Cause, Dispatch(q, c)
        PROVE  /\ utteranceFrames' = <<>>
               /\ \A u \in 1 .. Len(utterances') : utterances'[u].frames # <<>>
    <3>1. /\ utterances \in Seq(UtteranceOver(F))
          /\ Len(utterances) \in Nat
      BY <1>2, BufferTypes, LenProperties
    <3>2. /\ Len(utterances') = Len(utterances) + 1
          /\ \A u \in 1 .. Len(utterances) : utterances'[u] = utterances[u]
          /\ utterances'[Len(utterances')] = [frames |-> q, cause |-> c]
          /\ utteranceFrames' = <<>>
      BY <2>1, <3>1, DispatchType
    <3> QED BY <1>2, <2>1, <3>1, <3>2 DEF OnlyOpenUtterances
  <2>2. ASSUME NEW speech \in BOOLEAN, ProcessFrames(speech)
        PROVE  OnlyOpenUtterances'
    <3>1. CASE Idles(speech)
      BY <1>2, <3>1 DEF Idles, OnlyOpenUtterances, Talking
    <3>2. CASE Opens(speech)
      BY <1>2, <3>2, BufferTypes DEF Opens, OnlyOpenUtterances, Talking
    <3>3. CASE Waits(speech)
      BY <1>2, <3>3, BufferTypes DEF Waits, OnlyOpenUtterances, Talking
    <3>4. CASE GivesUp(speech)
      BY <1>2, <3>4 DEF GivesUp, OnlyOpenUtterances, Talking
    <3>5. CASE Confirms(speech)
      BY <1>2, <3>5 DEF Confirms, OnlyOpenUtterances, Talking
    <3>6. CASE Continues(speech)
      BY <1>2, <3>6 DEF Continues, OnlyOpenUtterances, Talking
    <3>7. ASSUME NEW cause \in {"silence", "ceiling"}, Closes(speech, cause)
          PROVE  OnlyOpenUtterances'
      <4>1. /\ utteranceFrames' = <<>>
            /\ \A u \in 1 .. Len(utterances') : utterances'[u].frames # <<>>
        BY <1>2, <2>1, <3>7, BufferTypes DEF Closes, Cause
      <4> QED BY <1>2, <3>7, <4>1 DEF Closes, OnlyOpenUtterances, Talking
    <3> QED BY <2>2, <3>1, <3>2, <3>3, <3>4, <3>5, <3>6, <3>7, FrameCases
  <2>3. CASE Override
    <3>1. utteranceFrames \in Seq(F)
      BY <1>2, SeqMonotonic DEF TypeOK
    <3>2. /\ utteranceFrames' = <<>>
          /\ \A u \in 1 .. Len(utterances') : utterances'[u].frames # <<>>
      BY <2>1, <2>3, <3>1 DEF Override, Cause
    <3> QED BY <1>2, <2>3, <3>2 DEF Override, OnlyOpenUtterances, Talking
  <2>4. CASE Reset
    BY <1>2, <2>4 DEF Reset, OnlyOpenUtterances, Talking
  <2>5. CASE UNCHANGED vars
    BY <1>2, <2>5 DEF vars, OnlyOpenUtterances, Talking
  <2> QED BY <1>2, <2>2, <2>3, <2>4, <2>5 DEF Next
<1> QED BY <1>1, <1>2, TypeCorrect, PTL DEF Spec

---------------------------------------------------------------------------
(* The memory ceiling. *)

\* The frames a candidate can hold behind its lookback when its n-th speech
\* frame has just been counted, that frame left out.
CandidateSpan(n) == (n - 1) * (MaxDipFrames + 1)

LEMMA EffSpeechType ==
    EffSpeech \in Nat /\ EffSpeech >= 2 /\ EffSpeech >= MinSpeechFrames
BY VADAssumption DEF VADAssumption, EffSpeech, AtLeastTwo

LEMMA CandidateSpans ==
    /\ PendingCeiling = LookbackFrames + CandidateSpan(EffSpeech)
    /\ CandidateSpan(1) = 0
    /\ \A n \in Nat \ {0} : /\ CandidateSpan(n) \in Nat
                            /\ CandidateSpan(n + 1)
                                 = CandidateSpan(n) + MaxDipFrames + 1
                            /\ n <= EffSpeech
                                 => CandidateSpan(n) <= CandidateSpan(EffSpeech)
<1>1. EffSpeech \in Nat /\ EffSpeech >= 2 /\ EffSpeech >= MinSpeechFrames
  BY EffSpeechType
<1>2. MaxDipFrames + 1 \in Nat
  BY VADAssumption DEF VADAssumption
<1>3. ASSUME NEW n \in Nat \ {0}
      PROVE  /\ CandidateSpan(n) \in Nat
             /\ CandidateSpan(n + 1) = CandidateSpan(n) + MaxDipFrames + 1
  BY <1>2, VADAssumption DEF VADAssumption, CandidateSpan
<1>4. ASSUME NEW n \in Nat \ {0}, n <= EffSpeech
      PROVE  CandidateSpan(n) <= CandidateSpan(EffSpeech)
  <2>1. \A a, b, m \in Nat : a <= b => a * m <= b * m
    OBVIOUS
  <2> QED BY <1>1, <1>2, <1>4, <2>1 DEF CandidateSpan
<1>5. CandidateSpan(1) = 0 /\ PendingCeiling = LookbackFrames + CandidateSpan(EffSpeech)
  BY <1>2 DEF CandidateSpan, PendingCeiling
<1> QED BY <1>1, <1>3, <1>4, <1>5

LEMMA Ceilings ==
    /\ LookbackFrames \in Nat \ {0} /\ MaxDipFrames \in Nat
    /\ PendingCeiling \in Nat /\ PendingCeiling >= LookbackFrames
    /\ UtteranceCeiling \in Nat
    /\ UtteranceCeiling >= PendingCeiling + 2
    /\ UtteranceCeiling >= MaxUtteranceFrames
<1>1. PendingCeiling \in Nat /\ PendingCeiling >= LookbackFrames
  BY CandidateSpans, EffSpeechType, VADAssumption DEF VADAssumption
<1> QED BY <1>1, VADAssumption DEF VADAssumption, UtteranceCeiling

\* Why the ceiling holds: a candidate of len frames with n speech frames and a
\* running dip of d is accounted for by its lookback, its speech frames, and
\* the dips between them.
CandidateFits(n, d, len) ==
    /\ n \in 1 .. EffSpeech - 1
    /\ d \in 0 .. MaxDipFrames
    /\ len <= LookbackFrames + CandidateSpan(n) + 1 + d
CandidateBounded ==
    vadState = "SPEECH_STARTING" =>
        CandidateFits(speechFrameCount, dipFrameCount, Len(pendingFrames))

LEMMA CandidateGrows ==
    ASSUME NEW n, NEW d, NEW len \in Nat, CandidateFits(n, d, len)
    PROVE  /\ len <= PendingCeiling
           /\ DipTolerated(d + 1) => CandidateFits(n, d + 1, len + 1)
           /\ ~SpeechConfirmed(n + 1) => CandidateFits(n + 1, 0, len + 1)
<1>1. /\ n \in Nat \ {0} /\ n + 1 \in Nat \ {0}
      /\ n <= EffSpeech - 1 /\ n + 1 <= EffSpeech
      /\ d \in Nat /\ d <= MaxDipFrames
      /\ len <= LookbackFrames + CandidateSpan(n) + 1 + d
      /\ EffSpeech \in Nat \ {0}
  BY EffSpeechType, Ceilings DEF CandidateFits
<1>2. /\ CandidateSpan(n) \in Nat /\ CandidateSpan(EffSpeech) \in Nat
      /\ CandidateSpan(n + 1) = CandidateSpan(n) + MaxDipFrames + 1
      /\ CandidateSpan(n + 1) <= CandidateSpan(EffSpeech)
      /\ PendingCeiling = LookbackFrames + CandidateSpan(EffSpeech)
  BY <1>1, CandidateSpans
<1>3. len <= PendingCeiling
  BY <1>1, <1>2, Ceilings
<1>4. DipTolerated(d + 1) => CandidateFits(n, d + 1, len + 1)
  BY <1>1, <1>2, Ceilings DEF CandidateFits, DipTolerated
<1>5. ASSUME ~SpeechConfirmed(n + 1) PROVE CandidateFits(n + 1, 0, len + 1)
  <2>1. n + 1 <= EffSpeech - 1
    BY <1>1, <1>5, EffSpeechType, VADAssumption
       DEF SpeechConfirmed, EffSpeech, AtLeastTwo, VADAssumption
  <2> QED BY <1>1, <1>2, <2>1, Ceilings DEF CandidateFits
<1> QED BY <1>3, <1>4, <1>5

LEMMA CandidateStarts ==
    ASSUME NEW len \in Nat, len <= LookbackFrames + 1
    PROVE  CandidateFits(1, 0, len)
BY EffSpeechType, Ceilings, CandidateSpans DEF CandidateFits

LEMMA PushLookbackLength ==
    ASSUME NEW S, NEW q \in Seq(S), NEW f \in S, Len(q) <= LookbackFrames
    PROVE  Len(PushLookback(q, f)) <= LookbackFrames
<1>0. Len(q) \in Nat /\ LookbackFrames \in Nat \ {0}
  BY LenProperties, Ceilings
<1>1. CASE Len(q) < LookbackFrames
  <2>1. Len(Append(q, f)) = Len(q) + 1
    BY AppendProperties
  <2> QED BY <1>0, <1>1, <2>1 DEF PushLookback
<1>2. CASE ~(Len(q) < LookbackFrames)
  <2>1. q # <<>>
    BY <1>0, <1>2
  <2>2. Tail(q) \in Seq(S) /\ Len(Tail(q)) = Len(q) - 1
    BY <2>1, HeadTailProperties
  <2>3. Len(Append(Tail(q), f)) = Len(Tail(q)) + 1
    BY <2>2, AppendProperties
  <2> QED BY <1>0, <1>2, <2>2, <2>3 DEF PushLookback
<1> QED BY <1>1, <1>2

LEMMA CandidateAccounted == Spec => [](MemoryCeiling /\ CandidateBounded)
<1>1. Init => MemoryCeiling /\ CandidateBounded
  BY Ceilings DEF Init, MemoryCeiling, CandidateBounded
<1>2. ASSUME TypeOK, OnlyOpenUtterances, MemoryCeiling, CandidateBounded,
             [Next]_vars
      PROVE  MemoryCeiling' /\ CandidateBounded'
  <2> DEFINE F == Frames \cup {Frame}
             Short == \A u \in 1 .. Len(utterances) :
                          Len(utterances[u].frames) <= UtteranceCeiling
  <2>0. /\ lookback \in Seq(F) /\ pendingFrames \in Seq(F)
        /\ utteranceFrames \in Seq(F) /\ Frame \in F
        /\ Len(lookback) \in Nat /\ Len(pendingFrames) \in Nat
        /\ Len(utteranceFrames) \in Nat
        /\ dipFrameCount \in Nat /\ speechFrameCount \in Nat
    BY <1>2, SeqMonotonic, LenProperties DEF TypeOK
  <2>1. /\ Len(Candidate) = Len(lookback) + 1
        /\ Len(PendingExtended) = Len(pendingFrames) + 1
        /\ Len(UtteranceExtended) = Len(utteranceFrames) + 1
    BY <2>0, AppendProperties DEF Candidate, PendingExtended, UtteranceExtended
  <2>2. ASSUME NEW q \in Seq(F), Len(q) <= UtteranceCeiling,
               NEW c \in Cause, Dispatch(q, c)
        PROVE  Short' /\ utteranceFrames' = <<>>
    <3>1. /\ utterances \in Seq(UtteranceOver(F))
          /\ Len(utterances) \in Nat
      BY <1>2, BufferTypes, LenProperties
    <3>2. /\ Len(utterances') = Len(utterances) + 1
          /\ \A u \in 1 .. Len(utterances) : utterances'[u] = utterances[u]
          /\ utterances'[Len(utterances')] = [frames |-> q, cause |-> c]
          /\ utteranceFrames' = <<>>
      BY <2>2, <3>1, DispatchType
    <3> QED BY <1>2, <2>2, <3>1, <3>2 DEF MemoryCeiling
  <2>3. ASSUME NEW speech \in BOOLEAN, ProcessFrames(speech)
        PROVE  MemoryCeiling' /\ CandidateBounded'
    <3>1. CASE Idles(speech)
      <4>1. Len(lookback') <= LookbackFrames
        BY <1>2, <2>0, <3>1, PushLookbackLength DEF Idles, MemoryCeiling
      <4> QED BY <1>2, <3>1, <4>1 DEF Idles, MemoryCeiling, CandidateBounded
    <3>2. CASE Opens(speech)
      <4>1. Len(pendingFrames') \in Nat /\ Len(pendingFrames') <= LookbackFrames + 1
        BY <1>2, <2>0, <2>1, <3>2, Ceilings DEF Opens, MemoryCeiling
      <4>2. CandidateFits(1, 0, Len(pendingFrames'))
        BY <4>1, CandidateStarts
      <4>3. Len(pendingFrames') <= PendingCeiling
        BY <4>1, <4>2, CandidateGrows
      <4> QED BY <1>2, <3>2, <4>2, <4>3 DEF Opens, MemoryCeiling, CandidateBounded
    <3>3. CASE Waits(speech)
      <4>1. /\ CandidateFits(speechFrameCount, dipFrameCount, Len(pendingFrames))
            /\ Len(pendingFrames') = Len(pendingFrames) + 1
        BY <1>2, <2>1, <3>3 DEF Waits, CandidateBounded
      <4>2. CandidateFits(speechFrameCount', dipFrameCount', Len(pendingFrames'))
        BY <2>0, <3>3, <4>1, CandidateGrows DEF Waits
      <4>3. Len(pendingFrames') <= PendingCeiling
        BY <2>0, <4>1, <4>2, CandidateGrows
      <4> QED BY <1>2, <3>3, <4>2, <4>3 DEF Waits, MemoryCeiling, CandidateBounded
    <3>4. CASE GivesUp(speech)
      BY <1>2, <3>4, Ceilings DEF GivesUp, MemoryCeiling, CandidateBounded
    <3>5. CASE Confirms(speech)
      <4>1. Len(utteranceFrames') < UtteranceCeiling
        BY <1>2, <2>0, <2>1, <3>5, Ceilings DEF Confirms, MemoryCeiling
      <4> QED BY <1>2, <3>5, <4>1, Ceilings
             DEF Confirms, MemoryCeiling, CandidateBounded
    <3>6. CASE Continues(speech)
      <4>1. Len(utteranceFrames') < UtteranceCeiling
        BY <2>0, <2>1, <3>6, Ceilings, VADAssumption
           DEF Continues, CeilingReached, VADAssumption
      <4> QED BY <1>2, <3>6, <4>1
             DEF Continues, MemoryCeiling, CandidateBounded
    <3>7. ASSUME NEW cause \in {"silence", "ceiling"}, Closes(speech, cause)
          PROVE  MemoryCeiling' /\ CandidateBounded'
      <4>1. Len(UtteranceExtended) <= UtteranceCeiling
        BY <1>2, <2>0, <2>1, Ceilings DEF MemoryCeiling
      <4>2. Short' /\ utteranceFrames' = <<>>
        BY <1>2, <2>2, <3>7, <4>1, BufferTypes DEF Closes, Cause
      <4> QED BY <1>2, <3>7, <4>2, Ceilings
             DEF Closes, MemoryCeiling, CandidateBounded
    <3> QED BY <2>3, <3>1, <3>2, <3>3, <3>4, <3>5, <3>6, <3>7, FrameCases
  <2>4. CASE Override
    <3>1. Len(utteranceFrames) <= UtteranceCeiling
      BY <1>2, <2>0, Ceilings DEF MemoryCeiling
    <3>2. Short' /\ utteranceFrames' = <<>>
      BY <2>0, <2>2, <2>4, <3>1 DEF Override, Cause
    <3> QED BY <1>2, <2>4, <3>2, Ceilings
           DEF Override, counters, MemoryCeiling, CandidateBounded
  <2>5. CASE Reset
    BY <1>2, <2>5, Ceilings DEF Reset, MemoryCeiling, CandidateBounded
  <2>6. CASE UNCHANGED vars
    BY <1>2, <2>6 DEF vars, counters, MemoryCeiling, CandidateBounded
  <2> QED BY <1>2, <2>3, <2>4, <2>5, <2>6 DEF Next
<1> QED BY <1>1, <1>2, TypeCorrect, OpenUtterancesOnly, PTL DEF Spec

\* No buffer and no dispatched utterance outgrows the length the ceiling and
\* an unconfirmed candidate leave it, for all thresholds and however the owner
\* overrides and resets.
THEOREM MemoryBounded == Spec => []MemoryCeiling
BY CandidateAccounted, PTL

---------------------------------------------------------------------------
(* Pauses. *)

\* Why pauses close on time: the silence count of an open utterance is the
\* number of silent frames since its last speech frame.
PauseCounted ==
    /\ vadState = "SPEECH" => Len(heard) >= 1 /\ heard[Len(heard)]
    /\ vadState = "SPEECH_ENDING" =>
         /\ silenceFrameCount \in 1 .. EffSilence - 1
         /\ silenceFrameCount < Len(heard)
         /\ heard[Len(heard) - silenceFrameCount]
         /\ \A f \in Frames : f > Len(heard) - silenceFrameCount => ~heard[f]

\* The second half of PauseCloses, for one utterance.
EndsInSilence(utterance, hrd) ==
    utterance.cause = "silence" =>
        LET last == utterance.frames[Len(utterance.frames)]
        IN  \A f \in 1 .. Len(hrd) :
                f \in last - EffSilence + 1 .. last => ~hrd[f]

LEMMA EffSilenceType ==
    EffSilence \in Nat /\ EffSilence >= 2 /\ EffSilence >= MinSilenceFrames
BY VADAssumption DEF VADAssumption, EffSilence, AtLeastTwo

\* A dispatched utterance's last frame was heard before any later frame.
LEMMA LastFrame ==
    ASSUME TypeOK, OnlyOpenUtterances, NEW u \in 1 .. Len(utterances)
    PROVE  /\ utterances[u] \in UtteranceOver(Frames)
           /\ utterances[u].frames \in Seq(Frames)
           /\ utterances[u].frames[Len(utterances[u].frames)] \in Frames
<1>1. utterances[u] \in UtteranceOver(Frames)
  BY ElementOfSeq DEF TypeOK, UtteranceOver
<1>2. utterances[u].frames \in Seq(Frames) /\ utterances[u].frames # <<>>
  BY <1>1 DEF UtteranceOver, OnlyOpenUtterances
<1>3. Len(utterances[u].frames) \in 1 .. Len(utterances[u].frames)
  BY <1>2, LenProperties, EmptySeq
<1> QED BY <1>1, <1>2, <1>3, ElementOfSeq

AllEndInSilence ==
    \A u \in 1 .. Len(utterances) : EndsInSilence(utterances[u], heard)

\* While an utterance is open its last speech is less than EffSilence frames
\* old, and what the silence rule closed ends in EffSilence silent frames, for
\* all thresholds and whatever is overridden or reset.
THEOREM PausesClose == Spec => []PauseCloses
<1>1. Init => PauseCounted /\ AllEndInSilence
  BY DEF Init, PauseCounted, AllEndInSilence
<1>2. ASSUME TypeOK, OnlyOpenUtterances, PauseCounted, AllEndInSilence,
             [Next]_vars
      PROVE  PauseCounted' /\ AllEndInSilence'
  <2> DEFINE F == Frames \cup {Frame}
  <2>0. /\ Len(heard) \in Nat /\ Frame = Len(heard) + 1
        /\ silenceFrameCount \in Nat
        /\ heard \in Seq(BOOLEAN)
        /\ utterances \in Seq(UtteranceOver(F)) /\ Len(utterances) \in Nat
        /\ UtteranceExtended \in Seq(F)
        /\ EffSilence \in Nat
    BY <1>2, BufferTypes, LenProperties, EffSilenceType DEF TypeOK
  <2>1. ASSUME NEW speech \in BOOLEAN, ProcessFrames(speech)
        PROVE  PauseCounted' /\ AllEndInSilence'
    <3>0. heard' = Append(heard, speech)
      BY <2>1, FrameCases
    <3>1. /\ Len(heard') = Len(heard) + 1 /\ heard'[Len(heard) + 1] = speech
          /\ \A f \in 1 .. Len(heard) : heard'[f] = heard[f]
      BY <2>0, <3>0, AppendProperties
    <3>2. ASSUME NEW u \in 1 .. Len(utterances)
          PROVE  EndsInSilence(utterances[u], heard')
      <4> DEFINE last == utterances[u].frames[Len(utterances[u].frames)]
      <4>1. last \in 1 .. Len(heard)
        BY <1>2, LastFrame DEF Frames
      <4>2. EndsInSilence(utterances[u], heard)
        BY <1>2 DEF AllEndInSilence
      <4> HIDE DEF last
      <4>3. SUFFICES ASSUME utterances[u].cause = "silence",
                            NEW f \in 1 .. Len(heard'),
                            f \in last - EffSilence + 1 .. last
                     PROVE  ~heard'[f]
        BY DEF EndsInSilence, last
      <4>4. f \in 1 .. Len(heard)
        BY <2>0, <3>1, <4>1, <4>3
      <4> QED BY <3>1, <4>2, <4>3, <4>4 DEF EndsInSilence, last
    <3>3. UNCHANGED utterances => AllEndInSilence'
      BY <3>2 DEF AllEndInSilence
    <3>4. CASE Idles(speech)
      BY <3>3, <3>4 DEF Idles, PauseCounted
    <3>5. CASE Opens(speech)
      BY <3>3, <3>5 DEF Opens, PauseCounted
    <3>6. CASE Waits(speech)
      BY <3>3, <3>6 DEF Waits, PauseCounted
    <3>7. CASE GivesUp(speech)
      BY <3>3, <3>7 DEF GivesUp, PauseCounted
    <3>8. CASE Confirms(speech)
      BY <2>0, <3>1, <3>3, <3>8 DEF Confirms, PauseCounted
    <3>9. CASE Continues(speech)
      <4>1. CASE speech /\ vadState' = "SPEECH"
        BY <2>0, <3>1, <3>3, <3>9, <4>1 DEF Continues, PauseCounted
      <4>2. CASE ~speech /\ vadState = "SPEECH"
        <5>1. vadState' = "SPEECH_ENDING" /\ silenceFrameCount' = 1
          BY <3>9, <4>2 DEF Continues
        <5>2. Len(heard) >= 1 /\ heard[Len(heard)]
          BY <1>2, <4>2 DEF PauseCounted
        <5> QED BY <2>0, <3>1, <3>3, <3>9, <4>2, <5>1, <5>2, EffSilenceType
               DEF Continues, PauseCounted, Frames
      <4>3. CASE ~speech /\ vadState = "SPEECH_ENDING"
        <5>1. /\ vadState' = "SPEECH_ENDING"
              /\ silenceFrameCount' = silenceFrameCount + 1
              /\ ~SilenceClosed(silenceFrameCount + 1)
          BY <3>9, <4>3 DEF Continues
        <5>2. /\ silenceFrameCount \in 1 .. EffSilence - 1
              /\ silenceFrameCount < Len(heard)
              /\ heard[Len(heard) - silenceFrameCount]
              /\ \A f \in Frames :
                    f > Len(heard) - silenceFrameCount => ~heard[f]
          BY <1>2, <4>3 DEF PauseCounted
        <5>3. silenceFrameCount + 1 <= EffSilence - 1
          BY <2>0, <5>1, <5>2, VADAssumption
             DEF SilenceClosed, EffSilence, AtLeastTwo, VADAssumption
        <5>4. /\ Len(heard') - silenceFrameCount' = Len(heard) - silenceFrameCount
              /\ Len(heard) - silenceFrameCount \in 1 .. Len(heard)
          BY <2>0, <3>1, <5>1, <5>2
        <5>5. ASSUME NEW f \in Frames', f > Len(heard') - silenceFrameCount'
              PROVE  ~heard'[f]
          <6>1. f \in 1 .. Len(heard) + 1 /\ f > Len(heard) - silenceFrameCount
            BY <2>0, <3>1, <5>4, <5>5 DEF Frames
          <6>2. CASE f = Len(heard) + 1
            BY <3>1, <4>3, <6>2
          <6>3. CASE f \in Frames
            BY <3>1, <5>2, <6>1, <6>3 DEF Frames
          <6> QED BY <2>0, <6>1, <6>2, <6>3 DEF Frames
        <5>6. PauseCounted'
          BY <2>0, <3>1, <5>1, <5>2, <5>3, <5>4, <5>5 DEF PauseCounted
        <5> QED BY <3>3, <3>9, <5>6 DEF Continues
      <4> QED BY <3>9, <4>1, <4>2, <4>3 DEF Continues
    <3>10. ASSUME NEW cause \in {"silence", "ceiling"}, Closes(speech, cause)
           PROVE  PauseCounted' /\ AllEndInSilence'
      <4>1. PauseCounted'
        BY <3>10 DEF Closes, PauseCounted
      <4>2. /\ Len(utterances') = Len(utterances) + 1
            /\ \A u \in 1 .. Len(utterances) : utterances'[u] = utterances[u]
            /\ utterances'[Len(utterances')]
                 = [frames |-> UtteranceExtended, cause |-> cause]
        BY <2>0, <3>10, DispatchType DEF Closes, Cause
      <4>3. UtteranceExtended[Len(UtteranceExtended)] = Frame
        BY <1>2, <2>0, AppendProperties, SeqMonotonic DEF UtteranceExtended, TypeOK
      <4>4. ASSUME cause = "silence"
            PROVE  \A f \in 1 .. Len(heard') :
                      f \in Frame - EffSilence + 1 .. Frame => ~heard'[f]
        <5>1. /\ silenceFrameCount \in 1 .. EffSilence - 1
              /\ \A f \in Frames :
                    f > Len(heard) - silenceFrameCount => ~heard[f]
              /\ SilenceClosed(silenceFrameCount + 1) /\ ~speech
          BY <1>2, <3>10, <4>4 DEF Closes, PauseCounted
        <5>2. silenceFrameCount + 1 >= EffSilence
          BY <2>0, <5>1, VADAssumption
             DEF SilenceClosed, EffSilence, AtLeastTwo, VADAssumption
        <5> SUFFICES ASSUME NEW f \in 1 .. Len(heard'),
                            f \in Frame - EffSilence + 1 .. Frame
                     PROVE  ~heard'[f]
          OBVIOUS
        <5>3. f \in 1 .. Len(heard) + 1 /\ f > Len(heard) - silenceFrameCount
          BY <2>0, <3>1, <5>1, <5>2, EffSilenceType
        <5>4. CASE f = Len(heard) + 1
          BY <3>1, <5>1, <5>4
        <5>5. CASE f \in Frames
          BY <3>1, <5>1, <5>3, <5>5 DEF Frames
        <5> QED BY <2>0, <5>3, <5>4, <5>5 DEF Frames
      <4>5. EndsInSilence([frames |-> UtteranceExtended, cause |-> cause], heard')
        <5> DEFINE u == [frames |-> UtteranceExtended, cause |-> cause]
        <5>1. u.cause = cause /\ u.frames = UtteranceExtended
          OBVIOUS
        <5> HIDE DEF u
        <5>2. u.frames[Len(u.frames)] = Frame
          BY <4>3, <5>1
        <5>3. EndsInSilence(u, heard')
          BY <4>4, <5>1, <5>2 DEF EndsInSilence
        <5> QED BY <5>3 DEF u
      <4>6. AllEndInSilence'
        BY <2>0, <3>2, <4>2, <4>5 DEF AllEndInSilence
      <4> QED BY <4>1, <4>6
    <3> QED BY <2>1, <3>4, <3>5, <3>6, <3>7, <3>8, <3>9, <3>10, FrameCases
  <2>2. CASE Override
    <3>1. utteranceFrames \in Seq(F)
      BY <1>2, SeqMonotonic DEF TypeOK
    <3>2. /\ Len(utterances') = Len(utterances) + 1
          /\ \A u \in 1 .. Len(utterances) : utterances'[u] = utterances[u]
          /\ utterances'[Len(utterances')]
               = [frames |-> utteranceFrames, cause |-> "override"]
      BY <2>0, <2>2, <3>1, DispatchType DEF Override, Cause
    <3>3. EndsInSilence([frames |-> utteranceFrames, cause |-> "override"], heard)
          /\ heard' = heard /\ Len(utterances) \in Nat
      BY <2>0, <2>2 DEF EndsInSilence, Override
    <3>4. AllEndInSilence'
      BY <1>2, <3>2, <3>3 DEF AllEndInSilence
    <3> QED BY <1>2, <2>2, <3>4 DEF Override, counters, PauseCounted, Frames
  <2>3. CASE Reset
    BY <1>2, <2>3 DEF Reset, PauseCounted, AllEndInSilence
  <2>4. CASE UNCHANGED vars
    BY <1>2, <2>4 DEF vars, counters, PauseCounted, AllEndInSilence, Frames
  <2> QED BY <1>2, <2>1, <2>2, <2>3, <2>4 DEF Next
<1>3. TypeOK /\ PauseCounted /\ AllEndInSilence => PauseCloses
  <2> SUFFICES ASSUME TypeOK, PauseCounted, AllEndInSilence PROVE PauseCloses
    OBVIOUS
  <2>0. Len(heard) \in Nat
    BY LenProperties DEF TypeOK
  <2>1. ASSUME vadState = "SPEECH"
        PROVE  \E f \in Frames : f > Len(heard) - EffSilence /\ heard[f]
    BY <2>0, <2>1, EffSilenceType DEF PauseCounted, Frames
  <2>2. ASSUME vadState = "SPEECH_ENDING"
        PROVE  \E f \in Frames : f > Len(heard) - EffSilence /\ heard[f]
    <3>1. /\ Len(heard) - silenceFrameCount \in Frames
          /\ Len(heard) - silenceFrameCount > Len(heard) - EffSilence
      BY <2>0, <2>2, EffSilenceType DEF PauseCounted, Frames
    <3> QED BY <2>2, <3>1 DEF PauseCounted
  <2> QED BY <2>1, <2>2 DEF PauseCloses, Talking, AllEndInSilence,
                            EndsInSilence, Frames
<1> QED BY <1>1, <1>2, <1>3, TypeCorrect, OpenUtterancesOnly, PTL DEF Spec

---------------------------------------------------------------------------
(* Order. *)

LEMMA AscendingAppend ==
    ASSUME NEW n \in Nat, NEW q \in Seq(1 .. n), Ascending(q)
    PROVE  Ascending(Append(q, n + 1))
<1>1. /\ Append(q, n + 1) \in Seq(1 .. n + 1)
      /\ Len(Append(q, n + 1)) = Len(q) + 1
      /\ \A i \in 1 .. Len(q) : Append(q, n + 1)[i] = q[i]
      /\ Append(q, n + 1)[Len(q) + 1] = n + 1
  <2>1. q \in Seq(1 .. n + 1) /\ n + 1 \in 1 .. n + 1
    <3>1. 1 .. n \subseteq 1 .. n + 1
      OBVIOUS
    <3> QED BY <3>1, SeqMonotonic
  <2> QED BY <2>1, AppendProperties
<1>2. Len(q) \in Nat /\ \A i \in 1 .. Len(q) : q[i] \in 1 .. n
  BY LenProperties, ElementOfSeq
<1> DEFINE r == Append(q, n + 1)
<1> HIDE DEF r
<1>3. SUFFICES ASSUME NEW j \in 1 .. Len(r), NEW k \in 1 .. Len(r), j < k
               PROVE  r[j] < r[k]
  BY DEF Ascending, r
<1>4. j \in 1 .. Len(q) /\ r[j] = q[j] /\ q[j] \in 1 .. n
  <2>1. j \in 1 .. Len(q)
    BY <1>1, <1>2, <1>3 DEF r
  <2> QED BY <1>1, <1>2, <2>1 DEF r
<1>5. CASE k \in 1 .. Len(q)
  <2>1. r[k] = q[k]
    BY <1>1, <1>5 DEF r
  <2>2. q[j] < q[k]
    BY <1>3, <1>4, <1>5 DEF Ascending
  <2> QED BY <1>4, <2>1, <2>2
<1>6. CASE k = Len(q) + 1
  <2>1. r[k] = n + 1 /\ r[j] \in 1 .. n
    BY <1>1, <1>4, <1>6 DEF r
  <2> QED BY <2>1
<1>7. Len(r) = Len(q) + 1
  BY <1>1 DEF r
<1>8. k \in 1 .. Len(q) \/ k = Len(q) + 1
  BY <1>2, <1>7
<1> QED BY <1>5, <1>6, <1>8

LEMMA AscendingPush ==
    ASSUME NEW n \in Nat, NEW q \in Seq(1 .. n), Ascending(q)
    PROVE  Ascending(PushLookback(q, n + 1))
<1>1. CASE Len(q) < LookbackFrames
  BY <1>1, AscendingAppend DEF PushLookback
<1>2. CASE ~(Len(q) < LookbackFrames)
  <2>1. Len(q) \in Nat /\ q # <<>>
    BY <1>2, LenProperties, Ceilings, EmptySeq
  <2>2. /\ Tail(q) \in Seq(1 .. n)
        /\ Len(Tail(q)) = Len(q) - 1
        /\ \A i \in 1 .. Len(Tail(q)) : Tail(q)[i] = q[i + 1]
    BY <2>1, HeadTailProperties
  <2>3. Ascending(Tail(q))
    BY <2>1, <2>2 DEF Ascending
  <2> QED BY <1>2, <2>2, <2>3, AscendingAppend DEF PushLookback
<1> QED BY <1>1, <1>2

\* No utterance and no buffer ever holds a frame twice or out of the order it
\* was heard in, however old the lookback in front of it is.
THEOREM OrderKept == Spec => []InOrder
<1>1. Init => InOrder
  BY DEF Init, InOrder, Ascending
<1>2. ASSUME TypeOK, InOrder, [Next]_vars PROVE InOrder'
  <2> DEFINE F == Frames \cup {Frame}
             Sorted == \A u \in 1 .. Len(utterances) :
                           Ascending(utterances[u].frames)
  <2>0. /\ Len(heard) \in Nat /\ Frame = Len(heard) + 1
        /\ lookback \in Seq(1 .. Len(heard))
        /\ pendingFrames \in Seq(1 .. Len(heard))
        /\ utteranceFrames \in Seq(1 .. Len(heard))
    BY <1>2, BufferTypes DEF TypeOK, Frames
  <2>1. /\ Ascending(Candidate) /\ Ascending(PendingExtended)
        /\ Ascending(UtteranceExtended) /\ Ascending(PushLookback(lookback, Frame))
    BY <1>2, <2>0, AscendingAppend, AscendingPush
       DEF InOrder, Candidate, PendingExtended, UtteranceExtended
  <2>2. Ascending(<<>>)
    BY DEF Ascending
  <2>3. ASSUME NEW q \in Seq(F), Ascending(q), NEW c \in Cause, Dispatch(q, c)
        PROVE  Sorted' /\ Ascending(utteranceFrames')
    <3>1. utterances \in Seq(UtteranceOver(F)) /\ Len(utterances) \in Nat
      BY <1>2, BufferTypes, LenProperties
    <3>2. /\ Len(utterances') = Len(utterances) + 1
          /\ \A u \in 1 .. Len(utterances) : utterances'[u] = utterances[u]
          /\ utterances'[Len(utterances')] = [frames |-> q, cause |-> c]
          /\ utteranceFrames' = <<>>
      BY <2>3, <3>1, DispatchType
    <3>3. [frames |-> q, cause |-> c].frames = q
      OBVIOUS
    <3>4. ASSUME NEW u \in 1 .. Len(utterances')
          PROVE  Ascending(utterances'[u].frames)
      <4>1. CASE u \in 1 .. Len(utterances)
        <5>1. Ascending(utterances[u].frames)
          BY <1>2, <4>1 DEF InOrder
        <5> QED BY <3>2, <4>1, <5>1
      <4>2. CASE u = Len(utterances')
        BY <2>3, <3>2, <3>3, <4>2
      <4> QED BY <3>1, <3>2, <4>1, <4>2
    <3> QED BY <2>2, <3>2, <3>4
  <2>4. ASSUME NEW speech \in BOOLEAN, ProcessFrames(speech) PROVE InOrder'
    <3>1. CASE Idles(speech)
      BY <1>2, <2>1, <3>1 DEF Idles, InOrder
    <3>2. CASE Opens(speech)
      BY <1>2, <2>1, <3>2 DEF Opens, InOrder
    <3>3. CASE Waits(speech)
      BY <1>2, <2>1, <3>3 DEF Waits, InOrder
    <3>4. CASE GivesUp(speech)
      BY <1>2, <2>2, <3>4 DEF GivesUp, InOrder
    <3>5. CASE Confirms(speech)
      BY <1>2, <2>1, <2>2, <3>5 DEF Confirms, InOrder
    <3>6. CASE Continues(speech)
      BY <1>2, <2>1, <3>6 DEF Continues, InOrder
    <3>7. ASSUME NEW cause \in {"silence", "ceiling"}, Closes(speech, cause)
          PROVE  InOrder'
      <4>1. Sorted' /\ Ascending(utteranceFrames')
        BY <1>2, <2>1, <2>3, <3>7, BufferTypes DEF Closes, Cause
      <4> QED BY <1>2, <3>7, <4>1 DEF Closes, InOrder
    <3> QED BY <2>4, <3>1, <3>2, <3>3, <3>4, <3>5, <3>6, <3>7, FrameCases
  <2>5. CASE Override
    <3>1. utteranceFrames \in Seq(F) /\ Ascending(utteranceFrames)
      BY <1>2, SeqMonotonic DEF TypeOK, InOrder
    <3>2. Sorted' /\ Ascending(utteranceFrames')
      BY <2>3, <2>5, <3>1 DEF Override, Cause
    <3> QED BY <1>2, <2>5, <3>2 DEF Override, InOrder
  <2>6. CASE Reset
    BY <1>2, <2>2, <2>6 DEF Reset, InOrder
  <2>7. CASE UNCHANGED vars
    BY <1>2, <2>7 DEF vars, InOrder
  <2> QED BY <1>2, <2>4, <2>5, <2>6, <2>7 DEF Next
<1> QED BY <1>1, <1>2, TypeCorrect, PTL DEF Spec

---------------------------------------------------------------------------
(* Stale lookback. *)

\* What q repeats of the utterances us is lookback: its first LookbackFrames
\* frames, none of them speech.
Fresh(q, us, hrd) ==
    \A u \in 1 .. Len(us) : \A k \in 1 .. Len(q) :
        q[k] \in FramesOf(us[u].frames) => k <= LookbackFrames /\ ~hrd[q[k]]

\* Why no spoken frame is transcribed twice: the lookback holds silence only,
\* and the two buffers it is copied into repeat nothing else.
LookbackSilent == \A k \in 1 .. Len(lookback) : ~heard[lookback[k]]
BuffersFresh ==
    /\ Fresh(pendingFrames, utterances, heard)
    /\ Fresh(utteranceFrames, utterances, heard)

\* The frame being heard is in no utterance yet.
LEMMA FrameIsNew ==
    ASSUME TypeOK, NEW u \in 1 .. Len(utterances)
    PROVE  /\ FramesOf(utterances[u].frames) \subseteq Frames
           /\ Frame \notin FramesOf(utterances[u].frames)
<1>1. utterances[u] \in UtteranceOver(Frames)
  BY ElementOfSeq DEF TypeOK, UtteranceOver
<1>2. utterances[u].frames \in Seq(Frames)
  BY <1>1 DEF UtteranceOver
<1>3. FramesOf(utterances[u].frames) \subseteq Frames
  BY <1>2, ElementOfSeq DEF FramesOf
<1>4. Frame \notin Frames
  BY BufferTypes DEF Frames
<1> QED BY <1>3, <1>4

\* A buffer stays fresh while frames are heard, and when it takes the new one.
LEMMA FreshGrows ==
    ASSUME TypeOK, NEW speech \in BOOLEAN, heard' = Append(heard, speech),
           NEW q \in Seq(Frames), Fresh(q, utterances, heard)
    PROVE  /\ Fresh(q, utterances, heard')
           /\ Fresh(Append(q, Frame), utterances, heard')
<1>1. \A f \in Frames : heard'[f] = heard[f]
  BY AppendProperties DEF TypeOK, Frames
<1>2. \A k \in 1 .. Len(q) : q[k] \in Frames
  BY ElementOfSeq
<1>3. Fresh(q, utterances, heard')
  <2> SUFFICES ASSUME NEW u \in 1 .. Len(utterances), NEW k \in 1 .. Len(q),
                      q[k] \in FramesOf(utterances[u].frames)
               PROVE  k <= LookbackFrames /\ ~heard'[q[k]]
    BY DEF Fresh
  <2>1. k <= LookbackFrames /\ ~heard[q[k]]
    BY DEF Fresh
  <2>2. heard'[q[k]] = heard[q[k]]
    BY <1>1, <1>2
  <2> QED BY <2>1, <2>2
<1>4. Fresh(Append(q, Frame), utterances, heard')
  <2> DEFINE r == Append(q, Frame)
  <2>1. /\ Len(r) = Len(q) + 1 /\ Len(q) \in Nat
        /\ \A k \in 1 .. Len(q) : r[k] = q[k]
        /\ r[Len(q) + 1] = Frame
    <3>1. q \in Seq(Frames \cup {Frame}) /\ Frame \in Frames \cup {Frame}
      BY SeqMonotonic
    <3> QED BY <3>1, AppendProperties, LenProperties
  <2> HIDE DEF r
  <2> SUFFICES ASSUME NEW u \in 1 .. Len(utterances), NEW k \in 1 .. Len(r),
                      r[k] \in FramesOf(utterances[u].frames)
               PROVE  k <= LookbackFrames /\ ~heard'[r[k]]
    BY DEF Fresh, r
  <2>2. CASE k \in 1 .. Len(q)
    <3>1. r[k] = q[k]
      BY <2>1, <2>2
    <3>2. k <= LookbackFrames /\ ~heard'[q[k]]
      BY <1>3, <2>2, <3>1 DEF Fresh
    <3> QED BY <3>1, <3>2
  <2>3. CASE k = Len(q) + 1
    <3>1. r[k] = Frame
      BY <2>1, <2>3
    <3>2. Frame \notin FramesOf(utterances[u].frames)
      BY FrameIsNew
    <3> QED BY <3>1, <3>2
  <2>4. k \in 1 .. Len(q) \/ k = Len(q) + 1
    BY <2>1
  <2> QED BY <2>2, <2>3, <2>4
<1> QED BY <1>3, <1>4

\* Dispatching a fresh buffer repeats no speech.
LEMMA DispatchNoRepeat ==
    ASSUME NEW F, utterances \in Seq(UtteranceOver(F)), NEW hrd,
           NEW q \in Seq(F), NEW c \in Cause, Dispatch(q, c),
           Fresh(q, utterances, hrd),
           \A w \in 1 .. Len(utterances) :
              \A u \in 1 .. Len(utterances) : u < w =>
                 \A k \in 1 .. Len(utterances[w].frames) :
                    utterances[w].frames[k] \in FramesOf(utterances[u].frames) =>
                       k <= LookbackFrames /\ ~hrd[utterances[w].frames[k]]
    PROVE  \A u, w \in 1 .. Len(utterances') : u < w =>
              \A k \in 1 .. Len(utterances'[w].frames) :
                 utterances'[w].frames[k] \in FramesOf(utterances'[u].frames) =>
                    k <= LookbackFrames /\ ~hrd[utterances'[w].frames[k]]
<1>1. /\ Len(utterances) \in Nat
      /\ Len(utterances') = Len(utterances) + 1
      /\ \A u \in 1 .. Len(utterances) : utterances'[u] = utterances[u]
      /\ utterances'[Len(utterances')] = [frames |-> q, cause |-> c]
  BY DispatchType, LenProperties
<1>2. SUFFICES ASSUME NEW u \in 1 .. Len(utterances'),
                      NEW w \in 1 .. Len(utterances'), u < w,
                      NEW k \in 1 .. Len(utterances'[w].frames),
                      utterances'[w].frames[k] \in FramesOf(utterances'[u].frames)
               PROVE  k <= LookbackFrames /\ ~hrd[utterances'[w].frames[k]]
  OBVIOUS
<1>3. u \in 1 .. Len(utterances) /\ utterances'[u] = utterances[u]
  BY <1>1, <1>2
<1>4. CASE w \in 1 .. Len(utterances)
  <2>1. utterances'[w] = utterances[w]
    BY <1>1, <1>4
  <2> QED BY <1>2, <1>3, <1>4, <2>1
<1>5. CASE w = Len(utterances')
  <2>1. utterances'[w].frames = q
    BY <1>1, <1>5
  <2> QED BY <1>2, <1>3, <2>1 DEF Fresh
<1>6. w \in 1 .. Len(utterances) \/ w = Len(utterances')
  BY <1>1
<1> QED BY <1>4, <1>5, <1>6

\* Spoken frames go out once because what precedes a candidate is silent.
LEMMA SilentLookback == Spec => [](SpeechNotRepeated /\ LookbackSilent)
<1>1. Init => SpeechNotRepeated /\ LookbackSilent /\ BuffersFresh
  BY DEF Init, SpeechNotRepeated, LookbackSilent, BuffersFresh, Fresh
<1>2. ASSUME TypeOK, OnlyOpenUtterances, MemoryCeiling,
             SpeechNotRepeated, LookbackSilent, BuffersFresh, [Next]_vars
      PROVE  SpeechNotRepeated' /\ LookbackSilent' /\ BuffersFresh'
  <2> DEFINE F == Frames \cup {Frame}
             NoRepeat(us, hrd) ==
                 \A u, w \in 1 .. Len(us) : u < w =>
                    \A k \in 1 .. Len(us[w].frames) :
                       us[w].frames[k] \in FramesOf(us[u].frames) =>
                          k <= LookbackFrames /\ ~hrd[us[w].frames[k]]
  <2>0. /\ lookback \in Seq(Frames) /\ pendingFrames \in Seq(Frames)
        /\ utteranceFrames \in Seq(Frames)
        /\ utterances \in Seq(UtteranceOver(F))
        /\ UtteranceExtended \in Seq(F) /\ utteranceFrames \in Seq(F)
    BY <1>2, BufferTypes, SeqMonotonic DEF TypeOK
  <2>1. NoRepeat(utterances, heard)
    BY <1>2 DEF SpeechNotRepeated
  <2>2. Talking => pendingFrames = <<>>
    BY <1>2 DEF OnlyOpenUtterances, Talking
  <2>3. \A us, hrd : Fresh(<<>>, us, hrd)
    BY DEF Fresh
  <2>4. ASSUME NEW speech \in BOOLEAN, ProcessFrames(speech)
        PROVE  SpeechNotRepeated' /\ LookbackSilent' /\ BuffersFresh'
    <3>0. heard' = Append(heard, speech)
      BY <2>4, FrameCases
    <3>1. /\ \A f \in Frames : heard'[f] = heard[f]
          /\ heard'[Frame] = speech
      BY <1>2, <3>0, AppendProperties, BufferTypes DEF TypeOK, Frames
    <3>2. \A k \in 1 .. Len(lookback) : lookback[k] \in Frames /\ ~heard'[lookback[k]]
      <4> SUFFICES ASSUME NEW k \in 1 .. Len(lookback)
                   PROVE  lookback[k] \in Frames /\ ~heard'[lookback[k]]
        OBVIOUS
      <4>1. lookback[k] \in Frames
        BY <2>0, ElementOfSeq
      <4>2. heard'[lookback[k]] = heard[lookback[k]]
        BY <3>1, <4>1
      <4> QED BY <1>2, <4>1, <4>2 DEF LookbackSilent
    <3>3. UNCHANGED lookback => LookbackSilent'
      BY <3>2 DEF LookbackSilent
    <3>4. NoRepeat(utterances, heard')
      <4> SUFFICES ASSUME NEW u \in 1 .. Len(utterances),
                          NEW w \in 1 .. Len(utterances), u < w,
                          NEW k \in 1 .. Len(utterances[w].frames),
                          utterances[w].frames[k]
                             \in FramesOf(utterances[u].frames)
                   PROVE  k <= LookbackFrames
                            /\ ~heard'[utterances[w].frames[k]]
        OBVIOUS
      <4>1. utterances[w].frames[k] \in Frames
        BY <1>2, FrameIsNew
      <4>2. heard'[utterances[w].frames[k]] = heard[utterances[w].frames[k]]
        BY <3>1, <4>1
      <4> QED BY <2>1, <4>2
    <3>5. UNCHANGED utterances => SpeechNotRepeated'
      BY <3>4 DEF SpeechNotRepeated
    <3>6. /\ Fresh(pendingFrames, utterances, heard')
          /\ Fresh(utteranceFrames, utterances, heard')
          /\ Fresh(PendingExtended, utterances, heard')
          /\ Fresh(UtteranceExtended, utterances, heard')
      BY <1>2, <2>0, <3>0, FreshGrows
         DEF BuffersFresh, PendingExtended, UtteranceExtended
    <3>7. Fresh(Candidate, utterances, heard')
      <4>1. Len(lookback) \in Nat /\ Len(lookback) <= LookbackFrames
        BY <1>2, <2>0, LenProperties DEF MemoryCeiling
      <4>2. \A k \in 1 .. Len(lookback) : k <= LookbackFrames
        BY <4>1, Ceilings
      <4>3. Fresh(lookback, utterances, heard)
        BY <1>2, <4>2 DEF LookbackSilent, Fresh
      <4> QED BY <1>2, <2>0, <3>0, <4>3, FreshGrows DEF Candidate
    <3>8. CASE Idles(speech)
      <4>1. LookbackSilent'
        <5>1. /\ lookback' = PushLookback(lookback, Frame) /\ ~speech
          BY <3>8 DEF Idles
        <5> DEFINE Silent(q) == \A k \in 1 .. Len(q) : ~heard'[q[k]]
        <5>2. ASSUME NEW q \in Seq(F), Silent(q) PROVE Silent(Append(q, Frame))
          <6>1. /\ Len(Append(q, Frame)) = Len(q) + 1 /\ Len(q) \in Nat
                /\ \A k \in 1 .. Len(q) : Append(q, Frame)[k] = q[k]
                /\ Append(q, Frame)[Len(q) + 1] = Frame
            BY AppendProperties, LenProperties
          <6> DEFINE r == Append(q, Frame)
          <6> HIDE DEF r
          <6> SUFFICES ASSUME NEW k \in 1 .. Len(r) PROVE ~heard'[r[k]]
            BY DEF r
          <6>2. CASE k \in 1 .. Len(q)
            <7>1. r[k] = q[k]
              BY <6>1, <6>2 DEF r
            <7> QED BY <5>2, <6>2, <7>1
          <6>3. CASE k = Len(q) + 1
            <7>1. r[k] = Frame
              BY <6>1, <6>3 DEF r
            <7>2. ~heard'[Frame]
              BY <3>1, <5>1
            <7> QED BY <7>1, <7>2
          <6>4. k \in 1 .. Len(q) \/ k = Len(q) + 1
            BY <6>1 DEF r
          <6> QED BY <6>2, <6>3, <6>4
        <5>3. Silent(lookback) /\ lookback \in Seq(F)
          BY <2>0, <3>2, SeqMonotonic
        <5>4. CASE Len(lookback) < LookbackFrames
          BY <5>1, <5>2, <5>3, <5>4 DEF PushLookback, LookbackSilent
        <5>5. CASE ~(Len(lookback) < LookbackFrames)
          <6>1. lookback # <<>>
            BY <5>5, Ceilings
          <6>2. /\ Tail(lookback) \in Seq(F)
                /\ Len(Tail(lookback)) = Len(lookback) - 1
                /\ \A i \in 1 .. Len(Tail(lookback)) :
                      Tail(lookback)[i] = lookback[i + 1]
            BY <5>3, <6>1, HeadTailProperties
          <6>3. Len(lookback) \in Nat
            BY <2>0, LenProperties
          <6>4. Silent(Tail(lookback))
            <7> SUFFICES ASSUME NEW i \in 1 .. Len(Tail(lookback))
                         PROVE  ~heard'[Tail(lookback)[i]]
              OBVIOUS
            <7>1. i + 1 \in 1 .. Len(lookback) /\ Tail(lookback)[i] = lookback[i + 1]
              BY <6>2, <6>3
            <7> QED BY <5>3, <7>1
          <6>5. Silent(Append(Tail(lookback), Frame))
            BY <5>2, <6>2, <6>4
          <6> QED BY <5>1, <5>5, <6>5 DEF PushLookback, LookbackSilent
        <5> QED BY <5>4, <5>5
      <4> QED BY <3>5, <3>6, <3>8, <4>1 DEF Idles, BuffersFresh
    <3>9. CASE Opens(speech)
      BY <3>3, <3>5, <3>6, <3>7, <3>9 DEF Opens, BuffersFresh
    <3>10. CASE Waits(speech)
      BY <3>3, <3>5, <3>6, <3>10 DEF Waits, BuffersFresh
    <3>11. CASE GivesUp(speech)
      BY <2>3, <3>3, <3>5, <3>6, <3>11 DEF GivesUp, BuffersFresh
    <3>12. CASE Confirms(speech)
      BY <2>3, <3>3, <3>5, <3>6, <3>12 DEF Confirms, BuffersFresh
    <3>13. CASE Continues(speech)
      BY <3>3, <3>5, <3>6, <3>13 DEF Continues, BuffersFresh
    <3>14. ASSUME NEW cause \in {"silence", "ceiling"}, Closes(speech, cause)
           PROVE  SpeechNotRepeated' /\ LookbackSilent' /\ BuffersFresh'
      <4>1. Dispatch(UtteranceExtended, cause) /\ cause \in Cause
        BY <3>14 DEF Closes, Cause
      <4>2. NoRepeat(utterances', heard')
        BY <2>0, <3>4, <3>6, <4>1, DispatchNoRepeat
      <4>3. utteranceFrames' = <<>> /\ pendingFrames' = <<>>
        BY <2>2, <3>14 DEF Closes, Dispatch, Drained
      <4> QED BY <2>3, <3>3, <3>14, <4>2, <4>3
             DEF Closes, SpeechNotRepeated, BuffersFresh
    <3> QED BY <2>4, <3>8, <3>9, <3>10, <3>11, <3>12, <3>13, <3>14, FrameCases
  <2>5. CASE Override
    <3>1. Dispatch(utteranceFrames, "override") /\ "override" \in Cause
      BY <2>5 DEF Override, Cause
    <3>2. NoRepeat(utterances', heard)
      BY <1>2, <2>0, <2>1, <3>1, DispatchNoRepeat DEF BuffersFresh
    <3>3. utteranceFrames' = <<>> /\ pendingFrames' = <<>>
      BY <1>2, <2>2, <2>5, <3>1
         DEF Override, Dispatch, Drained, OnlyOpenUtterances
    <3> QED BY <1>2, <2>3, <2>5, <3>2, <3>3
           DEF Override, SpeechNotRepeated, LookbackSilent, BuffersFresh
  <2>6. CASE Reset
    BY <1>2, <2>3, <2>6
       DEF Reset, SpeechNotRepeated, LookbackSilent, BuffersFresh
  <2>7. CASE UNCHANGED vars
    BY <1>2, <2>7 DEF vars, SpeechNotRepeated, LookbackSilent, BuffersFresh
  <2> QED BY <1>2, <2>4, <2>5, <2>6, <2>7 DEF Next
<1> QED BY <1>1, <1>2, TypeCorrect, OpenUtterancesOnly, MemoryBounded, PTL DEF Spec

\* A spoken frame is dispatched once: what two utterances share is lookback
\* that was scored silent, whatever the thresholds, boundaries and resets.
THEOREM SpeechSentOnce == Spec => []SpeechNotRepeated
BY SilentLookback, PTL

---------------------------------------------------------------------------
(* Gaps. *)

\* UnbrokenSpeech, of any sequence of frames and any hearing of them.
SilentTo(q, hrd, k) == k <= LookbackFrames /\ \A j \in 1 .. k : ~hrd[q[j]]
Joins(q, hrd) ==
    \A k \in 1 .. Len(q) - 1 : q[k + 1] = q[k] + 1 \/ SilentTo(q, hrd, k)
UpToDate(q, hrd) == q # <<>> => q[Len(q)] = Len(hrd)

\* Why utterances are gapless: an open buffer ends in the latest frame, and
\* what a manual boundary cut is still open: it goes on in the next buffer, or
\* nothing has been heard since.
LastFrameOf(u) == utterances[u].frames[Len(utterances[u].frames)]
StillOpen(u) ==
    utterances[u].cause = "override" /\ LastFrameOf(u) \notin forgotten =>
        \/ /\ LastFrameOf(u) = Len(heard) /\ u = Len(utterances)
           /\ utteranceFrames = <<>> /\ Talking
        \/ LastFrameOf(u) + 1 \in forgotten
        \/ /\ LastFrameOf(u) < Len(heard)
           /\ NextBuffer(u) # <<>> /\ NextBuffer(u)[1] = LastFrameOf(u) + 1
           /\ Unbroken(NextBuffer(u))
BuffersGapless ==
    /\ Joins(pendingFrames, heard) /\ UpToDate(pendingFrames, heard)
    /\ Joins(utteranceFrames, heard) /\ UpToDate(utteranceFrames, heard)
UtterancesJoin ==
    \A u \in 1 .. Len(utterances) :
        Joins(utterances[u].frames, heard) /\ StillOpen(u)

\* What had been heard stays heard, so a sequence that joins goes on to.
LEMMA JoinsStays ==
    ASSUME TypeOK, NEW q \in Seq(Frames), Joins(q, heard),
           NEW speech \in BOOLEAN, heard' = Append(heard, speech)
    PROVE  Joins(q, heard')
<1> SUFFICES ASSUME NEW k \in 1 .. Len(q) - 1,
                    SilentTo(q, heard, k)
             PROVE  SilentTo(q, heard', k)
  BY DEF Joins
<1>1. Len(q) \in Nat
  BY LenProperties
<1>2. \A f \in Frames : heard'[f] = heard[f]
  BY AppendProperties DEF TypeOK, Frames
<1>3. \A j \in 1 .. k : q[j] \in Frames
  BY <1>1, ElementOfSeq
<1> QED BY <1>2, <1>3 DEF SilentTo

LEMMA JoinsAppend ==
    ASSUME TypeOK, NEW q \in Seq(Frames), Joins(q, heard),
           \/ UpToDate(q, heard)
           \/ Len(q) <= LookbackFrames /\ \A j \in 1 .. Len(q) : ~heard[q[j]],
           NEW speech \in BOOLEAN, heard' = Append(heard, speech)
    PROVE  /\ Joins(Append(q, Frame), heard')
           /\ UpToDate(Append(q, Frame), heard')
<1> DEFINE r == Append(q, Frame)
<1>1. /\ Len(r) = Len(q) + 1 /\ Len(q) \in Nat
      /\ \A k \in 1 .. Len(q) : r[k] = q[k]
      /\ r[Len(q) + 1] = Frame
  <2>1. q \in Seq(Frames \cup {Frame}) /\ Frame \in Frames \cup {Frame}
    BY SeqMonotonic
  <2> QED BY <2>1, AppendProperties, LenProperties
<1>2. Len(heard) \in Nat /\ Frame = Len(heard) + 1 /\ Len(heard') = Frame
  BY BufferTypes, HearingTypes
<1>3. \A j \in 1 .. Len(q) : q[j] \in Frames /\ heard'[q[j]] = heard[q[j]]
  <2>1. \A f \in Frames : heard'[f] = heard[f]
    BY AppendProperties DEF TypeOK, Frames
  <2> QED BY <2>1, ElementOfSeq
<1> HIDE DEF r
<1>4. UpToDate(r, heard')
  BY <1>1, <1>2 DEF UpToDate
<1>5. ASSUME NEW k \in 1 .. Len(q), SilentTo(q, heard, k)
      PROVE  SilentTo(r, heard', k)
  <2>1. \A j \in 1 .. k : j \in 1 .. Len(q)
    BY <1>1
  <2> QED BY <1>1, <1>3, <1>5, <2>1 DEF SilentTo
<1>6. ASSUME NEW k \in 1 .. Len(r) - 1
      PROVE  r[k + 1] = r[k] + 1 \/ SilentTo(r, heard', k)
  <2>1. k \in 1 .. Len(q) /\ r[k] = q[k]
    BY <1>1, <1>6
  <2>2. CASE k # Len(q)
    <3>1. k \in 1 .. Len(q) - 1 /\ k + 1 \in 1 .. Len(q)
      BY <1>1, <2>1, <2>2
    <3>2. r[k + 1] = q[k + 1]
      BY <1>1, <3>1
    <3>3. q[k + 1] = q[k] + 1 \/ SilentTo(q, heard, k)
      BY <3>1 DEF Joins
    <3> QED BY <1>5, <2>1, <3>2, <3>3
  <2>3. CASE k = Len(q) /\ UpToDate(q, heard)
    <3>1. q # <<>>
      BY <1>1, <2>1
    <3>2. q[k] = Len(heard)
      BY <2>3, <3>1 DEF UpToDate
    <3>3. r[k + 1] = Frame
      BY <1>1, <2>3
    <3> QED BY <1>2, <2>1, <3>2, <3>3
  <2>4. CASE k = Len(q) /\ ~UpToDate(q, heard)
    <3>1. SilentTo(q, heard, k)
      BY <2>4 DEF SilentTo
    <3> QED BY <1>5, <2>1, <3>1
  <2> QED BY <2>2, <2>3, <2>4
<1> QED BY <1>4, <1>6 DEF r, Joins

\* The open buffer takes the frame that follows its last, or is begun with it.
LEMMA UnbrokenAppend ==
    ASSUME TypeOK, Unbroken(utteranceFrames), UpToDate(utteranceFrames, heard)
    PROVE  /\ UtteranceExtended # <<>> /\ Unbroken(UtteranceExtended)
           /\ UtteranceExtended[1] =
                 IF utteranceFrames = <<>> THEN Frame ELSE utteranceFrames[1]
<1> DEFINE q == utteranceFrames
           r == UtteranceExtended
<1>1. /\ Len(r) = Len(q) + 1 /\ Len(q) \in Nat
      /\ \A k \in 1 .. Len(q) : r[k] = q[k]
      /\ r[Len(q) + 1] = Frame
      /\ q = <<>> <=> Len(q) = 0
  <2>1. /\ q \in Seq(Frames \cup {Frame}) /\ Frame \in Frames \cup {Frame}
        /\ q \in Seq(Frames)
    BY SeqMonotonic DEF TypeOK
  <2> QED BY <2>1, AppendProperties, LenProperties, EmptySeq
          DEF UtteranceExtended
<1>2. Len(heard) \in Nat /\ Frame = Len(heard) + 1
  BY BufferTypes, HearingTypes
<1>3. q # <<>> => q[Len(q)] = Len(heard)
  BY DEF UpToDate
<1>4. \A k \in 1 .. Len(q) - 1 : q[k + 1] = q[k] + 1
  BY DEF Unbroken
<1>5. r # <<>>
  BY <1>1
<1> HIDE DEF q, r
<1>6. ASSUME NEW k \in 1 .. Len(r) - 1 PROVE r[k + 1] = r[k] + 1
  <2>1. CASE k = Len(q)
    <3>1. q # <<>> /\ k \in 1 .. Len(q)
      BY <1>1, <2>1
    <3> QED BY <1>1, <1>2, <1>3, <2>1, <3>1
  <2>2. CASE k # Len(q)
    <3>1. k \in 1 .. Len(q) - 1 /\ k \in 1 .. Len(q) /\ k + 1 \in 1 .. Len(q)
      BY <1>1, <2>2
    <3> QED BY <1>1, <1>4, <3>1
  <2> QED BY <2>1, <2>2
<1>7. r[1] = IF q = <<>> THEN Frame ELSE q[1]
  BY <1>1
<1> QED BY <1>5, <1>6, <1>7 DEF q, r, Unbroken

LEMMA LastFrameHeard ==
    ASSUME TypeOK, OnlyOpenUtterances, NEW u \in 1 .. Len(utterances)
    PROVE  /\ utterances[u].frames \in Seq(Frames)
           /\ LastFrameOf(u) \in Frames
           /\ LastFrameOf(u) \in Nat /\ LastFrameOf(u) <= Len(heard)
BY LastFrame, BufferTypes DEF LastFrameOf, Frames

\* What the property says follows from what a cut utterance can be.
LEMMA JoinedIsGapless ==
    ASSUME TypeOK, OnlyOpenUtterances, UtterancesJoin
    PROVE  Gapless
<1>1. ASSUME NEW u \in 1 .. Len(utterances)
      PROVE  UnbrokenSpeech(utterances[u].frames) /\ GoesOn(u)
  <2>1. UnbrokenSpeech(utterances[u].frames)
    BY DEF UtterancesJoin, UnbrokenSpeech, Joins, SilentTo
  <2>2. ASSUME utterances[u].cause = "override", LastFrameOf(u) + 1 \in Frames,
               {LastFrameOf(u), LastFrameOf(u) + 1} \cap forgotten = {}
        PROVE  /\ NextBuffer(u) # <<>>
               /\ NextBuffer(u)[1] = LastFrameOf(u) + 1
               /\ Unbroken(NextBuffer(u))
    <3>1. LastFrameOf(u) # Len(heard)
      BY <2>2, BufferTypes DEF Frames
    <3> QED BY <2>2, <3>1 DEF UtterancesJoin, StillOpen
  <2>3. GoesOn(u)
    BY <2>2, Zenon DEF GoesOn, LastFrameOf
  <2> QED BY <2>1, <2>3
<1> QED BY <1>1 DEF Gapless

\* While no utterance is open the later ones keep what earlier ones go on in.
LEMMA StaysOpenOutside ==
    ASSUME TypeOK, OnlyOpenUtterances, UtterancesJoin, ~Talking,
           NEW speech \in BOOLEAN, heard' = Append(heard, speech),
           UNCHANGED <<utterances, forgotten>>, NEW u \in 1 .. Len(utterances)
    PROVE  StillOpen(u)'
<1>1. Len(heard) \in Nat /\ Len(heard') = Len(heard) + 1 /\ Len(utterances) \in Nat
  BY BufferTypes, HearingTypes, LenProperties
<1>2. utteranceFrames = <<>>
  BY DEF OnlyOpenUtterances
<1>3. StillOpen(u)
  BY DEF UtterancesJoin
<1>4. LastFrameOf(u)' = LastFrameOf(u) /\ LastFrameOf(u) \in Nat
  BY LastFrameHeard DEF LastFrameOf
<1>5. NextBuffer(u) # <<>> => NextBuffer(u)' = NextBuffer(u)
  BY <1>2 DEF NextBuffer
<1>6. Unbroken(NextBuffer(u)') <=> Unbroken(NextBuffer(u))'
  BY DEF Unbroken
<1> QED BY <1>1, <1>3, <1>4, <1>5, <1>6 DEF StillOpen

\* The open buffer takes a frame: a cut utterance it follows goes on in it.
LEMMA StaysOpenInside ==
    ASSUME TypeOK, OnlyOpenUtterances, UtterancesJoin, BuffersGapless,
           NEW speech \in BOOLEAN, heard' = Append(heard, speech),
           UNCHANGED forgotten, NEW u \in 1 .. Len(utterances),
           utterances'[u] = utterances[u],
           NextBuffer(u)' =
              IF u < Len(utterances) THEN NextBuffer(u) ELSE UtteranceExtended
    PROVE  StillOpen(u)'
<1>1. Len(heard) \in Nat /\ Len(heard') = Len(heard) + 1 /\ Len(utterances) \in Nat
  BY BufferTypes, HearingTypes, LenProperties
<1>2. StillOpen(u) /\ UpToDate(utteranceFrames, heard)
  BY DEF UtterancesJoin, BuffersGapless
<1>3. /\ LastFrameOf(u)' = LastFrameOf(u) /\ LastFrameOf(u) \in Nat
      /\ LastFrameOf(u) <= Len(heard)
  BY LastFrameHeard DEF LastFrameOf
<1>4. u = Len(utterances) => NextBuffer(u) = utteranceFrames
  BY <1>1 DEF NextBuffer
<1>5. /\ Frame = Len(heard) + 1
      /\ Unbroken(<<>>)
  BY BufferTypes DEF Unbroken
<1>6. Unbroken(NextBuffer(u)') => Unbroken(NextBuffer(u))'
  BY DEF Unbroken
<1>7. CASE u < Len(utterances)
  BY <1>1, <1>2, <1>3, <1>6, <1>7 DEF StillOpen
<1>8. CASE u = Len(utterances)
  <2>1. NextBuffer(u)' = UtteranceExtended
    BY <1>8
  <2>2. ASSUME utteranceFrames = <<>> \/ Unbroken(utteranceFrames)
        PROVE  /\ UtteranceExtended # <<>> /\ Unbroken(UtteranceExtended)
               /\ UtteranceExtended[1] =
                     IF utteranceFrames = <<>> THEN Frame ELSE utteranceFrames[1]
    BY <1>2, <1>5, <2>2, UnbrokenAppend
  <2> QED BY <1>1, <1>2, <1>3, <1>4, <1>5, <1>6, <1>8, <2>1, <2>2 DEF StillOpen
<1> QED BY <1>1, <1>7, <1>8

LEMMA BuffersUpToDate == Spec => [](Gapless /\ BuffersGapless)
<1>1. Init => BuffersGapless /\ UtterancesJoin
  BY DEF Init, BuffersGapless, UtterancesJoin, Joins, UpToDate
<1>2. ASSUME TypeOK, OnlyOpenUtterances, MemoryCeiling, LookbackSilent,
             BuffersGapless, UtterancesJoin, [Next]_vars
      PROVE  BuffersGapless' /\ UtterancesJoin'
  <2> DEFINE F == Frames \cup {Frame}
  <2>0. /\ lookback \in Seq(Frames) /\ pendingFrames \in Seq(Frames)
        /\ utteranceFrames \in Seq(Frames)
        /\ utterances \in Seq(UtteranceOver(F)) /\ Len(utterances) \in Nat
        /\ UtteranceExtended \in Seq(F) /\ utteranceFrames \in Seq(F)
    BY <1>2, BufferTypes, SeqMonotonic, LenProperties DEF TypeOK
  <2>1. \A u \in 1 .. Len(utterances) :
           Joins(utterances[u].frames, heard) /\ StillOpen(u)
    BY <1>2 DEF UtterancesJoin
  <2>3. /\ Talking => pendingFrames = <<>>
        /\ ~Talking => utteranceFrames = <<>>
        /\ vadState = "SILENCE" => pendingFrames = <<>>
    BY <1>2 DEF OnlyOpenUtterances, Talking
  <2>4. \A hrd : Joins(<<>>, hrd) /\ UpToDate(<<>>, hrd)
    BY DEF Joins, UpToDate
  <2>5. ASSUME NEW q \in Seq(F), NEW c \in Cause, Dispatch(q, c)
        PROVE  /\ Len(utterances') = Len(utterances) + 1
               /\ \A u \in 1 .. Len(utterances) :
                     /\ utterances'[u] = utterances[u]
                     /\ NextBuffer(u)' =
                           IF u < Len(utterances) THEN NextBuffer(u) ELSE q
               /\ utterances'[Len(utterances')] = [frames |-> q, cause |-> c]
               /\ utteranceFrames' = <<>>
    <3>1. /\ Len(utterances') = Len(utterances) + 1
          /\ \A u \in 1 .. Len(utterances) : utterances'[u] = utterances[u]
          /\ utterances'[Len(utterances')] = [frames |-> q, cause |-> c]
          /\ utteranceFrames' = <<>>
      BY <2>0, <2>5, DispatchType
    <3>2. ASSUME NEW u \in 1 .. Len(utterances)
          PROVE  NextBuffer(u)' =
                    IF u < Len(utterances) THEN NextBuffer(u) ELSE q
      <4>1. CASE u < Len(utterances)
        <5>1. u + 1 \in 1 .. Len(utterances)
          BY <2>0, <4>1
        <5>2. utterances'[u + 1] = utterances[u + 1] /\ u < Len(utterances')
          BY <2>0, <3>1, <5>1
        <5> QED BY <4>1, <5>2 DEF NextBuffer
      <4>2. CASE u = Len(utterances)
        BY <2>0, <3>1, <4>2 DEF NextBuffer
      <4> QED BY <2>0, <4>1, <4>2
    <3> QED BY <3>1, <3>2
  <2>6. ASSUME NEW speech \in BOOLEAN, ProcessFrames(speech)
        PROVE  BuffersGapless' /\ UtterancesJoin'
    <3>0. heard' = Append(heard, speech) /\ UNCHANGED forgotten
      BY <2>6, FrameCases DEF ProcessFrames
    <3>1. /\ Joins(PendingExtended, heard')
          /\ UpToDate(PendingExtended, heard')
          /\ Joins(UtteranceExtended, heard')
          /\ UpToDate(UtteranceExtended, heard')
      BY <1>2, <2>0, <3>0, JoinsAppend
         DEF BuffersGapless, PendingExtended, UtteranceExtended
    <3>2. Joins(Candidate, heard') /\ UpToDate(Candidate, heard')
      <4>1. Len(lookback) \in Nat /\ Len(lookback) <= LookbackFrames
        BY <1>2, <2>0, LenProperties DEF MemoryCeiling
      <4>2. \A k \in 1 .. Len(lookback) - 1 : SilentTo(lookback, heard, k)
        BY <1>2, <4>1, Ceilings DEF SilentTo, LookbackSilent
      <4>3. Joins(lookback, heard)
        BY <4>2 DEF Joins
      <4> QED BY <1>2, <2>0, <3>0, <4>1, <4>3, JoinsAppend
             DEF Candidate, LookbackSilent
    <3>3. \A u \in 1 .. Len(utterances) : Joins(utterances[u].frames, heard')
      <4> SUFFICES ASSUME NEW u \in 1 .. Len(utterances)
                   PROVE  Joins(utterances[u].frames, heard')
        OBVIOUS
      <4> QED BY <1>2, <2>1, <3>0, LastFrameHeard, JoinsStays
    <3>4. ASSUME ~Talking, UNCHANGED utterances PROVE UtterancesJoin'
      <4>1. \A u \in 1 .. Len(utterances) : StillOpen(u)'
        BY <1>2, <3>0, <3>4, StaysOpenOutside
      <4> QED BY <3>3, <3>4, <4>1 DEF UtterancesJoin
    <3>5. CASE Idles(speech)
      <4>1. pendingFrames' = <<>> /\ utteranceFrames' = <<>> /\ ~Talking
        BY <2>3, <3>5 DEF Idles, Talking
      <4> QED BY <2>4, <3>4, <3>5, <4>1 DEF Idles, BuffersGapless
    <3>6. CASE Opens(speech)
      <4>1. utteranceFrames' = <<>> /\ pendingFrames' = Candidate /\ ~Talking
        BY <2>3, <3>6 DEF Opens, Talking
      <4> QED BY <2>4, <3>2, <3>4, <3>6, <4>1 DEF Opens, BuffersGapless
    <3>7. CASE Waits(speech)
      <4>1. /\ utteranceFrames' = <<>> /\ pendingFrames' = PendingExtended
            /\ ~Talking
        BY <2>3, <3>7 DEF Waits, Talking
      <4> QED BY <2>4, <3>1, <3>4, <3>7, <4>1 DEF Waits, BuffersGapless
    <3>8. CASE GivesUp(speech)
      <4>1. utteranceFrames' = <<>> /\ pendingFrames' = <<>> /\ ~Talking
        BY <2>3, <3>8 DEF GivesUp, Talking
      <4> QED BY <2>4, <3>4, <3>8, <4>1 DEF GivesUp, BuffersGapless
    <3>9. CASE Confirms(speech)
      <4>1. ~Talking
        BY <3>9 DEF Confirms, Talking
      <4> QED BY <2>4, <3>1, <3>4, <3>9, <4>1 DEF Confirms, BuffersGapless
    <3>10. CASE Continues(speech)
      <4>1. utteranceFrames' = UtteranceExtended /\ pendingFrames' = <<>>
        BY <2>3, <3>10 DEF Continues
      <4>2. BuffersGapless'
        BY <2>4, <3>1, <4>1 DEF BuffersGapless
      <4>3. ASSUME NEW u \in 1 .. Len(utterances) PROVE StillOpen(u)'
        <5>1. utterances'[u] = utterances[u]
          BY <3>10 DEF Continues
        <5>2. NextBuffer(u)' =
                 IF u < Len(utterances) THEN NextBuffer(u) ELSE UtteranceExtended
          BY <3>10, <4>1 DEF Continues, NextBuffer
        <5> QED BY <1>2, <3>0, <5>1, <5>2, StaysOpenInside
      <4>4. UNCHANGED utterances
        BY <3>10 DEF Continues
      <4> QED BY <3>3, <4>2, <4>3, <4>4 DEF UtterancesJoin
    <3>11. ASSUME NEW cause \in {"silence", "ceiling"}, Closes(speech, cause)
           PROVE  BuffersGapless' /\ UtterancesJoin'
      <4>1. Dispatch(UtteranceExtended, cause) /\ cause \in Cause
        BY <3>11 DEF Closes, Cause
      <4>2. pendingFrames' = <<>> /\ utteranceFrames' = <<>>
        BY <2>0, <2>3, <2>5, <3>11, <4>1 DEF Closes
      <4>3. BuffersGapless'
        BY <2>4, <4>2 DEF BuffersGapless
      <4>4. ASSUME NEW u \in 1 .. Len(utterances')
            PROVE  Joins(utterances'[u].frames, heard') /\ StillOpen(u)'
        <5>1. CASE u \in 1 .. Len(utterances)
          <6>1. /\ utterances'[u] = utterances[u]
                /\ NextBuffer(u)' = IF u < Len(utterances) THEN NextBuffer(u)
                                    ELSE UtteranceExtended
            BY <2>0, <2>5, <4>1, <5>1
          <6>2. StillOpen(u)'
            BY <1>2, <3>0, <5>1, <6>1, StaysOpenInside
          <6> QED BY <3>3, <5>1, <6>1, <6>2
        <5>2. CASE u = Len(utterances')
          <6>1. utterances'[u] = [frames |-> UtteranceExtended, cause |-> cause]
            BY <2>0, <2>5, <4>1, <5>2
          <6>2. utterances'[u].cause # "override"
            BY <6>1
          <6> QED BY <3>1, <6>1, <6>2 DEF StillOpen
        <5>3. Len(utterances') = Len(utterances) + 1
          BY <2>0, <2>5, <4>1
        <5>4. u \in 1 .. Len(utterances) \/ u = Len(utterances')
          BY <2>0, <5>3
        <5> QED BY <5>1, <5>2, <5>4
      <4> QED BY <4>3, <4>4 DEF UtterancesJoin
    <3> QED BY <2>6, <3>5, <3>6, <3>7, <3>8, <3>9, <3>10, <3>11, FrameCases
  <2>7. CASE Override
    <3>1. /\ Dispatch(utteranceFrames, "override") /\ "override" \in Cause
          /\ utteranceFrames # <<>> /\ Talking /\ Talking'
          /\ UNCHANGED <<pendingFrames, heard, forgotten>>
      BY <1>2, <2>7 DEF Override, Cause, OnlyOpenUtterances, Talking
    <3>2. utteranceFrames' = <<>>
      BY <2>0, <2>5, <3>1
    <3>3. BuffersGapless'
      BY <1>2, <2>4, <3>1, <3>2 DEF BuffersGapless
    <3>4. ASSUME NEW u \in 1 .. Len(utterances')
          PROVE  Joins(utterances'[u].frames, heard) /\ StillOpen(u)'
      <4>1. CASE u \in 1 .. Len(utterances)
        <5>1. /\ utterances'[u] = utterances[u]
              /\ NextBuffer(u)' = IF u < Len(utterances) THEN NextBuffer(u)
                                  ELSE utteranceFrames
          BY <2>0, <2>5, <3>1, <4>1
        <5>2. NextBuffer(u)' = NextBuffer(u)
          BY <5>1 DEF NextBuffer
        <5>3. Unbroken(NextBuffer(u)') => Unbroken(NextBuffer(u))'
          BY DEF Unbroken
        <5>4. LastFrameOf(u)' = LastFrameOf(u)
          BY <5>1 DEF LastFrameOf
        <5> QED BY <2>1, <3>1, <4>1, <5>1, <5>2, <5>3, <5>4 DEF StillOpen
      <4>2. CASE u = Len(utterances')
        <5>1. utterances'[u] = [frames |-> utteranceFrames, cause |-> "override"]
          BY <2>0, <2>5, <3>1, <4>2
        <5>2. utteranceFrames[Len(utteranceFrames)] = Len(heard)
          BY <1>2, <3>1 DEF BuffersGapless, UpToDate
        <5>3. LastFrameOf(u)' = Len(heard)
          BY <5>1, <5>2 DEF LastFrameOf
        <5>4. StillOpen(u)'
          BY <3>1, <3>2, <4>2, <5>3 DEF StillOpen
        <5> QED BY <1>2, <5>1, <5>4 DEF BuffersGapless
      <4>3. Len(utterances') = Len(utterances) + 1
        BY <2>0, <2>5, <3>1
      <4>4. u \in 1 .. Len(utterances) \/ u = Len(utterances')
        BY <2>0, <4>3
      <4> QED BY <4>1, <4>2, <4>4
    <3> QED BY <3>1, <3>3, <3>4 DEF UtterancesJoin
  <2>8. CASE Reset
    <3>1. BuffersGapless'
      BY <2>4, <2>8 DEF Reset, BuffersGapless
    <3>2. /\ UNCHANGED <<heard, utterances>> /\ forgotten \subseteq forgotten'
          /\ FramesOf(utteranceFrames) \subseteq forgotten'
          /\ {Len(heard)} \ {0} \subseteq forgotten'
      BY <2>8 DEF Reset
    <3>3. ASSUME NEW u \in 1 .. Len(utterances) PROVE StillOpen(u)'
      <4>1. LastFrameOf(u)' = LastFrameOf(u) /\ LastFrameOf(u) \in Frames
        BY <1>2, <3>2, LastFrameHeard DEF LastFrameOf
      <4>2. LastFrameOf(u) = Len(heard) => LastFrameOf(u) \in forgotten'
        BY <3>2, <4>1 DEF Frames
      <4>3. CASE u < Len(utterances)
        <5>1. NextBuffer(u)' = NextBuffer(u)
          BY <3>2, <4>3 DEF NextBuffer
        <5>2. Unbroken(NextBuffer(u)') => Unbroken(NextBuffer(u))'
          BY DEF Unbroken
        <5> QED BY <2>1, <3>2, <4>1, <4>2, <5>1, <5>2 DEF StillOpen
      <4>4. CASE u = Len(utterances)
        <5>1. NextBuffer(u) = utteranceFrames
          BY <2>0, <4>4 DEF NextBuffer
        <5>2. utteranceFrames # <<>> => utteranceFrames[1] \in forgotten'
          <6>1. utteranceFrames # <<>> => 1 \in 1 .. Len(utteranceFrames)
            BY <2>0, LenProperties, EmptySeq
          <6> QED BY <3>2, <6>1 DEF FramesOf
        <5> QED BY <2>1, <3>2, <4>1, <4>2, <5>1, <5>2 DEF StillOpen
      <4> QED BY <2>0, <4>3, <4>4
    <3> QED BY <2>1, <3>1, <3>2, <3>3 DEF UtterancesJoin
  <2>9. CASE UNCHANGED vars
    <3>1. UNCHANGED <<utterances, heard, forgotten, utteranceFrames, vadState,
                      pendingFrames>>
      BY <2>9 DEF vars
    <3>2. BuffersGapless'
      BY <1>2, <3>1 DEF BuffersGapless
    <3> QED BY <1>2, <3>1, <3>2
           DEF UtterancesJoin, StillOpen, LastFrameOf, NextBuffer, Unbroken,
               Talking
  <2> QED BY <1>2, <2>6, <2>7, <2>8, <2>9 DEF Next
<1>3. TypeOK /\ OnlyOpenUtterances /\ UtterancesJoin => Gapless
  BY JoinedIsGapless
<1> QED BY <1>1, <1>2, <1>3, TypeCorrect, OpenUtterancesOnly, MemoryBounded,
           SilentLookback, PTL DEF Spec

\* No heard frame is lost in the middle of speech: an utterance skips frames
\* only in its lookback, and what a manual boundary cut goes on with the very
\* next frame, for all thresholds and however often the owner cuts or resets.
THEOREM UtterancesGapless == Spec => []Gapless
BY BuffersUpToDate, PTL

---------------------------------------------------------------------------
(* Debouncing. *)

\* The speech of q in the window of n frames past a.
SpokenIn(q, hrd, a, n) == {f \in FramesOf(q) : f \in a .. a + n /\ hrd[f]}
ConfirmedBy(q, hrd) ==
    \E a \in FramesOf(q) :
        Cardinality(SpokenIn(q, hrd, a, ConfirmingSpan)) >= EffSpeech
CutAfter(us, f) ==
    /\ us # <<>> /\ us[Len(us)].cause = "override"
    /\ f = us[Len(us)].frames[Len(us[Len(us)].frames)] + 1

\* Why an utterance is debounced: a candidate's speech frames are as many as
\* were counted and no wider apart than the tolerated dips put them; an open
\* buffer holds such a candidate or goes on where a manual boundary cut.
CandidateSpoken ==
    vadState = "SPEECH_STARTING" =>
        \E a \in FramesOf(pendingFrames) :
            /\ Len(heard) <= a + CandidateSpan(speechFrameCount) + dipFrameCount
            /\ Cardinality(SpokenIn(pendingFrames, heard, a, Len(heard) - a))
                  >= speechFrameCount
OpenDebounced ==
    Talking => IF utteranceFrames = <<>> THEN CutAfter(utterances, Frame)
               ELSE \/ ConfirmedBy(utteranceFrames, heard)
                    \/ CutAfter(utterances, utteranceFrames[1])

LEMMA FramesOfAppend ==
    ASSUME NEW S, NEW q \in Seq(S), NEW f \in S
    PROVE  FramesOf(Append(q, f)) = FramesOf(q) \cup {f}
<1>1. /\ Len(Append(q, f)) = Len(q) + 1 /\ Len(q) \in Nat
      /\ \A k \in 1 .. Len(q) : Append(q, f)[k] = q[k]
      /\ Append(q, f)[Len(q) + 1] = f
  BY AppendProperties, LenProperties
<1>2. 1 .. Len(q) + 1 = 1 .. Len(q) \cup {Len(q) + 1}
  BY <1>1
<1> QED BY <1>1, <1>2, Zenon DEF FramesOf

\* Every frame of a buffer has been heard, so its speech is finite, the same
\* once more is heard, and the same in every window that reaches the present.
LEMMA SpokenStays ==
    ASSUME TypeOK, NEW q \in Seq(Frames), NEW a \in Nat, NEW n \in Int
    PROVE  /\ FramesOf(q) \subseteq Frames
           /\ IsFiniteSet(SpokenIn(q, heard, a, n))
           /\ Cardinality(SpokenIn(q, heard, a, n)) \in Nat
           /\ \A speech \in BOOLEAN : heard' = Append(heard, speech) =>
                 SpokenIn(q, heard', a, n) = SpokenIn(q, heard, a, n)
           /\ a + n >= Len(heard) =>
                 SpokenIn(q, heard, a, n) = SpokenIn(q, heard, a, Len(heard) - a)
<1>1. FramesOf(q) \subseteq Frames
  BY ElementOfSeq DEF FramesOf
<1>2. Len(heard) \in Nat
  BY BufferTypes
<1>3. IsFiniteSet(SpokenIn(q, heard, a, n))
  <2>1. IsFiniteSet(Frames)
    BY <1>2, FS_Interval DEF Frames
  <2> QED BY <1>1, <2>1, FS_Subset DEF SpokenIn
<1>4. ASSUME NEW speech \in BOOLEAN, heard' = Append(heard, speech)
      PROVE  SpokenIn(q, heard', a, n) = SpokenIn(q, heard, a, n)
  <2>1. \A f \in FramesOf(q) : heard'[f] = heard[f]
    BY <1>1, <1>4, AppendProperties DEF TypeOK, Frames
  <2> QED BY <2>1, Zenon DEF SpokenIn
<1>5. ASSUME a + n >= Len(heard)
      PROVE  SpokenIn(q, heard, a, n) = SpokenIn(q, heard, a, Len(heard) - a)
  <2>1. \A f \in FramesOf(q) : f \in a .. a + n <=> f \in a .. a + (Len(heard) - a)
    BY <1>1, <1>2, <1>5 DEF Frames
  <2> QED BY <2>1 DEF SpokenIn
<1> QED BY <1>1, <1>3, <1>4, <1>5, FS_CardinalityType

\* Taking a frame loses no speech, and gains one if it is speech in the window.
LEMMA SpokenGrows ==
    ASSUME TypeOK, NEW speech \in BOOLEAN, heard' = Append(heard, speech),
           NEW q \in Seq(Frames), NEW a \in Nat, NEW n \in Int
    PROVE  LET before == Cardinality(SpokenIn(q, heard, a, n))
               after == Cardinality(SpokenIn(Append(q, Frame), heard', a, n))
           IN  /\ before \in Nat /\ after \in Nat /\ after >= before
               /\ speech /\ Frame \in a .. a + n => after = before + 1
<1> DEFINE S == SpokenIn(q, heard, a, n)
           T == SpokenIn(Append(q, Frame), heard', a, n)
<1>1. /\ IsFiniteSet(S) /\ Cardinality(S) \in Nat
      /\ SpokenIn(q, heard', a, n) = S /\ FramesOf(q) \subseteq Frames
  BY SpokenStays
<1>2. FramesOf(Append(q, Frame)) = FramesOf(q) \cup {Frame}
  <2>1. q \in Seq(Frames \cup {Frame})
    BY SeqMonotonic
  <2> QED BY <2>1, FramesOfAppend
<1>3. heard'[Frame] = speech /\ Frame \notin Frames
  BY AppendProperties, BufferTypes DEF TypeOK, Frames
<1>4. T = IF speech /\ Frame \in a .. a + n THEN S \cup {Frame} ELSE S
  BY <1>1, <1>2, <1>3 DEF SpokenIn
<1>5. Frame \notin S
  BY <1>1, <1>3 DEF SpokenIn
<1> HIDE DEF S, T
<1>6. CASE speech /\ Frame \in a .. a + n
  <2>1. Cardinality(T) = Cardinality(S) + 1
    BY <1>1, <1>4, <1>5, <1>6, FS_AddElement
  <2> QED BY <1>1, <2>1 DEF S, T
<1>7. CASE ~(speech /\ Frame \in a .. a + n)
  BY <1>1, <1>4, <1>7 DEF S, T
<1> QED BY <1>6, <1>7

LEMMA ConfirmedStays ==
    ASSUME TypeOK, NEW speech \in BOOLEAN, heard' = Append(heard, speech),
           NEW q \in Seq(Frames), ConfirmedBy(q, heard)
    PROVE  ConfirmedBy(q, heard') /\ ConfirmedBy(Append(q, Frame), heard')
<1>1. PICK a \in FramesOf(q) :
        Cardinality(SpokenIn(q, heard, a, ConfirmingSpan)) >= EffSpeech
  BY DEF ConfirmedBy
<1>2. a \in Nat /\ a \in FramesOf(Append(q, Frame))
  <2>1. q \in Seq(Frames \cup {Frame})
    BY SeqMonotonic
  <2>2. a \in Frames
    BY <1>1, ElementOfSeq DEF FramesOf
  <2> QED BY <2>1, <2>2, FramesOfAppend DEF Frames
<1>3. ConfirmingSpan \in Int /\ EffSpeech \in Nat
  BY EffSpeechType, VADAssumption DEF ConfirmingSpan, VADAssumption
<1>4. SpokenIn(q, heard', a, ConfirmingSpan) = SpokenIn(q, heard, a, ConfirmingSpan)
  BY <1>2, <1>3, SpokenStays
<1>5. Cardinality(SpokenIn(Append(q, Frame), heard', a, ConfirmingSpan)) >= EffSpeech
  <2> DEFINE before == Cardinality(SpokenIn(q, heard, a, ConfirmingSpan))
             after == Cardinality(SpokenIn(Append(q, Frame), heard', a,
                                           ConfirmingSpan))
  <2>1. before \in Nat /\ after \in Nat /\ after >= before
    BY <1>2, <1>3, SpokenGrows
  <2>2. before >= EffSpeech
    BY <1>1
  <2> HIDE DEF before, after
  <2>3. after >= EffSpeech
    BY <1>3, <2>1, <2>2
  <2> QED BY <2>3 DEF after
<1> QED BY <1>1, <1>2, <1>4, <1>5 DEF ConfirmedBy

DebouncedIn(us, hrd) ==
    \A u \in 1 .. Len(us) :
        \/ /\ u > 1 /\ us[u - 1].cause = "override"
           /\ us[u].frames[1] = us[u - 1].frames[Len(us[u - 1].frames)] + 1
        \/ ConfirmedBy(us[u].frames, hrd)

LEMMA DispatchDebounced ==
    ASSUME NEW F, utterances \in Seq(UtteranceOver(F)), NEW hrd,
           NEW q \in Seq(F), NEW c \in Cause, Dispatch(q, c),
           DebouncedIn(utterances, hrd),
           ConfirmedBy(q, hrd) \/ CutAfter(utterances, q[1])
    PROVE  DebouncedIn(utterances', hrd)
<1>1. /\ Len(utterances) \in Nat
      /\ Len(utterances') = Len(utterances) + 1
      /\ \A u \in 1 .. Len(utterances) : utterances'[u] = utterances[u]
      /\ utterances'[Len(utterances')] = [frames |-> q, cause |-> c]
  BY DispatchType, LenProperties
<1> SUFFICES ASSUME NEW u \in 1 .. Len(utterances')
             PROVE  \/ /\ u > 1 /\ utterances'[u - 1].cause = "override"
                       /\ utterances'[u].frames[1] = utterances'[u - 1].frames
                              [Len(utterances'[u - 1].frames)] + 1
                    \/ ConfirmedBy(utterances'[u].frames, hrd)
  BY DEF DebouncedIn
<1>2. u > 1 => u - 1 \in 1 .. Len(utterances)
  BY <1>1
<1>3. u > 1 => utterances'[u - 1] = utterances[u - 1]
  BY <1>1, <1>2
<1>4. CASE u \in 1 .. Len(utterances)
  <2>1. utterances'[u] = utterances[u]
    BY <1>1, <1>4
  <2> QED BY <1>3, <1>4, <2>1 DEF DebouncedIn
<1>5. CASE u = Len(utterances')
  <2>1. utterances'[u].frames = q
    BY <1>1, <1>5
  <2>2. ASSUME CutAfter(utterances, q[1])
        PROVE  /\ u > 1 /\ utterances[u - 1].cause = "override"
               /\ q[1] = utterances[u - 1].frames[Len(utterances[u - 1].frames)] + 1
    <3>1. u - 1 = Len(utterances) /\ Len(utterances) > 0
      BY <1>1, <1>5, <2>2, EmptySeq DEF CutAfter
    <3>2. u > 1
      BY <1>1, <1>5, <3>1
    <3> QED BY <2>2, <3>1, <3>2 DEF CutAfter
  <2> QED BY <1>3, <2>1, <2>2
<1>6. u \in 1 .. Len(utterances) \/ u = Len(utterances')
  BY <1>1
<1> QED BY <1>4, <1>5, <1>6

\* A candidate keeps its speech together as it grows, and has enough of it when
\* it is confirmed.
LEMMA CandidateKeepsSpeech ==
    ASSUME TypeOK, CandidateBounded, CandidateSpoken,
           vadState = "SPEECH_STARTING", NEW speech \in BOOLEAN,
           heard' = Append(heard, speech)
    PROVE  \E a \in FramesOf(PendingExtended) :
              LET spoken == Cardinality(
                      SpokenIn(PendingExtended, heard', a, Len(heard') - a))
              IN  /\ ~speech =>
                        /\ Len(heard') <= a + CandidateSpan(speechFrameCount)
                                            + dipFrameCount + 1
                        /\ spoken >= speechFrameCount
                  /\ speech =>
                        /\ Len(heard') <= a + CandidateSpan(speechFrameCount + 1)
                        /\ spoken >= speechFrameCount + 1
                        /\ SpeechConfirmed(speechFrameCount + 1) =>
                              ConfirmedBy(PendingExtended, heard')
<1>1. /\ speechFrameCount \in 1 .. EffSpeech - 1
      /\ dipFrameCount \in 0 .. MaxDipFrames
      /\ speechFrameCount \in Nat \ {0} /\ speechFrameCount + 1 \in Nat \ {0}
      /\ EffSpeech \in Nat /\ MaxDipFrames \in Nat
  BY EffSpeechType, Ceilings DEF CandidateBounded, CandidateFits
<1>2. PICK a \in FramesOf(pendingFrames) :
        /\ Len(heard) <= a + CandidateSpan(speechFrameCount) + dipFrameCount
        /\ Cardinality(SpokenIn(pendingFrames, heard, a, Len(heard) - a))
              >= speechFrameCount
  BY DEF CandidateSpoken
<1>3. /\ pendingFrames \in Seq(Frames) /\ pendingFrames \in Seq(Frames \cup {Frame})
      /\ Len(heard) \in Nat /\ Frame = Len(heard) + 1 /\ Len(heard') = Frame
  BY BufferTypes, HearingTypes, SeqMonotonic DEF TypeOK
<1>4. a \in Nat /\ 1 <= a /\ a <= Len(heard)
  <2>1. a \in Frames
    BY <1>3, ElementOfSeq DEF FramesOf
  <2> QED BY <1>3, <2>1 DEF Frames
<1>5. a \in FramesOf(PendingExtended)
  BY <1>3, FramesOfAppend DEF PendingExtended
<1> DEFINE n == Len(heard) - a + 1
           before == Cardinality(SpokenIn(pendingFrames, heard, a, n))
           after == Cardinality(SpokenIn(PendingExtended, heard', a, n))
<1>6. n = Len(heard') - a /\ n \in Int /\ Frame \in a .. a + n
      /\ a + n >= Len(heard)
  BY <1>3, <1>4
<1>7. /\ before \in Nat /\ after \in Nat /\ after >= before
      /\ speech => after = before + 1
  BY <1>3, <1>4, <1>6, SpokenGrows DEF PendingExtended
<1>8. before >= speechFrameCount
  BY <1>2, <1>3, <1>4, <1>6, SpokenStays
<1>9. CandidateSpan(speechFrameCount) \in Nat
      /\ CandidateSpan(speechFrameCount + 1)
           = CandidateSpan(speechFrameCount) + MaxDipFrames + 1
      /\ CandidateSpan(speechFrameCount + 1) <= CandidateSpan(EffSpeech)
      /\ ConfirmingSpan = CandidateSpan(EffSpeech)
      /\ CandidateSpan(EffSpeech) \in Nat
  <2>1. speechFrameCount + 1 <= EffSpeech
    BY <1>1
  <2>2. EffSpeech \in Nat \ {0}
    BY <1>1, EffSpeechType
  <2> QED BY <1>1, <2>1, <2>2, CandidateSpans DEF ConfirmingSpan, CandidateSpan
<1> HIDE DEF n, before, after
<1>10. Len(heard') <= a + CandidateSpan(speechFrameCount) + dipFrameCount + 1
  <2>1. Len(heard) <= a + CandidateSpan(speechFrameCount) + dipFrameCount
        /\ Len(heard') = Len(heard) + 1 /\ Len(heard) \in Nat
    BY <1>2, <1>3
  <2>2. a \in Nat /\ CandidateSpan(speechFrameCount) \in Nat /\ dipFrameCount \in Nat
    BY <1>1, <1>4, <1>9
  <2> QED BY ONLY <2>1, <2>2
<1>11. Len(heard') <= a + CandidateSpan(speechFrameCount + 1)
  <2>1. CandidateSpan(speechFrameCount + 1)
            = CandidateSpan(speechFrameCount) + MaxDipFrames + 1
    BY <1>9
  <2>2. /\ a \in Nat /\ CandidateSpan(speechFrameCount) \in Nat
        /\ dipFrameCount \in 0 .. MaxDipFrames /\ MaxDipFrames \in Nat
        /\ Len(heard') \in Nat
    BY <1>1, <1>3, <1>4, <1>9
  <2> QED BY ONLY <1>10, <2>1, <2>2
<1>12. ASSUME ~speech
       PROVE  /\ Len(heard') <= a + CandidateSpan(speechFrameCount)
                                   + dipFrameCount + 1
              /\ after >= speechFrameCount
  <2>1. after >= speechFrameCount
    BY ONLY <1>1, <1>7, <1>8
  <2> QED BY ONLY <2>1, <1>10
<1>13. ASSUME speech
       PROVE  /\ Len(heard') <= a + CandidateSpan(speechFrameCount + 1)
              /\ after >= speechFrameCount + 1
  <2>1. after >= speechFrameCount + 1
    BY ONLY <1>1, <1>7, <1>8, <1>13
  <2> QED BY ONLY <2>1, <1>11
<1>14. ASSUME speech, SpeechConfirmed(speechFrameCount + 1)
       PROVE  ConfirmedBy(PendingExtended, heard')
  <2>1. speechFrameCount + 1 >= EffSpeech
    BY <1>1, <1>14, VADAssumption
       DEF SpeechConfirmed, EffSpeech, AtLeastTwo, VADAssumption
  <2>2. Len(heard') <= a + ConfirmingSpan
    <3>1. Len(heard') <= a + CandidateSpan(speechFrameCount + 1)
      BY <1>13, <1>14
    <3>2. /\ CandidateSpan(speechFrameCount + 1) \in Int
          /\ ConfirmingSpan \in Int /\ Len(heard') \in Int
          /\ CandidateSpan(speechFrameCount + 1) <= ConfirmingSpan
      BY <1>1, <1>3, <1>9
    <3> QED BY <1>4, <3>1, <3>2
  <2>3. /\ SpokenIn(pendingFrames, heard, a, ConfirmingSpan)
             = SpokenIn(pendingFrames, heard, a, Len(heard) - a)
        /\ SpokenIn(pendingFrames, heard, a, n)
             = SpokenIn(pendingFrames, heard, a, Len(heard) - a)
    <3>1. a + ConfirmingSpan >= Len(heard) /\ ConfirmingSpan \in Int
      BY <1>3, <1>4, <1>9, <2>2
    <3> QED BY <1>3, <1>4, <1>6, <3>1, SpokenStays
  <2>4. Frame \in a .. a + ConfirmingSpan /\ ConfirmingSpan \in Int
    BY <1>3, <1>4, <1>9, <2>2
  <2> DEFINE whole == Cardinality(SpokenIn(PendingExtended, heard', a,
                                           ConfirmingSpan))
  <2>5. whole = before + 1
    <3>1. whole = Cardinality(SpokenIn(pendingFrames, heard, a, ConfirmingSpan)) + 1
      BY <1>3, <1>4, <1>14, <2>4, SpokenGrows DEF PendingExtended
    <3>2. SpokenIn(pendingFrames, heard, a, ConfirmingSpan)
            = SpokenIn(pendingFrames, heard, a, n)
      BY <2>3
    <3> QED BY <3>1, <3>2 DEF before
  <2> HIDE DEF whole
  <2>6. whole >= EffSpeech
    BY <1>1, <1>7, <1>8, <2>1, <2>5
  <2> QED BY <1>5, <2>6 DEF ConfirmedBy, whole
<1> QED BY <1>5, <1>6, <1>12, <1>13, <1>14 DEF after

\* Every utterance carries the speech that confirmed it, or goes on where a
\* manual boundary cut the one before: no cough shorter than the threshold is
\* ever transcribed, for all thresholds, tolerances and boundaries.
THEOREM NoCoughs == Spec => []Debounced
<1> DEFINE Inv == DebouncedIn(utterances, heard) /\ CandidateSpoken /\ OpenDebounced
<1>1. Init => Inv
  BY DEF Init, DebouncedIn, CandidateSpoken, OpenDebounced, Talking
<1>2. ASSUME TypeOK, OnlyOpenUtterances, CandidateBounded, BuffersGapless,
             Inv, [Next]_vars
      PROVE  Inv'
  <2> DEFINE F == Frames \cup {Frame}
  <2>0. /\ pendingFrames \in Seq(Frames) /\ utteranceFrames \in Seq(Frames)
        /\ utterances \in Seq(UtteranceOver(F)) /\ Len(utterances) \in Nat
        /\ UtteranceExtended \in Seq(F) /\ utteranceFrames \in Seq(F)
        /\ Len(heard) \in Nat /\ Frame = Len(heard) + 1
    BY <1>2, BufferTypes, SeqMonotonic, LenProperties DEF TypeOK
  <2>1. ASSUME NEW speech \in BOOLEAN, ProcessFrames(speech)
        PROVE  Inv'
    <3>0. heard' = Append(heard, speech) /\ Len(heard') = Frame
      BY <1>2, <2>1, FrameCases, HearingTypes
    <3>1. DebouncedIn(utterances, heard')
      <4>1. ASSUME NEW u \in 1 .. Len(utterances),
                   ConfirmedBy(utterances[u].frames, heard)
            PROVE  ConfirmedBy(utterances[u].frames, heard')
        <5>1. utterances[u].frames \in Seq(Frames)
          BY <1>2, LastFrame
        <5> QED BY <1>2, <3>0, <4>1, <5>1, ConfirmedStays
      <4> QED BY <1>2, <4>1 DEF DebouncedIn
    <3>2. ASSUME Talking
          PROVE  \/ ConfirmedBy(UtteranceExtended, heard')
                 \/ CutAfter(utterances, UtteranceExtended[1])
      <4>1. CASE utteranceFrames = <<>>
        <5>1. UtteranceExtended[1] = Frame
          BY <4>1 DEF UtteranceExtended
        <5> QED BY <1>2, <3>2, <4>1, <5>1 DEF OpenDebounced
      <4>2. CASE ConfirmedBy(utteranceFrames, heard)
        BY <1>2, <2>0, <3>0, <4>2, ConfirmedStays DEF UtteranceExtended
      <4>3. CASE utteranceFrames # <<>> /\ CutAfter(utterances, utteranceFrames[1])
        <5>1. Len(utteranceFrames) >= 1 /\ Len(utteranceFrames) \in Nat
          BY <2>0, <4>3, LenProperties, EmptySeq
        <5>2. UtteranceExtended[1] = utteranceFrames[1]
          BY <2>0, <5>1, AppendProperties DEF UtteranceExtended
        <5> QED BY <4>3, <5>2
      <4> QED BY <1>2, <3>2, <4>1, <4>2, <4>3 DEF OpenDebounced
    <3>3. CASE Idles(speech) \/ GivesUp(speech)
      BY <3>1, <3>3
         DEF Idles, GivesUp, CandidateSpoken, OpenDebounced, Talking
    <3>4. CASE Opens(speech)
      <4>1. Candidate \in Seq(F) /\ lookback \in Seq(F) /\ Frame \in F
        BY <1>2, BufferTypes, SeqMonotonic DEF TypeOK
      <4>2. Frame \in FramesOf(Candidate)
        BY <4>1, FramesOfAppend DEF Candidate
      <4> DEFINE S == SpokenIn(Candidate, heard', Frame, Len(heard') - Frame)
      <4>3. S = {Frame}
        <5>1. heard'[Frame]
          BY <1>2, <2>0, <3>0, <3>4, AppendProperties DEF TypeOK, Opens
        <5>2. Frame .. Frame + (Len(heard') - Frame) = {Frame}
          BY <2>0, <3>0
        <5> QED BY <4>2, <5>1, <5>2 DEF SpokenIn
      <4>4. Cardinality(S) >= 1
        <5>1. Cardinality({Frame}) = 1
          BY FS_Singleton
        <5> HIDE DEF S
        <5> QED BY <4>3, <5>1
      <4>5. Len(heard') <= Frame + CandidateSpan(1) + 0
        BY <2>0, <3>0, CandidateSpans
      <4>6. /\ pendingFrames' = Candidate /\ speechFrameCount' = 1
            /\ dipFrameCount' = 0 /\ vadState' = "SPEECH_STARTING"
            /\ UNCHANGED utterances
        BY <3>4 DEF Opens
      <4>7. CandidateSpoken'
        BY <4>2, <4>4, <4>5, <4>6 DEF CandidateSpoken
      <4> QED BY <3>1, <4>6, <4>7 DEF OpenDebounced, Talking
    <3>5. CASE Waits(speech)
      <4>1. /\ vadState = "SPEECH_STARTING" /\ vadState' = "SPEECH_STARTING"
            /\ pendingFrames' = PendingExtended /\ UNCHANGED utterances
            /\ \/ /\ ~speech /\ dipFrameCount' = dipFrameCount + 1
                  /\ speechFrameCount' = speechFrameCount
               \/ /\ speech /\ dipFrameCount' = 0
                  /\ speechFrameCount' = speechFrameCount + 1
        BY <3>5 DEF Waits
      <4>2. PICK a \in FramesOf(PendingExtended) :
              LET spoken == Cardinality(
                      SpokenIn(PendingExtended, heard', a, Len(heard') - a))
              IN  /\ ~speech =>
                        /\ Len(heard') <= a + CandidateSpan(speechFrameCount)
                                            + dipFrameCount + 1
                        /\ spoken >= speechFrameCount
                  /\ speech =>
                        /\ Len(heard') <= a + CandidateSpan(speechFrameCount + 1)
                        /\ spoken >= speechFrameCount + 1
        BY <1>2, <3>0, <4>1, CandidateKeepsSpeech
      <4>3. /\ Len(heard') <= a + CandidateSpan(speechFrameCount') + dipFrameCount'
            /\ Cardinality(SpokenIn(PendingExtended, heard', a, Len(heard') - a))
                  >= speechFrameCount'
        <5>1. CASE ~speech
          <6>1. /\ a \in Nat /\ dipFrameCount \in Nat
                /\ CandidateSpan(speechFrameCount) \in Nat
            <7>1. a \in F
              BY <1>2, BufferTypes, ElementOfSeq DEF FramesOf
            <7>2. speechFrameCount \in Nat \ {0}
              BY <1>2, <4>1, EffSpeechType DEF CandidateBounded, CandidateFits
            <7>3. a \in Nat
              BY <2>0, <7>1 DEF Frames
            <7> QED BY <1>2, <7>2, <7>3, CandidateSpans DEF TypeOK
          <6> QED BY <4>1, <4>2, <5>1, <6>1
        <5>2. CASE speech
          <6>1. /\ a \in Nat /\ CandidateSpan(speechFrameCount + 1) \in Nat
            <7>1. a \in F
              BY <1>2, BufferTypes, ElementOfSeq DEF FramesOf
            <7>2. speechFrameCount + 1 \in Nat \ {0}
              BY <1>2 DEF TypeOK
            <7>3. a \in Nat
              BY <2>0, <7>1 DEF Frames
            <7> QED BY <1>2, <7>2, <7>3, CandidateSpans DEF TypeOK
          <6> QED BY <4>1, <4>2, <5>2, <6>1
        <5> QED BY <5>1, <5>2
      <4>4. CandidateSpoken'
        BY <4>1, <4>3 DEF CandidateSpoken
      <4> QED BY <3>1, <4>1, <4>4 DEF OpenDebounced, Talking
    <3>6. CASE Confirms(speech)
      <4>1. /\ vadState = "SPEECH_STARTING" /\ vadState' = "SPEECH" /\ speech
            /\ utteranceFrames' = PendingExtended /\ UNCHANGED utterances
        BY <3>6 DEF Confirms
      <4>2. SpeechConfirmed(speechFrameCount + 1)
        BY <2>1, <4>1 DEF ProcessFrames, HandleSilence, HandleSpeechStarting,
                          HandleSpeech, HandleSpeechEnding, StartingSpeech
      <4>3. ConfirmedBy(PendingExtended, heard')
        BY <1>2, <3>0, <4>1, <4>2, CandidateKeepsSpeech
      <4>4. PendingExtended # <<>>
        BY <1>2, BufferTypes
      <4> QED BY <3>1, <4>1, <4>3, <4>4 DEF CandidateSpoken, OpenDebounced
    <3>7. CASE Continues(speech)
      <4>1. /\ Talking /\ Talking' /\ vadState' # "SPEECH_STARTING"
            /\ utteranceFrames' = UtteranceExtended /\ UNCHANGED utterances
        BY <3>7 DEF Continues, Talking
      <4>2. UtteranceExtended # <<>>
        BY <1>2, BufferTypes
      <4> QED BY <3>1, <3>2, <4>1, <4>2 DEF CandidateSpoken, OpenDebounced
    <3>8. ASSUME NEW cause \in {"silence", "ceiling"}, Closes(speech, cause)
          PROVE  Inv'
      <4>1. /\ Talking /\ vadState' = "SILENCE"
            /\ Dispatch(UtteranceExtended, cause) /\ cause \in Cause
        BY <3>8 DEF Closes, Cause
      <4>2. DebouncedIn(utterances', heard')
        BY <2>0, <3>1, <3>2, <4>1, DispatchDebounced
      <4> QED BY <4>1, <4>2 DEF CandidateSpoken, OpenDebounced, Talking
    <3> QED BY <2>1, <3>3, <3>4, <3>5, <3>6, <3>7, <3>8, FrameCases
  <2>2. CASE Override
    <3>1. /\ Dispatch(utteranceFrames, "override") /\ "override" \in Cause
          /\ utteranceFrames # <<>> /\ UNCHANGED <<vadState, heard>> /\ Talking
      BY <1>2, <2>2 DEF Override, Cause, OnlyOpenUtterances
    <3>2. \/ ConfirmedBy(utteranceFrames, heard)
          \/ CutAfter(utterances, utteranceFrames[1])
      BY <1>2, <3>1 DEF OpenDebounced
    <3>3. DebouncedIn(utterances', heard)
      BY <1>2, <2>0, <3>1, <3>2, DispatchDebounced
    <3>4. utteranceFrames' = <<>> /\ CutAfter(utterances', Frame')
      <4>1. /\ utteranceFrames' = <<>> /\ Len(utterances') = Len(utterances) + 1
            /\ utterances'[Len(utterances')]
                  = [frames |-> utteranceFrames, cause |-> "override"]
        BY <2>0, <3>1, DispatchType
      <4>2. utteranceFrames[Len(utteranceFrames)] = Len(heard)
        BY <1>2, <3>1 DEF BuffersGapless, UpToDate
      <4>3. Len(utterances') # 0 /\ utterances' # <<>>
        BY <2>0, <4>1
      <4> QED BY <3>1, <4>1, <4>2, <4>3 DEF CutAfter, Frame
    <3>5. vadState # "SPEECH_STARTING"
      BY <3>1 DEF Talking
    <3> QED BY <3>1, <3>3, <3>4, <3>5 DEF CandidateSpoken, OpenDebounced
  <2>3. CASE Reset
    BY <1>2, <2>3 DEF Reset, CandidateSpoken, OpenDebounced, Talking
  <2>4. CASE UNCHANGED vars
    BY <1>2, <2>4 DEF vars, counters, CandidateSpoken, OpenDebounced, Talking, Frame
  <2> QED BY <1>2, <2>1, <2>2, <2>3, <2>4 DEF Next
<1>3. Inv => Debounced
  BY DEF Debounced, Continued, DebouncedIn, ConfirmedBy, SpokenIn
<1> QED BY <1>1, <1>2, <1>3, TypeCorrect, OpenUtterancesOnly, CandidateAccounted,
           BuffersUpToDate, PTL DEF Spec

---------------------------------------------------------------------------
(* Capture. *)

\* Why no run of speech is missed: one that reaches the present, nothing of it
\* cut, is in the open utterance or counted in the candidate.
Lost == CutAt \cup forgotten
StreakKept ==
    \A a \in Frames :
        (\A f \in a .. Len(heard) : heard[f] /\ f \notin Lost) =>
            \/ Talking /\ a .. Len(heard) \subseteq Captured
            \/ /\ vadState = "SPEECH_STARTING"
               /\ a .. Len(heard) \subseteq FramesOf(pendingFrames)
               /\ Len(heard) - a + 1 <= speechFrameCount

\* What is captured or lost stays so, when utterances only grow and the open
\* buffer is kept, extended, dispatched or forgotten.
LEMMA DispatchCaptures ==
    ASSUME NEW F, utterances \in Seq(UtteranceOver(F)),
           NEW q \in Seq(F), q # <<>>, NEW c \in Cause, Dispatch(q, c),
           FramesOf(utteranceFrames) \subseteq FramesOf(q)
    PROVE  /\ Captured \subseteq Captured' /\ FramesOf(q) \subseteq Captured'
           /\ CutAt \subseteq CutAt'
           /\ c = "ceiling" => q[Len(q)] \in CutAt'
<1>1. /\ Len(utterances) \in Nat
      /\ Len(utterances') = Len(utterances) + 1
      /\ \A u \in 1 .. Len(utterances) : utterances'[u] = utterances[u]
      /\ utterances'[Len(utterances')] = [frames |-> q, cause |-> c]
  BY DispatchType, LenProperties
<1>2. /\ 1 .. Len(utterances) \subseteq 1 .. Len(utterances')
      /\ Len(utterances') \in 1 .. Len(utterances')
  BY <1>1
<1>3. utterances'[Len(utterances')].frames = q /\ utterances'[Len(utterances')].cause = c
  BY <1>1
<1>4. FramesOf(q) \subseteq Captured'
  BY <1>2, <1>3 DEF Captured
<1>5. Captured \subseteq Captured'
  BY <1>1, <1>2, <1>4 DEF Captured
<1>6. CutAt \subseteq CutAt'
  <2> SUFFICES ASSUME NEW u \in 1 .. Len(utterances), utterances[u].cause = "ceiling"
               PROVE  utterances[u].frames[Len(utterances[u].frames)] \in CutAt'
    BY DEF CutAt
  <2>1. u \in 1 .. Len(utterances') /\ utterances'[u] = utterances[u]
    BY <1>1, <1>2
  <2> QED BY <2>1 DEF CutAt
<1>7. c = "ceiling" => q[Len(q)] \in CutAt'
  BY <1>2, <1>3 DEF CutAt
<1> QED BY <1>4, <1>5, <1>6, <1>7

RunKept(a, n) ==
    LET run == a .. a + n - 1
    IN  (\A f \in run : heard[f]) =>
            run \subseteq Captured \/ run \cap Lost # {}

\* A run of EffSpeech speech frames is never missed: it is dispatched or in the
\* open utterance unless the ceiling or a reset cut it, whenever it begins.
THEOREM RunsAreCaptured == Spec => []SpeechCaptured
<1>1. Init => SpeechCaptured /\ StreakKept
  BY EffSpeechType DEF Init, SpeechCaptured, StreakKept, Frames
<1>2. ASSUME TypeOK, OnlyOpenUtterances, CandidateBounded,
             CandidateBounded', SpeechCaptured, StreakKept, [Next]_vars
      PROVE  SpeechCaptured' /\ StreakKept'
  <2> DEFINE F == Frames \cup {Frame}
  <2>0. /\ pendingFrames \in Seq(Frames) /\ utteranceFrames \in Seq(Frames)
        /\ pendingFrames \in Seq(F) /\ utteranceFrames \in Seq(F) /\ Frame \in F
        /\ utterances \in Seq(UtteranceOver(F)) /\ Len(utterances) \in Nat
        /\ UtteranceExtended \in Seq(F) /\ UtteranceExtended # <<>>
        /\ Len(heard) \in Nat /\ Frame = Len(heard) + 1
        /\ EffSpeech \in Nat /\ EffSpeech >= 2 /\ speechFrameCount \in Nat
    BY <1>2, BufferTypes, SeqMonotonic, LenProperties, EffSpeechType DEF TypeOK
  <2>1. /\ FramesOf(UtteranceExtended) = FramesOf(utteranceFrames) \cup {Frame}
        /\ FramesOf(PendingExtended) = FramesOf(pendingFrames) \cup {Frame}
        /\ FramesOf(<<>>) = {}
    <3>1. FramesOf(<<>>) = {}
      BY DEF FramesOf
    <3> QED BY <2>0, <3>1, FramesOfAppend DEF UtteranceExtended, PendingExtended
  <2>9. vadState' = "SPEECH_STARTING" =>
           speechFrameCount' \in Nat /\ speechFrameCount' < EffSpeech
    BY <1>2, <2>0 DEF CandidateBounded, CandidateFits
  <2>2. \A a \in 1 .. Len(heard) - EffSpeech + 1 : RunKept(a, EffSpeech)
    BY <1>2 DEF SpeechCaptured, RunKept, Lost
  <2>3. ASSUME NEW speech \in BOOLEAN, ProcessFrames(speech)
        PROVE  SpeechCaptured' /\ StreakKept'
    <3>0. /\ heard' = Append(heard, speech) /\ Len(heard') = Frame
          /\ heard'[Frame] = speech /\ \A f \in Frames : heard'[f] = heard[f]
          /\ forgotten' = forgotten
      BY <1>2, <2>3, FrameCases, HearingTypes, AppendProperties, BufferTypes
         DEF TypeOK, Frames, ProcessFrames
    <3>1. ASSUME Captured \subseteq Captured', CutAt \subseteq CutAt', StreakKept'
          PROVE  SpeechCaptured'
      <4> SUFFICES ASSUME NEW a \in 1 .. Len(heard') - EffSpeech + 1,
                          \A f \in a .. a + EffSpeech - 1 : heard'[f]
                   PROVE  \/ a .. a + EffSpeech - 1 \subseteq Captured'
                          \/ (a .. a + EffSpeech - 1) \cap Lost' # {}
        BY DEF SpeechCaptured, Lost
      <4>1. Lost \subseteq Lost'
        BY <3>0, <3>1 DEF Lost
      <4>2. CASE a + EffSpeech - 1 <= Len(heard)
        <5>1. a \in 1 .. Len(heard) - EffSpeech + 1
          BY <2>0, <3>0, <4>2
        <5>2. a .. a + EffSpeech - 1 \subseteq Frames
          BY <2>0, <4>2, <5>1 DEF Frames
        <5>3. \A f \in a .. a + EffSpeech - 1 : heard[f]
          BY <3>0, <5>2
        <5>4. RunKept(a, EffSpeech)
          BY <2>2, <5>1
        <5> QED BY <3>1, <4>1, <5>3, <5>4 DEF RunKept
      <4>3. CASE ~(a + EffSpeech - 1 <= Len(heard))
        <5>1. a + EffSpeech - 1 = Len(heard') /\ a \in Frames'
          <6>1. /\ a \in Int /\ 1 <= a /\ a <= Len(heard') - EffSpeech + 1
                /\ Len(heard') = Len(heard) + 1 /\ Len(heard) \in Nat
                /\ EffSpeech \in Nat /\ EffSpeech >= 2
            BY <2>0, <3>0
          <6>2. a + EffSpeech - 1 = Len(heard') /\ a <= Len(heard')
            BY <4>3, <6>1
          <6> QED BY <6>1, <6>2 DEF Frames
        <5>2. CASE \E f \in a .. Len(heard') : f \in Lost'
          BY <5>1, <5>2
        <5>3. CASE \A f \in a .. Len(heard') : f \notin Lost'
          <6>1. \/ a .. Len(heard') \subseteq Captured'
                \/ vadState' = "SPEECH_STARTING"
                   /\ Len(heard') - a + 1 <= speechFrameCount'
            BY <3>1, <5>1, <5>3 DEF StreakKept
          <6>2. Len(heard') - a + 1 = EffSpeech
            <7>1. Len(heard') \in Int /\ a \in Int /\ EffSpeech \in Int
              BY <2>0, <3>0
            <7> QED BY <5>1, <7>1
          <6>3. ~(vadState' = "SPEECH_STARTING"
                    /\ Len(heard') - a + 1 <= speechFrameCount')
            BY <2>0, <2>9, <6>2
          <6>4. a .. Len(heard') \subseteq Captured'
            BY <6>1, <6>3
          <6> QED BY <5>1, <6>4
        <5> QED BY <5>2, <5>3
      <4> QED BY <4>2, <4>3
    <3>2. ASSUME NEW a \in Frames', \A f \in a .. Len(heard') : heard'[f] /\ f \notin Lost',
                 CutAt \subseteq CutAt'
          PROVE  /\ speech /\ Frame \notin Lost'
                 /\ a .. Len(heard') = (a .. Len(heard)) \cup {Frame}
                 /\ a \in Frames \/ (a = Frame /\ a .. Len(heard) = {})
                 /\ \A f \in a .. Len(heard) : heard[f] /\ f \notin Lost
      <4>1. a \in Int /\ 1 <= a /\ a <= Frame /\ Len(heard') = Frame
            /\ Len(heard) \in Nat /\ Frame = Len(heard) + 1
        BY <2>0, <3>0, <3>2 DEF Frames
      <4>2. /\ a .. Len(heard') = (a .. Len(heard)) \cup {Frame}
            /\ a \in Frames \/ (a = Frame /\ a .. Len(heard) = {})
            /\ a .. Len(heard) \subseteq Frames
        BY <4>1 DEF Frames
      <4>3. Lost \subseteq Lost'
        BY <3>0, <3>2 DEF Lost
      <4>4. Frame \in a .. Len(heard')
        BY <4>2
      <4> HIDE DEF Lost
      <4>5. heard'[Frame] /\ Frame \notin Lost'
        BY <3>2, <4>4
      <4>6. ASSUME NEW f \in a .. Len(heard)
            PROVE  heard[f] /\ f \notin Lost
        <5>1. f \in a .. Len(heard') /\ f \in Frames
          BY <4>2
        <5>2. heard'[f] /\ f \notin Lost'
          BY <3>2, <5>1
        <5> QED BY <3>0, <4>3, <5>1, <5>2
      <4> QED BY <3>0, <4>2, <4>5, <4>6
    <3>4. ASSUME UNCHANGED <<utterances, utteranceFrames>>
          PROVE  Captured' = Captured /\ CutAt' = CutAt
      BY <3>4 DEF Captured, CutAt
    <3>5. CASE Idles(speech) \/ GivesUp(speech)
      <4>1. /\ ~speech /\ Captured' = Captured /\ CutAt' = CutAt
        BY <3>4, <3>5 DEF Idles, GivesUp
      <4>2. StreakKept'
        BY <3>2, <4>1 DEF StreakKept
      <4> QED BY <3>1, <4>1, <4>2
    <3>6. CASE Opens(speech)
      <4>1. /\ vadState = "SILENCE" /\ vadState' = "SPEECH_STARTING"
            /\ Captured' = Captured /\ CutAt' = CutAt
            /\ speechFrameCount' = 1 /\ pendingFrames' = Candidate
        BY <3>4, <3>6 DEF Opens
      <4>2. Frame \in FramesOf(Candidate)
        <5>1. lookback \in Seq(F)
          BY <1>2, SeqMonotonic DEF TypeOK
        <5> QED BY <2>0, <5>1, FramesOfAppend DEF Candidate
      <4>3. ASSUME NEW a \in Frames',
                   \A f \in a .. Len(heard') : heard'[f] /\ f \notin Lost'
            PROVE  /\ a .. Len(heard') \subseteq FramesOf(Candidate)
                   /\ Len(heard') - a + 1 <= 1
        <5>1. /\ a .. Len(heard') = (a .. Len(heard)) \cup {Frame}
              /\ a \in Frames \/ (a = Frame /\ a .. Len(heard) = {})
              /\ \A f \in a .. Len(heard) : heard[f] /\ f \notin Lost
          BY <3>2, <4>1, <4>3
        <5>2. a \notin Frames
          BY <1>2, <4>1, <5>1 DEF StreakKept, Talking
        <5>3. a = Frame /\ a .. Len(heard') = {Frame}
          BY <5>1, <5>2
        <5> QED BY <2>0, <3>0, <4>2, <5>3
      <4>4. StreakKept'
        BY <4>1, <4>3 DEF StreakKept
      <4> QED BY <3>1, <4>1, <4>4
    <3>7. CASE Waits(speech)
      <4>1. /\ vadState = "SPEECH_STARTING" /\ vadState' = "SPEECH_STARTING"
            /\ Captured' = Captured /\ CutAt' = CutAt
            /\ speech => speechFrameCount' = speechFrameCount + 1
            /\ pendingFrames' = PendingExtended
        BY <3>4, <3>7 DEF Waits
      <4>2. ASSUME NEW a \in Frames',
                   \A f \in a .. Len(heard') : heard'[f] /\ f \notin Lost'
            PROVE  /\ a .. Len(heard') \subseteq FramesOf(PendingExtended)
                   /\ Len(heard') - a + 1 <= speechFrameCount'
        <5>1. /\ speech
              /\ a .. Len(heard') = (a .. Len(heard)) \cup {Frame}
              /\ a \in Frames \/ (a = Frame /\ a .. Len(heard) = {})
              /\ \A f \in a .. Len(heard) : heard[f] /\ f \notin Lost
          BY <3>2, <4>1, <4>2
        <5>2. CASE a \in Frames
          <6>1. /\ a .. Len(heard) \subseteq FramesOf(pendingFrames)
                /\ Len(heard) - a + 1 <= speechFrameCount
            BY <1>2, <4>1, <5>1, <5>2 DEF StreakKept, Talking
          <6>2. a \in Int
            BY <2>0, <5>2 DEF Frames
          <6> QED BY <2>0, <2>1, <3>0, <4>1, <5>1, <6>1, <6>2
        <5>3. CASE a = Frame /\ a .. Len(heard) = {}
          BY <2>0, <2>1, <3>0, <4>1, <5>1, <5>3
        <5> QED BY <5>1, <5>2, <5>3
      <4>3. StreakKept'
        BY <4>1, <4>2 DEF StreakKept
      <4> QED BY <3>1, <4>1, <4>3
    <3>8. CASE Confirms(speech)
      <4>1. /\ vadState = "SPEECH_STARTING" /\ Talking'
            /\ utteranceFrames' = PendingExtended /\ utterances' = utterances
        BY <3>8 DEF Confirms, Talking
      <4>2. utteranceFrames = <<>>
        BY <1>2, <4>1 DEF OnlyOpenUtterances, Talking
      <4>3. /\ Captured' = Captured \cup FramesOf(PendingExtended)
            /\ CutAt' = CutAt
        BY <2>1, <4>1, <4>2 DEF Captured, CutAt
      <4>4. ASSUME NEW a \in Frames',
                   \A f \in a .. Len(heard') : heard'[f] /\ f \notin Lost'
            PROVE  a .. Len(heard') \subseteq Captured'
        <5>1. /\ a .. Len(heard') = (a .. Len(heard)) \cup {Frame}
              /\ a \in Frames \/ (a = Frame /\ a .. Len(heard) = {})
              /\ \A f \in a .. Len(heard) : heard[f] /\ f \notin Lost
          BY <3>2, <4>3, <4>4
        <5>2. a \in Frames => a .. Len(heard) \subseteq FramesOf(pendingFrames)
          BY <1>2, <4>1, <5>1 DEF StreakKept, Talking
        <5> QED BY <2>1, <4>3, <5>1, <5>2
      <4>5. StreakKept'
        BY <4>1, <4>4 DEF StreakKept
      <4> QED BY <3>1, <4>3, <4>5
    <3>9. CASE Continues(speech)
      <4>1. /\ Talking /\ Talking'
            /\ utteranceFrames' = UtteranceExtended /\ utterances' = utterances
        BY <3>9 DEF Continues, Talking
      <4>2. /\ Captured' = Captured \cup {Frame} /\ CutAt' = CutAt
        BY <2>1, <4>1 DEF Captured, CutAt
      <4>3. ASSUME NEW a \in Frames',
                   \A f \in a .. Len(heard') : heard'[f] /\ f \notin Lost'
            PROVE  a .. Len(heard') \subseteq Captured'
        <5>1. /\ a .. Len(heard') = (a .. Len(heard)) \cup {Frame}
              /\ a \in Frames \/ (a = Frame /\ a .. Len(heard) = {})
              /\ \A f \in a .. Len(heard) : heard[f] /\ f \notin Lost
          BY <3>2, <4>2, <4>3
        <5>2. a \in Frames => a .. Len(heard) \subseteq Captured
          BY <1>2, <4>1, <5>1 DEF StreakKept, Talking
        <5> QED BY <4>2, <5>1, <5>2
      <4>4. StreakKept'
        BY <4>1, <4>3 DEF StreakKept
      <4> QED BY <3>1, <4>2, <4>4
    <3>10. ASSUME NEW cause \in {"silence", "ceiling"}, Closes(speech, cause)
           PROVE  SpeechCaptured' /\ StreakKept'
      <4>1. /\ Dispatch(UtteranceExtended, cause) /\ cause \in Cause
            /\ cause = "ceiling" \/ ~speech
        BY <3>10 DEF Closes, Cause
      <4>2. /\ Captured \subseteq Captured' /\ CutAt \subseteq CutAt'
            /\ cause = "ceiling" =>
                  UtteranceExtended[Len(UtteranceExtended)] \in CutAt'
        BY <2>0, <2>1, <4>1, DispatchCaptures
      <4>3. UtteranceExtended[Len(UtteranceExtended)] = Frame
        BY <2>0, AppendProperties DEF UtteranceExtended
      <4>4. Frame \in Lost' \/ ~speech
        BY <4>1, <4>2, <4>3 DEF Lost
      <4>5. StreakKept'
        BY <3>2, <4>2, <4>4 DEF StreakKept
      <4> QED BY <3>1, <4>2, <4>5
    <3> QED BY <2>3, <3>5, <3>6, <3>7, <3>8, <3>9, <3>10, FrameCases
  <2>4. ASSUME UNCHANGED heard, Captured \subseteq Captured' \cup Lost',
               Lost \subseteq Lost'
        PROVE  SpeechCaptured'
    <3> SUFFICES ASSUME NEW a \in 1 .. Len(heard) - EffSpeech + 1,
                        \A f \in a .. a + EffSpeech - 1 : heard[f]
                 PROVE  \/ a .. a + EffSpeech - 1 \subseteq Captured'
                        \/ (a .. a + EffSpeech - 1) \cap Lost' # {}
      BY <2>4 DEF SpeechCaptured, Lost
    <3>1. \/ a .. a + EffSpeech - 1 \subseteq Captured
          \/ (a .. a + EffSpeech - 1) \cap Lost # {}
      BY <2>2 DEF RunKept
    <3> QED BY <2>4, <3>1
  <2>5. CASE Override
    <3>1. /\ Dispatch(utteranceFrames, "override") /\ "override" \in Cause
          /\ utteranceFrames # <<>> /\ Talking
          /\ UNCHANGED <<vadState, heard, forgotten, pendingFrames,
                         speechFrameCount>>
      BY <1>2, <2>5 DEF Override, Cause, OnlyOpenUtterances, counters
    <3>2. Captured \subseteq Captured' /\ CutAt \subseteq CutAt'
      BY <2>0, <3>1, DispatchCaptures
    <3>3. Lost \subseteq Lost'
      BY <3>1, <3>2 DEF Lost
    <3>4. StreakKept'
      BY <1>2, <3>1, <3>2, <3>3 DEF StreakKept, Talking, Frames
    <3> QED BY <2>4, <3>1, <3>2, <3>3, <3>4
  <2>6. CASE Reset
    <3>1. /\ UNCHANGED <<heard, utterances>> /\ utteranceFrames' = <<>>
          /\ forgotten \subseteq forgotten'
          /\ FramesOf(utteranceFrames) \subseteq forgotten'
          /\ {Len(heard)} \ {0} \subseteq forgotten'
      BY <2>6 DEF Reset
    <3>2. CutAt' = CutAt /\ Lost \subseteq Lost' /\ Captured \subseteq Captured' \cup Lost'
      BY <3>1 DEF CutAt, Captured, Lost
    <3>3. ASSUME NEW a \in Frames
          PROVE  Len(heard) \in a .. Len(heard) /\ Len(heard) \in Lost'
      <4>1. a \in Int /\ a <= Len(heard) /\ Len(heard) # 0
        BY <2>0 DEF Frames
      <4> QED BY <2>0, <3>1, <4>1 DEF Lost
    <3>4. StreakKept'
      BY <3>1, <3>3 DEF StreakKept, Frames
    <3> QED BY <2>4, <3>1, <3>2, <3>4
  <2>7. CASE UNCHANGED vars
    <3>1. UNCHANGED <<heard, utterances, utteranceFrames, forgotten, vadState,
                      pendingFrames, speechFrameCount>>
      BY <2>7 DEF vars, counters
    <3>2. UNCHANGED <<Captured, CutAt, Lost>>
      BY <3>1 DEF Captured, CutAt, Lost
    <3>3. SpeechCaptured'
      BY <2>4, <3>1, <3>2
    <3>4. StreakKept'
      BY <1>2, <3>1, <3>2 DEF StreakKept, Talking, Frames
    <3> QED BY <3>3, <3>4
  <2> QED BY <1>2, <2>3, <2>5, <2>6, <2>7 DEF Next
<1> QED BY <1>1, <1>2, TypeCorrect, OpenUtterancesOnly, CandidateAccounted, PTL DEF Spec
=============================================================================
