--------------------------- MODULE SessionProofs ---------------------------
(***************************************************************************)
(* What Session satisfies for every channel capacity, any number of chunks *)
(* and any number of timer callbacks in flight.                            *)
(***************************************************************************)
EXTENDS Session, SequenceTheorems, TLAPS

---------------------------------------------------------------------------
(* The transition table. *)

\* The states a session is in from Attach on.
Attached == {"ACTIVE", "PROCESSING", "RESPONDING", "TERMINATED"}

LEMMA Transition ==
    ASSUME state \in SessionState, NEW next \in SessionState, TransitionTo(next)
    PROVE  /\ state' \in SessionState
           /\ state' = state \/ state' = next
           /\ state = "TERMINATED" => state' = "TERMINATED"
           /\ state \in Attached => state' \in Attached
           /\ state \in Attached /\ next = "TERMINATED" => state' = "TERMINATED"
BY DEF SessionState, Attached, TransitionTo, Allowed, validTransitions

StateKnown == state \in SessionState
StaysTerminated == state = "TERMINATED" => state' = "TERMINATED"

\* No goroutine, whatever reading of the state it acts on, takes the session
\* out of TERMINATED.
THEOREM TerminationIsFinal == SessionSpec => TerminatedIsFinal
<1>1. ASSUME StateKnown, [SessionNext]_sessionVars
      PROVE  StateKnown' /\ StaysTerminated
  <2> USE <1>1 DEF StateKnown, StaysTerminated
  <2>1. \A next \in SessionState :
           TransitionTo(next) => state' \in SessionState
                                 /\ (state = "TERMINATED" => state' = "TERMINATED")
    BY Transition
  <2>2. {"CONNECTING", "ACTIVE", "RESPONDING", "TERMINATED"} \subseteq SessionState
    BY DEF SessionState
  <2>3. CASE Attach
    BY <2>1, <2>2, <2>3 DEF Attach, AttachConnecting, AttachActive
  <2>4. CASE Run \/ Recv \/ TimerFires \/ Consume
    BY <2>4 DEF Run, Recv, RecvAudio, RecvEOF, RecvError, TimerFires, Consume
  <2>5. CASE PumpStep
    BY <2>1, <2>2, <2>5
       DEF PumpStep, CheckState, MarkResponding, ResetTimer, SendChunk,
           EndOfStream, StopTimer, SignalDone, CloseChan
  <2>6. CASE Callback
    BY <2>1, <2>2, <2>6 DEF Callback, CallbackChecks, CallbackSets
  <2>7. CASE Terminate
    BY <2>1, <2>2, <2>7
       DEF Terminate, TerminateTransition, TerminateSignal
  <2>8. CASE UNCHANGED sessionVars
    BY <2>8 DEF sessionVars
  <2> QED BY <2>3, <2>4, <2>5, <2>6, <2>7, <2>8 DEF SessionNext
<1>2. SessionInit => StateKnown
  BY DEF SessionInit, SessionState, StateKnown
<1>3. TerminatedIsFinal <=> [][StaysTerminated]_sessionVars
  BY DEF TerminatedIsFinal, StaysTerminated
<1> QED BY <1>1, <1>2, <1>3, PTL DEF SessionSpec

---------------------------------------------------------------------------
(* The end of the stream. *)

Attaching == {"new", "connecting"}

\* Why EOF always terminates: until Attach is done no callback can touch the
\* state, so the pump starts from ACTIVE, and every state reached from there
\* may become TERMINATED.
PumpFollowsAttach ==
    /\ state \in SessionState /\ pump \in PumpState
    /\ checking \in Nat /\ setting \in Nat
    /\ pump \in Attaching =>
         /\ state \notin Attached
         /\ ~armed /\ checking = 0 /\ setting = 0 /\ recvEnd = "none"
         /\ ~terminating
    /\ pump = "new" => state = "CREATED"
    /\ pump = "connecting" => state = "CONNECTING"
    /\ pump \notin Attaching => state \in Attached
    /\ recvEnd = "eof" =>
         pump \in {"eof", "stop", "signal", "close", "exited"}
EndInv == PumpFollowsAttach /\ EndOfStreamTerminates

\* After the engine closed its stream the session is TERMINATED before
\* DoneChan or AgentAudioChan close and ever after, whatever the timer's
\* callbacks and Terminate do in between.
THEOREM EOFTerminates == SessionSpec => []EndOfStreamTerminates
<1>1. SessionInit => EndInv
  BY DEF SessionInit, EndInv, PumpFollowsAttach, EndOfStreamTerminates,
         SessionState, PumpState, Attaching, Attached
<1>2. ASSUME EndInv, [SessionNext]_sessionVars PROVE EndInv'
  <2> USE <1>2 DEF EndInv, PumpFollowsAttach, EndOfStreamTerminates,
                   PumpState, Holding, Attaching
  <2>1. {"CONNECTING", "ACTIVE", "RESPONDING", "TERMINATED"} \subseteq SessionState
    BY DEF SessionState
  <2>2. \A next \in SessionState : TransitionTo(next) =>
           /\ state' \in SessionState
           /\ state' = state \/ state' = next
           /\ state = "TERMINATED" => state' = "TERMINATED"
           /\ state \in Attached => state' \in Attached
           /\ state \in Attached /\ next = "TERMINATED" => state' = "TERMINATED"
    BY Transition
  <2>3. CASE AttachConnecting
    BY <2>3 DEF AttachConnecting, TransitionTo, Allowed, validTransitions,
                Attached, SessionState
  <2>4. CASE AttachActive
    BY <2>4 DEF AttachActive, TransitionTo, Allowed, validTransitions,
                Attached, SessionState
  <2>5. CASE Run
    BY <2>5 DEF Run
  <2>6. CASE RecvAudio \/ RecvEOF \/ RecvError
    BY <2>6 DEF RecvAudio, RecvEOF, RecvError
  <2>7. CASE CheckState
    BY <2>7 DEF CheckState
  <2>8. CASE MarkResponding
    BY <2>1, <2>2, <2>8 DEF MarkResponding
  <2>9. CASE ResetTimer \/ SendChunk
    BY <2>9 DEF ResetTimer, SendChunk
  <2>10. CASE EndOfStream
    BY <2>1, <2>2, <2>10 DEF EndOfStream
  <2>11. CASE StopTimer \/ SignalDone \/ CloseChan
    BY <2>11 DEF StopTimer, SignalDone, CloseChan
  <2>12. CASE TimerFires
    BY <2>12 DEF TimerFires
  <2>13. CASE CallbackChecks
    BY <2>13 DEF CallbackChecks
  <2>14. CASE CallbackSets
    <3>1. pump \notin Attaching /\ state \in Attached
      BY <2>14 DEF CallbackSets
    <3> QED BY <2>1, <2>2, <2>14, <3>1 DEF CallbackSets
  <2>15. CASE TerminateTransition
    <3>1. pump \notin Attaching /\ state \in Attached
      BY <2>15 DEF TerminateTransition, Allowed, validTransitions, Attached
    <3> QED BY <2>1, <2>2, <2>15, <3>1 DEF TerminateTransition
  <2>16. CASE TerminateSignal
    BY <2>16 DEF TerminateSignal
  <2>17. CASE Consume
    BY <2>17 DEF Consume
  <2>18. CASE UNCHANGED sessionVars
    BY <2>18 DEF sessionVars
  <2> QED BY <2>3, <2>4, <2>5, <2>6, <2>7, <2>8, <2>9, <2>10, <2>11, <2>12,
             <2>13, <2>14, <2>15, <2>16, <2>17, <2>18
          DEF SessionNext, Attach, Recv, PumpStep, Callback, Terminate
<1>3. EndInv => EndOfStreamTerminates
  BY DEF EndInv
<1> QED BY <1>1, <1>2, <1>3, PTL DEF SessionSpec

---------------------------------------------------------------------------
(* Types and losslessness. *)

\* A pump that holds a chunk has received one.
HoldsReceived == pump \in Holding => received >= 1

LEMMA TypesInit == SessionInit => SessionTypeOK /\ HoldsReceived
<1>1. <<>> \in Seq(1 .. received) /\ Len(<<>>) = 0
  BY EmptySeq
<1>2. ChanCap \in Nat
  BY SessionAssumption DEF SessionAssumption
<1>3. SessionInit => chan = <<>> /\ consumed = <<>> /\ received = 0
  BY DEF SessionInit
<1>4. SessionInit => Len(chan) <= ChanCap /\ chan \in Seq(1 .. received)
                       /\ consumed \in Seq(1 .. received)
  BY <1>1, <1>2, <1>3
<1>5. SessionInit => /\ state \in SessionState /\ pump \in PumpState
                     /\ recvEnd \in {"none", "eof", "error"}
                     /\ received \in Nat /\ checking \in Nat /\ setting \in Nat
  BY DEF SessionInit, SessionState, PumpState
<1>6. SessionInit => /\ armed \in BOOLEAN /\ chanClosed \in BOOLEAN
                     /\ doneClosed \in BOOLEAN /\ terminating \in BOOLEAN
  BY DEF SessionInit
<1>7. SessionInit => HoldsReceived
  BY DEF SessionInit, HoldsReceived, Holding
<1> QED BY <1>4, <1>5, <1>6, <1>7 DEF SessionTypeOK

LEMMA TypesStep ==
    ASSUME SessionTypeOK, HoldsReceived, [SessionNext]_sessionVars
    PROVE  SessionTypeOK' /\ HoldsReceived'
<1> USE DEF SessionTypeOK, HoldsReceived, PumpState, Holding
<1>1. {"CONNECTING", "ACTIVE", "RESPONDING", "TERMINATED"} \subseteq SessionState
  BY DEF SessionState
<1>2. \A next \in SessionState : TransitionTo(next) => state' \in SessionState
  BY Transition
<1>3. CASE Attach
  BY <1>1, <1>2, <1>3 DEF Attach, AttachConnecting, AttachActive
<1>4. CASE Run
  BY <1>4 DEF Run
<1>5. CASE RecvAudio
  <2>1. received' \in Nat /\ received' >= 1 /\ 1 .. received \subseteq 1 .. received'
    BY <1>5 DEF RecvAudio
  <2>2. chan \in Seq(1 .. received') /\ consumed \in Seq(1 .. received')
    BY <2>1, SeqMonotonic
  <2> QED BY <1>5, <2>1, <2>2 DEF RecvAudio
<1>6. CASE RecvEOF \/ RecvError
  BY <1>6 DEF RecvEOF, RecvError
<1>7. CASE CheckState \/ ResetTimer
  BY <1>7 DEF CheckState, ResetTimer
<1>8. CASE MarkResponding
  BY <1>1, <1>2, <1>8 DEF MarkResponding
<1>9. CASE SendChunk
  <2>1. received \in 1 .. received /\ Len(chan) \in Nat
    BY <1>9, LenProperties DEF SendChunk
  <2>2. /\ Append(chan, received) \in Seq(1 .. received)
        /\ Len(Append(chan, received)) = Len(chan) + 1
    BY <2>1, AppendProperties
  <2>3. Len(chan') <= ChanCap /\ chan' \in Seq(1 .. received)
    BY <1>9, <2>1, <2>2, SessionAssumption DEF SendChunk, SessionAssumption
  <2> QED BY <1>9, <2>3 DEF SendChunk
<1>10. CASE EndOfStream
  BY <1>1, <1>2, <1>10 DEF EndOfStream
<1>11. CASE StopTimer \/ SignalDone \/ CloseChan
  BY <1>11 DEF StopTimer, SignalDone, CloseChan
<1>12. CASE TimerFires
  <2>1. armed' \in BOOLEAN
    <3>1. armed' = FALSE
      BY <1>12 DEF TimerFires
    <3> QED BY <3>1
  <2>2. checking' \in Nat
    <3>1. checking' = checking + 1 /\ checking \in Nat
      BY <1>12 DEF TimerFires
    <3> QED BY <3>1
  <2>3. UNCHANGED <<state, pump, received, recvEnd, setting, chan,
                    chanClosed, doneClosed, terminating, consumed>>
    BY <1>12 DEF TimerFires
  <2> QED BY <2>1, <2>2, <2>3
<1>13. CASE CallbackChecks
  BY <1>13 DEF CallbackChecks
<1>14. CASE CallbackSets
  BY <1>1, <1>2, <1>14 DEF CallbackSets
<1>15. CASE TerminateTransition
  BY <1>1, <1>2, <1>15 DEF TerminateTransition
<1>16. CASE TerminateSignal
  BY <1>16 DEF TerminateSignal
<1>17. CASE Consume
  <2>1. chan # <<>>
    BY <1>17 DEF Consume
  <2>2. /\ Head(chan) \in 1 .. received /\ Tail(chan) \in Seq(1 .. received)
        /\ Len(Tail(chan)) = Len(chan) - 1 /\ Len(chan) \in Nat
    BY <2>1, HeadTailProperties, LenProperties
  <2>3. consumed' \in Seq(1 .. received)
    BY <1>17, <2>2, AppendProperties DEF Consume
  <2>4. chan' \in Seq(1 .. received) /\ Len(chan') <= ChanCap
    BY <1>17, <2>2, SessionAssumption DEF Consume, SessionAssumption
  <2> QED BY <1>17, <2>3, <2>4 DEF Consume
<1>18. CASE UNCHANGED sessionVars
  BY <1>18 DEF sessionVars
<1> QED BY <1>3, <1>4, <1>5, <1>6, <1>7, <1>8, <1>9, <1>10, <1>11, <1>12,
           <1>13, <1>14, <1>15, <1>16, <1>17, <1>18
        DEF SessionNext, Recv, PumpStep, Callback, Terminate

\* The session's fields and channels keep their types, AgentAudioChan never
\* holds more than its capacity, and the pump never reaches a position its
\* code does not have.
THEOREM SessionTypes == SessionSpec => []SessionTypeOK
BY TypesInit, TypesStep, PTL DEF SessionSpec

\* The first n chunks, in order.
Chunks(n) == [k \in 1 .. n |-> k]

LEMMA NextChunk ==
    ASSUME NEW n \in Nat
    PROVE  /\ Chunks(n) \in Seq(Nat)
           /\ Chunks(n) \o <<n + 1>> = Chunks(n + 1)
<1>1. \A m \in Nat : Chunks(m) \in Seq(Nat) /\ Len(Chunks(m)) = m
  BY DEF Chunks
<1>2. <<n + 1>> \in Seq(Nat) /\ Len(<<n + 1>>) = 1 /\ <<n + 1>>[1] = n + 1
  OBVIOUS
<1>3. /\ Chunks(n) \o <<n + 1>> \in Seq(Nat)
      /\ Len(Chunks(n) \o <<n + 1>>) = n + 1
      /\ \A i \in 1 .. n + 1 :
           (Chunks(n) \o <<n + 1>>)[i]
             = IF i <= n THEN Chunks(n)[i] ELSE <<n + 1>>[i - n]
  <2> DEFINE s == Chunks(n)
             t == <<n + 1>>
  <2>1. s \in Seq(Nat) /\ t \in Seq(Nat) /\ Len(s) = n /\ Len(t) = 1
    BY <1>1, <1>2
  <2> HIDE DEF s, t
  <2>2. /\ s \o t \in Seq(Nat) /\ Len(s \o t) = Len(s) + Len(t)
        /\ \A i \in 1 .. Len(s) + Len(t) :
             (s \o t)[i] = IF i <= Len(s) THEN s[i] ELSE t[i - Len(s)]
    BY <2>1, ConcatProperties
  <2> QED BY <2>1, <2>2 DEF s, t
<1>4. ASSUME NEW i \in 1 .. n + 1
      PROVE  (Chunks(n) \o <<n + 1>>)[i] = Chunks(n + 1)[i]
  <2>0. Chunks(n + 1)[i] = i
    BY DEF Chunks
  <2>1. CASE i <= n
    <3>1. (Chunks(n) \o <<n + 1>>)[i] = Chunks(n)[i]
      BY <1>3, <2>1
    <3>2. Chunks(n)[i] = i
      BY <2>1 DEF Chunks
    <3> QED BY <2>0, <3>1, <3>2
  <2>2. CASE i = n + 1
    <3>1. (Chunks(n) \o <<n + 1>>)[i] = <<n + 1>>[i - n] /\ i - n = 1
      BY <1>3, <2>2
    <3>2. (Chunks(n) \o <<n + 1>>)[i] = <<n + 1>>[1]
      BY <3>1
    <3> QED BY <1>2, <2>0, <2>2, <3>2
  <2>3. i <= n \/ i = n + 1
    OBVIOUS
  <2> QED BY <2>1, <2>2, <2>3
<1>5. Chunks(n) \o <<n + 1>> = Chunks(n + 1)
  <2>1. Chunks(n + 1) \in Seq(Nat) /\ Len(Chunks(n + 1)) = n + 1
    BY <1>1
  <2> QED BY <1>3, <1>4, <2>1, SeqEqual
<1> QED BY <1>1, <1>5

\* What is read, queued and held may be split between the three as one likes.
LEMMA ChunksRegroup ==
    \A s, t, u \in Seq(Nat) : (s \o t) \o u = s \o (t \o u)
<1>1. \A S : \A s, t, u \in Seq(S) : (s \o t) \o u = s \o (t \o u)
  BY ConcatAssociative, Zenon
<1> QED BY <1>1, SMTT(30)

LEMMA LosslessInit == SessionInit => Lossless
BY DEF SessionInit, Lossless, InHand, Holding

LEMMA LosslessStep ==
    ASSUME SessionTypeOK, Lossless, [SessionNext]_sessionVars
    PROVE  Lossless'
<1>0. /\ consumed \in Seq(Nat) /\ chan \in Seq(Nat) /\ received \in Nat
      /\ <<>> \in Seq(Nat) /\ <<received>> \in Seq(Nat)
  <2>1. 1 .. received \subseteq Nat /\ received \in Nat
    BY DEF SessionTypeOK
  <2> QED BY <2>1, SeqMonotonic DEF SessionTypeOK
<1>1. consumed \o chan \in Seq(Nat)
  BY <1>0, ConcatProperties
<1>2. (consumed \o chan) \o InHand = Chunks(received)
  BY DEF Lossless, Chunks
<1>3. SUFFICES (consumed' \o chan') \o InHand' = Chunks(received')
  BY DEF Lossless, Chunks
<1>4. CASE UNCHANGED <<consumed, chan, received, InHand>>
  BY <1>2, <1>4
<1>5. ASSUME UNCHANGED <<consumed, chan, received>>,
             pump \in Holding <=> pump' \in Holding
      PROVE  UNCHANGED <<consumed, chan, received, InHand>>
  BY <1>5 DEF InHand
<1>6. CASE RecvAudio
  <2>1. InHand = <<>> /\ InHand' = <<received + 1>>
    BY <1>6 DEF RecvAudio, InHand, Holding
  <2>2. consumed \o chan = Chunks(received)
    BY <1>1, <1>2, <2>1, ConcatEmptySeq
  <2> QED BY <1>0, <1>6, <2>1, <2>2, NextChunk DEF RecvAudio
<1>7. CASE SendChunk
  <2>1. InHand = <<received>> /\ InHand' = <<>>
    BY <1>7 DEF SendChunk, InHand, Holding
  <2>2. chan' = chan \o <<received>>
    BY <1>0, <1>7, AppendIsConcat DEF SendChunk
  <2>3. consumed \o (chan \o <<received>>) = Chunks(received)
    <3> DEFINE c == <<received>>
    <3>1. \A s, t, u \in Seq(Nat) : (s \o t) \o u = s \o (t \o u)
      BY ChunksRegroup
    <3>2. (consumed \o chan) \o c = Chunks(received)
      BY <1>2, <2>1
    <3>3. consumed \in Seq(Nat) /\ chan \in Seq(Nat) /\ c \in Seq(Nat)
      BY <1>0
    <3> HIDE DEF c
    <3>4. (consumed \o chan) \o c = consumed \o (chan \o c)
      BY <3>1, <3>3
    <3> QED BY <3>2, <3>4 DEF c
  <2>4. Chunks(received) \o <<>> = Chunks(received)
    BY <1>0, NextChunk, ConcatEmptySeq
  <2>5. consumed' = consumed /\ received' = received
    BY <1>7 DEF SendChunk
  <2> QED BY <2>1, <2>2, <2>3, <2>4, <2>5
<1>8. CASE Consume
  <2>1. InHand' = InHand /\ received' = received /\ chan # <<>>
    BY <1>8 DEF Consume, InHand
  <2>2. Head(chan) \in Nat /\ Tail(chan) \in Seq(Nat)
    BY <1>0, <2>1, HeadTailProperties
  <2>3. chan = <<Head(chan)>> \o Tail(chan)
    <3> DEFINE t == <<Head(chan)>> \o Tail(chan)
    <3>1. /\ <<Head(chan)>> \in Seq(Nat) /\ Len(<<Head(chan)>>) = 1
          /\ <<Head(chan)>>[1] = Head(chan) /\ Head(chan) = chan[1]
      BY <1>0, <2>1, <2>2
    <3>2. /\ Len(Tail(chan)) = Len(chan) - 1 /\ Len(chan) \in Nat
          /\ \A i \in 1 .. Len(Tail(chan)) : Tail(chan)[i] = chan[i + 1]
      BY <1>0, <2>1, HeadTailProperties, LenProperties
    <3>3. /\ t \in Seq(Nat) /\ Len(t) = Len(chan)
          /\ \A i \in 1 .. Len(chan) :
               t[i] = IF i <= 1 THEN <<Head(chan)>>[i] ELSE Tail(chan)[i - 1]
      <4> DEFINE h == <<Head(chan)>>
      <4>1. h \in Seq(Nat) /\ Len(h) = 1
        BY <3>1
      <4> HIDE DEF h
      <4>2. /\ h \o Tail(chan) \in Seq(Nat)
            /\ Len(h \o Tail(chan)) = Len(h) + Len(Tail(chan))
            /\ \A i \in 1 .. Len(h) + Len(Tail(chan)) :
                 (h \o Tail(chan))[i]
                   = IF i <= Len(h) THEN h[i] ELSE Tail(chan)[i - Len(h)]
        BY <2>2, <4>1, ConcatProperties
      <4> QED BY <3>2, <4>1, <4>2 DEF h
    <3> HIDE DEF t
    <3>4. ASSUME NEW i \in 1 .. Len(chan) PROVE t[i] = chan[i]
      <4>1. CASE i <= 1
        BY <3>1, <3>3, <4>1
      <4>2. CASE i > 1
        <5>1. i - 1 \in 1 .. Len(Tail(chan)) /\ (i - 1) + 1 = i
          BY <3>2, <4>2
        <5> QED BY <3>2, <3>3, <4>2, <5>1
      <4> QED BY <4>1, <4>2
    <3> QED BY <1>0, <3>3, <3>4, SeqEqual DEF t
  <2>4. consumed' = consumed \o <<Head(chan)>>
    BY <1>0, <1>8, <2>2, AppendIsConcat DEF Consume
  <2>5. (consumed \o <<Head(chan)>>) \o Tail(chan) = consumed \o chan
    <3> DEFINE h == <<Head(chan)>>
    <3>1. h \in Seq(Nat)
      BY <2>2
    <3> HIDE DEF h
    <3>2. (consumed \o h) \o Tail(chan) = consumed \o (h \o Tail(chan))
      <4>1. \A s, t, u \in Seq(Nat) : (s \o t) \o u = s \o (t \o u)
        BY ChunksRegroup
      <4>2. consumed \in Seq(Nat) /\ h \in Seq(Nat) /\ Tail(chan) \in Seq(Nat)
        BY <1>0, <2>2, <3>1
      <4> QED BY <4>1, <4>2
    <3>3. h \o Tail(chan) = chan
      BY <2>3 DEF h
    <3>4. (consumed \o h) \o Tail(chan) = consumed \o chan
      BY <3>2, <3>3
    <3> QED BY <3>4, Zenon DEF h
  <2>6. chan' = Tail(chan)
    BY <1>8 DEF Consume
  <2> QED BY <1>2, <2>1, <2>4, <2>5, <2>6
<1>9. CASE Attach \/ Run \/ RecvEOF \/ RecvError
  BY <1>4, <1>5, <1>9 DEF Attach, AttachConnecting, AttachActive, Run,
                          RecvEOF, RecvError, Holding
<1>10. CASE CheckState \/ MarkResponding \/ ResetTimer
  BY <1>4, <1>5, <1>10 DEF CheckState, MarkResponding, ResetTimer, Holding
<1>11. CASE EndOfStream \/ StopTimer \/ SignalDone \/ CloseChan
  BY <1>4, <1>5, <1>11
     DEF EndOfStream, StopTimer, SignalDone, CloseChan, Holding
<1>12. CASE TimerFires \/ Callback \/ Terminate \/ UNCHANGED sessionVars
  BY <1>4, <1>5, <1>12
     DEF TimerFires, Callback, CallbackChecks, CallbackSets, Terminate,
         TerminateTransition, TerminateSignal, sessionVars
<1> QED BY <1>6, <1>7, <1>8, <1>9, <1>10, <1>11, <1>12
        DEF SessionNext, Recv, PumpStep

\* Whatever the capacity of the channel and however the goroutines interleave,
\* the reader gets every chunk of the engine once and in order: what it has
\* read, what is queued and what the pump holds is what was received.
THEOREM NothingLost == SessionSpec => []Lossless
BY LosslessInit, LosslessStep, SessionTypes, PTL DEF SessionSpec
=============================================================================
