---------------------------- MODULE GatewayProofs ----------------------------
(***************************************************************************)
(* What the gateway's call satisfies for every channel capacity, any       *)
(* number of chunks and callbacks, and every way to hang up.               *)
(***************************************************************************)
EXTENDS Gateway, SessionProofs

---------------------------------------------------------------------------
(* The session inside the gateway. *)

\* The session in the gateway's hands: each step of a goroutine is a step of
\* the session, or leaves it alone.
LEMMA StepOfSession == [Next]_vars => [SessionNext]_sessionVars
BY DEF Next, vars, Setup, Handler, Outbound, Engine, Pump, Timer, SessionNext,
       CallerHalfCloses, CallerGone, FirstIsStart, SetupFails, Return, Dial,
       AttachSession, Start, Select, CancelAgent, AwaitOutbound, OutboundTake,
       OutboundSend, OutboundFails, OutboundEnds, EndSession, InboundSendFails,
       InboundRecvFails, InboundReports

\* What is proved of the session's steps holds of it in the gateway.
SessionInv == SessionTypeOK /\ HoldsReceived /\ Lossless

LEMMA SessionInvStep == SessionInv /\ [Next]_vars => SessionInv'
BY StepOfSession, TypesStep, LosslessStep DEF SessionInv

LEMMA SessionInvInit == Init => SessionInv
BY TypesInit, LosslessInit DEF Init, SessionInv

\* What was consumed is the first chunks, and the rest is queued or in hand.
LEMMA ConsumedInOrder ==
    ASSUME SessionInv
    PROVE  /\ received \in Nat /\ Len(consumed) \in Nat
           /\ Len(consumed) <= received
           /\ \A k \in 1 .. Len(consumed) : consumed[k] = k
           /\ chan = <<>> /\ pump \notin Holding => Len(consumed) = received
<1> USE DEF SessionInv
<1>1. /\ consumed \in Seq(Nat) /\ chan \in Seq(Nat) /\ received \in Nat
      /\ InHand \in Seq(Nat)
  <2>1. 1 .. received \subseteq Nat /\ received \in Nat
    BY DEF SessionTypeOK
  <2>2. consumed \in Seq(Nat) /\ chan \in Seq(Nat)
    BY <2>1, SeqMonotonic DEF SessionTypeOK
  <2>3. <<>> \in Seq(Nat) /\ <<received>> \in Seq(Nat)
    BY <2>1
  <2> QED BY <2>1, <2>2, <2>3 DEF InHand
<1>2. (consumed \o chan) \o InHand = Chunks(received)
  BY DEF Lossless, Chunks
<1>3. /\ consumed \o chan \in Seq(Nat)
      /\ Len(consumed \o chan) = Len(consumed) + Len(chan)
      /\ \A k \in 1 .. Len(consumed) + Len(chan) : (consumed \o chan)[k] =
             IF k <= Len(consumed) THEN consumed[k] ELSE chan[k - Len(consumed)]
  BY <1>1, ConcatProperties
<1> DEFINE both == consumed \o chan
<1>4. both \in Seq(Nat) /\ Len(both) = Len(consumed) + Len(chan)
  BY <1>3
<1>5. \A k \in 1 .. Len(consumed) : both[k] = consumed[k]
  BY <1>1, <1>3, SMT
<1>6. both \o InHand = Chunks(received)
  BY <1>2
<1> HIDE DEF both
<1>7. /\ Len(both \o InHand) = Len(both) + Len(InHand)
      /\ \A k \in 1 .. Len(both) + Len(InHand) : (both \o InHand)[k] =
             IF k <= Len(both) THEN both[k] ELSE InHand[k - Len(both)]
  <2>1. both \in Seq(Nat) /\ InHand \in Seq(Nat)
    BY <1>1, <1>4
  <2> QED BY <2>1, ConcatProperties
<1>8. Len(Chunks(received)) = received
      /\ \A k \in 1 .. received : Chunks(received)[k] = k
  BY <1>1 DEF Chunks
<1>9. /\ Len(consumed) \in Nat /\ Len(chan) \in Nat /\ Len(InHand) \in Nat
      /\ Len(consumed) + Len(chan) + Len(InHand) = received
  <2>1. Len(consumed) \in Nat /\ Len(chan) \in Nat /\ Len(InHand) \in Nat
    BY <1>1, LenProperties
  <2>2. Len(both) + Len(InHand) = received
    BY <1>6, <1>7, <1>8
  <2> QED BY <1>4, <2>1, <2>2
<1>10. \A k \in 1 .. Len(consumed) : consumed[k] = k
  <2>1. ASSUME NEW k \in 1 .. Len(consumed)
        PROVE  consumed[k] = k
    <3>1. k \in 1 .. Len(both) + Len(InHand) /\ k <= Len(both) /\ k \in 1 .. received
      BY <1>4, <1>9, SMT
    <3>2. (both \o InHand)[k] = both[k]
      BY <1>7, <3>1
    <3>3. (both \o InHand)[k] = k
      BY <1>6, <1>8, <3>1
    <3> QED BY <1>5, <3>2, <3>3
  <2> QED BY <2>1
<1>11. ASSUME chan = <<>>, pump \notin Holding
       PROVE  Len(consumed) = received
  <2>1. Len(chan) = 0 /\ Len(InHand) = 0
    BY <1>11, EmptySeq DEF InHand
  <2> QED BY <1>9, <2>1, SMT
<1> QED BY <1>1, <1>9, <1>10, <1>11, SMT

---------------------------------------------------------------------------
(* The handler and its goroutines. *)

\* The pump does not run before the handler starts its goroutines.
BeforeRun == {"new", "connecting", "attached"}

Positions ==
    /\ caller \in {"open", "halfclosed", "gone"}
    /\ handler \in {"first", "dial", "attach", "start", "select", "cancel",
                    "drain", "returned"}
    /\ outbound \in {"off", "range", "send", "done"}
    /\ inbound \in {"off", "recv", "done"}
    /\ outbound = "off" <=> pump \in BeforeRun
    /\ outbound = "off" =>
         /\ recvEnd = "none"
         /\ handler \in {"first", "dial", "attach", "start", "returned"}
    /\ handler \in {"first", "dial", "attach", "start"} => outbound = "off"
    /\ handler = "returned" => outbound \in {"off", "done"}

Flags == inboundErr \in BOOLEAN /\ agentCancelled \in BOOLEAN
ClosedLast == chanClosed => pump = "exited"

\* What has been sent is what was taken, but for the chunk in the relay's hand
\* or lost with its caller; a relay that ended without losing its caller ended
\* at the channel's end.
Relayed ==
    /\ sent \in Seq(Nat)
    /\ \A k \in 1 .. Len(sent) : sent[k] = k
    /\ outbound \in {"off", "range"} => Len(sent) = Len(consumed)
    /\ outbound = "send" => Len(sent) + 1 = Len(consumed)
    /\ outbound = "done" => Len(sent) <= Len(consumed)
    /\ outbound = "done" /\ caller # "gone" => chanClosed /\ Len(sent) = received

GatewayInv == SessionInv /\ Positions /\ Flags /\ ClosedLast /\ Relayed

LEMMA GatewayInit == Init => GatewayInv
<1> SUFFICES ASSUME Init PROVE Positions /\ Flags /\ ClosedLast /\ Relayed
  BY SessionInvInit DEF GatewayInv
<1>1. <<>> \in Seq(Nat) /\ Len(<<>>) = 0
  BY EmptySeq
<1>2. Positions
  BY DEF Init, SessionInit, Positions, BeforeRun
<1>3. Flags /\ ClosedLast
  BY DEF Init, SessionInit, Flags, ClosedLast
<1>4. Relayed
  BY <1>1, SMT DEF Init, SessionInit, Relayed
<1> QED BY <1>2, <1>3, <1>4

LEMMA PositionsStep == Positions /\ [Next]_vars => Positions'
<1> SUFFICES ASSUME Positions, [Next]_vars PROVE Positions'
  OBVIOUS
<1> USE DEF Positions, BeforeRun
<1>1. CASE CallerHalfCloses \/ CallerGone
  BY <1>1 DEF CallerHalfCloses, CallerGone, sessionVars
<1>2. CASE FirstIsStart \/ SetupFails \/ Dial
  BY <1>2 DEF FirstIsStart, SetupFails, Return, Dial, sessionVars
<1>3. CASE AttachSession
  BY <1>3 DEF AttachSession, Attach, AttachConnecting, AttachActive
<1>4. CASE Start
  BY <1>4 DEF Start, Run
<1>5. CASE Handler
  BY <1>5 DEF Handler, Select, CancelAgent, AwaitOutbound, Return, sessionVars
<1>6. CASE OutboundTake
  BY <1>6 DEF OutboundTake, Consume
<1>7. CASE OutboundSend \/ OutboundFails \/ OutboundEnds
  BY <1>7 DEF OutboundSend, OutboundFails, OutboundEnds, sessionVars
<1>8. CASE EndSession \/ InboundSendFails \/ InboundRecvFails
  BY <1>8 DEF EndSession, InboundSendFails, InboundRecvFails, InboundReports,
              sessionVars
<1>9. CASE Engine
  BY <1>9 DEF Engine, gatewayVars, Recv, RecvAudio, RecvEOF, RecvError
<1>10. CASE Pump
  BY <1>10 DEF Pump, gatewayVars, PumpStep, CheckState, MarkResponding, ResetTimer,
               SendChunk, EndOfStream, StopTimer, SignalDone, CloseChan
<1>11. CASE Timer
  BY <1>11 DEF Timer, gatewayVars, TimerFires, Callback, CallbackChecks, CallbackSets
<1>12. CASE UNCHANGED vars
  BY <1>12 DEF vars, sessionVars, gatewayVars
<1> QED BY <1>1, <1>2, <1>3, <1>4, <1>5, <1>6, <1>7, <1>8, <1>9, <1>10, <1>11,
           <1>12 DEF Next, Setup, Outbound

LEMMA FlagsStep == Flags /\ [Next]_vars => Flags'
<1> SUFFICES ASSUME Flags, [Next]_vars PROVE Flags'
  OBVIOUS
<1>1. /\ inboundErr' = inboundErr \/ inboundErr' = TRUE
      /\ agentCancelled' = agentCancelled \/ agentCancelled' = TRUE
  BY Zenon DEF vars, gatewayVars, Next, Setup, Handler, Outbound, Engine, Pump, Timer,
     CallerHalfCloses, CallerGone, FirstIsStart, SetupFails, Return, Dial,
     AttachSession, Start, Select, CancelAgent, AwaitOutbound, OutboundTake,
     OutboundSend, OutboundFails, OutboundEnds, EndSession, InboundSendFails,
     InboundRecvFails, InboundReports
<1> QED BY <1>1, Zenon DEF Flags

LEMMA ClosedLastStep == ClosedLast /\ [Next]_vars => ClosedLast'
<1> SUFFICES ASSUME ClosedLast, [SessionNext]_sessionVars PROVE ClosedLast'
  BY StepOfSession
<1>1. CASE pump = "exited"
  <2>1. pump' = pump
    BY <1>1 DEF SessionNext, sessionVars, Attach, AttachConnecting, AttachActive, Run,
       Recv, RecvAudio, RecvEOF, RecvError, PumpStep, CheckState, MarkResponding,
       ResetTimer, SendChunk, EndOfStream, StopTimer, SignalDone, CloseChan,
       TimerFires, Callback, CallbackChecks, CallbackSets, Terminate,
       TerminateTransition, TerminateSignal, Consume
  <2> QED BY <1>1, <2>1 DEF ClosedLast
<1>2. CASE pump # "exited"
  <2>1. CloseChan \/ chanClosed' = chanClosed
    BY Zenon DEF SessionNext, sessionVars, Attach, AttachConnecting, AttachActive, Run,
       Recv, RecvAudio, RecvEOF, RecvError, PumpStep, CheckState, MarkResponding,
       ResetTimer, SendChunk, EndOfStream, StopTimer, SignalDone,
       TimerFires, Callback, CallbackChecks, CallbackSets, Terminate,
       TerminateTransition, TerminateSignal, Consume
  <2>2. CloseChan => pump' = "exited"
    BY DEF CloseChan
  <2> QED BY <1>2, <2>1, <2>2, Zenon DEF ClosedLast
<1> QED BY <1>1, <1>2

LEMMA RelayedStep == GatewayInv /\ [Next]_vars => Relayed'
<1> SUFFICES ASSUME GatewayInv, [Next]_vars PROVE Relayed'
  OBVIOUS
<1> USE DEF GatewayInv, Positions, ClosedLast, Relayed, BeforeRun
<1>0. /\ received \in Nat /\ Len(consumed) \in Nat
      /\ Len(consumed) <= received
      /\ \A k \in 1 .. Len(consumed) : consumed[k] = k
      /\ chan = <<>> /\ pump \notin Holding => Len(consumed) = received
  BY ConsumedInOrder
<1>1. CASE CallerHalfCloses \/ CallerGone
  BY <1>1 DEF CallerHalfCloses, CallerGone, sessionVars
<1>2. CASE FirstIsStart \/ SetupFails \/ Dial
  BY <1>2 DEF FirstIsStart, SetupFails, Return, Dial, sessionVars
<1>3. CASE AttachSession
  BY <1>3 DEF AttachSession, Attach, AttachConnecting, AttachActive
<1>4. CASE Start
  BY <1>4 DEF Start, Run
<1>5. CASE Handler
  BY <1>5 DEF Handler, Select, CancelAgent, AwaitOutbound, Return, sessionVars
<1>6. CASE OutboundTake
  <2>1. Len(consumed') = Len(consumed) + 1
    <3>1. chan # <<>> /\ consumed' = Append(consumed, Head(chan))
      BY <1>6 DEF OutboundTake, Consume
    <3>2. consumed \in Seq(1 .. received) /\ Head(chan) \in 1 .. received
      BY <3>1, HeadTailProperties DEF SessionInv, SessionTypeOK
    <3> QED BY <3>1, <3>2, AppendProperties
  <2> QED BY <1>0, <1>6, <2>1, SMT DEF OutboundTake, Consume
<1>7. CASE OutboundSend
  <2>1. Len(sent) + 1 = Len(consumed) /\ Len(sent) \in Nat
    BY <1>7, LenProperties DEF OutboundSend
  <2>2. consumed[Len(consumed)] = Len(consumed)
    BY <1>0, <2>1, SMT
  <2>3. sent' = Append(sent, Len(sent) + 1)
    BY <1>7, <2>1, <2>2 DEF OutboundSend
  <2>4. /\ sent' \in Seq(Nat) /\ Len(sent') = Len(sent) + 1
        /\ sent'[Len(sent) + 1] = Len(sent) + 1
        /\ \A k \in 1 .. Len(sent) : sent'[k] = sent[k]
    BY <2>1, <2>3, AppendProperties
  <2>5. \A k \in 1 .. Len(sent') : sent'[k] = k
    <3>1. \A k \in 1 .. Len(sent') : k \in 1 .. Len(sent) \/ k = Len(sent) + 1
      BY <2>1, <2>4, SMT
    <3> QED BY <2>4, <3>1
  <2> QED BY <1>7, <2>1, <2>4, <2>5 DEF OutboundSend, sessionVars
<1>8. CASE OutboundFails
  <2>1. Len(sent) \in Nat
    BY LenProperties
  <2> QED BY <1>0, <1>8, <2>1, SMT DEF OutboundFails, CallerStreamUp, sessionVars
<1>9. CASE OutboundEnds
  <2>1. Len(sent) = received /\ Len(sent) = Len(consumed)
    BY <1>0, <1>9 DEF OutboundEnds, Holding
  <2> QED BY <1>0, <1>9, <2>1, SMT DEF OutboundEnds, sessionVars
<1>10. CASE EndSession \/ InboundSendFails \/ InboundRecvFails
  BY <1>10 DEF EndSession, InboundSendFails, InboundRecvFails, InboundReports,
              sessionVars
<1>11. CASE Engine
  BY <1>11 DEF Engine, gatewayVars, Recv, RecvAudio, RecvEOF, RecvError
<1>12. CASE Pump
  BY <1>12 DEF Pump, gatewayVars, PumpStep, CheckState, MarkResponding, ResetTimer,
               SendChunk, EndOfStream, StopTimer, SignalDone, CloseChan
<1>13. CASE Timer
  BY <1>13 DEF Timer, gatewayVars, TimerFires, Callback, CallbackChecks, CallbackSets
<1>14. CASE UNCHANGED vars
  BY <1>14 DEF vars, sessionVars, gatewayVars
<1> QED BY <1>1, <1>2, <1>3, <1>4, <1>5, <1>6, <1>7, <1>8, <1>9, <1>10, <1>11,
           <1>12, <1>13, <1>14 DEF Next, Setup, Outbound

LEMMA GatewayInvariant == Spec => []GatewayInv
<1>1. GatewayInv /\ [Next]_vars => GatewayInv'
  BY SessionInvStep, PositionsStep, FlagsStep, ClosedLastStep,
     RelayedStep DEF GatewayInv
<1> QED BY <1>1, GatewayInit, PTL DEF Spec

---------------------------------------------------------------------------
(* The theorems. *)

\* The handler's and the goroutines' positions, and the session under them.
THEOREM GatewayTypes == Spec => []TypeOK
<1>1. GatewayInv => TypeOK
  <2> SUFFICES ASSUME GatewayInv PROVE TypeOK
    OBVIOUS
  <2>1. sent \in Seq(1 .. received)
    <3>1. /\ received \in Nat /\ Len(consumed) \in Nat /\ Len(consumed) <= received
      BY ConsumedInOrder DEF GatewayInv
    <3>2. sent \in Seq(Nat) /\ Len(sent) \in Nat /\ \A k \in 1 .. Len(sent) : sent[k] = k
      BY LenProperties DEF GatewayInv, Relayed
    <3>3. Len(sent) <= received
      BY <3>1, <3>2, SMT DEF GatewayInv, Relayed, Positions
    <3>4. \A k \in 1 .. Len(sent) : sent[k] \in 1 .. received
      BY <3>1, <3>2, <3>3, SMT
    <3> DEFINE T == 1 .. received
    <3>5. \A k \in 1 .. Len(sent) : sent[k] \in T
      BY <3>4
    <3> HIDE DEF T
    <3>6. sent \in Seq(T)
      BY <3>2, <3>5, SeqMonotonic
    <3> QED BY <3>6 DEF T
  <2> QED BY <2>1 DEF GatewayInv, SessionInv, Positions, Flags, TypeOK
<1> QED BY <1>1, GatewayInvariant, PTL

\* The caller is sent what the engine sent, in order and without a gap.
THEOREM RelayKeepsOrder == Spec => []RelayedInOrder
<1>1. GatewayInv => RelayedInOrder
  <2> SUFFICES ASSUME GatewayInv PROVE RelayedInOrder
    OBVIOUS
  <2>1. sent \in Seq(Nat) /\ \A k \in 1 .. Len(sent) : sent[k] = k
    BY DEF GatewayInv, Relayed
  <2> QED BY <2>1, SMT DEF RelayedInOrder
<1> QED BY <1>1, GatewayInvariant, PTL

\* A caller that stays is sent every chunk before the handler returns.
THEOREM CallerHearsAll == Spec => []EngineHeardOut
<1>1. GatewayInv => EngineHeardOut
  BY DEF GatewayInv, Positions, Relayed, EngineHeardOut
<1> QED BY <1>1, GatewayInvariant, PTL

\* The session keeps, inside the gateway's call, all that its own specification
\* says of its steps.
THEOREM GatewayOwnsSession == Spec => SessionInit /\ [][SessionNext]_sessionVars
<1>1. Init => SessionInit
  BY DEF Init
<1> QED BY <1>1, StepOfSession, PTL DEF Spec
=============================================================================
