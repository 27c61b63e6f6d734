------------------------------ MODULE Session ------------------------------
(***************************************************************************)
(* The orchestrator's session (internal/session/session.go): the state     *)
(* that a mutex and a transition table guard, the readPump goroutine that  *)
(* moves chunks from the engine's stream into AgentAudioChan, and the      *)
(* responseIdle timer whose callback, in a goroutine of its own, takes the *)
(* session back from RESPONDING to ACTIVE.                                 *)
(*                                                                         *)
(* The mutex makes GetState and transitionTo atomic, each on its own: a    *)
(* caller that does both is two steps, and other goroutines run between.   *)
(* The n-th audio event received is chunk n.                               *)
(***************************************************************************)
EXTENDS Integers, Sequences

CONSTANTS
    ChanCap,        \* capacity of AgentAudioChan (100)
    Terminates,     \* whether another goroutine calls Terminate
    MaxChunks,      \* bound: audio events received
    MaxCallbacks    \* bound: timer callbacks at work at once

ASSUME SessionAssumption ==
    /\ ChanCap \in Nat \ {0}
    /\ Terminates \in BOOLEAN
    /\ MaxChunks \in Nat
    /\ MaxCallbacks \in Nat

VARIABLES
    state,
    pump,                \* readPump, from the session's creation to its exit
    received,            \* audio events received; the pump holds the last one
    recvEnd,             \* how Recv ended the pump's loop
    armed,               \* responseIdle is running
    checking, setting,   \* its callbacks: before GetState, before transitionTo
    chan, chanClosed,    \* AgentAudioChan
    doneClosed,          \* DoneChan
    terminating,         \* a Terminate call between its two halves
    consumed             \* chunks the reader of AgentAudioChan took

sessionVars == <<state, pump, received, recvEnd, armed, checking, setting,
                 chan, chanClosed, doneClosed, terminating, consumed>>

SessionState ==
    {"CREATED", "CONNECTING", "ACTIVE", "PROCESSING", "RESPONDING",
     "TERMINATED"}

validTransitions ==
    [CREATED    |-> {"CONNECTING"},
     CONNECTING |-> {"ACTIVE"},
     ACTIVE     |-> {"PROCESSING", "RESPONDING", "TERMINATED"},
     PROCESSING |-> {"RESPONDING", "TERMINATED"},
     RESPONDING |-> {"ACTIVE", "TERMINATED"},
     TERMINATED |-> {}]

Allowed(next) == next \in validTransitions[state]

\* transitionTo: an illegal transition is refused with an error, which every
\* caller but Attach and Terminate only logs.
TransitionUnchecked(next) == state' = next
TransitionTo(next) == state' = IF Allowed(next) THEN next ELSE state

\* The chunk in the pump's hand: received, and not yet in the channel.
Holding == {"check", "mark", "reset", "send"}
InHand == IF pump \in Holding THEN <<received>> ELSE <<>>

\* NewSession.
SessionInit ==
    /\ state = "CREATED"
    /\ pump = "new" /\ received = 0 /\ recvEnd = "none"
    /\ armed = FALSE /\ checking = 0 /\ setting = 0
    /\ chan = <<>> /\ chanClosed = FALSE /\ doneClosed = FALSE
    /\ terminating = FALSE /\ consumed = <<>>

---------------------------------------------------------------------------
(* Attach and Run. *)

AttachConnecting ==
    /\ pump = "new" /\ Allowed("CONNECTING")
    /\ TransitionTo("CONNECTING")
    /\ pump' = "connecting"
    /\ UNCHANGED <<received, recvEnd, armed, checking, setting, chan,
                   chanClosed, doneClosed, terminating, consumed>>

AttachActive ==
    /\ pump = "connecting" /\ Allowed("ACTIVE")
    /\ TransitionTo("ACTIVE")
    /\ pump' = "attached"
    /\ UNCHANGED <<received, recvEnd, armed, checking, setting, chan,
                   chanClosed, doneClosed, terminating, consumed>>

\* The owner starts readPump, which makes its timer and stops it at once.
Run ==
    /\ pump = "attached"
    /\ pump' = "recv"
    /\ UNCHANGED <<state, received, recvEnd, armed, checking, setting, chan,
                   chanClosed, doneClosed, terminating, consumed>>

---------------------------------------------------------------------------
(* readPump: what Recv returns.  An event without audio changes nothing. *)

RecvAudio ==
    /\ pump = "recv" /\ received < MaxChunks
    /\ pump' = "check" /\ received' = received + 1
    /\ UNCHANGED <<state, recvEnd, armed, checking, setting, chan, chanClosed,
                   doneClosed, terminating, consumed>>

RecvEOF ==
    /\ pump = "recv"
    /\ pump' = "eof" /\ recvEnd' = "eof"
    /\ UNCHANGED <<state, received, armed, checking, setting, chan,
                   chanClosed, doneClosed, terminating, consumed>>

\* Any other error returns at once, with no transition.
RecvError ==
    /\ pump = "recv"
    /\ pump' = "stop" /\ recvEnd' = "error"
    /\ UNCHANGED <<state, received, armed, checking, setting, chan,
                   chanClosed, doneClosed, terminating, consumed>>

---------------------------------------------------------------------------
(* handleAudioEvent. *)

CheckState ==
    /\ pump = "check"
    /\ pump' = IF state = "RESPONDING" THEN "reset" ELSE "mark"
    /\ UNCHANGED <<state, received, recvEnd, armed, checking, setting, chan,
                   chanClosed, doneClosed, terminating, consumed>>

MarkResponding ==
    /\ pump = "mark"
    /\ TransitionTo("RESPONDING")
    /\ pump' = "reset"
    /\ UNCHANGED <<received, recvEnd, armed, checking, setting, chan,
                   chanClosed, doneClosed, terminating, consumed>>

ResetForgotten ==
    /\ pump = "reset"
    /\ pump' = "send"
    /\ UNCHANGED <<state, received, recvEnd, armed, checking, setting, chan,
                   chanClosed, doneClosed, terminating, consumed>>
ResetTimer ==
    /\ pump = "reset"
    /\ armed' = TRUE
    /\ pump' = "send"
    /\ UNCHANGED <<state, received, recvEnd, checking, setting, chan,
                   chanClosed, doneClosed, terminating, consumed>>

SendUnbounded ==
    /\ pump = "send"
    /\ chan' = Append(chan, received)
    /\ pump' = "recv"
    /\ UNCHANGED <<state, received, recvEnd, armed, checking, setting,
                   chanClosed, doneClosed, terminating, consumed>>
SendOrDrop ==
    /\ pump = "send"
    /\ chan' = IF Len(chan) < ChanCap THEN Append(chan, received) ELSE chan
    /\ pump' = "recv"
    /\ UNCHANGED <<state, received, recvEnd, armed, checking, setting,
                   chanClosed, doneClosed, terminating, consumed>>
\* A send on AgentAudioChan blocks while the channel is full.
SendChunk ==
    /\ pump = "send" /\ Len(chan) < ChanCap
    /\ chan' = Append(chan, received)
    /\ pump' = "recv"
    /\ UNCHANGED <<state, received, recvEnd, armed, checking, setting,
                   chanClosed, doneClosed, terminating, consumed>>

---------------------------------------------------------------------------
(* The end of readPump: the EOF's transition, then the deferred calls, last *)
(* deferred first.                                                          *)

EndOfStreamSilent ==
    /\ pump = "eof"
    /\ pump' = "stop"
    /\ UNCHANGED <<state, received, recvEnd, armed, checking, setting, chan,
                   chanClosed, doneClosed, terminating, consumed>>
EndOfStream ==
    /\ pump = "eof"
    /\ TransitionTo("TERMINATED")
    /\ pump' = "stop"
    /\ UNCHANGED <<received, recvEnd, armed, checking, setting, chan,
                   chanClosed, doneClosed, terminating, consumed>>

StopTimer ==
    /\ pump = "stop"
    /\ armed' = FALSE
    /\ pump' = "signal"
    /\ UNCHANGED <<state, received, recvEnd, checking, setting, chan,
                   chanClosed, doneClosed, terminating, consumed>>

SignalDoneOnEOF ==
    /\ pump = "signal"
    /\ doneClosed' = (doneClosed \/ recvEnd = "eof")
    /\ pump' = "close"
    /\ UNCHANGED <<state, received, recvEnd, armed, checking, setting, chan,
                   chanClosed, terminating, consumed>>
SignalDone ==
    /\ pump = "signal"
    /\ doneClosed' = TRUE
    /\ pump' = "close"
    /\ UNCHANGED <<state, received, recvEnd, armed, checking, setting, chan,
                   chanClosed, terminating, consumed>>

CloseChan ==
    /\ pump = "close"
    /\ chanClosed' = TRUE
    /\ pump' = "exited"
    /\ UNCHANGED <<state, received, recvEnd, armed, checking, setting, chan,
                   doneClosed, terminating, consumed>>

---------------------------------------------------------------------------
(* responseIdle.  Reset and Stop do not wait for a callback already started. *)

TimerFires ==
    /\ armed /\ checking + setting < MaxCallbacks
    /\ armed' = FALSE /\ checking' = checking + 1
    /\ UNCHANGED <<state, pump, received, recvEnd, setting, chan, chanClosed,
                   doneClosed, terminating, consumed>>

CallbackChecks ==
    /\ checking > 0
    /\ checking' = checking - 1
    /\ setting' = IF state = "RESPONDING" THEN setting + 1 ELSE setting
    /\ UNCHANGED <<state, pump, received, recvEnd, armed, chan, chanClosed,
                   doneClosed, terminating, consumed>>

CallbackSets ==
    /\ setting > 0
    /\ setting' = setting - 1
    /\ TransitionTo("ACTIVE")
    /\ UNCHANGED <<pump, received, recvEnd, armed, checking, chan, chanClosed,
                   doneClosed, terminating, consumed>>

---------------------------------------------------------------------------
(* Terminate, from any goroutine, and the reader of AgentAudioChan. *)

\* Refused, and without any effect, where the table does not allow it.
TerminateTransition ==
    /\ Terminates /\ ~terminating /\ Allowed("TERMINATED")
    /\ TransitionTo("TERMINATED")
    /\ terminating' = TRUE
    /\ UNCHANGED <<pump, received, recvEnd, armed, checking, setting, chan,
                   chanClosed, doneClosed, consumed>>

TerminateSignal ==
    /\ terminating
    /\ doneClosed' = TRUE /\ terminating' = FALSE
    /\ UNCHANGED <<state, pump, received, recvEnd, armed, checking, setting,
                   chan, chanClosed, consumed>>

Consume ==
    /\ chan # <<>>
    /\ consumed' = Append(consumed, Head(chan))
    /\ chan' = Tail(chan)
    /\ UNCHANGED <<state, pump, received, recvEnd, armed, checking, setting,
                   chanClosed, doneClosed, terminating>>

Attach == AttachConnecting \/ AttachActive
Recv == RecvAudio \/ RecvEOF \/ RecvError
PumpStep ==
    \/ CheckState \/ MarkResponding \/ ResetTimer \/ SendChunk
    \/ EndOfStream \/ StopTimer \/ SignalDone \/ CloseChan
Callback == CallbackChecks \/ CallbackSets
Terminate == TerminateTransition \/ TerminateSignal

SessionNext ==
    \/ Attach \/ Run \/ Recv \/ PumpStep
    \/ TimerFires \/ Callback \/ Terminate \/ Consume

\* The goroutines run, the timer expires and the reader keeps reading.  When
\* the engine sends and whether it ever ends the stream is up to the engine.
SessionFairness ==
    /\ WF_sessionVars(PumpStep)
    /\ WF_sessionVars(TimerFires) /\ WF_sessionVars(Callback)
    /\ WF_sessionVars(TerminateSignal) /\ WF_sessionVars(Consume)

SessionSpec ==
    SessionInit /\ [][SessionNext]_sessionVars /\ SessionFairness

---------------------------------------------------------------------------
(* Properties. *)

PumpState ==
    {"new", "connecting", "attached", "recv", "eof", "stop", "signal",
     "close", "exited"} \cup Holding

\* The session's fields, its channels and its goroutines' positions.
SessionTypeOK ==
    /\ state \in SessionState
    /\ pump \in PumpState
    /\ received \in Nat
    /\ recvEnd \in {"none", "eof", "error"}
    /\ armed \in BOOLEAN
    /\ checking \in Nat /\ setting \in Nat
    /\ chan \in Seq(1 .. received) /\ Len(chan) <= ChanCap
    /\ chanClosed \in BOOLEAN /\ doneClosed \in BOOLEAN
    /\ terminating \in BOOLEAN
    /\ consumed \in Seq(1 .. received)

\* Nothing the engine sends is lost, repeated or reordered between its stream
\* and the reader, however full the channel gets and whatever the state says:
\* what was read, what is queued and what the pump holds is what it received.
Lossless ==
    consumed \o chan \o InHand = [n \in 1 .. received |-> n]

\* A session that ended stays ended: of the goroutines that still hold an
\* earlier reading of the state (a timer callback that saw RESPONDING, a pump
\* that saw something else) none can revive it.
TerminatedIsFinal ==
    [][state = "TERMINATED" => state' = "TERMINATED"]_sessionVars

\* When the engine closes the stream the session is TERMINATED before anyone
\* is told: before DoneChan and AgentAudioChan close, and for ever after.
EndOfStreamTerminates ==
    recvEnd = "eof" /\ pump \in {"stop", "signal", "close", "exited"} =>
        state = "TERMINATED"

\* A reply has an end: the session leaves RESPONDING when the engine falls
\* silent or closes, unless the stream broke, whichever of its timers'
\* callbacks race with the chunks.
RespondingEnds ==
    state = "RESPONDING" ~> state # "RESPONDING" \/ recvEnd = "error"

\* Whatever ends the stream, its readers are told: both channels close, and
\* the reader has had every chunk.
StreamEndIsTold ==
    recvEnd # "none" ~>
        /\ doneClosed /\ chanClosed
        /\ Len(consumed) = received

---------------------------------------------------------------------------
(* What the documents promise and the code does not do. *)

\* docs/qna.md: on the stream's "EOF or error" readPump "signals the transition
\* to TERMINATED".
PumpExitTerminates == pump = "exited" => state = "TERMINATED"

\* services/orchestrator-go/README.md: RESPONDING is "inference engine
\* streaming audio back".  While a chunk just received keeps the idle timer
\* running, the session is not ACTIVE; but a callback of the timer's previous
\* run that read RESPONDING before the chunk came writes ACTIVE after it.
FreshAudioResponds == armed /\ pump \in {"send", "recv"} => state # "ACTIVE"
=============================================================================
