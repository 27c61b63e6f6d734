------------------------------ MODULE Gateway ------------------------------
(***************************************************************************)
(* One StreamAudio call of the gateway (internal/gateway/server.go): the   *)
(* handler, the goroutine that relays AgentAudioChan to the caller, the    *)
(* one that relays the caller's audio to the engine, and the Session they  *)
(* share, whose readPump is the fourth goroutine.  The handler is the      *)
(* session's owner; the outbound goroutine is the reader of its channel    *)
(* and has the chunk it took last in hand until Send returns.              *)
(*                                                                         *)
(* The caller is AetherRTC.  Its stream's context is the parent of the     *)
(* engine stream's, so losing the caller cancels the engine call too; a    *)
(* Recv on a cancelled stream may still return what was already received,  *)
(* and then fails.                                                         *)
(***************************************************************************)
EXTENDS Session

VARIABLES
    caller,          \* the caller's side of the stream
    handler,         \* StreamAudio
    outbound,        \* the outbound goroutine
    sent,            \* chunks sent to the caller
    inbound,         \* the inbound goroutine
    inboundErr,      \* whether the channel inboundErr has its value
    agentCancelled   \* whether agentCtx is cancelled

gatewayVars == <<caller, handler, outbound, sent, inbound, inboundErr,
                 agentCancelled>>
vars == <<sessionVars, gatewayVars>>

ASSUME GatewayAssumption == Terminates = FALSE

Init ==
    /\ SessionInit
    /\ caller = "open" /\ handler = "first"
    /\ outbound = "off" /\ sent = <<>> /\ inbound = "off" /\ inboundErr = FALSE
    /\ agentCancelled = FALSE

---------------------------------------------------------------------------
(* The caller. *)

CallerHalfCloses ==
    /\ caller = "open" /\ caller' = "halfclosed"
    /\ UNCHANGED <<sessionVars, handler, outbound, sent, inbound, inboundErr,
                   agentCancelled>>

\* A cancel, a deadline or a lost connection.
CallerGone ==
    /\ caller # "gone" /\ handler # "returned"
    /\ caller' = "gone" /\ agentCancelled' = TRUE
    /\ UNCHANGED <<sessionVars, handler, outbound, sent, inbound, inboundErr>>

---------------------------------------------------------------------------
(* StreamAudio up to its goroutines. *)

\* Every return runs the deferred cancelAgent.
Return ==
    /\ handler' = "returned" /\ agentCancelled' = TRUE

FirstIsStart ==
    /\ handler = "first" /\ caller = "open"
    /\ handler' = "dial"
    /\ UNCHANGED <<sessionVars, caller, outbound, sent, inbound, inboundErr,
                   agentCancelled>>

\* The first Recv fails, brings something else than START_SESSION, or the
\* engine's stream cannot be opened, or START_SESSION cannot be sent to it.
SetupFails ==
    /\ \/ handler = "first"
       \/ handler = "dial"
       \/ handler = "start"
    /\ Return
    /\ UNCHANGED <<sessionVars, caller, outbound, sent, inbound, inboundErr>>

Dial ==
    /\ handler = "dial"
    /\ handler' = "attach"
    /\ UNCHANGED <<sessionVars, caller, outbound, sent, inbound, inboundErr,
                   agentCancelled>>

AttachSession ==
    /\ handler = "attach"
    /\ Attach
    /\ handler' = IF pump' = "attached" THEN "start" ELSE "attach"
    /\ UNCHANGED <<caller, outbound, sent, inbound, inboundErr, agentCancelled>>

\* START_SESSION is sent and the three goroutines start.
Start ==
    /\ handler = "start"
    /\ Run
    /\ handler' = "select" /\ outbound' = "range" /\ inbound' = "recv"
    /\ UNCHANGED <<caller, sent, inboundErr, agentCancelled>>

---------------------------------------------------------------------------
(* StreamAudio's select and what follows it. *)

Select ==
    /\ handler = "select" /\ (doneClosed \/ inboundErr)
    /\ handler' = "cancel"
    /\ UNCHANGED <<sessionVars, caller, outbound, sent, inbound, inboundErr,
                   agentCancelled>>

CancelDeferredOnly ==
    /\ handler = "cancel"
    /\ handler' = "drain"
    /\ UNCHANGED <<sessionVars, caller, outbound, sent, inbound, inboundErr,
                   agentCancelled>>
CancelAgent ==
    /\ handler = "cancel"
    /\ handler' = "drain" /\ agentCancelled' = TRUE
    /\ UNCHANGED <<sessionVars, caller, outbound, sent, inbound, inboundErr>>

ReturnWithoutDraining ==
    /\ handler = "drain"
    /\ Return
    /\ UNCHANGED <<sessionVars, caller, outbound, sent, inbound, inboundErr>>
AwaitOutbound ==
    /\ handler = "drain" /\ outbound = "done"
    /\ Return
    /\ UNCHANGED <<sessionVars, caller, outbound, sent, inbound, inboundErr>>

---------------------------------------------------------------------------
(* The outbound goroutine. *)

OutboundTake ==
    /\ outbound = "range"
    /\ Consume
    /\ outbound' = "send"
    /\ UNCHANGED <<caller, handler, sent, inbound, inboundErr, agentCancelled>>

\* Send may still succeed on a stream that has just broken.
OutboundSend ==
    /\ outbound = "send" /\ handler # "returned"
    /\ sent' = Append(sent, consumed[Len(consumed)])
    /\ outbound' = "range"
    /\ UNCHANGED <<sessionVars, caller, handler, inbound, inboundErr,
                   agentCancelled>>

\* The caller's stream is usable until the caller is gone or the RPC is over.
CallerStreamUp == caller # "gone" /\ handler # "returned"

OutboundFailsGoesOn ==
    /\ outbound = "send" /\ ~CallerStreamUp
    /\ outbound' = "range"
    /\ UNCHANGED <<sessionVars, caller, handler, sent, inbound, inboundErr,
                   agentCancelled>>
\* A failed Send loses the chunk in hand and leaves the channel to fill.
OutboundFails ==
    /\ outbound = "send" /\ ~CallerStreamUp
    /\ outbound' = "done"
    /\ UNCHANGED <<sessionVars, caller, handler, sent, inbound, inboundErr,
                   agentCancelled>>

OutboundEnds ==
    /\ outbound = "range" /\ chan = <<>> /\ chanClosed
    /\ outbound' = "done"
    /\ UNCHANGED <<sessionVars, caller, handler, sent, inbound, inboundErr,
                   agentCancelled>>

---------------------------------------------------------------------------
(* The inbound goroutine.  Audio that SendAudio takes, and controls other   *)
(* than END_SESSION, leave it where it is.                                  *)

InboundReportsUnbuffered ==
    /\ handler = "select"
    /\ inbound' = "done" /\ inboundErr' = TRUE
    /\ UNCHANGED <<sessionVars, caller, handler, outbound, sent, agentCancelled>>
\* inboundErr has room for its one value, so the goroutine never waits for the
\* handler to take it.
InboundReports ==
    /\ inbound' = "done" /\ inboundErr' = TRUE
    /\ UNCHANGED <<sessionVars, caller, handler, outbound, sent, agentCancelled>>

EndSession ==
    /\ inbound = "recv" /\ caller = "open" /\ handler # "returned"
    /\ InboundReports

\* SendAudio fails: the engine's stream broke, ended or was cancelled.
InboundSendFails ==
    /\ inbound = "recv" /\ caller = "open" /\ handler # "returned"
    /\ InboundReports

\* Recv returns io.EOF, or the error of the caller's or a finished stream.
InboundRecvFails ==
    /\ inbound = "recv" /\ (caller # "open" \/ handler = "returned")
    /\ InboundReports

---------------------------------------------------------------------------

Setup == FirstIsStart \/ SetupFails \/ Dial \/ AttachSession \/ Start
Handler == Select \/ CancelAgent \/ AwaitOutbound
Outbound == OutboundTake \/ OutboundSend \/ OutboundFails \/ OutboundEnds
Engine == Recv /\ UNCHANGED gatewayVars
Pump == PumpStep /\ UNCHANGED gatewayVars
Timer == (TimerFires \/ Callback) /\ UNCHANGED gatewayVars
\* A cancelled Recv returns.
RecvCancelled == agentCancelled /\ RecvError /\ UNCHANGED gatewayVars

Next ==
    \/ CallerHalfCloses \/ CallerGone
    \/ Setup \/ Handler \/ Outbound
    \/ EndSession \/ InboundSendFails \/ InboundRecvFails
    \/ Engine \/ Pump \/ Timer

\* The handler's calls return once its caller has gone, its goroutines run and
\* a cancelled Recv fails.  The caller owes nothing but to read or to go: its
\* flow control is not modelled.
SetupReturns == caller # "open" /\ SetupFails
Fairness ==
    /\ WF_vars(SetupReturns) /\ WF_vars(Dial) /\ WF_vars(AttachSession)
    /\ WF_vars(Start) /\ WF_vars(Handler)
    /\ WF_vars(Outbound) /\ WF_vars(InboundRecvFails)
    /\ WF_vars(Pump) /\ WF_vars(Timer) /\ WF_vars(RecvCancelled)

Spec == Init /\ [][Next]_vars /\ Fairness

---------------------------------------------------------------------------
(* Properties. *)

\* The handler's and goroutines' positions beside the session's types.
TypeOK ==
    /\ SessionTypeOK
    /\ caller \in {"open", "halfclosed", "gone"}
    /\ handler \in {"first", "dial", "attach", "start", "select", "cancel",
                    "drain", "returned"}
    /\ outbound \in {"off", "range", "send", "done"}
    /\ sent \in Seq(1 .. received)
    /\ inbound \in {"off", "recv", "done"}
    /\ inboundErr \in BOOLEAN /\ agentCancelled \in BOOLEAN

\* What the caller is sent is what the engine sent, from the first chunk on and
\* without a gap, through the channel, the relay and every way to fail.
RelayedInOrder == sent = [n \in 1 .. Len(sent) |-> n]

\* A caller that stays hears the engine out: when the handler returns, with the
\* engine's stream at its end, every chunk received has been sent on, although
\* DoneChan told the handler before the channel was drained.
EngineHeardOut ==
    handler = "returned" /\ recvEnd # "none" /\ caller # "gone" =>
        Len(sent) = received

\* Hanging up, in any way and at any moment, and the engine's end all make the
\* handler return: it never waits for good on a relay that waits on the pump
\* that waits on the engine.
HandlerReturns ==
    (caller # "open" \/ inboundErr \/ recvEnd # "none") ~> handler = "returned"

\* When the handler has returned its goroutines end, save in one case: a pump
\* that found the channel full after the relay had given up on a lost caller.
PumpStuck == pump = "send" /\ Len(chan) = ChanCap /\ outbound = "done"
GoroutinesEnd ==
    /\ pump \in {"new", "connecting", "attached", "exited"}
    /\ outbound \in {"off", "done"} /\ inbound # "recv"
OnlyFullChannelLeaks == handler = "returned" ~> GoroutinesEnd \/ PumpStuck

---------------------------------------------------------------------------
(* What the documents promise and the code does not do. *)

\* docs/qna.md: closing the channels "naturally cascades to tear down the
\* session's goroutines".
NoGoroutineLeak == handler = "returned" ~> GoroutinesEnd
=============================================================================
