------------------------------ MODULE BenchTurn ------------------------------
(***************************************************************************)
(* How bench_latency.py measures a call: run_call speaks one utterance     *)
(* after the other into a gRPC stream, and run_turn times the answer from  *)
(* two sources that nothing synchronises, the audio the call's reader      *)
(* thread puts in rx and the BENCH lines LogTail finds in the engine's     *)
(* log.                                                                    *)
(*                                                                         *)
(* Turns are numbered through the life of a stack, and what the services   *)
(* make of a turn's speech carries its number.  The services are modelled  *)
(* from outside: the VAD may find no utterance in a turn's speech, or      *)
(* several, and each reply is chunks, or none, and then its BENCH line.    *)
(***************************************************************************)
EXTENDS Integers, Sequences

CONSTANTS
    MaxConsecutiveFailures,   \* args.max_consecutive_failures (1)
    MaxSplits,                \* bound: times the VAD cuts a turn's speech in two,
                              \* in all calls on one stack
    MaxReply                  \* bound: audio chunks of one reply, see MoreChunks

ASSUME TurnAssumption ==
    /\ MaxConsecutiveFailures \in Nat \ {0}
    /\ MaxSplits \in Nat /\ MaxReply \in Nat \ {0}

VARIABLES
    phase,          \* where run_call and run_turn are
    call, turn,     \* the call's number, and the turn's
    lastTurn,       \* the call's last turn
    failures,       \* consecutive_failures
    late,           \* whether the loop's deadline has passed
    stale,          \* whether the turn began with BENCH lines in bench_q
    status,
    audioOf,        \* the turns whose chunks this one has counted, in order
    benchEvents,
    rx, benchQ,
    ttftPending,    \* LogTail's: the turn whose TTFT line it read last, or 0
    open,           \* the turn whose speech the VAD holds, or 0
    replies,        \* utterances dispatched and not yet answered
    wire, log,      \* what the services have sent and nobody has read
    parts,          \* history: utterances begun in this turn's speech
    splits,         \* history: turns of the stack cut in two
    overtaken,      \* history: a BENCH line was taken before its reply's end
    disturbed       \* history: an earlier turn was not answered as one utterance

clientVars == <<phase, call, turn, lastTurn, failures, late, stale, status,
                audioOf, benchEvents>>
serverVars == <<open, replies>>
turnGhosts == <<parts, splits, overtaken, disturbed>>
turnVars == <<clientVars, rx, benchQ, ttftPending, serverVars, wire, log,
              turnGhosts>>

TurnInit ==
    /\ phase = "idle" /\ call = 0 /\ turn = 0 /\ lastTurn = 0 /\ failures = 0
    /\ late = FALSE /\ stale = FALSE /\ status = "no_response"
    /\ audioOf = <<>> /\ benchEvents = <<>>
    /\ rx = <<>> /\ benchQ = <<>> /\ ttftPending = 0
    /\ open = 0 /\ replies = <<>> /\ wire = <<>> /\ log = <<>>
    /\ parts = 0 /\ splits = 0 /\ overtaken = FALSE /\ disturbed = FALSE

---------------------------------------------------------------------------
(* The services, from outside: the VAD, a worker per call, the log.         *)

\* Frames reach the VAD while the client sends any.
Sending == phase \in {"speak", "await", "awaitBench", "pause"}

Boundary ==
    /\ open # 0 /\ Sending
    /\ replies' = Append(replies,
           [turn |-> open, call |-> call, token |-> FALSE, put |-> 0])
    /\ open' = 0
    /\ UNCHANGED <<clientVars, rx, benchQ, ttftPending, wire, log, turnGhosts>>

\* A call's worker answers one utterance at a time, and that of a call hung up
\* on may still be at it.
InWork(k) == \A j \in 1 .. k - 1 : replies[j].call # replies[k].call

FirstToken(k) ==
    /\ InWork(k) /\ ~replies[k].token
    /\ replies' = [replies EXCEPT ![k].token = TRUE]
    /\ log' = Append(log, [kind |-> "TTFT", turn |-> replies[k].turn, audio |-> FALSE])
    /\ UNCHANGED <<clientVars, rx, benchQ, ttftPending, open, wire, turnGhosts>>

\* Bound: once a turn of the stack was cut in two, its answers and the later
\* ones are one chunk at most.
MoreChunks(k) == replies[k].put < (IF splits = 0 THEN MaxReply ELSE 1)

\* The audio of a call hung up on is lost; its BENCH line still tells that there
\* was some.
PutChunk(k) ==
    /\ InWork(k) /\ replies[k].token
    /\ replies' = [replies EXCEPT ![k].put = @ + 1]
    /\ IF replies[k].call = call /\ phase # "idle"
       THEN MoreChunks(k) /\ wire' = Append(wire, replies[k].turn)
       ELSE replies[k].put = 0 /\ UNCHANGED wire
    /\ UNCHANGED <<clientVars, rx, benchQ, ttftPending, open, log, turnGhosts>>

Without(q, k) == SubSeq(q, 1, k - 1) \o SubSeq(q, k + 1, Len(q))
LogsBench(k) ==
    /\ InWork(k)
    /\ log' = Append(log, [kind |-> "BENCH", turn |-> replies[k].turn,
                           audio |-> replies[k].put > 0])
    /\ replies' = Without(replies, k)
    /\ UNCHANGED <<clientVars, rx, benchQ, ttftPending, open, wire, turnGhosts>>

---------------------------------------------------------------------------
(* The two threads that listen. *)

\* Call._read
Read ==
    /\ wire # <<>>
    /\ rx' = Append(rx, Head(wire)) /\ wire' = Tail(wire)
    /\ UNCHANGED <<clientVars, benchQ, ttftPending, serverVars, log, turnGhosts>>

\* LogTail._handle
HandleLine ==
    /\ log # <<>> /\ log' = Tail(log)
    /\ IF Head(log).kind = "TTFT"
       THEN ttftPending' = Head(log).turn /\ UNCHANGED benchQ
       ELSE /\ benchQ' = Append(benchQ, [turn |-> Head(log).turn,
                                         audio |-> Head(log).audio,
                                         ttft |-> ttftPending])
            /\ ttftPending' = 0
    /\ UNCHANGED <<clientVars, rx, serverVars, wire, turnGhosts>>

---------------------------------------------------------------------------
(* run_call and run_turn. *)

\* Call.__init__, for a call of n turns.
CallBegins(n) ==
    /\ phase = "idle"
    /\ phase' = "turn" /\ call' = call + 1 /\ lastTurn' = turn + n
    /\ failures' = 0
    /\ UNCHANGED <<turn, late, stale, status, audioOf, benchEvents, rx, benchQ,
                   ttftPending, serverVars, wire, log, turnGhosts>>

\* The loop over bench_q, then drain_rx.
DrainBench ==
    /\ phase = "turn" /\ turn < lastTurn
    /\ phase' = "drain" /\ turn' = turn + 1
    /\ stale' = (benchQ # <<>>) /\ benchQ' = <<>>
    /\ UNCHANGED <<call, lastTurn, failures, late, status, audioOf, benchEvents,
                   rx, ttftPending, serverVars, wire, log, turnGhosts>>

DrainRxNot ==
    /\ phase = "drain"
    /\ phase' = "speak"
    /\ UNCHANGED <<call, turn, lastTurn, failures, late, stale, status, audioOf,
                   benchEvents, rx, benchQ, ttftPending, serverVars, wire, log,
                   turnGhosts>>
DrainRx ==
    /\ phase = "drain"
    /\ phase' = "speak" /\ rx' = <<>>
    /\ UNCHANGED <<call, turn, lastTurn, failures, late, stale, status, audioOf,
                   benchEvents, benchQ, ttftPending, serverVars, wire, log,
                   turnGhosts>>

\* The frames of the utterance, in which the VAD hears speech.
Speak ==
    /\ phase = "speak" /\ open # turn /\ splits + parts <= MaxSplits
    /\ open' = turn /\ parts' = parts + 1
    /\ splits' = splits + parts
    /\ UNCHANGED <<clientVars, rx, benchQ, ttftPending, replies, wire, log,
                   overtaken, disturbed>>

SpeechEnds ==
    /\ phase = "speak" /\ phase' = "await"
    /\ UNCHANGED <<call, turn, lastTurn, failures, late, stale, status, audioOf,
                   benchEvents, rx, benchQ, ttftPending, serverVars, wire, log,
                   turnGhosts>>

DeadlineOfAwait ==
    /\ phase \in {"await", "awaitBench"}
    /\ ~late /\ late' = TRUE
    /\ UNCHANGED <<phase, call, turn, lastTurn, failures, stale, status, audioOf,
                   benchEvents, rx, benchQ, ttftPending, serverVars, wire, log,
                   turnGhosts>>
DeadlinePasses ==
    /\ phase \in {"await", "awaitBench", "complete", "completeBench"}
    /\ ~late /\ late' = TRUE
    /\ UNCHANGED <<phase, call, turn, lastTurn, failures, stale, status, audioOf,
                   benchEvents, rx, benchQ, ttftPending, serverVars, wire, log,
                   turnGhosts>>

\* One turn of the first loop, up to the answer's first chunk.
AwaitAudio ==
    /\ phase = "await"
    /\ \/ /\ late /\ phase' = "pause"
          /\ UNCHANGED <<late, status, audioOf, rx>>
       \/ /\ ~late /\ rx # <<>>
          /\ audioOf' = <<Head(rx)>> /\ rx' = Tail(rx)
          /\ status' = "ok" /\ late' = FALSE /\ phase' = "complete"
       \/ /\ ~late /\ rx = <<>> /\ phase' = "awaitBench"
          /\ UNCHANGED <<late, status, audioOf, rx>>
    /\ UNCHANGED <<call, turn, lastTurn, failures, stale, benchEvents, benchQ,
                   ttftPending, serverVars, wire, log, turnGhosts>>

\* A BENCH line is taken, the reply it is about perhaps not yet.
OnItsWay(t) == \E q \in {wire, rx} : \E k \in 1 .. Len(q) : q[k] = t
TakeBench ==
    /\ benchQ # <<>>
    /\ benchEvents' = Append(benchEvents, Head(benchQ)) /\ benchQ' = Tail(benchQ)
    /\ overtaken' = (overtaken \/ OnItsWay(Head(benchQ).turn))

AwaitBench ==
    /\ phase = "awaitBench"
    /\ \/ /\ TakeBench
          /\ IF Head(benchQ).audio
             THEN phase' = "await" /\ UNCHANGED status
             ELSE phase' = "pause" /\ status' = "no_audio"
       \/ /\ benchQ = <<>> /\ phase' = "await"
          /\ UNCHANGED <<status, benchEvents, benchQ, overtaken>>
    /\ UNCHANGED <<call, turn, lastTurn, failures, late, stale, audioOf, rx,
                   ttftPending, serverVars, wire, log, parts, splits, disturbed>>

\* One turn of the second loop, in which nothing is sent.
CompleteAudio ==
    /\ phase = "complete"
    /\ \/ /\ late /\ status' = "no_completion" /\ phase' = "pause"
          /\ UNCHANGED <<audioOf, rx>>
       \/ /\ ~late /\ phase' = "completeBench" /\ UNCHANGED status
          /\ IF rx = <<>> THEN UNCHANGED <<audioOf, rx>>
             ELSE audioOf' = Append(audioOf, Head(rx)) /\ rx' = Tail(rx)
    /\ UNCHANGED <<call, turn, lastTurn, failures, late, stale, benchEvents,
                   benchQ, ttftPending, serverVars, wire, log, turnGhosts>>

\* RESPONSE_QUIET_S counts from when the chunk taken last arrived, which says
\* nothing of the chunks still on their way.
CompleteBench ==
    /\ phase = "completeBench"
    /\ \/ TakeBench
       \/ benchQ = <<>> /\ UNCHANGED <<benchEvents, benchQ, overtaken>>
    /\ \/ phase' = "complete"
       \/ benchEvents' # <<>> /\ phase' = "pause"
    /\ UNCHANGED <<call, turn, lastTurn, failures, late, stale, status, audioOf,
                   rx, ttftPending, serverVars, wire, log, parts, splits, disturbed>>

\* The record's status.
FinalStatus ==
    CASE status = "ok" /\ Len(benchEvents) > 1 -> "split"
      [] status = "ok" /\ Len(benchEvents) <= 1 /\ stale -> "desync"
      [] OTHER -> status

\* What becomes of the turn's measurements: the times of the audio, and the
\* server's timers of the first BENCH line, its TTFT among them.
Record ==
    [status |-> FinalStatus, audio |-> audioOf,
     server |-> SubSeq(benchEvents, 1, IF benchEvents = <<>> THEN 0 ELSE 1)]

\* run_turn's locals are gone with it.
TurnForgotten ==
    /\ late' = FALSE /\ stale' = FALSE /\ status' = "no_response"
    /\ audioOf' = <<>> /\ benchEvents' = <<>>
    /\ parts' = 0 /\ overtaken' = FALSE

\* INTER_TURN_PAUSE_S of silence has been sent, a second in which everything
\* under way has arrived, and the turn is recorded.
PauseEndsLate ==
    /\ phase = "pause" /\ wire = <<>> /\ log = <<>>
    /\ failures' = IF Record.status \in {"ok", "split", "desync"}
                   THEN 0 ELSE failures + 1
    /\ phase' = IF failures' > MaxConsecutiveFailures THEN "close" ELSE "turn"
    /\ disturbed' = (disturbed \/ parts > 1 \/ (late /\ parts > 0))
    /\ TurnForgotten
    /\ UNCHANGED <<call, turn, lastTurn, rx, benchQ, ttftPending, serverVars,
                   wire, log, splits>>
PauseEnds ==
    /\ phase = "pause" /\ wire = <<>> /\ log = <<>>
    /\ failures' = IF Record.status \in {"ok", "split", "desync"}
                   THEN 0 ELSE failures + 1
    /\ phase' = IF failures' >= MaxConsecutiveFailures THEN "close" ELSE "turn"
    /\ disturbed' = (disturbed \/ parts > 1 \/ (late /\ parts > 0))
    /\ TurnForgotten
    /\ UNCHANGED <<call, turn, lastTurn, rx, benchQ, ttftPending, serverVars,
                   wire, log, splits>>

LastTurnDone ==
    /\ phase = "turn" /\ turn = lastTurn /\ phase' = "close"
    /\ UNCHANGED <<call, turn, lastTurn, failures, late, stale, status, audioOf,
                   benchEvents, rx, benchQ, ttftPending, serverVars, wire, log,
                   turnGhosts>>

\* Call.close, END_SESSION and the cancelled stream: no audio after it.
Close ==
    /\ phase = "close" /\ phase' = "idle"
    /\ open' = 0 /\ wire' = <<>> /\ rx' = <<>>
    /\ UNCHANGED <<call, turn, lastTurn, failures, late, stale, status, audioOf,
                   benchEvents, benchQ, ttftPending, replies, log, turnGhosts>>

Engine ==
    \/ Speak \/ Boundary
    \/ \E k \in 1 .. Len(replies) : FirstToken(k) \/ PutChunk(k) \/ LogsBench(k)
RunTurn ==
    \/ DrainBench \/ DrainRx \/ SpeechEnds
    \/ AwaitAudio \/ AwaitBench \/ CompleteAudio \/ CompleteBench
    \/ PauseEnds \/ LastTurnDone
=============================================================================
