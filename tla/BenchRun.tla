------------------------------- MODULE BenchRun -------------------------------
(***************************************************************************)
(* The whole of bench_latency.py: main runs the cold and the warm runs,    *)
(* each a fixed sequence of operations on the stack of services, the GPU   *)
(* sampler and the calls of BenchTurn.  The services are started anew for  *)
(* every cold repeat and every warm run; an operation may raise, and main  *)
(* then only stops the stack.  kill_tree gives a process ten seconds to    *)
(* end and forgets it: it may go on, come to listen, or end later.         *)
(***************************************************************************)
EXTENDS BenchTurn, FiniteSets

CONSTANTS
    Mode,                               \* args.mode
    ColdRepeats, WarmRuns, Passes,      \* args (5, 3, 5)
    ColdTurns, WarmupTurns, PassTurns,  \* utterances of a call (3, 2, 12)
    OldLogs                             \* tags of the logs that another run of
                                        \* the benchmark has left in args.out

\* Stack.start names a log after the repeat or the run it belongs to.
Tags == {"cold", "warm"} \X (Nat \ {0})

ASSUME RunAssumption ==
    /\ Mode \in {"warm", "cold", "all"}
    /\ ColdRepeats \in Nat /\ WarmRuns \in Nat /\ Passes \in Nat
    /\ ColdTurns \in Nat /\ WarmupTurns \in Nat /\ PassTurns \in Nat
    /\ OldLogs \subseteq Tags

VARIABLES
    pc,                 \* the operation main has come to
    step,               \* within Stack.start
    engine, gateway,    \* the stack's processes
    forgotten,          \* <<kind, listens>>: processes kill_tree left running
    tail,               \* [tag, file]: LogTail, and which file it has opened
    logs,               \* tags of the log files in args.out
    sampling,           \* whether nvidia-smi runs
    raised              \* history: an operation has raised

stackVars == <<engine, gateway, forgotten, tail, logs>>
runVars == <<pc, step, stackVars, sampling, raised>>
vars == <<turnVars, runVars>>

---------------------------------------------------------------------------
(* main, cold_run and warm_run as sequences of operations. *)

Op(name) == [name |-> name, tag |-> <<>>, turns |-> 0]
Start(kind, i) == [name |-> "stack.start", tag |-> <<kind, i>>, turns |-> 0]
RunCall(turns) == [name |-> "run_call", tag |-> <<>>, turns |-> turns]

\* The blocks Block(1), ..., Block(n), all of length len.
Repeated(Block(_), n, len) ==
    [k \in 1 .. n * len |-> Block((k - 1) \div len + 1)[1 + ((k - 1) % len)]]

ColdRepeat(r) ==
    <<Op("stack.stop"), Start("cold", r), RunCall(ColdTurns), Op("stack.stop")>>
ColdRun ==
    <<Op("build"), Op("sampler.start")>> \o Repeated(ColdRepeat, ColdRepeats, 4)
        \o <<Op("sampler.stop")>>
Pass(p) == <<RunCall(PassTurns)>>
WarmRun(i) ==
    <<Op("build"), Op("sampler.start"), Start("warm", i), RunCall(WarmupTurns)>>
        \o Repeated(Pass, Passes, 1) \o <<Op("sampler.stop"), Op("stack.stop")>>
Program ==
    (IF Mode \in {"cold", "all"} THEN ColdRun ELSE <<>>)
        \o (IF Mode \in {"warm", "all"}
            THEN Repeated(WarmRun, WarmRuns, Passes + 6) ELSE <<>>)

Ended == Len(Program) + 2          \* after the finally, at Len(Program) + 1
At(name) == pc <= Len(Program) /\ Program[pc].name = name

NoTail == [tag |-> <<>>, file |-> "none"]

Init ==
    /\ TurnInit
    /\ pc = 1 /\ step = "ports"
    /\ engine = "none" /\ gateway = "none" /\ forgotten = {}
    /\ tail = NoTail /\ logs = OldLogs
    /\ sampling = FALSE /\ raised = FALSE

Done == pc' = pc + 1 /\ UNCHANGED raised
Raise == pc' = Len(Program) + 1 /\ raised' = TRUE

Build ==
    /\ At("build") /\ (Done \/ Raise)
    /\ UNCHANGED <<turnVars, step, stackVars, sampling>>

SamplerStart ==
    /\ At("sampler.start")
    /\ \/ Done /\ sampling' = TRUE
       \/ Raise /\ UNCHANGED sampling
    /\ UNCHANGED <<turnVars, step, stackVars>>

\* nvidia-smi, unlike the services, is taken to end when it is killed.
SamplerStop ==
    /\ At("sampler.stop") /\ Done
    /\ sampling' = FALSE
    /\ UNCHANGED <<turnVars, step, stackVars>>

---------------------------------------------------------------------------
(* Stack.start and Stack.stop. *)

Tag == Program[pc].tag
Starting(s) == At("stack.start") /\ step = s
StartFails == Raise /\ step' = "ports"

\* port_open: the stack's own service listens, or one an earlier stop could not
\* kill does.  A port has at most one listener, who is taken to keep it.
Kinds == {"engine", "gateway"}
Own(kind) == IF kind = "engine" THEN engine ELSE gateway
PortOpen(kind) == Own(kind) = "listening" \/ <<kind, TRUE>> \in forgotten

\* Whatever else runs on the machine may hold a port as well.
CheckPortsNever ==
    /\ Starting("ports") /\ step' = "tail" /\ UNCHANGED <<pc, raised>>
    /\ UNCHANGED <<turnVars, stackVars, sampling>>
CheckPorts ==
    /\ Starting("ports")
    /\ \/ /\ \A kind \in Kinds : ~PortOpen(kind)
          /\ step' = "tail" /\ UNCHANGED <<pc, raised>>
       \/ StartFails
    /\ UNCHANGED <<turnVars, stackVars, sampling>>

StartTail ==
    /\ Starting("tail") /\ step' = "spawn"
    /\ tail' = [tag |-> Tag, file |-> "none"]
    /\ UNCHANGED <<turnVars, pc, engine, gateway, forgotten, logs, sampling,
                   raised>>

\* LogTail.run: the thread opens the log as soon as there is one, be it an old
\* one that Stack.start has yet to truncate.
OpenLog ==
    /\ tail # NoTail /\ tail.file = "none" /\ tail.tag \in logs
    /\ tail' = [tail EXCEPT !.file = IF Starting("spawn") THEN "old" ELSE "new"]
    /\ UNCHANGED <<turnVars, pc, step, engine, gateway, forgotten, logs,
                   sampling, raised>>

SpawnEngine ==
    /\ Starting("spawn") /\ logs' = logs \cup {Tag}
    /\ \/ step' = "wait" /\ engine' = "starting" /\ UNCHANGED <<pc, raised>>
       \/ StartFails /\ UNCHANGED engine
    /\ UNCHANGED <<turnVars, gateway, forgotten, tail, sampling>>

\* The engine prints its marker once it listens; it may also never come to it.
EngineListens ==
    /\ engine = "starting" /\ ~PortOpen("engine") /\ engine' = "listening"
    /\ UNCHANGED <<turnVars, pc, step, gateway, forgotten, tail, logs,
                   sampling, raised>>

\* wait_for the marker, for 180 s.
MarkerSeen ==
    \/ tail.file = "old"
    \/ tail.file = "new" /\ engine = "listening"
WaitForEngine ==
    /\ Starting("wait")
    /\ \/ MarkerSeen /\ step' = "gateway" /\ UNCHANGED <<pc, raised>>
       \/ StartFails
    /\ UNCHANGED <<turnVars, stackVars, sampling>>

SpawnGateway ==
    /\ Starting("gateway")
    /\ \/ step' = "listen" /\ gateway' = "starting" /\ UNCHANGED <<pc, raised>>
       \/ StartFails /\ UNCHANGED gateway
    /\ UNCHANGED <<turnVars, engine, forgotten, tail, logs, sampling>>

GatewayListens ==
    /\ gateway = "starting" /\ ~PortOpen("gateway") /\ gateway' = "listening"
    /\ UNCHANGED <<turnVars, pc, step, engine, forgotten, tail, logs,
                   sampling, raised>>

\* port_open, for 30 s, be it the gateway's or not.
WaitForGateway ==
    /\ Starting("listen")
    /\ \/ PortOpen("gateway") /\ Done /\ step' = "ports"
       \/ ~PortOpen("gateway") /\ StartFails
    /\ UNCHANGED <<turnVars, stackVars, sampling>>

\* kill_tree of both, and no more of the tail; what was in work is lost.
Running ==
    {<<kind, Own(kind) = "listening">> : kind \in {k \in Kinds : Own(k) # "none"}}
Stop ==
    /\ \E survivors \in SUBSET Running : forgotten' = forgotten \cup survivors
    /\ engine' = "none" /\ gateway' = "none" /\ tail' = NoTail
    /\ rx' = <<>> /\ benchQ' = <<>> /\ ttftPending' = 0
    /\ open' = 0 /\ replies' = <<>> /\ wire' = <<>> /\ log' = <<>>
    /\ call' = 0 /\ turn' = 0 /\ lastTurn' = 0 /\ failures' = 0
    /\ splits' = 0 /\ disturbed' = FALSE
    /\ UNCHANGED <<phase, late, stale, status, audioOf, benchEvents, parts,
                   overtaken>>

StackStop ==
    /\ At("stack.stop") /\ Stop /\ Done
    /\ UNCHANGED <<step, logs, sampling>>

\* main's finally.
Finally ==
    /\ pc = Len(Program) + 1 /\ Stop
    /\ pc' = Ended
    /\ UNCHANGED <<step, logs, sampling, raised>>

\* A survivor goes on as any service does: one that was starting may come to
\* listen, and is perhaps not the only one.
SurvivorListens ==
    /\ \E kind \in Kinds :
          /\ <<kind, FALSE>> \in forgotten /\ ~PortOpen(kind)
          /\ \E gone \in SUBSET {<<kind, FALSE>>} :
                forgotten' = (forgotten \ gone) \cup {<<kind, TRUE>>}
    /\ UNCHANGED <<turnVars, pc, step, engine, gateway, tail, logs, sampling,
                   raised>>

\* It may also end, and what an engine had in work ends with it.
SurvivorEnds ==
    /\ \E p \in forgotten :
          /\ forgotten' = forgotten \ {p}
          /\ IF p = <<"engine", TRUE>>
             THEN open' = 0 /\ replies' = <<>> /\ log' = <<>>
             ELSE UNCHANGED <<open, replies, log>>
    /\ UNCHANGED <<clientVars, rx, benchQ, ttftPending, wire, turnGhosts,
                   pc, step, engine, gateway, tail, logs, sampling, raised>>

---------------------------------------------------------------------------
(* The calls. *)

CallOpens ==
    /\ At("run_call") /\ CallBegins(Program[pc].turns)
    /\ UNCHANGED runVars

CallCloses ==
    /\ At("run_call") /\ Close /\ Done
    /\ UNCHANGED <<step, stackVars, sampling>>

TurnStep == RunTurn /\ UNCHANGED runVars
Deadline == DeadlinePasses /\ UNCHANGED runVars
AudioRead == Read /\ UNCHANGED runVars

\* A tail that has read of an old log misses the lines the new one has there,
\* and all the lines of a survivor, which has a log of its own.
LineRead ==
    /\ tail.file # "none" /\ engine = "listening"
    /\ HandleLine /\ UNCHANGED runVars
LineMissed ==
    /\ tail.file = "old" /\ log # <<>> /\ log' = Tail(log)
    /\ UNCHANGED <<clientVars, rx, benchQ, ttftPending, serverVars, wire,
                   turnGhosts, runVars>>

\* What hears and answers is the engine that listens, be it the stack's or not.
EngineStep ==
    /\ PortOpen("engine")
    /\ Engine
    /\ UNCHANGED <<pc, step, stackVars, sampling, raised>>

Main ==
    \/ Build \/ SamplerStart \/ SamplerStop
    \/ CheckPorts \/ StartTail \/ SpawnEngine \/ WaitForEngine
    \/ SpawnGateway \/ WaitForGateway \/ StackStop \/ Finally
    \/ CallOpens \/ TurnStep \/ CallCloses
Listeners == OpenLog \/ AudioRead \/ LineRead \/ LineMissed
Services ==
    \/ EngineListens \/ GatewayListens \/ EngineStep
    \/ SurvivorListens \/ SurvivorEnds

Next == Main \/ Deadline \/ Listeners \/ Services

\* As long as a thread of the program can go on, one of them does, and time
\* passes; the services owe nothing.
Fairness == WF_vars(Main \/ Listeners) /\ WF_vars(Deadline)
Spec == Init /\ [][Next]_vars /\ Fairness

---------------------------------------------------------------------------
(* Properties. *)

Phases == {"idle", "turn", "drain", "speak", "await", "awaitBench", "complete",
           "completeBench", "pause", "close"}
Turns == 0 .. turn
LogLine == [kind : {"TTFT", "BENCH"}, turn : Turns, audio : BOOLEAN]
BenchLine == [turn : Turns, audio : BOOLEAN, ttft : Turns]
Answer == [turn : Turns, call : Nat, token : BOOLEAN, put : 0 .. MaxReply]

TurnTypes ==
    /\ phase \in Phases /\ call \in Nat
    /\ lastTurn \in Nat /\ turn \in 0 .. lastTurn
    /\ failures \in 0 .. MaxConsecutiveFailures
    /\ late \in BOOLEAN /\ stale \in BOOLEAN
    /\ status \in {"ok", "no_response", "no_audio", "no_completion"}
    /\ audioOf \in Seq(Turns) /\ rx \in Seq(Turns) /\ wire \in Seq(Turns)
    /\ benchEvents \in Seq(BenchLine) /\ benchQ \in Seq(BenchLine)
    /\ log \in Seq(LogLine) /\ replies \in Seq(Answer)
    /\ ttftPending \in Turns /\ open \in Turns
    /\ parts \in Nat /\ splits \in 0 .. MaxSplits
    /\ overtaken \in BOOLEAN /\ disturbed \in BOOLEAN
StackTypes ==
    /\ pc \in 1 .. Ended
    /\ step \in {"ports", "tail", "spawn", "wait", "gateway", "listen"}
    /\ engine \in {"none", "starting", "listening"}
    /\ gateway \in {"none", "starting", "listening"}
    /\ forgotten \subseteq Kinds \X BOOLEAN
    /\ tail \in [tag : Tags \cup {<<>>}, file : {"none", "old", "new"}]
    /\ logs \subseteq Tags
    /\ sampling \in BOOLEAN /\ raised \in BOOLEAN

\* The types of the driver's locals, its queues, and the stack's handles; no
\* queue or line knows of a turn that has yet to begin.
TypeOK == TurnTypes /\ StackTypes

\* docs/benchmarks.md: "Statistics use turns with status ok only".  Such a turn
\* has timed the answer to its own speech, audio, server timers and TTFT alike,
\* as long as every turn before it on this stack was answered, if at all, as
\* one utterance and in time.  It has counted its whole reply unless the BENCH
\* line outran the audio.
OwnMeasurements ==
    phase = "pause" /\ Record.status = "ok" /\ ~disturbed /\ tail.file = "new" =>
        /\ \A k \in 1 .. Len(Record.audio) : Record.audio[k] = turn
        /\ Record.server # <<>>
        /\ Record.server[1].turn = turn /\ Record.server[1].ttft \in {0, turn}
        /\ parts = 1 =>
              /\ Record.server = <<[turn |-> turn, audio |-> TRUE, ttft |-> turn]>>
              /\ open = 0 /\ replies = <<>>
              /\ overtaken \/ ~OnItsWay(turn)

\* Every call is made to the services started for it, whatever earlier stops
\* failed to kill: port_open was true of this stack's gateway and of no
\* survivor, and behind it answers this stack's engine.  An engine that still
\* loaded when it was given up on may run beside the call, without the port.  An
\* old log of the same name is the exception: its marker may be taken for the
\* engine's, and then any engine may answer, or none.
\* However the program ends it leaves behind only what kill_tree gave up on,
\* and the GPU sampler when an operation has raised.
StackOwned ==
    /\ At("run_call") =>
          /\ gateway = "listening"
          /\ forgotten \subseteq {"engine"} \X BOOLEAN
          /\ tail.file # "old" =>
                engine = "listening" /\ <<"engine", TRUE>> \notin forgotten
    /\ pc = Ended =>
          /\ engine = "none" /\ gateway = "none" /\ tail = NoTail
          /\ sampling => raised

\* Every wait has a deadline: whatever the services do or fail to do, the
\* benchmark comes to its end, with its calls closed and the stack stopped.
RunEnds == <>[](pc = Ended /\ phase = "idle")
=============================================================================
