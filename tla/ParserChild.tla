------------------------------ MODULE ParserChild ------------------------------
(***************************************************************************)
(* One parser process and the promise that waits for it: analyzeWithCli of *)
(* apps/worker/src/engine.ts (host "local") and analyze of                 *)
(* apps/worker/src/hosted-main.ts (host "hosted").                         *)
(*                                                                         *)
(* The parser is a process group: the leader that was spawned and the      *)
(* processes it starts.  Timers, pipe data and the exit of the leader      *)
(* become callbacks in any order; Node reports `exit` without waiting for  *)
(* the data that is still in the pipes.                                    *)
(***************************************************************************)
EXTENDS Integers, Sequences, FiniteSets, FiniteSetsExt

CONSTANTS
    Helpers,     \* processes the leader may start
    Leader,
    NoReason,
    MaxChunks,   \* bound: the chunks a result is written in
    LocalLimit,  \* maxOutputBytes, in chunks and progress lines
    HostedLimit  \* MAX_RESULT_BYTES, in chunks

ASSUME ParserAssumption ==
    /\ MaxChunks \in Nat \ {0} /\ LocalLimit \in Nat /\ HostedLimit \in Nat
    /\ Leader \notin Helpers /\ NoReason \notin {"timeout", "cancelled", "output"}

VARIABLES
    host,      \* which of the two callers spawned it
    deaf,      \* processes that ignore SIGTERM
    alive,     \* processes of the group
    doomed,    \* those a signal is about to end
    code,      \* exit status of the leader: "none" until it ends
    exitSeen,  \* the exit callback has run
    size,      \* chunks the result will have
    written,   \* chunks written
    got,       \* chunks the data callback received
    phase,     \* milestones the parser has reached and written
    lines,     \* progress lines the stderr callback received
    reported,  \* reportedProgress, in thousandths
    ceiling,   \* phaseCeiling, in thousandths
    timers,    \* timers that are set
    terminal,  \* terminalError
    outcome,   \* how the promise settled
    cancelled  \* the job is not running any more

caller == <<reported, ceiling, timers, terminal, outcome>>
processGroup == <<alive, doomed, code, size, written, phase>>
parserVars == <<host, deaf, processGroup, exitSeen, got, lines, caller, cancelled>>

-----------------------------------------------------------------------------
Processes == Helpers \cup {Leader}

\* What the parser reports, and the list of milestones the worker expects, in
\* thousandths of an analysis.
Reports == <<40, 600, 620, 700, 780, 860, 960>>
Milestones == {140, 250, 620, 700, 780, 860, 960, 1000}

Scaled(progress) == 200 + (7 * progress) \div 10
NextMilestone(progress) == Min({m \in Milestones : m > progress})

ParserTypeOK ==
    /\ host \in {"local", "hosted"}
    /\ deaf \subseteq Processes /\ doomed \subseteq alive /\ alive \subseteq Processes
    /\ code \in {"none", "unspawned", "ok", "unattested", "bad"} /\ exitSeen \in BOOLEAN
    /\ size \in 1 .. MaxChunks /\ written \in 0 .. size /\ got \in 0 .. written
    /\ phase \in 0 .. Len(Reports) /\ lines \in 0 .. phase
    /\ reported \in 200 .. 900 /\ ceiling \in 200 .. 900
    /\ timers \subseteq {"timeout", "cancellation", "heartbeat", "forceKill"}
    /\ terminal \in {NoReason, "timeout", "cancelled", "output"}
    /\ outcome \in {"none", "down", "value", "timeout", "cancelled", "output",
                    "unspawned", "status", "invalid", "unattested"}
    /\ cancelled \in BOOLEAN

ParserInit ==
    /\ host \in {"local", "hosted"}
    /\ deaf \in SUBSET Processes
    /\ code \in {"none", "unspawned"}
    /\ alive = IF code = "none" THEN {Leader} ELSE {}
    /\ doomed = {} /\ exitSeen = FALSE
    /\ size \in 1 .. MaxChunks /\ written = 0 /\ got = 0
    /\ phase = 0 /\ lines = 0
    /\ reported = 200 /\ ceiling = 223
    /\ timers = IF host = "local" THEN {"timeout", "cancellation", "heartbeat"} ELSE {"timeout"}
    /\ terminal = NoReason /\ outcome = "none" /\ cancelled = FALSE

-----------------------------------------------------------------------------
(* The parser, and its surroundings *)

\* A process runs until a signal takes effect.
Running(p) == p \in alive \ doomed

\* Helpers are started to read the demo with; once told to end, none.
Fork(p) ==
    /\ Running(Leader) /\ p \in Helpers \ alive /\ phase = 0 /\ terminal = NoReason
    /\ alive' = alive \cup {p}
    /\ UNCHANGED <<host, deaf, doomed, code, size, written, phase, exitSeen, got, lines, caller, cancelled>>

Report ==
    /\ Running(Leader) /\ phase < Len(Reports)
    /\ phase' = phase + 1
    /\ UNCHANGED <<host, deaf, alive, doomed, code, size, written, exitSeen, got, lines, caller, cancelled>>

\* The result follows the last report.
Write ==
    /\ Running(Leader) /\ phase = Len(Reports) /\ written < size
    /\ written' = written + 1
    /\ UNCHANGED <<host, deaf, alive, doomed, code, size, phase, exitSeen, got, lines, caller, cancelled>>

\* It ends well when all is written, with a failure at any time, or killed.
Die(p) ==
    /\ p \in alive
    /\ IF p = Leader
       THEN code' \in {"bad"} \cup (IF written = size THEN {"ok", "unattested"} ELSE {})
       ELSE UNCHANGED code
    /\ alive' = alive \ {p} /\ doomed' = doomed \ {p}
    /\ UNCHANGED <<host, deaf, size, written, phase, exitSeen, got, lines, caller, cancelled>>

\* The reviewer cancels the job, or recovery takes it away.
Cancel ==
    /\ ~cancelled
    /\ cancelled' = TRUE
    /\ UNCHANGED <<host, deaf, processGroup, exitSeen, got, lines, caller>>

-----------------------------------------------------------------------------
(* finish and terminate *)

\* The first call settles the promise.
Finish(result) ==
    IF outcome # "none" THEN UNCHANGED <<outcome, timers>>
    ELSE outcome' = result /\ timers' = {}

SignalLeader(signal) ==
    doomed' = doomed \cup ({Leader} \cap IF signal = "KILL" THEN alive ELSE alive \ deaf)

\* process.kill(-pid, signal) reaches the whole group.
Signal(signal) == doomed' = doomed \cup IF signal = "KILL" THEN alive ELSE alive \ deaf

TerminateUnforced(reason) ==
    /\ terminal' = reason
    /\ Signal("TERM") /\ timers' = {}
    /\ UNCHANGED outcome

\* The worker asks first and settles when the leader is gone; the container
\* kills, and settles at once.
Terminate(reason) ==
    /\ terminal' = IF terminal = NoReason THEN reason ELSE terminal
    /\ IF host = "hosted" THEN Signal("KILL") /\ Finish(reason)
       ELSE IF terminal # NoReason THEN UNCHANGED <<doomed, timers, outcome>>
       ELSE Signal("TERM") /\ timers' = {"forceKill"} /\ UNCHANGED outcome

-----------------------------------------------------------------------------
(* Callbacks *)

Up == outcome # "down"

TimeoutFires ==
    /\ Up /\ "timeout" \in timers
    /\ Terminate("timeout")
    /\ UNCHANGED <<host, deaf, alive, code, size, written, phase, exitSeen, got, lines, reported, ceiling, cancelled>>

CancellationFires ==
    /\ Up /\ "cancellation" \in timers /\ cancelled
    /\ Terminate("cancelled")
    /\ UNCHANGED <<host, deaf, alive, code, size, written, phase, exitSeen, got, lines, reported, ceiling, cancelled>>

ForceKillFires ==
    /\ Up /\ "forceKill" \in timers
    /\ Signal("KILL") /\ timers' = timers \ {"forceKill"}
    /\ UNCHANGED <<host, deaf, alive, code, size, written, phase, exitSeen, got, lines,
                   reported, ceiling, terminal, outcome, cancelled>>

Beat == Min({ceiling, reported + 8})

\* context.progress throws for a job that is not running: nothing catches it
\* here, and the worker's process ends.
HeartbeatFires ==
    /\ Up /\ "heartbeat" \in timers /\ reported < ceiling
    /\ IF cancelled THEN outcome' = "down" /\ timers' = {} /\ UNCHANGED reported
       ELSE reported' = Beat /\ UNCHANGED <<outcome, timers>>
    /\ UNCHANGED <<host, deaf, processGroup, exitSeen, got, lines, ceiling, terminal, cancelled>>

\* terminate pauses both streams of the worker, for good.
Flowing == Up /\ (host = "local" => terminal = NoReason)

Received == IF host = "local" THEN got + lines ELSE got
Limit == IF host = "local" THEN LocalLimit ELSE HostedLimit

StdoutData ==
    /\ Flowing /\ got < written
    /\ got' = got + 1
    /\ IF Received + 1 > Limit THEN Terminate("output")
       ELSE UNCHANGED <<doomed, terminal, outcome, timers>>
    /\ UNCHANGED <<host, deaf, alive, code, size, written, phase, exitSeen, lines, reported, ceiling, cancelled>>

\* A progress line; the container only collects it.
StderrData ==
    /\ Flowing /\ lines < phase
    /\ lines' = lines + 1
    /\ IF host = "local" /\ Received + 1 > Limit
       THEN Terminate("output") /\ UNCHANGED <<reported, ceiling>>
       ELSE /\ UNCHANGED <<doomed, terminal, outcome, timers>>
            /\ IF host = "local"
               THEN /\ reported' = Max({reported, Scaled(Reports[lines + 1])})
                    /\ ceiling' = Min({900, Scaled(NextMilestone(Reports[lines + 1])) - 5})
               ELSE UNCHANGED <<reported, ceiling>>
    /\ UNCHANGED <<host, deaf, alive, code, size, written, phase, exitSeen, got, cancelled>>

SpawnError ==
    /\ Up /\ code = "unspawned" /\ ~exitSeen
    /\ exitSeen' = TRUE
    /\ Finish("unspawned")
    /\ UNCHANGED <<host, deaf, processGroup, got, lines, reported, ceiling, terminal, cancelled>>

VerdictByCode ==
    CASE code = "bad" -> "status"
      [] code # "bad" /\ got < size -> "invalid"
      [] OTHER -> IF code = "unattested" THEN "unattested" ELSE "value"

\* What is collected by the time of the exit is the result, whole or not.
Verdict ==
    CASE terminal # NoReason -> terminal
      [] terminal = NoReason /\ code = "bad" -> "status"
      [] terminal = NoReason /\ code # "bad" /\ got < size -> "invalid"
      [] OTHER -> IF code = "unattested" THEN "unattested" ELSE "value"

Exit ==
    /\ Up /\ code \in {"ok", "unattested", "bad"} /\ ~exitSeen
    /\ exitSeen' = TRUE
    /\ Finish(Verdict)
    /\ UNCHANGED <<host, deaf, processGroup, got, lines, reported, ceiling, terminal, cancelled>>

-----------------------------------------------------------------------------
Callbacks ==
    \/ TimeoutFires \/ CancellationFires \/ ForceKillFires \/ HeartbeatFires
    \/ StdoutData \/ StderrData \/ SpawnError \/ Exit

ParserNext ==
    \/ \E p \in Processes : Fork(p) \/ Die(p)
    \/ Report \/ Write \/ Cancel \/ Callbacks

\* Timers run out, exits are reported and signals take effect; the parser
\* itself may hang anywhere.
ParserFairness ==
    /\ WF_parserVars(TimeoutFires) /\ WF_parserVars(CancellationFires)
    /\ WF_parserVars(ForceKillFires) /\ WF_parserVars(SpawnError) /\ WF_parserVars(Exit)
    /\ \A p \in Processes : WF_parserVars(p \in doomed /\ Die(p))

ParserSpec == ParserInit /\ [][ParserNext]_parserVars /\ ParserFairness

-----------------------------------------------------------------------------
(* Properties *)

\* However the parser hangs, whatever it ignores: the promise settles, and the
\* queue goes on.  (A heartbeat that throws ends the process instead.)
ParserSettles == <>(outcome # "none")

\* An analysis that is handed on was written to its end by a parser that
\* ended well and that no timer had given up, and was received whole and within
\* the limit; for whatever mix of timers, data and exits.
ResultIsWhole ==
    outcome = "value" =>
        /\ code = "ok" /\ got = size /\ got <= Limit
        /\ terminal \notin {"timeout", "cancelled"}

\* A parser that was given up leaves no process running but those that ignore
\* SIGTERM in a group whose leader does not, and a settled promise no timer
\* (unless data that comes after the exit exceeds the limit: terminate then
\* signals a group that is gone).
NothingIsLeft ==
    outcome \notin {"none", "down"} =>
        /\ timers \subseteq (IF terminal = "output" THEN {"forceKill"} ELSE {})
        /\ terminal # NoReason =>
              alive \subseteq doomed \cup IF host = "local" THEN deaf \ {Leader} ELSE {}
=============================================================================
