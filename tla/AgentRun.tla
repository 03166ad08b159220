---- MODULE AgentRun ----
(***************************************************************************)
(* One run of the agent: the subprocess and its group, the coroutine that  *)
(* reads it (execution/runner.py ProcessRunner), those who cancel it from  *)
(* the worker's listeners, and what the adapters make of the lines it has  *)
(* printed (agent/adapter.py, agent/opencode_adapter.py).                  *)
(*                                                                         *)
(* A line is its kind and its place.  "text" is a text of the assistant,   *)
(* "odd" one with a character at which str.splitlines breaks it (U+2028),  *)
(* "result" the closing event (OpenCode: an error), "noise" what is no     *)
(* JSON - or the text of another event, of which the parsers make the same *)
(* -, "cut" a line that has no end.  A child of the agent (a tool's        *)
(* process) is in its group and holds its pipes.                           *)
(***************************************************************************)
EXTENDS Naturals, Sequences, FiniteSetsExt

CONSTANTS MaxLine,       \* lines the agent prints
          MaxKill        \* cancels of the listeners

ASSUME RunAssumption == MaxLine \in Nat /\ MaxKill \in Nat

VARIABLES leader, child,      \* the agent and the child that outlives it
          pipe, got,          \* lines printed and not read; stdout_chunks
          atRun,              \* the coroutine of run
          inTable,            \* the pid is in _active
          marked, userMark,   \* handle.cancelled; user_cancelled
          late,               \* timed_out
          adapter,            \* Cursor's; the same with on_progress, which keeps
                              \* last_assistant ("live"); OpenCode's
          atKill, kills, foreign,   \* a listener in cancel_pid; not through _active
          reply,              \* the AgentResult
          asked, hung         \* history: a listener marked the handle before the
                              \* timeout; the agent was still there at the timeout

runProcess == <<leader, child, pipe>>
runReader  == <<got, atRun, inTable, userMark, late>>
runKiller  == <<atKill, kills, foreign>>
runHistory == <<asked, hung>>
runVars    == <<runProcess, runReader, marked, adapter, runKiller, reply, runHistory>>

LineKinds == {"text", "odd", "result", "noise", "cut"}
Line == [kind : LineKinds, n : 1..MaxLine]
NoReply == [output |-> <<>>, cancelled |-> FALSE, late |-> FALSE, there |-> FALSE]

AgentRunTypeOK ==
    /\ leader \in {"none", "up", "gone"} /\ child \in {"none", "up", "gone"}
    /\ pipe \in Seq(Line) /\ got \in Seq(Line) /\ Len(pipe) + Len(got) <= MaxLine
    /\ atRun \in {"spawn", "starting", "reading", "killing", "pause", "reap", "done", "raised"}
    /\ inTable \in BOOLEAN /\ marked \in BOOLEAN /\ userMark \in BOOLEAN
    /\ late \in BOOLEAN /\ adapter \in {"cursor", "live", "opencode"}
    /\ atKill \in {"idle", "pause"} /\ kills \in 0..MaxKill /\ foreign \in BOOLEAN
    /\ reply.output \in Seq(Line)
    /\ reply.cancelled \in BOOLEAN /\ reply.late \in BOOLEAN /\ reply.there \in BOOLEAN
    /\ asked \in BOOLEAN /\ hung \in BOOLEAN

AgentRunInit ==
    /\ leader = "none" /\ child = "none" /\ pipe = <<>> /\ got = <<>>
    /\ atRun = "spawn" /\ inTable = FALSE
    /\ marked = FALSE /\ userMark = FALSE /\ late = FALSE
    /\ adapter \in {"cursor", "live", "opencode"}
    /\ atKill = "idle" /\ kills = 0 /\ foreign = FALSE
    /\ reply = NoReply /\ asked = FALSE /\ hung = FALSE
----
(* What the adapters read in the lines. *)

\* Mutant: the first text stays.
AbsorbMutant(parts, line) ==
    CASE line.kind = "text" -> IF parts = <<>> THEN <<line>> ELSE parts
      [] line.kind \in {"odd", "noise", "cut"} -> Append(parts, line)
      [] line.kind = "result" -> IF parts = <<>> THEN <<line>> ELSE parts

\* Cursor's _parse_stream_output splits what was printed once more: an
\* assistant's text replaces what there is; a line that is no JSON, like the
\* pieces of an odd one, and the texts of other events are added to it; a
\* result counts only alone.
Absorb(parts, line) ==
    CASE line.kind = "text" -> <<line>>
      [] line.kind \in {"odd", "noise", "cut"} -> Append(parts, line)
      [] line.kind = "result" -> IF parts = <<>> THEN <<line>> ELSE parts
Parsed(lines) ==
    LET parts[i \in 0..Len(lines)] == IF i = 0 THEN <<>> ELSE Absorb(parts[i - 1], lines[i])
    IN  parts[Len(lines)]

Of(lines, kinds)     == {i \in DOMAIN lines : lines[i].kind \in kinds}
LastOf(lines, kinds) == IF Of(lines, kinds) = {} THEN <<>> ELSE <<lines[Max(Of(lines, kinds))]>>
Spoken == {"text", "odd"}

\* run_prompt.  OpenCode's parser keeps the last text, or the last error.
\* StreamProgressHandler sees the lines as they are read.  On a timeout there
\* is no raw output to fall back on.
Output(lines, how, isLate) ==
    CASE how = "opencode" -> IF Of(lines, {"text"}) # {} THEN LastOf(lines, {"text"})
                             ELSE LastOf(lines, {"result"})
      [] how = "live" /\ Of(lines, Spoken) # {} -> LastOf(lines, Spoken)
      [] OTHER -> IF Parsed(lines) # <<>> \/ isLate THEN Parsed(lines) ELSE lines
----
(* The processes. *)

Group == {p \in {"leader", "child"} : IF p = "leader" THEN leader = "up" ELSE child = "up"}

AgentPrints(kind) ==
    /\ leader = "up" /\ Len(pipe) + Len(got) < MaxLine
    /\ ~\E i \in DOMAIN pipe : pipe[i].kind = "cut"
    /\ pipe' = Append(pipe, [kind |-> kind, n |-> Len(pipe) + Len(got) + 1])
    /\ UNCHANGED <<leader, child, runReader, marked, adapter, runKiller, reply, runHistory>>

ChildStarts ==
    /\ leader = "up" /\ child = "none"
    /\ child' = "up"
    /\ UNCHANGED <<leader, pipe, runReader, marked, adapter, runKiller, reply, runHistory>>

\* Each may end by itself; the loop reaps the leader as it ends.
LeaderEnds ==
    /\ leader = "up" /\ leader' = "gone"
    /\ UNCHANGED <<child, pipe, runReader, marked, adapter, runKiller, reply, runHistory>>

ChildEnds ==
    /\ child = "up" /\ child' = "gone"
    /\ UNCHANGED <<leader, pipe, runReader, marked, adapter, runKiller, reply, runHistory>>

\* killpg: without a leader there is no group to find (OSError).  SIGTERM ends
\* whom it ends, SIGKILL everybody.
Terminate == \E deaf \in SUBSET Group :
    /\ leader' = IF leader = "up" /\ "leader" \notin deaf THEN "gone" ELSE leader
    /\ child' = IF child = "up" /\ "child" \notin deaf THEN "gone" ELSE child
KillGroup == /\ leader' = "gone"
             /\ child' = IF child = "up" THEN "gone" ELSE child
----
(* run *)

Spawn ==
    /\ atRun = "spawn"
    /\ leader' = "up" /\ inTable' = TRUE
    /\ atRun' = "starting"
    /\ UNCHANGED <<child, pipe, got, userMark, late, marked, adapter, runKiller, reply, runHistory>>

\* on_process_start registers the turn and writes the pid; its errors leave run
\* before the try that would forget the handle.
OnStart(ok) ==
    /\ atRun = "starting"
    /\ atRun' = IF ok THEN "reading" ELSE "raised"
    /\ UNCHANGED <<runProcess, got, inTable, userMark, late, marked, adapter, runKiller, reply, runHistory>>

\* Mutant: the line stays in the buffer.
ReadLineMutant ==
    /\ atRun = "reading" /\ pipe # <<>> /\ Head(pipe).kind # "cut"
    /\ got' = Append(got, Head(pipe)) /\ UNCHANGED pipe
    /\ UNCHANGED <<leader, child, atRun, inTable, userMark, late, marked, adapter, runKiller, reply,
                   runHistory>>

\* A line that has its end is read as it comes, ...
ReadLine ==
    /\ atRun = "reading" /\ pipe # <<>> /\ Head(pipe).kind # "cut"
    /\ got' = Append(got, Head(pipe)) /\ pipe' = Tail(pipe)
    /\ UNCHANGED <<leader, child, atRun, inTable, userMark, late, marked, adapter, runKiller, reply,
                   runHistory>>

\* Mutant: a line is read before it has its end.
ReadRestMutant ==
    /\ atRun = "reading" /\ pipe # <<>> /\ Head(pipe).kind = "cut"
    /\ got' = Append(got, Head(pipe)) /\ pipe' = <<>>
    /\ UNCHANGED <<leader, child, atRun, inTable, userMark, late, marked, adapter, runKiller, reply,
                   runHistory>>

\* ... what is left without one only when nobody holds the pipe any more.
ReadRest ==
    /\ atRun = "reading" /\ leader = "gone" /\ child # "up"
    /\ pipe # <<>> /\ Head(pipe).kind = "cut"
    /\ got' = Append(got, Head(pipe)) /\ pipe' = <<>>
    /\ UNCHANGED <<leader, child, atRun, inTable, userMark, late, marked, adapter, runKiller, reply,
                   runHistory>>

\* Mutant: the mark on the handle, whoever made it.
ReportedCancelMutant(isLate) == marked

\* cancelled=user_cancelled if timed_out else handle.cancelled
ReportedCancel(isLate) == IF isLate THEN userMark ELSE marked

Report(isLate) ==
    /\ reply' = [output |-> Output(got, adapter, isLate), cancelled |-> ReportedCancel(isLate),
                 late |-> isLate, there |-> TRUE]
    /\ inTable' = FALSE /\ atRun' = "done"

AllRead ==
    /\ atRun = "reading" /\ leader = "gone" /\ child # "up" /\ pipe = <<>>
    /\ Report(FALSE)
    /\ UNCHANGED <<runProcess, got, userMark, late, marked, adapter, runKiller, runHistory>>

\* Mutant: only a live agent is timed out.
TimesOutMutant ==
    /\ atRun = "reading" /\ leader = "up"
    /\ late' = TRUE /\ userMark' = marked
    /\ hung' = (leader = "up")
    /\ atRun' = "killing"
    /\ UNCHANGED <<runProcess, got, inTable, marked, adapter, runKiller, reply, asked>>

TimesOut ==
    /\ atRun = "reading"
    /\ late' = TRUE /\ userMark' = marked
    /\ hung' = (leader = "up")
    /\ atRun' = "killing"
    /\ UNCHANGED <<runProcess, got, inTable, marked, adapter, runKiller, reply, asked>>

\* cancel: the handle is marked, the group told to end, ...
OwnTerminate ==
    /\ atRun = "killing"
    /\ marked' = TRUE
    /\ IF leader = "up" THEN Terminate /\ atRun' = "pause"
       ELSE atRun' = "reap" /\ UNCHANGED <<leader, child>>
    /\ UNCHANGED <<pipe, got, inTable, userMark, late, adapter, runKiller, reply, runHistory>>

\* Mutant: no second signal.
OwnKillMutant ==
    /\ atRun = "pause"
    /\ UNCHANGED <<leader, child>>
    /\ atRun' = "reap"
    /\ UNCHANGED <<pipe, got, inTable, userMark, late, marked, adapter, runKiller, reply, runHistory>>

\* ... and 0.15 s later killed, if the agent itself is still there.
OwnKill ==
    /\ atRun = "pause"
    /\ IF leader = "up" THEN KillGroup ELSE UNCHANGED <<leader, child>>
    /\ atRun' = "reap"
    /\ UNCHANGED <<pipe, got, inTable, userMark, late, marked, adapter, runKiller, reply, runHistory>>

\* _reap waits for 5 s at the most; then the return.
Reap ==
    /\ atRun = "reap"
    /\ Report(TRUE)
    /\ UNCHANGED <<runProcess, got, userMark, late, marked, adapter, runKiller, runHistory>>
----
(* cancel_pid, called by a listener or the shutdown.  Without a handle it asks *)
(* the system whether the pid is still there.                                  *)

ListenerTerminates ==
    /\ atKill = "idle" /\ kills < MaxKill /\ leader # "none"
    /\ kills' = kills + 1
    /\ foreign' = ~inTable
    /\ marked' = (marked \/ inTable)
    /\ asked' = (asked \/ (inTable /\ ~late))
    /\ IF leader = "up" THEN Terminate /\ atKill' = "pause"
       ELSE UNCHANGED <<leader, child, atKill>>
    /\ UNCHANGED <<pipe, runReader, adapter, reply, hung>>

\* A group without its leader is killed only if the pid was not in _active and
\* is still there, so in neither case.
ListenerKills ==
    /\ atKill = "pause"
    /\ IF leader = "up" THEN KillGroup ELSE UNCHANGED <<leader, child>>
    /\ atKill' = "idle"
    /\ UNCHANGED <<pipe, runReader, marked, adapter, kills, foreign, reply, runHistory>>

RunStep == \/ Spawn \/ ReadLine \/ ReadRest \/ AllRead \/ TimesOut
           \/ OwnTerminate \/ OwnKill \/ Reap
           \/ \E ok \in BOOLEAN : OnStart(ok)

AgentRunNext ==
    \/ RunStep \/ ChildStarts \/ LeaderEnds \/ ChildEnds
    \/ ListenerTerminates \/ ListenerKills
    \/ \E kind \in LineKinds : AgentPrints(kind)

AgentRunSpec == AgentRunInit /\ [][AgentRunNext]_runVars

\* The coroutine goes on, and the timeout is always set.
AgentRunFairness == WF_runVars(RunStep)
FairAgentRunSpec == AgentRunSpec /\ AgentRunFairness
----
(* Properties. *)

\* A timeout kills the agent too, but only a cancel somebody asked for before
\* it is reported as one: a turn that timed out is failed and told so, and not
\* ended silently as cancelled.
TimeoutIsNotCancel == reply.there /\ reply.cancelled => asked

\* An agent that was stopped by the timeout does not answer with half a JSON
\* object: the line the kill cut off is never shown.
NoTornAnswer == reply.there /\ reply.late /\ hung => \A i \in DOMAIN reply.output : reply.output[i].kind # "cut"

\* Whatever else was printed, the last text the assistant completed and the
\* reader has read is the answer, or begins it - unless that text is read from
\* the whole output and breaks there.
AnswerIsLast == LET said == Of(got, Spoken)
                IN  /\ reply.there /\ said # {}
                    /\ adapter = "live" \/ got[Max(said)].kind = "text"
                    => reply.output # <<>> /\ Head(reply.output) = got[Max(said)]

\* Also seen.  A last text with a separator of str.splitlines is not the answer:
\* Cursor's parser begins with what came before, OpenCode's has lost it.
AnswerIsLastAlways == LET said == Of(got, Spoken)
                      IN  reply.there /\ said # {} => reply.output # <<>> /\ Head(reply.output) = got[Max(said)]

\* When run returns the agent itself is gone: no turn is over while its agent
\* still works on the files.
LeaderIsGone == atRun = "done" => leader = "gone"

\* A run that has begun to read returns, whoever holds its pipes.
RunReturns == (atRun = "reading") ~> (atRun = "done")

\* Also seen.  A child that outlives the agent, or does not heed SIGTERM when
\* the agent does, is never killed.
GroupIsGone == atRun = "done" => child # "up"

\* Also seen.  A start that fails (the lease or the pid cannot be written)
\* leaves the agent running, and nobody reads or ends it.
StartFailureEndsAgent == atRun = "raised" => leader # "up"

\* Also seen.  Output that is not JSON is surfaced after a timeout as well.
LateIsClean == reply.there /\ reply.late => \A i \in DOMAIN reply.output : reply.output[i].kind # "noise"
====
