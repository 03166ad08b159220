---- MODULE AgentTurn_proofs ----
(* Proofs about what a turn does beside its row: one run of the agent          *)
(* (AgentRun), for any number of lines and cancels, and the message that shows *)
(* it (LiveMessage), for any updates, chunks, refused calls and handlers.      *)
EXTENDS AgentRun, LiveMessage, NumberLemmas

(***************************************************************************)
(* The processes and the marks.                                            *)
(***************************************************************************)


(* What is kept about the processes and the marks. *)

MarkTypes ==
    /\ leader \in {"none", "up", "gone"} /\ child \in {"none", "up", "gone"}
    /\ atRun \in {"spawn", "starting", "reading", "killing", "pause", "reap", "done", "raised"}
    /\ inTable \in BOOLEAN /\ marked \in BOOLEAN /\ userMark \in BOOLEAN /\ late \in BOOLEAN
    /\ reply.cancelled \in BOOLEAN /\ reply.late \in BOOLEAN /\ reply.there \in BOOLEAN /\ asked \in BOOLEAN

\* The agent exists from the spawn on.
LeaderStarts == leader = "none" <=> atRun = "spawn"

\* The timeout passes once, and its own signal comes after it.
LateAfterTimeout == late <=> atRun \in {"killing", "pause", "reap"} \/ (atRun = "done" /\ reply.late)

\* Until the timeout only a listener marks the handle, and the timeout remembers it.
MarksWereAsked == /\ marked /\ ~late => asked
                  /\ userMark => asked

\* The group is not left before the agent is gone.
GoneWhenLeft == atRun \in {"reap", "done"} => leader = "gone"

RunInv == /\ MarkTypes /\ LeaderStarts /\ LateAfterTimeout /\ MarksWereAsked /\ GoneWhenLeft
          /\ TimeoutIsNotCancel

LEMMA RunInvInit == AgentRunInit => RunInv
<1> SUFFICES ASSUME AgentRunInit PROVE RunInv
  OBVIOUS
<1>1. /\ reply.cancelled = FALSE /\ reply.late = FALSE /\ reply.there = FALSE
      /\ atRun = "spawn" /\ late = FALSE
  BY DEF AgentRunInit, NoReply
<1> QED
  BY <1>1 DEF AgentRunInit, RunInv, MarkTypes, LeaderStarts, LateAfterTimeout, MarksWereAsked,
              GoneWhenLeft, TimeoutIsNotCancel

\* A signal ends those it ends, and never begins anything.
LEMMA SignalsEnd ==
  ASSUME leader \in {"none", "up", "gone"}, child \in {"none", "up", "gone"}, leader = "up",
         Terminate \/ KillGroup
  PROVE  leader' \in {"up", "gone"} /\ child' \in {"none", "up", "gone"}
  BY DEF Terminate, KillGroup

LEMMA RunInvNext == RunInv /\ [AgentRunNext]_runVars => RunInv'
<1> SUFFICES ASSUME RunInv, [AgentRunNext]_runVars PROVE RunInv'
  OBVIOUS
<1> USE DEF RunInv, MarkTypes, LeaderStarts, LateAfterTimeout, MarksWereAsked, GoneWhenLeft,
            TimeoutIsNotCancel, runProcess, runReader, runKiller, runHistory
<1>1. CASE UNCHANGED runVars
  BY <1>1 DEF runVars
<1>2. CASE Spawn
  BY <1>2 DEF Spawn
<1>3. CASE ReadLine \/ ReadRest
  BY <1>3 DEF ReadLine, ReadRest
<1>4. CASE AllRead \/ Reap
  <2>1. PICK isLate \in BOOLEAN :
           /\ reply'.cancelled = ReportedCancel(isLate) /\ reply'.late = isLate /\ reply'.there
           /\ isLate <=> late
           /\ inTable' = FALSE /\ atRun' = "done" /\ leader = "gone"
    <3>1. CASE AllRead
      <4>1. Report(FALSE) /\ late = FALSE /\ leader = "gone"
        BY <3>1 DEF AllRead
      <4> QED
        BY <4>1 DEF Report
    <3>2. CASE Reap
      <4>1. Report(TRUE) /\ late = TRUE /\ leader = "gone"
        BY <3>2 DEF Reap
      <4> QED
        BY <4>1 DEF Report
    <3> QED
      BY <1>4, <3>1, <3>2
  <2>2. UNCHANGED <<leader, child, userMark, late, marked, asked>>
    BY <1>4 DEF AllRead, Reap
  <2>3. reply'.cancelled \in BOOLEAN /\ (reply'.cancelled => asked)
    BY <2>1 DEF ReportedCancel
  <2> QED
    BY <2>1, <2>2, <2>3, ZenonT(60)
<1>5. CASE TimesOut
  BY <1>5 DEF TimesOut
<1>6. CASE OwnTerminate
  <2>1. CASE leader = "up"
    <3>1. leader' \in {"up", "gone"} /\ child' \in {"none", "up", "gone"}
      BY <1>6, <2>1, SignalsEnd DEF OwnTerminate
    <3> QED
      BY <1>6, <2>1, <3>1 DEF OwnTerminate
  <2>2. CASE leader # "up"
    BY <1>6, <2>2 DEF OwnTerminate
  <2> QED
    BY <2>1, <2>2
<1>7. CASE OwnKill
  BY <1>7 DEF OwnKill, KillGroup
<1>8. ASSUME NEW ok \in BOOLEAN, OnStart(ok) PROVE RunInv'
  BY <1>8 DEF OnStart
<1>9. CASE ChildStarts \/ ChildEnds \/ \E kind \in LineKinds : AgentPrints(kind)
  <2>1. /\ UNCHANGED <<leader, runReader, marked, runKiller, reply, runHistory>>
        /\ child' \in {"none", "up", "gone"}
    BY <1>9 DEF ChildStarts, ChildEnds, AgentPrints
  <2> QED
    BY <2>1
<1>10. CASE LeaderEnds
  BY <1>10 DEF LeaderEnds
<1>11. CASE ListenerTerminates
  <2>1. CASE leader = "up"
    <3>1. leader' \in {"up", "gone"} /\ child' \in {"none", "up", "gone"}
      BY <1>11, <2>1, SignalsEnd DEF ListenerTerminates
    <3> QED
      BY <1>11, <2>1, <3>1 DEF ListenerTerminates
  <2>2. CASE leader # "up"
    BY <1>11, <2>2 DEF ListenerTerminates
  <2> QED
    BY <2>1, <2>2
<1>12. CASE ListenerKills
  BY <1>12 DEF ListenerKills, KillGroup
<1> QED
  BY <1>1, <1>2, <1>3, <1>4, <1>5, <1>6, <1>7, <1>8, <1>9, <1>10, <1>11, <1>12
  DEF AgentRunNext, RunStep

\* A run that timed out is reported as cancelled only if a listener asked for it
\* before the timeout's own kill (ProcessRunner.run, cancel).
THEOREM CancelWasMeant == AgentRunSpec => []TimeoutIsNotCancel
<1>1. RunInv => TimeoutIsNotCancel
  BY DEF RunInv
<1> QED
  BY RunInvInit, RunInvNext, <1>1, PTL DEF AgentRunSpec

\* When run returns the agent's own process is gone, whoever signalled it, and
\* whether or not it heeds SIGTERM.
THEOREM LeaderGone == AgentRunSpec => []LeaderIsGone
<1>1. RunInv => LeaderIsGone
  BY DEF RunInv, GoneWhenLeft, LeaderIsGone
<1> QED
  BY RunInvInit, RunInvNext, <1>1, PTL DEF AgentRunSpec

(***************************************************************************)
(* What the adapters make of the lines.                                    *)
(***************************************************************************)

\* The parts after each line, up to line n.
IsParts(p, lines, n) ==
    p = [i \in 0..n |-> IF i = 0 THEN <<>> ELSE Absorb(p[i - 1], lines[i])]

LEMMA AbsorbsLine ==
  ASSUME NEW parts \in Seq(Line), NEW line \in Line
  PROVE  /\ Absorb(parts, line) \in Seq(Line)
         /\ Absorb(parts, line) \in {<<line>>, Append(parts, line), parts}
         /\ line.kind = "text" => Absorb(parts, line) = <<line>>
         /\ line.kind # "text" /\ parts # <<>>
              => Absorb(parts, line) \in {Append(parts, line), parts}
<1>1. <<line>> \in Seq(Line) /\ Append(parts, line) \in Seq(Line)
  OBVIOUS
<1>2. line.kind \in LineKinds
  BY DEF Line
<1>3. CASE line.kind = "text"
  BY <1>1, <1>3 DEF Absorb
<1>4. CASE line.kind \in {"odd", "noise", "cut"}
  BY <1>1, <1>4 DEF Absorb
<1>5. CASE line.kind = "result"
  BY <1>1, <1>5 DEF Absorb
<1> QED
  BY <1>2, <1>3, <1>4, <1>5 DEF LineKinds

\* The loop ends, whatever it reads.
LEMMA PartsExist ==
  ASSUME NEW lines, NEW m \in Nat PROVE \E p : IsParts(p, lines, m)
<1> DEFINE P == {n \in Nat : \E p : IsParts(p, lines, n)}
<1>1. 0 \in P
  <2>1. 0..0 = {0}
    OBVIOUS
  <2>2. IsParts([i \in {0} |-> <<>>], lines, 0)
    BY <2>1 DEF IsParts
  <2> QED
    BY <2>2
<1>2. ASSUME NEW n \in Nat, n \in P PROVE n + 1 \in P
  <2>1. PICK p : IsParts(p, lines, n)
    BY <1>2
  <2> DEFINE q == [i \in 0..n + 1 |-> IF i = n + 1 THEN Absorb(p[n], lines[n + 1]) ELSE p[i]]
  <2>2. ASSUME NEW i \in 0..n + 1 PROVE q[i] = IF i = 0 THEN <<>> ELSE Absorb(q[i - 1], lines[i])
    <3>1. CASE i = n + 1
      <4>1. q[i] = Absorb(p[n], lines[i]) /\ i # 0 /\ i - 1 = n /\ n \in 0..n + 1 /\ n # n + 1
        BY <3>1
      <4>2. q[i - 1] = p[n]
        BY <4>1
      <4> QED
        BY <4>1, <4>2
    <3>2. CASE i \in 0..n
      <4>1. q[i] = p[i]
        BY <3>2
      <4>2. p[i] = IF i = 0 THEN <<>> ELSE Absorb(p[i - 1], lines[i])
        BY <2>1, <3>2 DEF IsParts
      <4>3. i # 0 => q[i - 1] = p[i - 1]
        <5>1. i # 0 => i - 1 \in 0..n + 1 /\ i - 1 # n + 1
          BY <3>2
        <5> QED
          BY <5>1
      <4> QED
        BY <4>1, <4>2, <4>3
    <3>3. i = n + 1 \/ i \in 0..n
      OBVIOUS
    <3> QED
      BY <3>1, <3>2, <3>3
  <2>3. q = [i \in 0..n + 1 |-> q[i]]
    OBVIOUS
  <2> HIDE DEF q
  <2>4. IsParts(q, lines, n + 1)
    BY <2>2, <2>3 DEF IsParts
  <2> QED
    BY <2>4
<1> HIDE DEF P
<1>3. P \in SUBSET Nat
  BY DEF P
<1>4. P = Nat
  BY <1>1, <1>2, <1>3, EveryNumber
<1> QED
  BY <1>4 DEF P

LEMMA ParsedIsLast ==
  ASSUME NEW lines \in Seq(Line)
  PROVE  \E p : IsParts(p, lines, Len(lines)) /\ Parsed(lines) = p[Len(lines)]
<1> DEFINE p == CHOOSE p : IsParts(p, lines, Len(lines))
<1>1. Len(lines) \in Nat
  OBVIOUS
<1>2. IsParts(p, lines, Len(lines))
  BY <1>1, PartsExist
<1>3. Parsed(lines) = p[Len(lines)]
  BY DEF Parsed, IsParts
<1> QED
  BY <1>2, <1>3

\* What the parts after line i hold: lines read before, and first of them the last
\* text of the assistant that is one line, if there is one.
Told(lines) == Of(lines, {"text"})
Latest(lines, i, k) == /\ k \in Told(lines) /\ k <= i
                       /\ \A j \in Told(lines) : j <= i => j <= k
ComesFrom(parts, lines) == \A j \in DOMAIN parts : \E k \in DOMAIN lines : parts[j] = lines[k]
PartsHold(parts, lines, i) ==
    /\ parts \in Seq(Line) /\ ComesFrom(parts, lines)
    /\ \A k \in Told(lines) : Latest(lines, i, k) => parts # <<>> /\ parts[1] = lines[k]

LEMMA OneMoreLine ==
  ASSUME NEW lines \in Seq(Line), NEW parts, NEW i \in 1..Len(lines), PartsHold(parts, lines, i - 1)
  PROVE  PartsHold(Absorb(parts, lines[i]), lines, i)
<1> DEFINE new == Absorb(parts, lines[i])
<1>1. lines[i] \in Line /\ i \in DOMAIN lines /\ DOMAIN lines = 1..Len(lines)
  OBVIOUS
<1>2. parts \in Seq(Line)
  BY DEF PartsHold, ComesFrom
<1>3. /\ new \in Seq(Line) /\ new \in {<<lines[i]>>, Append(parts, lines[i]), parts}
      /\ lines[i].kind = "text" => new = <<lines[i]>>
      /\ lines[i].kind # "text" /\ parts # <<>> => new \in {Append(parts, lines[i]), parts}
  BY <1>1, <1>2, AbsorbsLine
<1> HIDE DEF new
<1>4. \A j \in DOMAIN new : \E k \in DOMAIN lines : new[j] = lines[k]
  <2>1. CASE new = <<lines[i]>>
    BY <1>1, <2>1
  <2>2. CASE new = Append(parts, lines[i])
    <3>1. \A j \in DOMAIN new : new[j] = lines[i] \/ (j \in DOMAIN parts /\ new[j] = parts[j])
      BY <1>2, <2>2
    <3> QED
      BY <1>1, <3>1 DEF PartsHold, ComesFrom
  <2>3. CASE new = parts
    BY <2>3 DEF PartsHold, ComesFrom
  <2> QED
    BY <1>3, <2>1, <2>2, <2>3
<1>5. ASSUME NEW k \in Told(lines), Latest(lines, i, k) PROVE new # <<>> /\ new[1] = lines[k]
  <2>1. CASE lines[i].kind = "text"
    <3>1. i \in Told(lines)
      BY <1>1, <2>1 DEF Told, Of
    <3>2. k = i
      <4>1. i <= k /\ k <= i /\ k \in DOMAIN lines
        BY <1>5, <3>1 DEF Latest, Told, Of
      <4> QED
        BY <1>1, <4>1
    <3>3. new = <<lines[i]>>
      BY <1>3, <2>1
    <3>4. new # <<>> /\ new[1] = lines[i]
      BY <1>1, <3>3
    <3> QED
      BY <3>2, <3>4
  <2>2. CASE lines[i].kind # "text"
    <3>1. i \notin Told(lines)
      BY <2>2 DEF Told, Of
    <3>2. Latest(lines, i - 1, k)
      <4>1. \A j \in Told(lines) : j \in 1..Len(lines) /\ j # i
        BY <1>1, <3>1 DEF Told, Of
      <4>2. k \in Told(lines) /\ k <= i /\ \A j \in Told(lines) : j <= i => j <= k
        BY <1>5 DEF Latest
      <4>3. k <= i - 1
        BY <4>1, <4>2
      <4>4. ASSUME NEW j \in Told(lines), j <= i - 1 PROVE j <= k
        BY <4>1, <4>2, <4>4
      <4> QED
        BY <4>3, <4>4 DEF Latest
    <3>3. parts # <<>> /\ parts[1] = lines[k]
      BY <3>2 DEF PartsHold, ComesFrom
    <3>4. new \in {Append(parts, lines[i]), parts}
      BY <1>3, <2>2, <3>3
    <3> QED
      BY <1>1, <1>2, <3>3, <3>4, SMTT(60)
  <2> QED
    BY <2>1, <2>2
<1> QED
  BY <1>3, <1>4, <1>5 DEF PartsHold, ComesFrom, new

\* _parse_stream_output, for every output: the parts come from the lines, and the
\* first is the last text of the assistant that is one line, if there was one.
LEMMA ParsedHolds == ASSUME NEW lines \in Seq(Line) PROVE PartsHold(Parsed(lines), lines, Len(lines))
<1>1. PICK p : IsParts(p, lines, Len(lines)) /\ Parsed(lines) = p[Len(lines)]
  BY ParsedIsLast
<1>2. Len(lines) \in Nat
  OBVIOUS
<1> DEFINE P == {i \in Nat : i <= Len(lines) => PartsHold(p[i], lines, i)}
<1>3. 0 \in P
  <2>1. p[0] = <<>>
    <3>1. 0 \in 0..Len(lines)
      BY <1>2
    <3> QED
      BY <1>1, <3>1 DEF IsParts
  <2>2. \A k \in Told(lines) : ~(k <= 0)
    BY DEF Told, Of
  <2>3. <<>> \in Seq(Line) /\ DOMAIN <<>> = {}
    OBVIOUS
  <2>4. PartsHold(p[0], lines, 0)
    BY <2>1, <2>2, <2>3 DEF PartsHold, ComesFrom, Latest
  <2> QED
    BY <2>4
<1>4. ASSUME NEW i \in Nat, i \in P PROVE i + 1 \in P
  <2> SUFFICES ASSUME i + 1 <= Len(lines) PROVE PartsHold(p[i + 1], lines, i + 1)
    OBVIOUS
  <2>1. i + 1 \in 1..Len(lines) /\ (i + 1) - 1 = i /\ i <= Len(lines) /\ i + 1 \in 0..Len(lines) /\ i + 1 # 0
    BY <1>2
  <2>2. p[i + 1] = Absorb(p[i], lines[i + 1])
    BY <1>1, <2>1 DEF IsParts
  <2>3. PartsHold(p[i], lines, (i + 1) - 1)
    BY <1>4, <2>1
  <2> QED
    BY <2>1, <2>2, <2>3, OneMoreLine
<1>5. P \in SUBSET Nat
  OBVIOUS
<1> HIDE DEF P
<1>6. P = Nat
  BY <1>3, <1>4, <1>5, EveryNumber
<1> QED
  BY <1>1, <1>2, <1>6 DEF P

\* The last line of some kinds is the one with the greatest place.
LEMMA LastIsMax ==
  ASSUME NEW lines \in Seq(Line), NEW kinds, Of(lines, kinds) # {}
  PROVE  Max(Of(lines, kinds)) \in Of(lines, kinds) /\ \A k \in Of(lines, kinds) : k <= Max(Of(lines, kinds))
<1>1. Len(lines) \in Nat /\ DOMAIN lines = 1..Len(lines)
  OBVIOUS
<1>2. Of(lines, kinds) \in SUBSET (0..Len(lines))
  BY <1>1 DEF Of
<1>3. \E x \in Of(lines, kinds) : \A y \in Of(lines, kinds) : x >= y
  BY <1>1, <1>2, GreatestNumber
<1>4. Max(Of(lines, kinds)) \in Of(lines, kinds) /\ \A y \in Of(lines, kinds) : Max(Of(lines, kinds)) >= y
  BY <1>3 DEF Max
<1> QED
  BY <1>2, <1>4

LEMMA LastOfHolds ==
  ASSUME NEW lines \in Seq(Line), NEW kinds
  PROVE  /\ LastOf(lines, kinds) \in Seq(Line) /\ ComesFrom(LastOf(lines, kinds), lines)
         /\ Of(lines, kinds) # {} => /\ LastOf(lines, kinds) # <<>>
                                     /\ Head(LastOf(lines, kinds)) = lines[Max(Of(lines, kinds))]
<1> DEFINE last == Max(Of(lines, kinds))
<1>1. CASE Of(lines, kinds) = {}
  <2>1. LastOf(lines, kinds) = <<>>
    BY <1>1 DEF LastOf
  <2> QED
    BY <1>1, <2>1 DEF ComesFrom
<1>2. CASE Of(lines, kinds) # {}
  <2>1. LastOf(lines, kinds) = <<lines[last]>>
    BY <1>2 DEF LastOf
  <2>2. last \in DOMAIN lines
    BY <1>2, LastIsMax DEF Of
  <2>3. lines[last] \in Line
    BY <2>2
  <2> HIDE DEF last
  <2> QED
    BY <2>1, <2>2, <2>3 DEF last, ComesFrom
<1> QED
  BY <1>1, <1>2

\* A last text that is one line is the last of those.
LEMMA SpokenIsTold ==
  ASSUME NEW lines \in Seq(Line), Of(lines, Spoken) # {}, lines[Max(Of(lines, Spoken))].kind = "text"
  PROVE  /\ Told(lines) # {} /\ Max(Told(lines)) = Max(Of(lines, Spoken))
         /\ Latest(lines, Len(lines), Max(Of(lines, Spoken)))
<1> DEFINE last == Max(Of(lines, Spoken))
<1>1. last \in Of(lines, Spoken) /\ \A k \in Of(lines, Spoken) : k <= last
  BY LastIsMax
<1>2. Told(lines) \subseteq Of(lines, Spoken) /\ Of(lines, Spoken) \subseteq 1..Len(lines) /\ Len(lines) \in Nat
  BY DEF Told, Of, Spoken
<1>3. last \in Told(lines)
  BY <1>1 DEF Told, Of
<1>4. Max(Told(lines)) \in Told(lines) /\ \A k \in Told(lines) : k <= Max(Told(lines))
  BY <1>3, LastIsMax DEF Told
<1> HIDE DEF last
<1>5. Max(Told(lines)) = last
  <2>1. Max(Told(lines)) <= last /\ last <= Max(Told(lines))
    BY <1>1, <1>2, <1>3, <1>4
  <2>2. Max(Told(lines)) \in 1..Len(lines) /\ last \in 1..Len(lines)
    BY <1>1, <1>2, <1>4
  <2> QED
    BY <2>1, <2>2
<1>6. last <= Len(lines)
  BY <1>1, <1>2
<1> QED
  BY <1>1, <1>2, <1>3, <1>5, <1>6 DEF last, Latest

\* What a run answers with, for every output.
LEMMA OutputHolds ==
  ASSUME NEW lines \in Seq(Line), NEW how, NEW isLate
  PROVE  /\ Output(lines, how, isLate) \in Seq(Line)
         /\ ComesFrom(Output(lines, how, isLate), lines)
         /\ /\ Of(lines, Spoken) # {}
            /\ how = "live" \/ lines[Max(Of(lines, Spoken))].kind = "text"
            => /\ Output(lines, how, isLate) # <<>>
               /\ Head(Output(lines, how, isLate)) = lines[Max(Of(lines, Spoken))]
<1> DEFINE out == Output(lines, how, isLate)
           last == Max(Of(lines, Spoken))
           good == Of(lines, Spoken) # {} /\ (how = "live" \/ lines[last].kind = "text")
<1>1. PartsHold(Parsed(lines), lines, Len(lines))
  BY ParsedHolds
<1>2. CASE how = "opencode"
  <2>1. out = IF Told(lines) # {} THEN LastOf(lines, {"text"}) ELSE LastOf(lines, {"result"})
    BY <1>2 DEF Output, Told
  <2>2. out \in Seq(Line) /\ ComesFrom(out, lines)
    BY <2>1, LastOfHolds
  <2>3. ASSUME good PROVE out # <<>> /\ Head(out) = lines[last]
    <3>1. Told(lines) # {} /\ Max(Told(lines)) = last
      BY <1>2, <2>3, SpokenIsTold
    <3> QED
      BY <2>1, <3>1, LastOfHolds DEF Told
  <2> QED
    BY <2>2, <2>3
<1>3. CASE how = "live" /\ Of(lines, Spoken) # {}
  <2>1. out = LastOf(lines, Spoken)
    BY <1>3 DEF Output
  <2> QED
    BY <1>3, <2>1, LastOfHolds
<1>4. CASE how # "opencode" /\ ~(how = "live" /\ Of(lines, Spoken) # {})
  <2>1. out = IF Parsed(lines) # <<>> \/ isLate THEN Parsed(lines) ELSE lines
    BY <1>4 DEF Output
  <2>2. out \in Seq(Line) /\ ComesFrom(out, lines)
    BY <1>1, <2>1 DEF PartsHold, ComesFrom
  <2>3. ASSUME good PROVE out # <<>> /\ Head(out) = lines[last]
    <3>1. Told(lines) # {} /\ Max(Told(lines)) = last /\ Latest(lines, Len(lines), last)
      BY <1>4, <2>3, SpokenIsTold
    <3>2. Parsed(lines) # <<>> /\ Parsed(lines)[1] = lines[last]
      BY <1>1, <3>1 DEF PartsHold, Latest
    <3> QED
      BY <1>1, <2>1, <3>2 DEF PartsHold
  <2> QED
    BY <2>2, <2>3
<1> HIDE DEF out
<1> QED
  BY <1>2, <1>3, <1>4 DEF out

(* What is read, and what the answer is made of. *)

LinesTyped == /\ pipe \in Seq(Line) /\ got \in Seq(Line) /\ Len(pipe) + Len(got) <= MaxLine
              /\ adapter \in {"cursor", "live", "opencode"} /\ hung \in BOOLEAN /\ foreign \in BOOLEAN
              /\ atKill \in {"idle", "pause"} /\ kills \in 0..MaxKill
              /\ reply.output \in Seq(Line)

\* The answer is made once, of everything that was read.
AnswerOfLines == reply.there => atRun = "done" /\ reply.output = Output(got, adapter, reply.late)

\* A line without an end is read only when the agent is gone before the timeout.
CutAtEnd == /\ leader # "gone" \/ hung => \A i \in DOMAIN got : got[i].kind # "cut"
            /\ hung => late

ReadInv == RunInv /\ LinesTyped /\ AnswerOfLines /\ CutAtEnd

LEMMA ReadInit == AgentRunInit => ReadInv
<1> SUFFICES ASSUME AgentRunInit PROVE ReadInv
  OBVIOUS
<1>1. /\ pipe = <<>> /\ got = <<>> /\ reply.output = <<>> /\ reply.there = FALSE /\ hung = FALSE
      /\ adapter \in {"cursor", "live", "opencode"} /\ foreign = FALSE /\ atKill = "idle" /\ kills = 0
  BY DEF AgentRunInit, NoReply
<1>2. <<>> \in Seq(Line) /\ Len(<<>>) + Len(<<>>) <= MaxLine /\ 0 \in 0..MaxKill /\ DOMAIN <<>> = {}
  BY RunAssumption
<1> QED
  BY <1>1, <1>2, RunInvInit DEF ReadInv, LinesTyped, AnswerOfLines, CutAtEnd

\* The agent prints one line more.
LEMMA PrintsLine ==
  ASSUME LinesTyped, NEW kind \in LineKinds, AgentPrints(kind)
  PROVE  pipe' \in Seq(Line) /\ Len(pipe') + Len(got) <= MaxLine
<1> DEFINE line == [kind |-> kind, n |-> Len(pipe) + Len(got) + 1]
<1>1. Len(pipe) \in Nat /\ Len(got) \in Nat /\ MaxLine \in Nat /\ pipe \in Seq(Line)
  BY RunAssumption DEF LinesTyped
<1>2. Len(pipe) + Len(got) < MaxLine /\ pipe' = Append(pipe, line)
  BY DEF AgentPrints
<1>3. Len(pipe) + Len(got) + 1 \in 1..MaxLine
  BY <1>1, <1>2
<1>4. line \in Line
  BY <1>3 DEF Line
<1> HIDE DEF line
<1>5. pipe' \in Seq(Line) /\ Len(pipe') = Len(pipe) + 1
  BY <1>1, <1>2, <1>4
<1> QED
  BY <1>1, <1>2, <1>5

\* The reader takes a line from the pipe, or what is left of it.
LEMMA TakesLine ==
  ASSUME LinesTyped, ReadLine \/ ReadRest
  PROVE  /\ pipe' \in Seq(Line) /\ got' \in Seq(Line) /\ Len(pipe') + Len(got') <= MaxLine
         /\ ReadLine /\ (\A i \in DOMAIN got : got[i].kind # "cut") => \A i \in DOMAIN got' : got'[i].kind # "cut"
<1>1. /\ pipe \in Seq(Line) /\ got \in Seq(Line) /\ Len(pipe) \in Nat /\ Len(got) \in Nat
      /\ Len(pipe) + Len(got) <= MaxLine /\ MaxLine \in Nat
  BY RunAssumption DEF LinesTyped
<1>2. pipe # <<>> /\ got' = Append(got, Head(pipe)) /\ (pipe' = Tail(pipe) \/ pipe' = <<>>)
  BY DEF ReadLine, ReadRest
<1>3. Len(pipe) > 0 /\ Head(pipe) \in Line
  BY <1>1, <1>2
<1>4. got' \in Seq(Line) /\ Len(got') = Len(got) + 1
  BY <1>1, <1>2, <1>3
<1>5. pipe' \in Seq(Line) /\ Len(pipe') <= Len(pipe) - 1
  <2>1. Tail(pipe) \in Seq(Line) /\ Len(Tail(pipe)) = Len(pipe) - 1
    BY <1>1, <1>2
  <2>2. <<>> \in Seq(Line) /\ Len(<<>>) = 0
    OBVIOUS
  <2>3. CASE pipe' = Tail(pipe)
    BY <1>1, <2>1, <2>3
  <2>4. CASE pipe' = <<>>
    BY <1>1, <1>3, <2>2, <2>4
  <2> QED
    BY <1>2, <2>3, <2>4
<1>6. Len(pipe') + Len(got') <= MaxLine
  <2>1. Len(pipe') \in Nat /\ Len(got') \in Nat
    BY <1>4, <1>5
  <2> QED
    BY <1>1, <1>4, <1>5, <2>1
<1>7. ASSUME ReadLine, \A i \in DOMAIN got : got[i].kind # "cut", NEW i \in DOMAIN got'
      PROVE  got'[i].kind # "cut"
  <2>1. Head(pipe).kind # "cut"
    BY <1>7 DEF ReadLine
  <2>2. got'[i] = Head(pipe) \/ (i \in DOMAIN got /\ got'[i] = got[i])
    BY <1>1, <1>2, <1>3, <1>7
  <2> QED
    BY <1>7, <2>1, <2>2
<1> QED
  BY <1>4, <1>5, <1>6, <1>7

\* The end of a run.
LEMMA MakesAnswer ==
  ASSUME ReadInv, NEW isLate \in BOOLEAN, Report(isLate), UNCHANGED <<got, adapter>>
  PROVE  reply'.output \in Seq(Line) /\ AnswerOfLines'
<1>1. /\ reply'.output = Output(got, adapter, isLate) /\ reply'.late = isLate /\ reply'.there
      /\ atRun' = "done"
  BY DEF Report
<1>2. got \in Seq(Line)
  BY DEF ReadInv, LinesTyped
<1> QED
  BY <1>1, <1>2, OutputHolds DEF AnswerOfLines

LEMMA ReadNext == ReadInv /\ [AgentRunNext]_runVars => ReadInv'
<1> SUFFICES ASSUME ReadInv, [AgentRunNext]_runVars PROVE ReadInv'
  OBVIOUS
<1>1. RunInv /\ RunInv' /\ LinesTyped /\ AnswerOfLines /\ CutAtEnd
  BY RunInvNext DEF ReadInv
<1>2. MarkTypes /\ LeaderStarts /\ LateAfterTimeout
  BY <1>1 DEF RunInv
<1>3. CASE UNCHANGED runVars
  <2>1. UNCHANGED <<leader, child, pipe, got, atRun, late, marked, adapter, atKill, kills, foreign, reply, hung>>
    BY <1>3 DEF runVars, runProcess, runReader, runKiller, runHistory
  <2> QED
    BY <1>1, <2>1 DEF ReadInv, LinesTyped, AnswerOfLines, CutAtEnd
<1>4. ASSUME NEW kind \in LineKinds, AgentPrints(kind) PROVE ReadInv'
  <2>1. UNCHANGED <<leader, got, atRun, late, adapter, atKill, kills, foreign, reply, hung>>
    BY <1>4 DEF AgentPrints, runReader, runKiller, runHistory
  <2> QED
    BY <1>1, <1>4, <2>1, PrintsLine DEF ReadInv, LinesTyped, AnswerOfLines, CutAtEnd
<1>5. CASE ReadLine \/ ReadRest
  <2>1. UNCHANGED <<leader, atRun, late, adapter, atKill, kills, foreign, reply, hung>> /\ atRun = "reading"
    BY <1>5 DEF ReadLine, ReadRest, runKiller, runHistory
  <2>2. LinesTyped'
    BY <1>1, <1>5, <2>1, TakesLine DEF LinesTyped
  <2>3. CutAtEnd'
    <3>1. ~hung
      BY <1>1, <1>2, <2>1 DEF CutAtEnd, LateAfterTimeout
    <3>2. CASE ReadLine
      BY <1>1, <2>1, <3>1, <3>2, TakesLine DEF CutAtEnd
    <3>3. CASE ReadRest
      BY <2>1, <3>1, <3>3 DEF CutAtEnd, ReadRest
    <3> QED
      BY <1>5, <3>2, <3>3
  <2>4. AnswerOfLines'
    BY <1>1, <2>1 DEF AnswerOfLines
  <2> QED
    BY <1>1, <2>2, <2>3, <2>4 DEF ReadInv
<1>6. CASE AllRead \/ Reap
  <2>1. UNCHANGED <<leader, pipe, got, late, adapter, atKill, kills, foreign, hung>>
    BY <1>6 DEF AllRead, Reap, runProcess, runKiller, runHistory
  <2>2. \E isLate \in BOOLEAN : Report(isLate)
    BY <1>6 DEF AllRead, Reap
  <2>3. reply'.output \in Seq(Line) /\ AnswerOfLines'
    BY <2>1, <2>2, MakesAnswer
  <2> QED
    BY <1>1, <2>1, <2>3 DEF ReadInv, LinesTyped, CutAtEnd
<1>7. CASE TimesOut
  <2>1. UNCHANGED <<leader, pipe, got, adapter, atKill, kills, foreign, reply>>
    BY <1>7 DEF TimesOut, runProcess, runKiller
  <2>2. late' = TRUE /\ hung' = (leader = "up") /\ atRun = "reading"
    BY <1>7 DEF TimesOut
  <2> QED
    BY <1>1, <2>1, <2>2 DEF ReadInv, LinesTyped, AnswerOfLines, CutAtEnd
<1>8. CASE Spawn \/ \E ok \in BOOLEAN : OnStart(ok)
  <2>1. UNCHANGED <<pipe, got, late, adapter, atKill, kills, foreign, reply, hung>>
    BY <1>8 DEF Spawn, OnStart, runProcess, runKiller, runHistory
  <2>2. (leader' = leader \/ leader = "none") /\ atRun # "done"
    BY <1>2, <1>8 DEF Spawn, OnStart, runProcess, LeaderStarts
  <2> QED
    BY <1>1, <2>1, <2>2 DEF ReadInv, LinesTyped, AnswerOfLines, CutAtEnd
<1>9. CASE OwnTerminate \/ OwnKill \/ LeaderEnds \/ ChildStarts \/ ChildEnds
  <2>1. UNCHANGED <<pipe, got, late, adapter, atKill, kills, foreign, reply, hung>>
    BY <1>9 DEF OwnTerminate, OwnKill, LeaderEnds, ChildStarts, ChildEnds, runReader, runKiller, runHistory
  <2>2. leader' \in {leader, "gone"}
    BY <1>9 DEF OwnTerminate, OwnKill, LeaderEnds, ChildStarts, ChildEnds, Terminate, KillGroup
  <2>3. atRun' = atRun \/ atRun # "done"
    BY <1>9 DEF OwnTerminate, OwnKill, LeaderEnds, ChildStarts, ChildEnds, runReader
  <2> QED
    BY <1>1, <2>1, <2>2, <2>3 DEF ReadInv, LinesTyped, AnswerOfLines, CutAtEnd
<1>10. CASE ListenerTerminates \/ ListenerKills
  <2>1. UNCHANGED <<pipe, got, atRun, late, adapter, reply, hung>>
    BY <1>10 DEF ListenerTerminates, ListenerKills, runReader, runHistory
  <2>2. leader' \in {leader, "gone"}
    BY <1>10 DEF ListenerTerminates, ListenerKills, Terminate, KillGroup
  <2>3. kills' \in 0..MaxKill /\ foreign' \in BOOLEAN /\ atKill' \in {"idle", "pause"}
    <3>1. /\ kills' = kills \/ (kills < MaxKill /\ kills' = kills + 1)
          /\ foreign' = foreign \/ foreign' = ~inTable
          /\ atKill' \in {"idle", "pause", atKill}
      BY <1>10 DEF ListenerTerminates, ListenerKills
    <3>2. kills \in 0..MaxKill /\ foreign \in BOOLEAN /\ atKill \in {"idle", "pause"} /\ inTable \in BOOLEAN
      BY <1>1, <1>2 DEF LinesTyped, MarkTypes
    <3>3. kills' \in 0..MaxKill
      BY <3>1, <3>2, RunAssumption
    <3> QED
      BY <3>1, <3>2, <3>3
  <2> QED
    BY <1>1, <2>1, <2>2, <2>3 DEF ReadInv, LinesTyped, AnswerOfLines, CutAtEnd
<1> QED
  BY <1>3, <1>4, <1>5, <1>6, <1>7, <1>8, <1>9, <1>10 DEF AgentRunNext, RunStep

LEMMA ReadHolds == AgentRunSpec => []ReadInv
  BY ReadInit, ReadNext, PTL DEF AgentRunSpec

\* Every variable of a run keeps its type, for any number of lines and cancels
\* (execution/runner.py ProcessRunner).
THEOREM AgentRunTypeCorrect == AgentRunSpec => []AgentRunTypeOK
<1>1. ReadInv => AgentRunTypeOK
  BY DEF ReadInv, RunInv, MarkTypes, LinesTyped, AgentRunTypeOK
<1> QED
  BY <1>1, ReadHolds, PTL

\* The answer of a run that was stopped by the timeout has no line the kill cut
\* off: what has no end is read only once nobody holds the pipe, and the timeout
\* comes before that (ProcessRunner.run, AgentAdapter.run_prompt).
THEOREM AnswerNotTorn == AgentRunSpec => []NoTornAnswer
<1>1. ASSUME ReadInv PROVE NoTornAnswer
  <2> SUFFICES ASSUME reply.there, reply.late, hung, NEW i \in DOMAIN reply.output
               PROVE  reply.output[i].kind # "cut"
    BY DEF NoTornAnswer
  <2>1. reply.output = Output(got, adapter, reply.late) /\ got \in Seq(Line)
    BY <1>1 DEF ReadInv, AnswerOfLines, LinesTyped
  <2>2. \E k \in DOMAIN got : reply.output[i] = got[k]
    <3>1. ComesFrom(reply.output, got)
      BY <2>1, OutputHolds, ZenonT(60)
    <3> QED
      BY <3>1 DEF ComesFrom
  <2> QED
    BY <1>1, <2>2 DEF ReadInv, CutAtEnd
<1> QED
  BY <1>1, ReadHolds, PTL

\* Whatever the agent prints, and however the run ends, its answer begins with the
\* last text of the assistant that was read, if there was one and it does not break
\* in the parser: by induction over the lines (_parse_stream_output of both
\* adapters, StreamProgressHandler.last_assistant).
THEOREM AnswerBeginsWithLast == AgentRunSpec => []AnswerIsLast
<1>1. ASSUME ReadInv PROVE AnswerIsLast
  <2>1. reply.there => reply.output = Output(got, adapter, reply.late)
    BY <1>1 DEF ReadInv, AnswerOfLines
  <2>2. got \in Seq(Line)
    BY <1>1 DEF ReadInv, LinesTyped
  <2> QED
    BY <2>1, <2>2, OutputHolds DEF AnswerIsLast
<1> QED
  BY <1>1, ReadHolds, PTL

(***************************************************************************)
(* The live message.                                                       *)
(***************************************************************************)

Places   == {"idle", "sleep", "send", "edit", "ref"}
Writing  == [at : Places, target : Bubbles \cup {NoBubble}, text : Texts \cup {NoText}]
Moving   == [at : {"idle", "delete", "send", "set", "done"}, seen : Bubbles \cup {NoBubble}]

\* A turn that has not ended its answer has a chunk to send.
ChunkIsLeft == atTurn \in {"begin", "run", "flush", "final", "plain"} => chunk <= MaxChunk

LiveTyped == LiveTypeOK /\ ChunkIsLeft

LEMMA RestIsWriting == AtRest \in Writing /\ AtRest.at = "idle" /\ AtRest.target = NoBubble
  BY DEF AtRest, Writing, Places

\* What a text or a bubble is a number of.
LEMMA LiveNumbers == /\ Thinking \in Texts /\ NoBubble \notin Bubbles /\ NoText \notin Texts
                     /\ Coroutines = {"turn", "watch", "poll", "flush"}
  BY LiveAssumption DEF Thinking, Texts, NoBubble, Bubbles, NoText, Coroutines

LEMMA LiveTypedInit == LiveInit => LiveTyped
<1> SUFFICES ASSUME LiveInit PROVE LiveTyped
  OBVIOUS
<1>1. writer \in [Coroutines -> Writing]
  BY RestIsWriting DEF LiveInit
<1>2. mover \in [Movers -> Moving]
  BY DEF LiveInit, Moving
<1>3. shown \in Seq(1..MaxChunk)
  BY DEF LiveInit
<1>4. /\ chat = {} /\ posted = 0 /\ chunk = 1 /\ updates = 0 /\ refusals = 0 /\ atTurn = "begin"
      /\ liveRef = NoBubble /\ bubble = NoBubble /\ lastText = NoText /\ display = NoText
      /\ persisted = FALSE /\ debounced \in BOOLEAN /\ moved = FALSE
  BY DEF LiveInit
<1>5. ChunkIsLeft
  BY <1>4, LiveAssumption DEF ChunkIsLeft
<1>6. chat \subseteq Bubbles /\ posted \in 0..MaxBubble /\ chunk \in 1..MaxChunk + 1
      /\ updates \in 0..MaxUpdate /\ refusals \in 0..MaxRefusal
  BY <1>4, LiveAssumption
<1> QED
  BY <1>1, <1>2, <1>3, <1>4, <1>5, <1>6 DEF LiveTyped, LiveTypeOK, Writing, Moving, Places

\* The text a coroutine is asked to show.
LEMMA ApplyTyped ==
  ASSUME LiveTyped, NEW c \in Coroutines, NEW text \in Texts \cup {NoText}, NEW then \in Places,
         Apply(c, text, then)
  PROVE  writer' \in [Coroutines -> Writing] /\ lastText' \in Texts \cup {NoText}
<1>1. writer \in [Coroutines -> Writing] /\ lastText \in Texts \cup {NoText}
      /\ bubble \in Bubbles \cup {NoBubble}
  BY DEF LiveTyped, LiveTypeOK, Writing, Places
<1>2. CASE text = lastText
  <2>1. [AtRest EXCEPT !.at = then] \in Writing
    BY RestIsWriting DEF Writing, AtRest
  <2> QED
    BY <1>1, <1>2, <2>1 DEF Apply
<1>3. CASE text # lastText
  <2> DEFINE w == Showing(bubble, text)
  <2>1. w \in Writing
    BY <1>1 DEF Writing, Places, Showing
  <2>2. lastText' = text /\ writer' = [writer EXCEPT ![c] = w]
    BY <1>3 DEF Apply
  <2> HIDE DEF w
  <2> QED
    BY <1>1, <2>1, <2>2
<1> QED
  BY <1>2, <1>3

\* What a step of each coroutine, of the turn and of a handler does to what is typed.
LEMMA WritersTyped ==
  ASSUME LiveTyped, LiveNext
  PROVE  /\ writer' \in [Coroutines -> Writing]
         /\ lastText' \in Texts \cup {NoText} /\ display' \in Texts \cup {NoText}
         /\ bubble' \in Bubbles \cup {NoBubble} /\ liveRef' \in Bubbles \cup {NoBubble}
         /\ persisted' \in BOOLEAN /\ debounced' \in BOOLEAN
<1>1. /\ writer \in [Coroutines -> Writing]
      /\ lastText \in Texts \cup {NoText} /\ display \in Texts \cup {NoText}
      /\ bubble \in Bubbles \cup {NoBubble} /\ liveRef \in Bubbles \cup {NoBubble}
      /\ persisted \in BOOLEAN /\ debounced \in BOOLEAN
      /\ updates \in 0..MaxUpdate /\ mover \in [Movers -> Moving]
  BY DEF LiveTyped, LiveTypeOK, Writing, Places, Moving
<1> USE LiveNumbers, RestIsWriting
<1> HIDE DEF Writing
<1>2. ASSUME NEW c \in Coroutines, NEW at \in Places PROVE [AtRest EXCEPT !.at = at] \in Writing
  BY DEF AtRest, Writing
<1>3. ASSUME NEW c \in Coroutines, Rest(c) PROVE writer' \in [Coroutines -> Writing]
  <2>1. After(c) \in Places
    BY DEF After, Places
  <2> QED
    BY <1>1, <1>2, <1>3, <2>1 DEF Rest
<1>4. Synced \in Bubbles \cup {NoBubble}
  BY <1>1 DEF Synced
<1>5. CASE BeginLive
  <2>1. CASE Apply("turn", Thinking, "idle")
    BY <1>1, <1>5, <2>1, ApplyTyped DEF BeginLive, Places
  <2>2. CASE ~Apply("turn", Thinking, "idle")
    BY <1>1, <1>2, <1>5, <2>2 DEF BeginLive, Places
  <2> QED
    BY <1>1, <1>5, <2>1, <2>2 DEF BeginLive
<1>6. CASE FlusherWakes
  BY <1>1, <1>6, ApplyTyped DEF FlusherWakes, Places
<1>7. CASE \E c \in Coroutines : SendEnds(c)
  BY <1>1, <1>3, <1>7 DEF SendEnds
<1>8. CASE \E c \in Coroutines : EditEnds(c)
  <2> PICK c \in Coroutines : EditEnds(c)
    BY <1>8
  <2>1. [writer[c] EXCEPT !.at = "send"] \in Writing /\ writer[c].text \in Texts \cup {NoText}
    <3>1. writer[c] \in Writing
      BY <1>1
    <3> QED
      BY <3>1 DEF Writing, Places
  <2> QED
    BY <1>1, <1>3, <2>1 DEF EditEnds
<1>9. CASE \E c \in Coroutines : Persist(c)
  BY <1>1, <1>4, <1>9, ZenonT(60) DEF Persist, Adopt
<1>10. CASE \E c \in {"turn", "watch"} : Progress(c)
  <2> PICK c \in {"turn", "watch"} : Progress(c)
    BY <1>10
  <2>1. updates + 2 \in Texts
    BY <1>1, LiveAssumption DEF Progress, Texts
  <2>2. CASE debounced
    <3> DEFINE f == [writer["flush"] EXCEPT !.at = IF @ = "idle" THEN "sleep" ELSE @]
               r == [AtRest EXCEPT !.at = "ref"]
    <3>1. f \in Writing
      <4>1. writer["flush"] \in Writing
        BY <1>1
      <4> QED
        BY <4>1 DEF Writing, Places
    <3>2. r \in Writing
      BY <1>2 DEF Places
    <3>3. writer' = [writer EXCEPT ![c] = r, !["flush"] = f]
      BY <1>1, <2>2 DEF Progress
    <3> HIDE DEF f, r
    <3>4. writer' \in [Coroutines -> Writing]
      BY <1>1, <3>1, <3>2, <3>3
    <3> QED
      BY <1>1, <1>4, <2>1, <2>2, <3>4 DEF Progress
  <2>3. CASE ~debounced
    <3> DEFINE w == Showing(Synced, updates + 2)
    <3>1. w \in Writing
      BY <1>4, <2>1 DEF Writing, Places, Showing
    <3>2. writer' = [writer EXCEPT ![c] = w]
      BY <2>3 DEF Progress
    <3> HIDE DEF w
    <3>3. writer' \in [Coroutines -> Writing]
      BY <1>1, <3>1, <3>2
    <3> QED
      BY <1>1, <1>4, <2>1, <2>3, <3>3 DEF Progress
  <2> QED
    BY <2>2, <2>3
<1>15. CASE \E c \in {"turn", "poll"} : Status(c)
  <2> PICK c \in {"turn", "poll"} : Status(c)
    BY <1>15
  <2>1. updates + 2 \in Texts
    BY <1>1, LiveAssumption DEF Status, Texts
  <2> DEFINE w == Showing(Synced, updates + 2)
  <2>2. w \in Writing
    BY <1>4, <2>1 DEF Writing, Places, Showing
  <2>3. writer' = [writer EXCEPT ![c] = w]
    BY DEF Status
  <2> HIDE DEF w
  <2>4. writer' \in [Coroutines -> Writing]
    BY <1>1, <2>2, <2>3
  <2> QED
    BY <1>1, <1>4, <2>1, <2>4 DEF Status
<1>11. CASE \E outcome \in {"answer", "cancelled", "failed", "run"} : RunEnds(outcome)
  BY <1>1, <1>11 DEF RunEnds, liveState
<1>12. CASE FlushDisplay
  <2>1. CASE display = NoText
    BY <1>1, <1>12, <2>1 DEF FlushDisplay
  <2>2. CASE display # NoText
    <3> DEFINE w == IF display = lastText THEN AtRest
                    ELSE Showing(bubble, display)
    <3>1. w \in Writing
      BY <1>1 DEF Writing, Places, Showing
    <3>2. writer' = [writer EXCEPT !["flush"] = AtRest, !["turn"] = w]
      BY <1>12, <2>2 DEF FlushDisplay
    <3> HIDE DEF w
    <3>3. writer' \in [Coroutines -> Writing]
      BY <1>1, <3>1, <3>2
    <3> QED
      BY <1>1, <1>12, <2>2, <3>3 DEF FlushDisplay
  <2> QED
    BY <2>1, <2>2
<1>13. CASE SendChunk \/ BlankAnswer \/ DeleteBubble \/ PlainChunk \/ EndWithout
  BY <1>1, <1>13 DEF SendChunk, BlankAnswer, DeleteBubble, PlainChunk, EndWithout, liveState
<1>14. CASE \E h \in Movers : MoverStep(h)
  BY <1>1, <1>14 DEF MoverStep, ReadRef, DropOld, SendBelow, SetRef, liveState, Moving
<1> QED
  BY <1>5, <1>6, <1>7, <1>8, <1>9, <1>10, <1>11, <1>12, <1>13, <1>14, <1>15 DEF LiveNext, LiveStep

LEMMA MoversTyped == ASSUME LiveTyped, LiveNext PROVE mover' \in [Movers -> Moving] /\ moved' \in BOOLEAN
<1>1. mover \in [Movers -> Moving] /\ moved \in BOOLEAN /\ liveRef \in Bubbles \cup {NoBubble}
  BY DEF LiveTyped, LiveTypeOK, Moving
<1>2. CASE LiveStep
  BY <1>1, <1>2 DEF LiveStep, BeginLive, FlushDisplay, SendChunk, BlankAnswer, DeleteBubble, PlainChunk, EndWithout,
     FlusherWakes, SendEnds, EditEnds, Persist, Progress, Status, RunEnds, moveVars
<1>3. ASSUME NEW h \in Movers, MoverStep(h) PROVE mover' \in [Movers -> Moving] /\ moved' \in BOOLEAN
  <2>1. mover[h] \in Moving
    BY <1>1
  <2>2. CASE ReadRef(h)
    BY <1>1, <2>2 DEF ReadRef, Moving
  <2>3. CASE DropOld(h)
    BY <1>1, <2>1, <2>3 DEF DropOld, Moving
  <2>4. CASE SendBelow(h)
    <3>1. CASE Refused /\ mover' = [mover EXCEPT ![h].at = "done"] /\ UNCHANGED <<chat, posted, moved>>
      BY <1>1, <2>1, <3>1 DEF Moving
    <3>2. CASE \E n \in Bubbles : mover' = [mover EXCEPT ![h] = [at |-> "set", seen |-> n]] /\ moved' = TRUE
      BY <1>1, <3>2 DEF Moving
    <3> QED
      BY <2>4, <3>1, <3>2 DEF SendBelow
  <2>5. CASE SetRef(h)
    BY <1>1, <2>1, <2>5 DEF SetRef, Moving
  <2> QED
    BY <1>3, <2>2, <2>3, <2>4, <2>5 DEF MoverStep
<1> QED
  BY <1>2, <1>3 DEF LiveNext

LEMMA ChatTyped ==
  ASSUME LiveTyped, LiveNext
  PROVE  /\ chat' \subseteq Bubbles /\ posted' \in 0..MaxBubble
         /\ refusals' \in 0..MaxRefusal /\ updates' \in 0..MaxUpdate
<1> /\ chat \subseteq Bubbles /\ posted \in 0..MaxBubble
    /\ refusals \in 0..MaxRefusal /\ updates \in 0..MaxUpdate
  BY DEF LiveTyped, LiveTypeOK
<1>1. ASSUME NEW n \in Bubbles, Post(n) PROVE chat' \subseteq Bubbles /\ posted' \in 0..MaxBubble
  BY <1>1 DEF Post, Bubbles
<1>2. Refused => refusals' \in 0..MaxRefusal
  BY LiveAssumption DEF Refused
<1>3. ASSUME NEW C, CutOff(C) PROVE chat' \subseteq Bubbles /\ posted' \in 0..MaxBubble
  BY <1>1, <1>3 DEF CutOff
<1>4. CASE \E c \in Coroutines : SendEnds(c) \/ EditEnds(c)
  BY <1>1, <1>2, <1>4 DEF SendEnds, EditEnds, CallFails, chatVars
<1>5. CASE FlushDisplay \/ \E outcome \in {"answer", "cancelled", "failed", "run"} : RunEnds(outcome)
  BY <1>3, <1>5 DEF FlushDisplay, RunEnds
<1>6. CASE (\E c \in {"turn", "watch"} : Progress(c)) \/ \E c \in {"turn", "poll"} : Status(c)
  BY <1>6, LiveAssumption DEF Progress, Status, chatVars
<1>7. CASE BeginLive \/ FlusherWakes \/ SendChunk \/ BlankAnswer \/ DeleteBubble \/ PlainChunk \/ EndWithout
           \/ \E c \in Coroutines : Persist(c)
  BY <1>2, <1>7 DEF BeginLive, FlusherWakes, SendChunk, BlankAnswer, DeleteBubble, PlainChunk, EndWithout, Persist,
     chatVars, turnState
<1>8. CASE \E h \in Movers : MoverStep(h)
  BY <1>1, <1>2, <1>8 DEF MoverStep, ReadRef, DropOld, SendBelow, SetRef, chatVars, turnState
<1> QED
  BY <1>4, <1>5, <1>6, <1>7, <1>8 DEF LiveNext, LiveStep

\* The answer's chunks.
LEMMA TurnTyped ==
  ASSUME LiveTyped, LiveNext
  PROVE  /\ shown' \in Seq(1..MaxChunk) /\ chunk' \in 1..MaxChunk + 1
         /\ atTurn' \in {"begin", "run", "cancelled", "failed", "flush", "final", "delete",
                         "plain", "over", "clean", "mute", "ended"}
         /\ ChunkIsLeft'
<1>1. /\ shown \in Seq(1..MaxChunk) /\ chunk \in 1..MaxChunk + 1
      /\ atTurn \in {"begin", "run", "cancelled", "failed", "flush", "final", "delete",
                     "plain", "over", "clean", "mute", "ended"}
      /\ ChunkIsLeft
  BY DEF LiveTyped, LiveTypeOK
<1>2. CASE SendChunk \/ PlainChunk
  <2>1. chunk \in 1..MaxChunk
    BY <1>1, <1>2 DEF ChunkIsLeft, SendChunk, PlainChunk
  <2>2. Append(shown, chunk) \in Seq(1..MaxChunk)
    BY <1>1, <2>1
  <2>3. shown' \in {shown, Append(shown, chunk)}
    BY <1>2 DEF SendChunk, PlainChunk
  <2>4. /\ chunk' \in {1, chunk, chunk + 1}
        /\ chunk' = chunk + 1 => chunk # MaxChunk \/ atTurn' \in {"delete", "over"}
        /\ atTurn' \in {"final", "plain", "delete", "over"}
    BY <1>2, <2>1 DEF SendChunk, PlainChunk
  <2>5. chunk' \in 1..MaxChunk + 1 /\ ChunkIsLeft'
    BY <2>1, <2>4, LiveAssumption DEF ChunkIsLeft
  <2> QED
    BY <1>1, <2>2, <2>3, <2>4, <2>5
<1>3. CASE BeginLive \/ FlusherWakes \/ BlankAnswer \/ DeleteBubble \/ EndWithout \/ FlushDisplay
           \/ (\E c \in Coroutines : SendEnds(c) \/ EditEnds(c) \/ Persist(c))
           \/ (\E c \in {"turn", "watch"} : Progress(c))
           \/ (\E c \in {"turn", "poll"} : Status(c))
           \/ (\E outcome \in {"answer", "cancelled", "failed", "run"} : RunEnds(outcome))
           \/ \E h \in Movers : MoverStep(h)
  <2>1. shown' = shown /\ chunk' = chunk
    BY <1>3 DEF BeginLive, FlusherWakes, BlankAnswer, DeleteBubble, EndWithout, FlushDisplay, SendEnds, EditEnds,
       Persist, Progress, Status, RunEnds, MoverStep, ReadRef, DropOld, SendBelow, SetRef, chatVars, turnState
  <2>2. \/ atTurn' = atTurn \/ atTurn' \in {"delete", "clean", "mute", "ended", "cancelled", "failed"}
        \/ /\ atTurn \in {"begin", "run", "flush"}
           /\ atTurn' \in {"run", "plain", "flush", "final"}
    BY <1>3 DEF BeginLive, FlusherWakes, BlankAnswer, DeleteBubble, EndWithout, FlushDisplay, SendEnds, EditEnds,
       CallFails, Persist, Progress, Status, RunEnds, MoverStep, ReadRef, DropOld, SendBelow, SetRef, chatVars,
       turnState
  <2> QED
    BY <1>1, <2>1, <2>2 DEF ChunkIsLeft
<1> QED
  BY <1>2, <1>3 DEF LiveNext, LiveStep

LEMMA LiveTypedNext == LiveTyped /\ [LiveNext]_liveVars => LiveTyped'
<1> SUFFICES ASSUME LiveTyped, [LiveNext]_liveVars PROVE LiveTyped'
  OBVIOUS
<1>1. CASE LiveNext
  BY <1>1, WritersTyped, MoversTyped, ChatTyped, TurnTyped
  DEF LiveTyped, LiveTypeOK, Writing, Places, Moving
<1>2. CASE UNCHANGED liveVars
  BY <1>2 DEF LiveTyped, LiveTypeOK, ChunkIsLeft, liveVars, chatVars, liveState, turnState, moveVars,
     Bubbles, Texts
<1> QED
  BY <1>1, <1>2

\* Every variable of the live message keeps its type, whatever coroutine, handler or
\* call to Telegram moves next (telegram/live_message.py, session_live.py).
THEOREM LiveTypeCorrect == LiveSpec => []LiveTypeOK
<1>1. LiveTyped => LiveTypeOK
  BY DEF LiveTyped
<1> QED
  BY <1>1, LiveTypedInit, LiveTypedNext, PTL DEF LiveSpec

(* Where the coroutines are, at each place of the turn. *)

TurnRests   == atTurn \notin {"begin", "run", "flush"} => writer["turn"].at = "idle"
WatchRests  == atTurn # "run" => writer["watch"].at = "idle" /\ writer["poll"].at = "idle"
FlushRests  == atTurn \in {"begin", "final", "delete", "clean", "mute"} => writer["flush"].at = "idle"
NobodyWrites == TurnRests /\ WatchRests /\ FlushRests

QuietInv == LiveTyped /\ NobodyWrites

LEMMA WriterType == LiveTyped => writer \in [Coroutines -> Writing]
  BY DEF LiveTyped, LiveTypeOK, Writing, Places

\* A call that ends belongs to a coroutine that is at work, and moves nobody else.
LEMMA CallEnds ==
  ASSUME QuietInv, NEW c \in Coroutines, SendEnds(c) \/ EditEnds(c) \/ Persist(c)
  PROVE  /\ writer[c].at # "idle"
         /\ \A d \in Coroutines \ {c} : writer'[d] = writer[d]
         /\ atTurn' = atTurn \/ (c = "turn" /\ atTurn = "flush" /\ atTurn' = "plain" /\ writer'[c].at = "idle")
<1> writer \in [Coroutines -> Writing]
  BY WriterType DEF QuietInv
<1>1. CASE Persist(c)
  BY <1>1 DEF Persist, turnState
<1>2. CASE SendEnds(c)
  <2>1. writer[c].at = "send" /\ Rest(c) /\ (UNCHANGED atTurn \/ CallFails(c))
    BY <1>2 DEF SendEnds
  <2>2. writer' = [writer EXCEPT ![c] = [AtRest EXCEPT !.at = After(c)]]
    BY <2>1 DEF Rest
  <2>3. writer'[c].at = After(c)
    BY <2>2 DEF AtRest
  <2> QED
    BY <2>1, <2>2, <2>3 DEF CallFails, After
<1>3. CASE EditEnds(c)
  <2>1. CASE Rest(c) /\ (UNCHANGED atTurn \/ CallFails(c))
    <3>2. writer' = [writer EXCEPT ![c] = [AtRest EXCEPT !.at = After(c)]]
      BY <2>1 DEF Rest
    <3>3. writer'[c].at = After(c)
      BY <3>2 DEF AtRest
    <3> QED
      BY <1>3, <2>1, <3>2, <3>3 DEF EditEnds, CallFails, After
  <2>2. CASE writer' = [writer EXCEPT ![c].at = "send"] /\ UNCHANGED atTurn
    BY <1>3, <2>2 DEF EditEnds
  <2> QED
    BY <1>3, <2>1, <2>2 DEF EditEnds
<1> QED
  BY <1>1, <1>2, <1>3

LEMMA QuietNext == ASSUME QuietInv, LiveNext PROVE NobodyWrites'
<1>1. writer \in [Coroutines -> Writing]
  BY WriterType DEF QuietInv
<1>2. NobodyWrites /\ Coroutines = {"turn", "watch", "poll", "flush"} /\ AtRest.at = "idle"
  BY LiveNumbers, RestIsWriting DEF QuietInv
<1> USE DEF NobodyWrites, TurnRests, WatchRests, FlushRests
<1>3. CASE \E c \in Coroutines : SendEnds(c) \/ EditEnds(c) \/ Persist(c)
  BY <1>2, <1>3, CallEnds
<1>4. CASE BeginLive
  <2>1. atTurn = "begin" /\ atTurn' \in {"begin", "run"}
    BY <1>4 DEF BeginLive
  <2>2. writer'["watch"] = writer["watch"] /\ writer'["poll"] = writer["poll"]
        /\ writer'["flush"] = writer["flush"]
    BY <1>1, <1>2, <1>4 DEF BeginLive, Apply
  <2> QED
    BY <1>2, <2>1, <2>2
<1>5. CASE FlusherWakes
  <2>1. UNCHANGED atTurn /\ writer["flush"].at = "sleep"
    BY <1>5 DEF FlusherWakes, turnState
  <2>2. writer'["watch"] = writer["watch"] /\ writer'["poll"] = writer["poll"]
        /\ writer'["turn"] = writer["turn"]
    BY <1>1, <1>2, <1>5 DEF FlusherWakes, Apply
  <2> QED
    BY <1>2, <2>1, <2>2
<1>6. CASE (\E c \in {"turn", "watch"} : Progress(c)) \/ \E c \in {"turn", "poll"} : Status(c)
  BY <1>6 DEF Progress, Status
<1>7. ASSUME NEW outcome \in {"answer", "cancelled", "failed", "run"}, RunEnds(outcome) PROVE NobodyWrites'
  <2>1. writer' = [c \in Coroutines |-> IF c = "flush" THEN writer[c] ELSE AtRest]
        /\ atTurn' \in {"cancelled", "failed", "plain", "flush", "run"}
    BY <1>7 DEF RunEnds
  <2> QED
    BY <1>1, <1>2, <2>1
<1>8. CASE FlushDisplay
  <2>1. CASE display = NoText
    BY <1>1, <1>2, <1>8, <2>1 DEF FlushDisplay
  <2>2. CASE display # NoText
    <3>1. UNCHANGED atTurn /\ atTurn = "flush"
      BY <1>8, <2>2 DEF FlushDisplay
    <3>2. writer'["watch"] = writer["watch"] /\ writer'["poll"] = writer["poll"]
      BY <1>1, <1>2, <1>8, <2>2 DEF FlushDisplay
    <3> QED
      BY <1>2, <3>1, <3>2
  <2> QED
    BY <2>1, <2>2
<1>9. CASE SendChunk \/ BlankAnswer \/ DeleteBubble \/ PlainChunk \/ EndWithout
  BY <1>2, <1>9 DEF SendChunk, BlankAnswer, DeleteBubble, PlainChunk, EndWithout
<1>10. CASE \E h \in Movers : MoverStep(h)
  BY <1>2, <1>10 DEF MoverStep, ReadRef, DropOld, SendBelow, SetRef, turnState
<1> QED
  BY <1>3, <1>4, <1>5, <1>6, <1>7, <1>8, <1>9, <1>10 DEF LiveNext, LiveStep

LEMMA QuietStep == QuietInv /\ [LiveNext]_liveVars => QuietInv'
<1> SUFFICES ASSUME QuietInv, [LiveNext]_liveVars PROVE QuietInv'
  OBVIOUS
<1>1. LiveTyped'
  BY LiveTypedNext DEF QuietInv
<1>2. CASE LiveNext
  BY <1>1, <1>2, QuietNext DEF QuietInv
<1>3. CASE UNCHANGED liveVars
  BY <1>1, <1>3 DEF QuietInv, NobodyWrites, TurnRests, WatchRests, FlushRests, liveVars, turnState
<1> QED
  BY <1>2, <1>3

LEMMA QuietInit == LiveInit => QuietInv
<1> SUFFICES ASSUME LiveInit PROVE QuietInv
  OBVIOUS
<1>1. writer = [c \in Coroutines |-> AtRest] /\ AtRest.at = "idle"
  BY RestIsWriting DEF LiveInit
<1> QED
  BY <1>1, LiveTypedInit, LiveNumbers DEF QuietInv, NobodyWrites, TurnRests, WatchRests, FlushRests

LEMMA QuietHolds == LiveSpec => []QuietInv
  BY QuietInit, QuietStep, PTL DEF LiveSpec

\* When the coroutines rest, a message is posted by a handler only.
LEMMA OnlyMoversPost ==
  ASSUME QuietInv, [LiveNext]_liveVars, atTurn \in {"final", "delete", "clean", "mute"}, mover' = mover
  PROVE  chat' \subseteq chat
<1>1. \A c \in Coroutines : writer[c].at = "idle"
  BY LiveNumbers DEF QuietInv, NobodyWrites, TurnRests, WatchRests, FlushRests
<1>2. mover \in [Movers -> Moving]
  BY DEF QuietInv, LiveTyped, LiveTypeOK, Moving
<1>3. CASE UNCHANGED liveVars
  BY <1>3 DEF liveVars, chatVars
<1>4. CASE \E h \in Movers : MoverStep(h)
  <2> PICK h \in Movers : MoverStep(h)
    BY <1>4
  <2>1. ~(ReadRef(h) \/ DropOld(h) \/ SetRef(h)) => SendBelow(h)
    BY DEF MoverStep
  <2>2. SendBelow(h) => chat' = chat
    BY <1>2 DEF SendBelow
  <2>3. ReadRef(h) \/ DropOld(h) \/ SetRef(h) => chat' \subseteq chat
    BY DEF ReadRef, DropOld, SetRef, chatVars
  <2> QED
    BY <2>1, <2>2, <2>3
<1>5. CASE \E c \in Coroutines : SendEnds(c) \/ EditEnds(c) \/ Persist(c)
  BY <1>1, <1>5, CallEnds
<1>6. CASE BeginLive \/ FlushDisplay \/ FlusherWakes \/ (\E c \in {"turn", "watch"} : Progress(c))
           \/ (\E c \in {"turn", "poll"} : Status(c))
           \/ \E outcome \in {"answer", "cancelled", "failed", "run"} : RunEnds(outcome)
  BY <1>1, <1>6, LiveNumbers DEF BeginLive, FlushDisplay, FlusherWakes, Progress, Status, RunEnds
<1>7. CASE SendChunk \/ BlankAnswer \/ DeleteBubble \/ PlainChunk \/ EndWithout
  BY <1>7 DEF SendChunk, BlankAnswer, DeleteBubble, PlainChunk, EndWithout, chatVars
<1> QED
  BY <1>3, <1>4, <1>5, <1>6, <1>7 DEF LiveNext, LiveStep

\* Once the debounced text has been pushed for an answer, neither the turn nor the
\* watcher nor the flusher posts progress any more, for any number of handlers,
\* updates, chunks and refused calls (flush_pending_display, finalize).
THEOREM ProgressEnds == LiveSpec => NothingAfterAnswer
<1>1. QuietInv /\ [LiveNext]_liveVars
        => [(atTurn \in {"final", "delete", "clean", "mute"} /\ mover' = mover) => chat' \subseteq chat]_liveVars
  BY OnlyMoversPost
<1> QED
  BY <1>1, QuietHolds, PTL DEF LiveSpec, NothingAfterAnswer

(* A turn that Telegram refuses nothing and whose user does not write. *)

Calm == refusals = 0 /\ ~moved

NoneSets   == \A h \in Movers : mover[h].at # "set"
OneShown   == /\ atTurn # "clean" => chat = {bubble} \ {NoBubble} /\ liveRef \in {NoBubble, bubble}
              /\ atTurn = "clean" => chat = {}
NeverPlain == atTurn \notin {"plain", "over"}
FirstText  == atTurn = "begin" =>
                /\ bubble # NoBubble => lastText # NoText /\ writer["turn"].at = "idle"
                /\ lastText # NoText /\ bubble = NoBubble => writer["turn"].at = "send"
                /\ lastText = NoText => writer["turn"].at = "idle"
ThenEdits  == atTurn \notin {"begin", "clean"} =>
                bubble # NoBubble /\ \A c \in Coroutines : writer[c].at # "send"
OwnBubble  == \A c \in Coroutines : writer[c].at = "edit" => bubble # NoBubble /\ writer[c].target = bubble

Shown   == NoneSets /\ OneShown /\ NeverPlain /\ FirstText /\ ThenEdits /\ OwnBubble
CalmInv == QuietInv /\ (Calm => Shown)

\* Calm ends for good, and a calm step refuses nothing.
LEMMA CalmBefore ==
  ASSUME LiveTyped, LiveNext, Calm' PROVE Calm /\ ~Refused
<1>1. refusals \in Nat /\ moved \in BOOLEAN
  BY LiveAssumption DEF LiveTyped, LiveTypeOK
<1>2. ~Refused
  BY <1>1 DEF Refused, Calm
<1>3. CASE LiveStep
  BY <1>1, <1>2, <1>3 DEF LiveStep, Calm, BeginLive, FlushDisplay, SendChunk, BlankAnswer, DeleteBubble, PlainChunk,
     EndWithout, FlusherWakes, SendEnds, EditEnds, CallFails, Persist, Progress, Status, RunEnds, moveVars
<1>4. CASE \E h \in Movers : MoverStep(h)
  BY <1>1, <1>2, <1>4 DEF MoverStep, Calm, ReadRef, DropOld, SendBelow, SetRef
<1> QED
  BY <1>2, <1>3, <1>4 DEF LiveNext

LEMMA CalmBegin ==
  ASSUME QuietInv, Shown, BeginLive PROVE Shown'
<1>1. writer \in [Coroutines -> Writing] /\ Coroutines = {"turn", "watch", "poll", "flush"}
  BY WriterType, LiveNumbers DEF QuietInv
<1>2. atTurn = "begin" /\ writer["turn"].at = "idle" /\ UNCHANGED <<chat, liveRef, bubble, mover>>
  BY DEF BeginLive, chatVars, moveVars
<1>3. writer["watch"].at = "idle" /\ writer["poll"].at = "idle" /\ writer["flush"].at = "idle"
  BY <1>2 DEF QuietInv, NobodyWrites, WatchRests, FlushRests
<1>4. CASE lastText = NoText
  <2>1. bubble = NoBubble
    BY <1>2, <1>4 DEF Shown, FirstText
  <2>2. /\ lastText' = Thinking /\ atTurn' = atTurn
        /\ writer' = [writer EXCEPT !["turn"] = [at |-> "send", target |-> bubble, text |-> Thinking]]
    BY <1>4, <2>1, LiveNumbers DEF BeginLive, Apply, Showing
  <2>3. writer'["turn"].at = "send" /\ writer'["watch"].at = "idle" /\ writer'["poll"].at = "idle"
        /\ writer'["flush"].at = "idle"
    BY <1>1, <1>3, <2>2
  <2> QED
    BY <1>1, <1>2, <2>1, <2>2, <2>3, LiveNumbers
    DEF Shown, NoneSets, OneShown, NeverPlain, FirstText, ThenEdits, OwnBubble
<1>5. CASE lastText # NoText
  <2>1. bubble # NoBubble
    BY <1>2, <1>5 DEF Shown, FirstText
  <2>2. atTurn' = "run" /\ writer' = [writer EXCEPT !["turn"] = [AtRest EXCEPT !.at = "ref"]]
    BY <1>5 DEF BeginLive
  <2>3. writer'["turn"].at = "ref" /\ writer'["watch"].at = "idle" /\ writer'["poll"].at = "idle"
        /\ writer'["flush"].at = "idle"
    BY <1>1, <1>3, <2>2 DEF AtRest
  <2> QED
    BY <1>1, <1>2, <2>1, <2>2, <2>3
    DEF Shown, NoneSets, OneShown, NeverPlain, FirstText, ThenEdits, OwnBubble
<1> QED
  BY <1>4, <1>5

LEMMA CalmCalls ==
  ASSUME QuietInv, Shown, ~Refused, NEW c \in Coroutines, SendEnds(c) \/ EditEnds(c) \/ Persist(c)
  PROVE  Shown'
<1>1. writer \in [Coroutines -> Writing] /\ Coroutines = {"turn", "watch", "poll", "flush"}
  BY WriterType, LiveNumbers DEF QuietInv
<1>2. NobodyWrites
  BY DEF QuietInv
<1>3. /\ atTurn = "begin" => c = "turn"
      /\ atTurn # "clean"
  BY <1>1, <1>2, CallEnds DEF NobodyWrites, TurnRests, WatchRests, FlushRests
<1>4. atTurn' = atTurn /\ mover' = mover
  BY DEF SendEnds, EditEnds, Persist, CallFails, turnState, moveVars
<1>5. \A d \in Coroutines \ {c} : writer'[d] = writer[d]
  BY CallEnds
<1>6. CASE SendEnds(c)
  <2>1. atTurn = "begin" /\ writer["turn"].at = "send" /\ c = "turn"
    BY <1>3, <1>6 DEF SendEnds, Shown, ThenEdits
  <2>2. bubble = NoBubble /\ lastText # NoText /\ chat = {} /\ liveRef = NoBubble
    BY <1>3, <2>1 DEF Shown, FirstText, OneShown
  <2>3. PICK n \in Bubbles : chat' = {n} /\ bubble' = n
    BY <1>6, <2>2 DEF SendEnds, CallFails, Post
  <2>4. writer'["turn"].at = "idle"
    <3>1. writer' = [writer EXCEPT !["turn"] = [AtRest EXCEPT !.at = After("turn")]]
      BY <1>6, <2>1 DEF SendEnds, Rest
    <3> QED
      BY <1>1, <2>1, <3>1 DEF AtRest, After
  <2>5. writer'["watch"].at = "idle" /\ writer'["poll"].at = "idle" /\ writer'["flush"].at = "idle"
    BY <1>1, <1>2, <1>5, <2>1 DEF NobodyWrites, WatchRests, FlushRests
  <2>6. lastText' = lastText /\ liveRef' = liveRef /\ bubble' # NoBubble
    BY <1>6, <2>3, LiveNumbers DEF SendEnds
  <2> QED
    BY <1>1, <1>4, <2>1, <2>2, <2>3, <2>4, <2>5, <2>6, LiveNumbers
    DEF Shown, NoneSets, OneShown, NeverPlain, FirstText, ThenEdits, OwnBubble
<1>7. CASE EditEnds(c)
  <2>1. writer[c].at = "edit" /\ writer[c].target = bubble /\ bubble # NoBubble
    BY <1>7 DEF EditEnds, Shown, OwnBubble
  <2>2. writer[c].target \in chat
    BY <1>3, <2>1 DEF Shown, OneShown
  <2>3. Rest(c) /\ UNCHANGED <<bubble, lastText, chat, liveRef>>
    BY <1>7, <2>2 DEF EditEnds, CallFails, chatVars
  <2>4. writer'[c].at \in {"idle", "ref"} /\ (atTurn = "begin" => writer'[c].at = "idle")
    <3>1. writer' = [writer EXCEPT ![c] = [AtRest EXCEPT !.at = After(c)]]
      BY <2>3 DEF Rest
    <3>2. writer'[c].at = After(c)
      BY <1>1, <3>1 DEF AtRest
    <3> QED
      BY <3>2 DEF After
  <2>5. atTurn # "begin"
    BY <1>3, <2>1 DEF Shown, FirstText
  <2> QED
    BY <1>1, <1>3, <1>4, <1>5, <2>1, <2>3, <2>4, <2>5
    DEF Shown, NoneSets, OneShown, NeverPlain, FirstText, ThenEdits, OwnBubble
<1>8. CASE Persist(c)
  <2>1. writer[c].at = "ref" /\ writer' = [writer EXCEPT ![c] = AtRest]
    BY <1>8 DEF Persist
  <2>2. atTurn # "begin" /\ bubble # NoBubble
    BY <1>3, <2>1 DEF Shown, FirstText, ThenEdits
  <2>3. Synced = bubble
    BY <1>3 DEF Synced, Shown, OneShown
  <2>4. bubble' = bubble /\ liveRef' \in {liveRef, bubble} /\ chat' = chat
    BY <1>8, <2>2, <2>3 DEF Persist, Adopt, chatVars
  <2>5. writer'[c].at = "idle"
    BY <1>1, <2>1, RestIsWriting
  <2> QED
    BY <1>1, <1>3, <1>4, <1>5, <2>2, <2>4, <2>5
    DEF Shown, NoneSets, OneShown, NeverPlain, FirstText, ThenEdits, OwnBubble
<1> QED
  BY <1>6, <1>7, <1>8

LEMMA CalmProgress ==
  ASSUME QuietInv, Shown,
         \/ FlusherWakes \/ (\E c \in {"turn", "watch"} : Progress(c))
         \/ \E c \in {"turn", "poll"} : Status(c)
  PROVE  Shown'
<1>1. writer \in [Coroutines -> Writing] /\ Coroutines = {"turn", "watch", "poll", "flush"}
  BY WriterType, LiveNumbers DEF QuietInv
<1>2. UNCHANGED <<atTurn, chat, liveRef, mover>>
  BY DEF Progress, Status, FlusherWakes, chatVars, turnState, moveVars
<1>3. atTurn \notin {"begin", "clean"} /\ bubble # NoBubble
  BY DEF Progress, Status, FlusherWakes, QuietInv, NobodyWrites, FlushRests, Shown, ThenEdits
<1>4. bubble' = bubble
  BY <1>3 DEF Progress, Status, FlusherWakes, Synced, Shown, OneShown
<1>5. \A d \in Coroutines : \/ writer'[d] = writer[d]
                            \/ writer'[d].at \in {"idle", "ref", "sleep"}
                            \/ writer'[d].at = "edit" /\ writer'[d].target = bubble
  <2>1. CASE FlusherWakes
    <3>1. CASE writer' = [writer EXCEPT !["flush"] = [AtRest EXCEPT !.at = "idle"]]
      BY <1>1, <3>1 DEF AtRest
    <3>2. ASSUME NEW w, writer' = [writer EXCEPT !["flush"] = Showing(bubble, w)]
          PROVE  writer'["flush"].at = "edit" /\ writer'["flush"].target = bubble
                 /\ \A d \in Coroutines \ {"flush"} : writer'[d] = writer[d]
      BY <1>1, <1>3, <3>2 DEF Showing
    <3> QED
      BY <2>1, <3>1, <3>2 DEF FlusherWakes, Apply
  <2>2. ASSUME NEW c \in {"turn", "watch"}, Progress(c), debounced
        PROVE  /\ writer'[c].at = "ref" /\ writer'["flush"].at \in {"sleep", writer["flush"].at}
               /\ writer["flush"].at # "idle" => writer'["flush"] = writer["flush"]
               /\ \A d \in Coroutines \ {c, "flush"} : writer'[d] = writer[d]
    <3> DEFINE f == [writer["flush"] EXCEPT !.at = IF @ = "idle" THEN "sleep" ELSE @]
               r == [AtRest EXCEPT !.at = "ref"]
    <3>1. writer["flush"] \in Writing
      BY <1>1
    <3>2. /\ f.at = (IF writer["flush"].at = "idle" THEN "sleep" ELSE writer["flush"].at)
          /\ writer["flush"].at # "idle" => f = writer["flush"]
          /\ r.at = "ref"
      BY <3>1 DEF Writing, AtRest
    <3>3. writer' = [writer EXCEPT ![c] = r, !["flush"] = f]
      BY <2>2, <1>1 DEF Progress
    <3> HIDE DEF f, r
    <3> QED
      BY <1>1, <3>2, <3>3
  <2>3. ASSUME NEW c \in {"turn", "watch", "poll"},
               (Progress(c) /\ ~debounced) \/ Status(c)
        PROVE  /\ writer'[c].at = "edit" /\ writer'[c].target = bubble
               /\ \A d \in Coroutines \ {c} : writer'[d] = writer[d]
    <3>1. Synced = bubble
      BY <1>3 DEF Synced, Shown, OneShown
    <3>2. writer' = [writer EXCEPT ![c] = [at |-> "edit", target |-> bubble, text |-> updates + 2]]
      BY <1>3, <2>3, <3>1 DEF Progress, Status, Showing
    <3> QED
      BY <1>1, <3>2
  <2> QED
    BY <1>1, <2>1, <2>2, <2>3
<1> QED
  BY <1>2, <1>3, <1>4, <1>5
  DEF Shown, NoneSets, OneShown, NeverPlain, FirstText, ThenEdits, OwnBubble

LEMMA CalmTurn ==
  ASSUME QuietInv, Shown, ~Refused,
         \/ FlushDisplay \/ SendChunk \/ BlankAnswer \/ DeleteBubble \/ PlainChunk \/ EndWithout
         \/ \E outcome \in {"answer", "cancelled", "failed", "run"} : RunEnds(outcome)
  PROVE  Shown'
<1>1. writer \in [Coroutines -> Writing] /\ Coroutines = {"turn", "watch", "poll", "flush"}
  BY WriterType, LiveNumbers DEF QuietInv
<1>2. mover' = mover /\ atTurn \notin {"begin", "clean", "plain", "over"}
  BY DEF FlushDisplay, SendChunk, BlankAnswer, DeleteBubble, PlainChunk, EndWithout, RunEnds, moveVars, Shown, NeverPlain
<1>3. bubble # NoBubble /\ \A c \in Coroutines : writer[c].at # "send"
  BY <1>2 DEF Shown, ThenEdits
<1>4. ASSUME NEW C \in SUBSET Coroutines, CutOff(C) PROVE chat' = chat
  BY <1>3, <1>4 DEF CutOff
<1>5. ASSUME NEW outcome \in {"answer", "cancelled", "failed", "run"}, RunEnds(outcome) PROVE Shown'
  <2>1. chat' = chat /\ bubble' = bubble /\ liveRef' = liveRef /\ atTurn' \in {"flush", "cancelled", "failed", "run"}
    BY <1>1, <1>3, <1>4, <1>5 DEF RunEnds, liveState
  <2>2. writer' = [c \in Coroutines |-> IF c = "flush" THEN writer[c] ELSE AtRest]
    BY <1>5 DEF RunEnds
  <2>3. \A c \in Coroutines : writer'[c] = writer[c] \/ writer'[c].at = "idle"
    BY <1>1, <2>2, RestIsWriting
  <2> QED
    BY <1>2, <1>3, <2>1, <2>3
    DEF Shown, NoneSets, OneShown, NeverPlain, FirstText, ThenEdits, OwnBubble
<1>6. CASE FlushDisplay
  <2>1. chat' = chat /\ bubble' = bubble /\ liveRef' = liveRef /\ atTurn' \in {"flush", "final"}
    BY <1>1, <1>4, <1>6 DEF FlushDisplay
  <2>2. \A c \in Coroutines : \/ writer'[c] = writer[c] \/ writer'[c].at = "idle"
                              \/ writer'[c].at = "edit" /\ writer'[c].target = bubble
    <3>1. CASE display = NoText
      BY <1>1, <1>6, <3>1, RestIsWriting DEF FlushDisplay
    <3>2. CASE display # NoText /\ display = lastText
      <4>1. writer' = [writer EXCEPT !["flush"] = AtRest, !["turn"] = AtRest]
        BY <1>6, <3>2 DEF FlushDisplay
      <4> QED
        BY <1>1, <4>1, RestIsWriting
    <3>3. CASE display # NoText /\ display # lastText
      <4>1. writer' = [writer EXCEPT !["flush"] = AtRest, 
                                     !["turn"] = [at |-> "edit", target |-> bubble, text |-> display]]
        BY <1>3, <1>6, <3>3 DEF FlushDisplay, Showing
      <4> QED
        BY <1>1, <4>1, RestIsWriting
    <3> QED
      BY <3>1, <3>2, <3>3
  <2> QED
    BY <1>2, <1>3, <2>1, <2>2
    DEF Shown, NoneSets, OneShown, NeverPlain, FirstText, ThenEdits, OwnBubble
<1>7. CASE SendChunk \/ BlankAnswer \/ EndWithout
  <2>1. UNCHANGED <<chat, bubble, writer>> /\ liveRef' \in {liveRef, NoBubble}
        /\ atTurn' \in {"final", "delete", "ended", "mute"}
    BY <1>7 DEF SendChunk, BlankAnswer, EndWithout, chatVars, liveState
  <2> QED
    BY <1>2, <1>3, <2>1
    DEF Shown, NoneSets, OneShown, NeverPlain, FirstText, ThenEdits, OwnBubble
<1>8. CASE DeleteBubble
  <2>1. chat' = {} /\ atTurn' = "clean" /\ writer' = writer /\ atTurn = "delete"
    BY <1>2, <1>8 DEF DeleteBubble, Shown, OneShown
  <2>2. \A c \in Coroutines : writer[c].at = "idle"
    BY <1>1, <2>1 DEF QuietInv, NobodyWrites, TurnRests, WatchRests, FlushRests
  <2> QED
    BY <1>2, <2>1, <2>2
    DEF Shown, NoneSets, OneShown, NeverPlain, FirstText, ThenEdits, OwnBubble
<1>9. ~PlainChunk
  BY <1>2 DEF PlainChunk
<1> QED
  BY <1>5, <1>6, <1>7, <1>8, <1>9

LEMMA CalmMovers ==
  ASSUME QuietInv, Shown, ~Refused, NEW h \in Movers, MoverStep(h), ~moved' PROVE Shown'
<1>1. mover \in [Movers -> Moving]
  BY DEF QuietInv, LiveTyped, LiveTypeOK, Moving
<1>2. CASE ReadRef(h)
  <2>1. mover' = [mover EXCEPT ![h] = [at |-> IF liveRef = NoBubble THEN "send" ELSE "delete", seen |-> liveRef]]
    BY <1>2 DEF ReadRef
  <2>2. \A g \in Movers : mover'[g].at # "set"
    BY <1>1, <2>1 DEF Shown, NoneSets
  <2>3. UNCHANGED <<chat, bubble, lastText, liveRef, writer, atTurn>>
    BY <1>2 DEF ReadRef, chatVars, liveState, turnState
  <2> QED
    BY <2>2, <2>3 DEF Shown, NoneSets, OneShown, NeverPlain, FirstText, ThenEdits, OwnBubble
<1>3. ~DropOld(h) /\ ~SendBelow(h) /\ ~SetRef(h)
  BY DEF DropOld, SendBelow, SetRef, Shown, NoneSets
<1> QED
  BY <1>2, <1>3 DEF MoverStep

LEMMA CalmInit == LiveInit => CalmInv
<1> SUFFICES ASSUME LiveInit PROVE Shown
  BY QuietInit DEF CalmInv
<1>1. \A c \in Coroutines : writer[c].at = "idle"
  BY RestIsWriting DEF LiveInit
<1>2. \A h \in Movers : mover[h].at = "idle"
  BY DEF LiveInit
<1> QED
  BY <1>1, <1>2, LiveNumbers
  DEF LiveInit, Shown, NoneSets, OneShown, NeverPlain, FirstText, ThenEdits, OwnBubble

LEMMA CalmNext == CalmInv /\ [LiveNext]_liveVars => CalmInv'
<1> SUFFICES ASSUME CalmInv, [LiveNext]_liveVars PROVE CalmInv'
  OBVIOUS
<1>1. QuietInv /\ QuietInv'
  BY QuietStep DEF CalmInv
<1>2. CASE UNCHANGED liveVars
  BY <1>1, <1>2 DEF CalmInv, Calm, Shown, NoneSets, OneShown, NeverPlain, FirstText, ThenEdits, OwnBubble,
     liveVars, chatVars, liveState, turnState, moveVars
<1>3. ASSUME LiveNext, Calm' PROVE Shown'
  <2>1. Calm /\ ~Refused /\ ~moved'
    BY <1>1, <1>3, CalmBefore DEF QuietInv, Calm
  <2>2. Shown
    BY <2>1 DEF CalmInv
  <2>3. CASE \E h \in Movers : MoverStep(h)
    BY <1>1, <2>1, <2>2, <2>3, CalmMovers
  <2>4. CASE LiveStep
    BY <1>1, <2>1, <2>2, <2>4, CalmBegin, CalmCalls, CalmProgress, CalmTurn DEF LiveStep
  <2> QED
    BY <1>3, <2>3, <2>4 DEF LiveNext
<1> QED
  BY <1>1, <1>2, <1>3 DEF CalmInv

LEMMA CalmHolds == LiveSpec => []CalmInv
  BY CalmInit, CalmNext, PTL DEF LiveSpec

\* An answered turn leaves no progress message in the chat, if the user wrote
\* nothing meanwhile and Telegram refused nothing, for any number of updates and
\* chunks, debounced or not (LiveMessageNotifier.finalize).
THEOREM BubbleIsRemoved == LiveSpec => []BubbleRemoved
<1>1. CalmInv => BubbleRemoved
  BY DEF CalmInv, Calm, Shown, NeverPlain, OneShown, BubbleRemoved
<1> QED
  BY <1>1, CalmHolds, PTL

\* What is left of "one bubble" is every turn during which the user writes nothing and
\* Telegram refuses nothing: neither the turn's own statuses nor the flusher, the
\* watcher and the poll, nor the answer put a second progress message into the chat.
THEOREM OneBubbleCalm == LiveSpec => [](refusals = 0 /\ ~moved => OneBubble)
<1>1. ASSUME CalmInv, refusals = 0, ~moved PROVE OneBubble
  <2>1. chat = {} \/ chat = {bubble}
    BY <1>1 DEF CalmInv, Calm, Shown, OneShown
  <2>2. chat = {} => Cardinality(chat) = 0
    BY FS_EmptySet
  <2>3. chat = {bubble} => Cardinality(chat) = 1
    BY FS_Singleton
  <2> QED
    BY <2>1, <2>2, <2>3 DEF OneBubble
<1> QED
  BY <1>1, CalmHolds, PTL

(* The answer's chunks. *)

\* The chat's last k chunks are the answer's first k.
EndsWith(s, k) == Len(s) >= k /\ \A i \in 1..k : s[Len(s) - k + i] = i

NothingYet == atTurn \in {"begin", "run", "flush"} => shown = <<>> /\ chunk = 1
SoFar      == atTurn \in {"final", "plain"} => EndsWith(shown, chunk - 1)
AllShown   == atTurn \in {"delete", "clean"} \/ (atTurn = "over" /\ refusals < 2 /\ ~moved)
                => EndsWith(shown, MaxChunk)

AnswerInv == CalmInv /\ NothingYet /\ SoFar /\ AllShown

\* One more chunk, in order.
LEMMA OneMore ==
  ASSUME NEW s \in Seq(Nat), NEW k \in Nat \ {0}, EndsWith(s, k - 1) PROVE EndsWith(Append(s, k), k)
<1> DEFINE t == Append(s, k)
<1>1. Len(s) \in Nat /\ Len(t) = Len(s) + 1 /\ t[Len(s) + 1] = k /\ \A i \in 1..Len(s) : t[i] = s[i]
  OBVIOUS
<1> HIDE DEF t
<1>2. Len(s) >= k - 1 /\ \A i \in 1..k - 1 : s[Len(s) - (k - 1) + i] = i
  BY DEF EndsWith
<1>3. ASSUME NEW i \in 1..k PROVE t[Len(t) - k + i] = i
  <2>1. CASE i = k
    <3>1. Len(t) - k + i = Len(s) + 1
      BY <1>1, <2>1
    <3> QED
      BY <1>1, <2>1, <3>1
  <2>2. CASE i \in 1..k - 1
    <3>1. Len(t) - k + i = Len(s) - (k - 1) + i /\ Len(s) - (k - 1) + i \in 1..Len(s)
      BY <1>1, <1>2, <2>2
    <3> QED
      BY <1>1, <1>2, <2>2, <3>1
  <2>3. i = k \/ i \in 1..k - 1
    OBVIOUS
  <2> QED
    BY <2>1, <2>2, <2>3
<1>4. Len(t) >= k
  BY <1>1, <1>2
<1> QED
  BY <1>3, <1>4 DEF EndsWith, t

LEMMA NothingEndsEmpty == ASSUME NEW s \in Seq(Nat) PROVE EndsWith(s, 0)
  BY DEF EndsWith

\* Refused calls are counted, and a handler's move is not forgotten.
LEMMA OnlyMore ==
  ASSUME LiveTyped, LiveNext PROVE refusals' \in {refusals, refusals + 1} /\ (moved => moved')
<1>1. CASE LiveStep
  BY <1>1 DEF LiveStep, Refused, BeginLive, FlushDisplay, SendChunk, BlankAnswer, DeleteBubble, PlainChunk,
     EndWithout, FlusherWakes, SendEnds, EditEnds, CallFails, Persist, Progress, Status, RunEnds, moveVars
<1>2. CASE \E h \in Movers : MoverStep(h)
  BY <1>2 DEF MoverStep, Refused, ReadRef, DropOld, SendBelow, SetRef
<1> QED
  BY <1>1, <1>2 DEF LiveNext

LEMMA ShownType == LiveTyped => shown \in Seq(Nat)
<1>1. LiveTyped => shown \in Seq(1..MaxChunk)
  BY DEF LiveTyped, LiveTypeOK
<1> QED
  BY <1>1, LiveAssumption

LEMMA AnswerSends ==
  ASSUME AnswerInv, SendChunk \/ PlainChunk PROVE NothingYet' /\ SoFar' /\ AllShown'
<1>1. LiveTyped
  BY DEF AnswerInv, CalmInv, QuietInv
<1>2. chunk \in 1..MaxChunk /\ MaxChunk \in Nat \ {0} /\ refusals \in Nat
  BY <1>1, LiveAssumption DEF LiveTyped, LiveTypeOK, ChunkIsLeft, SendChunk, PlainChunk
<1>3. EndsWith(shown, chunk - 1) /\ shown \in Seq(Nat)
  BY <1>1, ShownType DEF AnswerInv, SoFar, SendChunk, PlainChunk
<1>4. CASE shown' = Append(shown, chunk) /\ chunk' = chunk + 1
  <2>1. EndsWith(shown', chunk)
    BY <1>2, <1>3, <1>4, OneMore
  <2>2. chunk' - 1 = chunk
    BY <1>2, <1>4
  <2>3. \/ chunk # MaxChunk /\ atTurn' \in {"final", "plain"}
        \/ chunk = MaxChunk /\ atTurn' \in {"delete", "over"}
    BY <1>2, <1>4 DEF SendChunk, PlainChunk
  <2> QED
    BY <2>1, <2>2, <2>3 DEF NothingYet, SoFar, AllShown
<1>5. CASE SendChunk /\ Refused /\ atTurn' = "plain" /\ chunk' = 1 /\ UNCHANGED shown
  <2>1. EndsWith(shown', 0) /\ chunk' - 1 = 0
    BY <1>3, <1>5, NothingEndsEmpty
  <2> QED
    BY <1>5, <2>1 DEF NothingYet, SoFar, AllShown
<1>6. CASE PlainChunk /\ Refused /\ atTurn' = "over" /\ UNCHANGED <<shown, chunk>>
  <2>1. refusals' = refusals + 1 /\ moved' = moved
    BY <1>6 DEF PlainChunk, Refused, moveVars
  <2>2. ~moved => refusals # 0
    BY <1>6 DEF AnswerInv, CalmInv, Calm, Shown, NeverPlain, PlainChunk
  <2>3. ~(refusals' < 2 /\ ~moved')
    BY <1>2, <2>1, <2>2
  <2> QED
    BY <1>6, <2>3 DEF NothingYet, SoFar, AllShown
<1> QED
  BY <1>4, <1>5, <1>6 DEF SendChunk, PlainChunk

\* Where the turn is before a step that sends no chunk.
LEMMA PlaceBefore ==
  ASSUME LiveNext, ~(SendChunk \/ PlainChunk)
  PROVE  /\ UNCHANGED <<shown, chunk>>
         /\ atTurn' \in {"begin", "run", "flush"} => atTurn \in {"begin", "run", "flush"}
         /\ atTurn' \in {"final", "plain"} => atTurn \in {atTurn', "run", "flush"}
         /\ atTurn' \in {"delete", "clean"} => atTurn \in {"delete", "clean"}
         /\ atTurn' = "over" => atTurn = "over"
<1>1. CASE BeginLive \/ BlankAnswer \/ DeleteBubble \/ EndWithout \/ FlusherWakes
  BY <1>1 DEF BeginLive, BlankAnswer, DeleteBubble, EndWithout, FlusherWakes, chatVars, turnState
<1>2. CASE FlushDisplay \/ \E outcome \in {"answer", "cancelled", "failed", "run"} : RunEnds(outcome)
  BY <1>2 DEF FlushDisplay, RunEnds
<1>3. CASE \E c \in Coroutines : SendEnds(c) \/ EditEnds(c) \/ Persist(c)
  BY <1>3 DEF SendEnds, EditEnds, CallFails, Persist, chatVars, turnState
<1>4. CASE (\E c \in {"turn", "watch"} : Progress(c)) \/ \E c \in {"turn", "poll"} : Status(c)
  BY <1>4 DEF Progress, Status, chatVars
<1>5. CASE \E h \in Movers : MoverStep(h)
  BY <1>5 DEF MoverStep, ReadRef, DropOld, SendBelow, SetRef, chatVars, turnState
<1> QED
  BY <1>1, <1>2, <1>3, <1>4, <1>5 DEF LiveNext, LiveStep

LEMMA AnswerOthers ==
  ASSUME AnswerInv, LiveNext, ~(SendChunk \/ PlainChunk) PROVE NothingYet' /\ SoFar' /\ AllShown'
<1>1. LiveTyped /\ refusals \in Nat
  BY LiveAssumption DEF AnswerInv, CalmInv, QuietInv, LiveTyped, LiveTypeOK
<1>2. NothingYet' /\ NothingYet
  BY PlaceBefore DEF AnswerInv, NothingYet
<1>3. SoFar'
  <2>1. CASE atTurn \in {"run", "flush"}
    <3>1. shown = <<>> /\ chunk - 1 = 0 /\ shown \in Seq(Nat)
      BY <1>1, <1>2, <2>1, ShownType DEF NothingYet
    <3> QED
      BY <3>1, PlaceBefore, NothingEndsEmpty DEF SoFar
  <2>2. CASE atTurn \notin {"run", "flush"}
    BY <2>2, PlaceBefore DEF AnswerInv, SoFar
  <2> QED
    BY <2>1, <2>2
<1>4. AllShown'
  <2>1. refusals' < 2 /\ ~moved' => refusals < 2 /\ ~moved
    BY <1>1, OnlyMore
  <2> QED
    BY <2>1, PlaceBefore DEF AnswerInv, AllShown
<1> QED
  BY <1>2, <1>3, <1>4

LEMMA AnswerInit == LiveInit => AnswerInv
<1> SUFFICES ASSUME LiveInit PROVE AnswerInv
  OBVIOUS
<1>1. atTurn = "begin" /\ shown = <<>> /\ chunk = 1
  BY DEF LiveInit
<1> QED
  BY <1>1, CalmInit DEF AnswerInv, NothingYet, SoFar, AllShown

LEMMA AnswerNext == AnswerInv /\ [LiveNext]_liveVars => AnswerInv'
<1> SUFFICES ASSUME AnswerInv, [LiveNext]_liveVars PROVE AnswerInv'
  OBVIOUS
<1>1. CalmInv'
  BY CalmNext DEF AnswerInv
<1>2. CASE LiveNext
  BY <1>1, <1>2, AnswerSends, AnswerOthers DEF AnswerInv
<1>3. CASE UNCHANGED liveVars
  BY <1>1, <1>3 DEF AnswerInv, NothingYet, SoFar, AllShown, liveVars, chatVars, turnState, moveVars
<1> QED
  BY <1>2, <1>3

\* A turn that ends with an answer has shown every chunk of it, in order, if at
\* most one call to Telegram failed and the user wrote nothing meanwhile, for any
\* number of chunks (finalize, then _notify_safe with the whole answer).
THEOREM AnswerShownWhole == LiveSpec => []AnswerIsWhole
<1>1. ASSUME AnswerInv PROVE AnswerIsWhole
  <2> SUFFICES ASSUME atTurn \in {"over", "clean"}, refusals < 2, ~moved PROVE EndsWhole
    BY DEF AnswerIsWhole
  <2>1. EndsWith(shown, MaxChunk) /\ shown \in Seq(Nat) /\ MaxChunk \in Nat \ {0}
    BY <1>1, ShownType, LiveAssumption DEF AnswerInv, AllShown, CalmInv, QuietInv
  <2>2. Len(shown) \in Nat /\ Len(shown) >= MaxChunk /\ \A i \in 1..MaxChunk : shown[Len(shown) - MaxChunk + i] = i
    BY <2>1 DEF EndsWith
  <2> DEFINE m == Len(shown) - MaxChunk + 1
             tail == SubSeq(shown, m, Len(shown))
  <2>3. /\ m \in 1..Len(shown) /\ Len(shown) - m + 1 = MaxChunk
        /\ \A i \in 1..MaxChunk : m + i - 1 = Len(shown) - MaxChunk + i
    BY <2>1, <2>2
  <2>4. tail = [i \in 1..MaxChunk |-> shown[m + i - 1]]
    BY <2>1, <2>2, <2>3, SMTT(60)
  <2>5. tail = Whole
    BY <2>2, <2>3, <2>4 DEF Whole
  <2> QED
    BY <2>2, <2>5 DEF EndsWhole
<1>2. LiveSpec => []AnswerInv
  BY AnswerInit, AnswerNext, PTL DEF LiveSpec
<1> QED
  BY <1>1, <1>2, PTL

\* Without a refused call the chunks shown are those before the next.
ShownInOrder ==
    refusals = 0 => Len(shown) = chunk - 1 /\ \A i \in 1..Len(shown) : shown[i] = i

LEMMA ShownInOrderNext ==
  ASSUME LiveTyped, ShownInOrder, [LiveNext]_liveVars PROVE ShownInOrder'
<1>1. shown \in Seq(Nat) /\ chunk \in Nat /\ refusals \in Nat
  BY ShownType, LiveAssumption DEF LiveTyped, LiveTypeOK
<1>2. CASE UNCHANGED liveVars
  BY <1>2 DEF liveVars, chatVars, turnState, ShownInOrder
<1>3. CASE LiveNext /\ ~(SendChunk \/ PlainChunk)
  <2>1. refusals' = 0 => refusals = 0
    BY <1>1, <1>3, OnlyMore
  <2>2. UNCHANGED <<shown, chunk>>
    BY <1>3, PlaceBefore
  <2> QED
    BY <2>1, <2>2 DEF ShownInOrder
<1>4. CASE SendChunk \/ PlainChunk
  <2>1. CASE shown' = Append(shown, chunk) /\ chunk' = chunk + 1 /\ UNCHANGED refusals
    <3>1. /\ Len(shown') = Len(shown) + 1 /\ shown'[Len(shown) + 1] = chunk
          /\ \A i \in 1..Len(shown) : shown'[i] = shown[i]
      BY <1>1, <2>1
    <3> QED
      BY <1>1, <2>1, <3>1 DEF ShownInOrder
  <2>2. CASE Refused
    BY <1>1, <2>2 DEF Refused, ShownInOrder
  <2> QED
    BY <1>4, <2>1, <2>2 DEF SendChunk, PlainChunk
<1> QED
  BY <1>2, <1>3, <1>4 DEF LiveNext, LiveStep

\* What is left of "nothing is shown twice": only a refused call makes the turn show a
\* chunk again, however its bubble was moved.
THEOREM ChunksOnce == LiveSpec => [](refusals = 0 => NothingTwice)
<1>1. LiveInit => ShownInOrder
  BY DEF LiveInit, ShownInOrder
<1>2. LiveTyped /\ ShownInOrder /\ [LiveNext]_liveVars => ShownInOrder'
  BY ShownInOrderNext
<1>3. LiveTyped /\ ShownInOrder => (refusals = 0 => NothingTwice)
  <2> SUFFICES ASSUME LiveTyped, ShownInOrder, refusals = 0 PROVE NothingTwice
    OBVIOUS
  <2>1. shown \in Seq(Nat)
    BY ShownType
  <2>2. DOMAIN shown = 1..Len(shown)
    BY <2>1
  <2> QED
    BY <2>2 DEF ShownInOrder, NothingTwice
<1>4. QuietInv => LiveTyped
  BY DEF QuietInv
<1> QED
  BY QuietHolds, <1>1, <1>2, <1>3, <1>4, PTL DEF LiveSpec
====
