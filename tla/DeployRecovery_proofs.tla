---- MODULE DeployRecovery_proofs ----
(* Proofs about DeployRecovery for any sessions, schedules and bounds. *)
EXTENDS DeployRecovery, FiniteSetTheorems, TLAPS

(* What the helpers return. *)

LEMMA NewMarkerTypes ==
  ASSUME NEW status \in {"started", "session_active", "deploy_pending", "pending_resume"},
         NEW s \in Sessions \cup {NoSession}, NEW t \in Turns \cup {NoTurn}
  PROVE  /\ NewMarker(status, s, t) \in MarkerType
         /\ NewMarker(status, s, t).token = NoToken
  BY DEF NewMarker, MarkerType

LEMMA NoMarkerIsNone == NoMarker \notin MarkerType
  BY DEF NoMarker, MarkerType

LEMMA ReservedTypes ==
  ASSUME NEW m \in Markers
  PROVE  /\ Reserved(m) \in Markers
         /\ m \in MarkerType => Reserved(m) \in MarkerType /\ Reserved(m).token = m.token
         /\ m = NoMarker => Reserved(m) = NoMarker
  BY ZenonT(60) DEF Reserved, MayWarn, Known, Markers, MarkerType

LEMMA CompletedTypes ==
  ASSUME NEW m \in Markers
  PROVE  /\ Completed(m) \in Markers
         /\ m \in MarkerType => Completed(m) \in MarkerType /\ Completed(m).token = m.token
         /\ m = NoMarker => Completed(m) = NoMarker
  BY NoMarkerIsNone DEF Completed, Markers, MarkerType

LEMMA CountTypes ==
  ASSUME NEW c \in [Turns -> Nat], NEW r
  PROVE  [c EXCEPT ![r] = @ + 1] \in [Turns -> Nat]
<1> DEFINE d == [c EXCEPT ![r] = @ + 1]
<1>1. ASSUME NEW t \in Turns PROVE d[t] \in Nat
  <2>1. CASE t = r
    BY <2>1
  <2>2. CASE t # r
    BY <2>2
  <2> QED
    BY <2>1, <2>2
<1>2. d = [t \in Turns |-> d[t]]
  OBVIOUS
<1> QED
  BY <1>1, <1>2

LEMMA NoRowTypes == NoRow \in Row /\ NoRow.attempt = 0
  BY DEF NoRow, Row

LEMMA ResumeTypes ==
  ASSUME NEW s \in Sessions \cup {NoSession}, NEW a \in Nat, NEW r \in Turns \cup {NoTurn}
  PROVE  /\ Resume(s, a, r) \in Row
         /\ Resume(s, a, r).attempt = a /\ Resume(s, a, r).root = r
         /\ Resume(s, a, r).kind = "resume"
  BY DEF Resume, NoRow, Row

LEMMA CreatedTypes ==
  ASSUME RecoveryTypeOK, NEW r \in Row
  PROVE  Created(r) \in [Turns -> Row]
  BY ZenonT(60) DEF Created, RecoveryTypeOK, Row

LEMMA NewWorkTypes ==
  ASSUME RecoveryTypeOK, CanCreate, NEW s \in Sessions, NEW kind \in {"user", "deploy"}
  PROVE  /\ [NoRow EXCEPT !.sess = s, !.kind = kind, !.root = NewTurn] \in Row
         /\ NewWork(s, kind) \in [Turns -> Row]
<1>1. [NoRow EXCEPT !.sess = s, !.kind = kind, !.root = NewTurn] \in Row
  BY DEF NoRow, Row, CanCreate
<1> QED
  BY <1>1, CreatedTypes DEF NewWork

LEMMA RunningTypes ==
  ASSUME RecoveryTypeOK, Running # {}
  PROVE  (CHOOSE t \in Running : TRUE) \in Turns
  BY DEF Running

LEMMA SnapshotTypes ==
  ASSUME RecoveryTypeOK
  PROVE  Snapshot.sess \in Sessions \cup {NoSession} /\ Snapshot.task \in Turns \cup {NoTurn}
<1>1. CASE Running = {}
  BY <1>1 DEF Snapshot
<1>2. CASE Running # {}
  BY <1>2, RunningTypes DEF Snapshot, RecoveryTypeOK, Row
<1> QED
  BY <1>1, <1>2

LEMMA EnsuredTypes ==
  ASSUME RecoveryTypeOK
  PROVE  /\ Ensured \in Markers
         /\ \/ Ensured = marker
            \/ Ensured \in MarkerType /\ Ensured.token = NoToken
<1>1. NewMarker("started", Snapshot.sess, Snapshot.task) \in MarkerType
      /\ NewMarker("started", Snapshot.sess, Snapshot.task).token = NoToken
  BY SnapshotTypes, NewMarkerTypes
<1> QED
  BY <1>1 DEF Ensured, RecoveryTypeOK, Markers

LEMMA VerdictTypes ==
  ASSUME NEW t
  PROVE  /\ Verdict(t).st \in {"completed", "failed"}
         /\ Verdict(t).note \in Notes
         /\ Verdict(t).note = "interrupted" => wClean \/ ~(turns[t].attempt >= MaxAttempts)
<1> DEFINE C1 == ByDeploy(t) \/ turns[t].kind = "deploy"
           C2 == ~ByDeploy(t) /\ Superseded(t)
           C3 == turns[t].sess \notin WithChat
           C4 == ~wClean /\ turns[t].attempt >= MaxAttempts
<1> HIDE DEF C1, C2, C3, C4
<1>1. Verdict(t) =
        CASE C1 -> [st |-> "completed", note |-> "online"]
          [] C2 -> [st |-> "failed", note |-> "none"]
          [] C3 -> [st |-> "failed", note |-> "nosession"]
          [] C4 -> [st |-> "failed", note |-> "exhausted"]
          [] OTHER -> [st |-> "failed", note |-> "interrupted"]
  BY DEF Verdict, C1, C2, C3, C4
<1>2. /\ Verdict(t).st \in {"completed", "failed"}
      /\ Verdict(t).note \in {"online", "none", "nosession", "exhausted", "interrupted"}
      /\ Verdict(t).note = "interrupted" => ~C4
  BY <1>1
<1> QED
  BY <1>2 DEF C4, Notes
----
(* Types. *)

\* A worker in a turn knows which; a script that writes has read or made a marker.
TurnKnown == wpc \in {"marking", "turn", "ending", "deploying"} => wTurn \in Turns
RawKnown  == dpc = "write" => dRaw \in MarkerType

\* An active marker is that of a turn.
ActiveHasTask == \A m \in {marker, wMarker} : Active(m) => m.task \in Turns

\* What is to be queued again is that of the turn that was found running.
ResumeHeld == wResume # NoRow => wpc \in {"tell", "requeue"} /\ wTurn \in Turns

RecoveryTyped == RecoveryTypeOK /\ TurnKnown /\ RawKnown /\ ActiveHasTask /\ ResumeHeld

TypedButTask == RecoveryTypeOK /\ TurnKnown /\ RawKnown

LEMMA TypedInit == RecoveryInit => RecoveryTyped
<1> SUFFICES ASSUME RecoveryInit PROVE RecoveryTyped
  OBVIOUS
<1> USE RecoveryAssumption DEF RecoveryInit
<1>1. TurnKnown /\ RawKnown /\ ActiveHasTask /\ ResumeHeld
  BY DEF TurnKnown, RawKnown, ActiveHasTask, Active, ResumeHeld
<1>2. turns \in [Turns -> Row] /\ wResume \in Row
  BY NoRowTypes
<1>3. /\ announced \in [Tokens \cup {NoToken} -> Nat] /\ lost \in [Tokens -> {"no", "replaced", "dropped"}]
      /\ demises \in [Turns -> Nat]
  OBVIOUS
<1>4. {marker, claimFile, wMarker, dRaw} \subseteq Markers
  BY DEF Markers
<1>5. wpc \in WorkerPlaces /\ wNote \in Notes
  BY DEF WorkerPlaces, Notes
<1>6. tokens \in 0..MaxToken /\ left \in Schedule
  BY SMTT(60)
<1> QED
  BY <1>1, <1>2, <1>3, <1>4, <1>5, <1>6 DEF RecoveryTypeOK, RecoveryTyped

LEMMA TypedNext0 == RecoveryTyped /\ [RecoveryNext]_recoveryVars => TypedButTask'
<1> SUFFICES ASSUME RecoveryTyped, [RecoveryNext]_recoveryVars PROVE TypedButTask'
  OBVIOUS
<1> USE RecoveryAssumption
    DEF RecoveryTyped, TypedButTask, RecoveryTypeOK, TurnKnown, RawKnown, WorkerPlaces, Settled,
        InTurn, Serving, files, redisKeys, loopVars, recoveryLocals, deliveryVars, scriptVars,
        tokenHistory, turnHistory
<1>l. LocalsGone => /\ wTurn' = NoTurn /\ scan' \subseteq Turns /\ wMarker' \in Markers
                    /\ wClean' \in BOOLEAN /\ wNote' \in Notes /\ wResume' \in Row
  BY NoRowTypes DEF LocalsGone, Notes, Markers
<1>r. ASSUME NEW why \in {"replaced", "dropped"}, LoseToken(why)
      PROVE  lost' \in [Tokens -> {"no", "replaced", "dropped"}]
  BY <1>r DEF LoseToken
<1>s. ASSUME NEW k, NotDelivered(k) PROVE lost' \in [Tokens -> {"no", "replaced", "dropped"}]
  BY <1>s DEF NotDelivered
<1>a. ASSUME NEW k \in Tokens \cup {NoToken}, Announce(k)
      PROVE  /\ announced' \in [Tokens \cup {NoToken} -> Nat] /\ left' \in Schedule
             /\ lost' \in [Tokens -> {"no", "replaced", "dropped"}]
  BY <1>a, <1>s DEF Announce, Schedule
<1>i. InRecovery \subseteq Turns
  BY NoMarkerIsNone DEF InRecovery, Markers, MarkerType
<1>1. CASE UNCHANGED recoveryVars
  BY <1>1 DEF recoveryVars
<1>2. CASE Boot
  <2>1. restartKey' \in BOOLEAN /\ wpc' = "consume"
    BY <1>2 DEF Boot
  <2> QED
    BY <1>2, <2>1 DEF Boot
<1>3. CASE TellInterrupted
  <2>1. handled' \subseteq Turns /\ dropped' \subseteq Turns /\ left' \in Schedule
    BY <1>3 DEF TellInterrupted, Schedule
  <2> QED
    BY <1>3, <2>1 DEF TellInterrupted
<1>4. CASE SetReady
  BY <1>4 DEF SetReady, HasMarker, Markers, MarkerType
<1>5. CASE RecoveryFails
  <2>1. /\ left' \in Schedule /\ wpc' = "idle" /\ cutShort' \subseteq Turns
        /\ lost' \in [Tokens -> {"no", "replaced", "dropped"}]
    BY <1>5, <1>i, <1>r DEF RecoveryFails, Schedule
  <2> QED
    BY <1>5, <1>l, <2>1 DEF RecoveryFails
<1>6. CASE WorkerSends
  <2>1. wpc' = "release"
    BY <1>6 DEF WorkerSends
  <2> QED
    BY <1>6, <1>a, <2>1 DEF WorkerSends
<1>7. CASE WorkerReleases
  <2>1. claimFile' \in Markers /\ wpc' = "idle"
    BY <1>7 DEF WorkerReleases, Markers
  <2> QED
    BY <1>7, <2>1 DEF WorkerReleases
<1>8. CASE WorkerLooks
  <2>1. /\ marker' \in Markers /\ claimFile' \in Markers
        /\ wToken' \in Tokens \cup {NoToken} /\ wpc' \in {"send", "idle"}
    BY <1>8 DEF WorkerLooks, ClaimFile, HasMarker, Markers, MarkerType
  <2> QED
    BY <1>8, <1>l, <2>1 DEF WorkerLooks
<1>9. CASE Consume
  <2>1. wClean' \in BOOLEAN /\ cleanFile' \in BOOLEAN /\ wpc' = "rows" /\ wMarker' \in Markers
    BY <1>9 DEF Consume
  <2> QED
    BY <1>9, <2>1 DEF Consume
<1>10. CASE SettleRows
  <2>1. turns' \in [Turns -> Row]
    BY <1>10, VerdictTypes, SMTT(60) DEF SettleRows, Row
  <2>2. wNote' \in Notes
    BY <1>10, VerdictTypes DEF SettleRows, Notes
  <2>3. wTurn' \in Turns \cup {NoTurn}
    BY <1>10, RunningTypes DEF SettleRows
  <2>4. wResume' \in Row
    <3> DEFINE u == CHOOSE t \in Running : TRUE
    <3>1. CASE wResume' = NoRow
      BY <3>1, NoRowTypes
    <3>2. CASE Running # {} /\ wResume' = Resume(turns[u].sess, NextAttempt(u), turns[u].root)
      <4>1. u \in Turns
        BY <3>2, RunningTypes
      <4>2. /\ turns[u].sess \in Sessions \cup {NoSession} /\ turns[u].root \in Turns \cup {NoTurn}
            /\ NextAttempt(u) \in Nat
        BY <4>1 DEF Row, NextAttempt
      <4> QED
        BY <3>2, <4>2, ResumeTypes
    <3> QED
      BY <1>10, <3>1, <3>2 DEF SettleRows
  <2>5. wpc' \in {"store", "tell"} /\ cut' \subseteq Turns /\ dropped' \subseteq Turns
    BY <1>10 DEF SettleRows, Running
  <2>6. /\ UNCHANGED <<marker, claimFile, cleanFile, restartKey, readyKey, scan, wMarker, wClean,
                       wToken, bpc, bToken, dpc, dRaw, tokens, left, announced, lost, warned,
                       demises, handled, cutShort>>
    BY <1>10 DEF SettleRows
  <2> QED
    BY <2>1, <2>2, <2>3, <2>4, <2>5, <2>6
<1>11. CASE StoreNotes
  <2>1. marker' \in Markers
    BY <1>11, NoMarkerIsNone, ZenonT(60) DEF StoreNotes, HasMarker, FreshToken, Markers, MarkerType
  <2>2. tokens' \in 0..MaxToken
    BY <1>11 DEF StoreNotes, FreshToken, Tokens
  <2> QED
    BY <1>11, <2>1, <2>2 DEF StoreNotes
<1>12. CASE ResumeDeployed
  <2>1. turns' \in [Turns -> Row]
    BY <1>12, ResumeTypes, CreatedTypes, SMTT(60) DEF ResumeDeployed, CanCreate
  <2>2. wpc' = "ready" /\ handled' \subseteq Turns
    BY <1>12 DEF ResumeDeployed
  <2> QED
    BY <1>12, <2>1, <2>2 DEF ResumeDeployed
<1>13. CASE Requeue
  <2>1. turns' \in [Turns -> Row] /\ wResume' \in Row
    BY <1>13, NoRowTypes, CreatedTypes DEF Requeue
  <2>2. wpc' = "stale"
    BY <1>13 DEF Requeue
  <2>3. handled' \subseteq Turns
    BY <1>13 DEF Requeue, ResumeHeld
  <2> QED
    BY <1>13, <2>1, <2>2, <2>3 DEF Requeue
<1>14. CASE ResumeStale
  <2>1. turns' \in [Turns -> Row]
    <3>1. CASE turns' = turns
      BY <3>1
    <3>2. CASE /\ Active(wMarker) /\ wMarker.sess \in WithChat
               /\ turns' = Created(Resume(wMarker.sess, 1, turns[wMarker.task].root))
      <4>1. turns[wMarker.task].root \in Turns \cup {NoTurn}
        BY <3>2 DEF ActiveHasTask, Row
      <4>2. wMarker.sess \in Sessions \cup {NoSession} /\ 1 \in Nat
        BY <3>2
      <4>3. Resume(wMarker.sess, 1, turns[wMarker.task].root) \in Row
        BY <4>1, <4>2, ResumeTypes
      <4> QED
        BY <3>2, <4>3, CreatedTypes
    <3> QED
      BY <1>14, <3>1, <3>2 DEF ResumeStale
  <2>2. wpc' = "clear"
    BY <1>14 DEF ResumeStale
  <2> QED
    BY <1>14, <2>1, <2>2 DEF ResumeStale
<1>b. CASE ClearStale
  <2>1. wpc' = "look" /\ marker' \in Markers
    BY <1>b DEF ClearStale, Markers
  <2>2. lost' \in [Tokens -> {"no", "replaced", "dropped"}]
    BY <1>b, <1>r DEF ClearStale
  <2> QED
    BY <1>b, <2>1, <2>2 DEF ClearStale
<1>15. CASE BotLooks
  BY <1>15 DEF BotLooks
<1>16. CASE BotSeesRecovery
  BY <1>16 DEF BotSeesRecovery, HasMarker, Markers, MarkerType
<1>17. CASE BotSeesReady
  BY <1>17 DEF BotSeesReady
<1>18. CASE BotGivesUp
  BY <1>18 DEF BotGivesUp
<1>19. CASE BotClaims
  BY <1>19 DEF BotClaims, ClaimFile, HasMarker, Markers, MarkerType
<1>20. CASE BotSends
  BY <1>20, <1>a DEF BotSends
<1>21. CASE BotReleases
  BY <1>21 DEF BotReleases, Markers
<1>22. ASSUME NEW t \in Turns, Claim(t) PROVE TypedButTask'
  <2>1. turns' \in [Turns -> Row] /\ scan' \subseteq Turns /\ wTurn' \in Turns
    BY <1>22, SMTT(60) DEF Claim, Row
  <2>2. wpc' \in {"turn", "marking"}
    BY <1>22 DEF Claim
  <2> QED
    BY <1>22, <2>1, <2>2 DEF Claim
<1>c. CASE Look
  BY <1>c DEF Look, Pending
<1>23. CASE WriteMarker
  <2>1. marker' \in Markers
    <3>1. wTurn \in Turns /\ turns[wTurn].sess \in Sessions \cup {NoSession}
      BY <1>23 DEF WriteMarker, Row
    <3>2. \/ marker' = NewMarker("started", turns[wTurn].sess, wTurn)
          \/ marker' = NewMarker("session_active", turns[wTurn].sess, wTurn)
      BY <1>23 DEF WriteMarker
    <3>3. marker' \in MarkerType
      BY <3>1, <3>2, NewMarkerTypes
    <3> QED
      BY <3>3 DEF Markers
  <2>2. lost' \in [Tokens -> {"no", "replaced", "dropped"}]
    BY <1>23, <1>r DEF WriteMarker
  <2>3. wpc' \in {"deploying", "turn"} /\ (dpc' = "notify" \/ dpc' = dpc)
    BY <1>23 DEF WriteMarker
  <2> QED
    BY <1>23, <2>1, <2>2, <2>3 DEF WriteMarker
<1>24. CASE EndTurn \/ TurnRaises
  <2>1. marker' \in Markers /\ left' \in Schedule /\ wpc' = "ending"
    BY <1>24 DEF EndTurn, TurnRaises, Markers, Schedule
  <2> QED
    BY <1>24, <2>1 DEF EndTurn, TurnRaises
<1>25. CASE EndDeploy
  BY <1>25, CompletedTypes DEF EndDeploy
<1>26. CASE FinishRow
  BY <1>26, SMTT(60) DEF FinishRow, Row
<1>27. CASE Reload \/ Reexec
  <2>1. marker' \in Markers
    BY <1>27, ReservedTypes, CompletedTypes DEF Reload, Reexec
  <2>2. warned' \in Nat
    BY <1>27 DEF Reload, Reexec
  <2>3. restartKey' \in BOOLEAN /\ wpc' \in {"down", "reloading"}
    BY <1>27 DEF Reload, Reexec
  <2> QED
    BY <1>27, <2>1, <2>2, <2>3 DEF Reload, Reexec
<1>28. ASSUME NEW clean \in BOOLEAN, Stop(clean) PROVE TypedButTask'
  <2>1. left' \in Schedule /\ wpc' = "down" /\ wToken' = NoToken /\ cleanFile' \in BOOLEAN
    BY <1>28 DEF Stop, Schedule
  <2>2. demises' \in [Turns -> Nat]
    <3>1. CASE ~clean /\ wpc \in InTurn
      <4>1. demises' = [demises EXCEPT ![turns[wTurn].root] = @ + 1]
        BY <1>28, <3>1 DEF Stop
      <4> QED
        BY <4>1, CountTypes
    <3>2. CASE clean \/ wpc \notin InTurn
      BY <1>28, <3>2 DEF Stop
    <3> QED
      BY <3>1, <3>2
  <2>4. cutShort' \subseteq Turns
    BY <1>28, <1>i DEF Stop
  <2>3. lost' \in [Tokens -> {"no", "replaced", "dropped"}]
    BY <1>28, <1>s DEF Stop
  <2> QED
    BY <1>28, <1>l, <2>1, <2>2, <2>3, <2>4 DEF Stop
<1>29. CASE StartScript
  BY <1>29 DEF StartScript, Schedule
<1>30. CASE NotifyStart
  <2>1. lost' \in [Tokens -> {"no", "replaced", "dropped"}]
    BY <1>30, <1>r DEF NotifyStart
  <2> QED
    BY <1>30, <2>1, EnsuredTypes, ReservedTypes DEF NotifyStart
<1>31. CASE Preflight \/ RecreateBot \/ RequestRestart
  <2>1. CASE Preflight
    BY <2>1 DEF Preflight
  <2>2. CASE RecreateBot
    <3>1. lost' \in [Tokens -> {"no", "replaced", "dropped"}]
      BY <2>2, <1>s DEF RecreateBot
    <3> QED
      BY <2>2, <3>1 DEF RecreateBot
  <2>3. CASE RequestRestart
    <3>1. restartKey' \in BOOLEAN
      BY <2>3 DEF RequestRestart
    <3> QED
      BY <2>3, <3>1 DEF RequestRestart
  <2> QED
    BY <1>31, <2>1, <2>2, <2>3
<1>32. CASE ReadMarker
  BY <1>32, SnapshotTypes, NewMarkerTypes DEF ReadMarker, HasMarker, Markers
<1>33. CASE WritePending
  <2>1. marker' \in Markers
    BY <1>33, ZenonT(60) DEF WritePending, FreshToken, Markers, MarkerType
  <2>2. tokens' \in 0..MaxToken
    BY <1>33 DEF WritePending, FreshToken, Tokens
  <2>3. lost' \in [Tokens -> {"no", "replaced", "dropped"}]
    BY <1>33, <1>r DEF WritePending
  <2> QED
    BY <1>33, <2>1, <2>2, <2>3 DEF WritePending, Markers
<1>34. ASSUME NEW x \in Sessions, Message(x) \/ AskDeploy(x) PROVE TypedButTask'
  <2>1. turns' \in [Turns -> Row]
    <3>1. CanCreate /\ (turns' = NewWork(x, "user") \/ turns' = NewWork(x, "deploy"))
      BY <1>34 DEF Message, AskDeploy
    <3> QED
      BY <3>1, NewWorkTypes, ZenonT(60)
  <2>2. left' \in Schedule
    BY <1>34 DEF Message, AskDeploy, Schedule
  <2> QED
    BY <1>34, <2>1, <2>2 DEF Message, AskDeploy
<1> QED
  BY <1>1, <1>2, <1>3, <1>4, <1>5, <1>6, <1>7, <1>8, <1>9, <1>10, <1>11, <1>12, <1>13, <1>14, <1>b, <1>c, <1>15, <1>16, <1>17, <1>18, <1>19, <1>20, <1>21, <1>22, <1>23, <1>24, <1>25, <1>26, <1>27, <1>28, <1>29, <1>30, <1>31, <1>32, <1>33, <1>34
  DEF RecoveryNext, WorkerStep, RecoveryStep, BotStep, ScriptStep

\* How the steps that matter to no row, and to no turn's marker, move the worker.
QuietMoves == {<<"down", "consume">>, <<"store", "resume">>, <<"ready", "look">>,
               <<"tell", "requeue">>, <<"send", "release">>, <<"release", "idle">>,
               <<"turn", "ending">>, <<"deploying", "ending">>, <<"idle", "reloading">>,
               <<"idle", "down">>, <<"reloading", "down">>}
Quiet == /\ UNCHANGED <<turns, wTurn, wMarker, wClean, wNote, wResume, cleanFile, demises,
                        cut, cutShort>>
         /\ scan' \subseteq scan \cup Pending
         /\ wpc' = wpc \/ <<wpc, wpc'>> \in QuietMoves
         /\ \/ UNCHANGED <<handled, dropped>> /\ (wpc' = wpc \/ wpc # "tell")
            \/ wpc = "tell" /\ wpc' = "requeue" /\ handled \subseteq handled'
                            /\ dropped \subseteq dropped'
                            /\ (wTurn = NoTurn \/ wNote = "none" \/ wTurn \in handled' \cup dropped')
         /\ Active(marker') => /\ Active(marker) /\ marker'.task = marker.task
                               /\ marker'.sess = marker.sess
                               /\ marker' = marker \/ wpc = "store"

StepKind ==
    \/ Consume \/ SettleRows \/ ResumeDeployed \/ Requeue \/ ResumeStale \/ ClearStale
    \/ RecoveryFails \/ WorkerLooks \/ WriteMarker \/ FinishRow
    \/ \E t \in Turns : Claim(t)
    \/ \E s \in Sessions, kind \in {"user", "deploy"} :
          /\ CanCreate /\ turns' = NewWork(s, kind)
          /\ UNCHANGED <<marker, cleanFile, wpc, wTurn, scan, wMarker, wClean, wNote, wResume,
                         turnHistory>>
    \/ \E clean \in BOOLEAN : Stop(clean)
    \/ Quiet

LEMMA StepKinds == ASSUME RecoveryTyped, [RecoveryNext]_recoveryVars PROVE StepKind
<1> USE DEF StepKind, Quiet, QuietMoves, files, redisKeys, loopVars, recoveryLocals, deliveryVars,
            scriptVars, tokenHistory, turnHistory
<1>m. marker \in Markers /\ ~Active(NoMarker)
  BY DEF RecoveryTyped, RecoveryTypeOK, Active
<1>r. ASSUME NEW m \in Markers
      PROVE  /\ Active(Reserved(m)) => m = Reserved(m)
             /\ ~Active(Completed(m))
  BY NoMarkerIsNone DEF Reserved, Completed, Active, Markers, MarkerType, NoMarker
<1>1. CASE UNCHANGED recoveryVars
  BY <1>1 DEF recoveryVars
<1>2. CASE Boot \/ SetReady \/ WorkerSends \/ WorkerReleases \/ Look \/ TurnRaises
  BY <1>2, SMTT(60) DEF Boot, SetReady, WorkerSends, WorkerReleases, Look, TurnRaises
<1>3. CASE TellInterrupted
  BY <1>3 DEF TellInterrupted
<1>4. CASE StoreNotes
  <2>1. CASE ~HasMarker
    BY <1>4, <2>1 DEF StoreNotes
  <2>2. CASE HasMarker
    <3>1. marker \in MarkerType
      BY <1>m, <2>2 DEF HasMarker, Markers
    <3>2. marker'.status = marker.status /\ marker'.task = marker.task /\ marker'.sess = marker.sess
      BY <1>4, <2>2, <3>1 DEF StoreNotes, MarkerType
    <3> QED
      BY <1>4, <2>2, <3>2 DEF StoreNotes, HasMarker, Active
  <2> QED
    BY <2>1, <2>2
<1>5. CASE EndTurn
  BY <1>5, <1>m DEF EndTurn
<1>6. CASE EndDeploy
  BY <1>6, <1>m, <1>r DEF EndDeploy
<1>7. CASE Reload \/ Reexec
  BY <1>7, <1>m, <1>r DEF Reload, Reexec
<1>8. CASE BotStep
  <2>1. CASE BotClaims
    BY <2>1, <1>m DEF BotClaims, ClaimFile
  <2>2. CASE BotLooks \/ BotSeesRecovery \/ BotSeesReady \/ BotGivesUp \/ BotSends \/ BotReleases
    BY <2>2, SMTT(60) DEF BotLooks, BotSeesRecovery, BotSeesReady, BotGivesUp, BotSends, BotReleases
  <2> QED
    BY <1>8, <2>1, <2>2 DEF BotStep
<1>9. CASE StartScript \/ Preflight \/ RecreateBot \/ RequestRestart \/ ReadMarker
  BY <1>9, SMTT(60) DEF StartScript, Preflight, RecreateBot, RequestRestart, ReadMarker
<1>10. CASE NotifyStart
  <2>1. Ensured \in Markers /\ (Ensured = marker \/ ~Active(Ensured))
    BY EnsuredTypes DEF RecoveryTyped, Ensured, NewMarker, Active
  <2>2. Active(marker') => marker' = Ensured
    BY <1>10, <1>r, <2>1 DEF NotifyStart
  <2> QED
    BY <1>10, <2>1, <2>2 DEF NotifyStart
<1>11. CASE WritePending
  <2>1. marker'.status = "pending_resume"
    BY <1>11 DEF WritePending, RecoveryTyped, RawKnown, MarkerType
  <2> QED
    BY <1>11, <2>1 DEF WritePending, Active
<1>12. ASSUME NEW x \in Sessions, Message(x) \/ AskDeploy(x) PROVE StepKind
  BY <1>12 DEF Message, AskDeploy
<1> QED
  BY <1>1, <1>2, <1>3, <1>4, <1>5, <1>6, <1>7, <1>8, <1>9, <1>10, <1>11, <1>12
  DEF RecoveryNext, WorkerStep, RecoveryStep, ScriptStep

LEMMA TypedNext == RecoveryTyped /\ [RecoveryNext]_recoveryVars => RecoveryTyped'
<1> SUFFICES ASSUME RecoveryTyped, [RecoveryNext]_recoveryVars PROVE RecoveryTyped'
  OBVIOUS
<1> USE DEF files, redisKeys, loopVars, recoveryLocals, turnHistory
<1>0. RecoveryTypeOK' /\ TurnKnown' /\ RawKnown'
  BY TypedNext0 DEF TypedButTask
<1>k. StepKind /\ ActiveHasTask /\ ResumeHeld
  BY StepKinds DEF RecoveryTyped
<1>n. ~Active(NoMarker)
  BY DEF Active, NoMarker
<1>1. ActiveHasTask'
  <2>1. CASE WriteMarker
    <3>1. wTurn \in Turns
      BY <2>1 DEF WriteMarker, RecoveryTyped, TurnKnown
    <3> QED
      BY <2>1, <3>1, <1>k DEF WriteMarker, NewMarker, Active, ActiveHasTask
  <2>2. CASE \/ Consume \/ SettleRows \/ ResumeDeployed \/ Requeue \/ ResumeStale \/ ClearStale
             \/ RecoveryFails \/ WorkerLooks \/ FinishRow
    BY <2>2, <1>k, <1>n DEF ActiveHasTask, Consume, SettleRows, ResumeDeployed, Requeue, ResumeStale,
       ClearStale, RecoveryFails, WorkerLooks, FinishRow, LocalsGone, ClaimFile
  <2>3. ASSUME NEW t \in Turns, Claim(t) PROVE ActiveHasTask'
    BY <2>3, <1>k DEF ActiveHasTask, Claim
  <2>4. ASSUME NEW clean \in BOOLEAN, Stop(clean) PROVE ActiveHasTask'
    BY <2>4, <1>k, <1>n DEF ActiveHasTask, Stop, LocalsGone
  <2>5. CASE Quiet
    BY <2>5, <1>k DEF ActiveHasTask, Quiet
  <2>6. CASE UNCHANGED <<marker, wMarker>>
    BY <2>6, <1>k DEF ActiveHasTask, Active
  <2> QED
    BY <1>k, <2>1, <2>2, <2>3, <2>4, <2>5, <2>6 DEF StepKind
<1>2. ResumeHeld'
  <2>1. CASE SettleRows
    <3>1. wResume' # NoRow => Running # {} /\ ~ShouldRecover(wMarker)
      BY <2>1 DEF SettleRows
    <3>2. Running # {} => wTurn' \in Turns
      BY <2>1, RunningTypes DEF SettleRows, RecoveryTyped
    <3> QED
      BY <2>1, <3>1, <3>2 DEF SettleRows, ResumeHeld
  <2>2. CASE \/ Consume \/ ResumeDeployed \/ Requeue \/ ResumeStale \/ ClearStale
             \/ RecoveryFails \/ WorkerLooks \/ FinishRow \/ WriteMarker
    BY <2>2, <1>k DEF ResumeHeld, Consume, ResumeDeployed, Requeue, ResumeStale,
       ClearStale, RecoveryFails, WorkerLooks, FinishRow, LocalsGone, WriteMarker
  <2>3. ASSUME NEW t \in Turns, Claim(t) PROVE ResumeHeld'
    BY <2>3, <1>k DEF ResumeHeld, Claim
  <2>4. ASSUME NEW clean \in BOOLEAN, Stop(clean) PROVE ResumeHeld'
    BY <2>4 DEF ResumeHeld, Stop, LocalsGone
  <2>5. CASE Quiet
    BY <2>5, <1>k DEF ResumeHeld, Quiet, QuietMoves
  <2>6. CASE UNCHANGED <<wpc, wTurn, wResume>>
    BY <2>6, <1>k DEF ResumeHeld
  <2> QED
    BY <1>k, <2>1, <2>2, <2>3, <2>4, <2>5, <2>6 DEF StepKind
<1> QED
  BY <1>0, <1>1, <1>2 DEF RecoveryTyped

\* Every variable of the recovery keeps its type, for any sessions and schedules.
THEOREM RecoveryTypeCorrect == RecoverySpec => []RecoveryTypeOK
<1>1. RecoverySpec => []RecoveryTyped
  BY TypedInit, TypedNext, PTL DEF RecoverySpec
<1>2. RecoveryTyped => RecoveryTypeOK
  BY DEF RecoveryTyped
<1> QED
  BY <1>1, <1>2, PTL
----
(* Delivery. *)

\* Where a token is that may still be sent: in the marker, or with a process
\* that is about to send it.
AtMarker == IF marker = NoMarker THEN NoToken ELSE marker.token
AtWorker == IF wpc = "send" THEN wToken ELSE NoToken
AtBot    == IF bpc = "send" THEN bToken ELSE NoToken

Unsent(k) == k # NoToken => k <= tokens /\ announced[k] = 0

\* A token is in one place at most, nothing has been sent under it yet, and
\* under a token that nobody has handed out nothing is sent.
OnePlace ==
    /\ \A k \in Tokens : announced[k] <= 1 /\ (k > tokens => announced[k] = 0)
    /\ Unsent(AtMarker) /\ Unsent(AtWorker) /\ Unsent(AtBot)
    /\ (AtMarker # NoToken => AtMarker # AtWorker /\ AtMarker # AtBot)
    /\ (AtWorker # NoToken => AtWorker # AtBot)

LEMMA PlaceTypes ==
  ASSUME RecoveryTyped
  PROVE  {AtMarker, AtWorker, AtBot} \subseteq Tokens \cup {NoToken}
  BY DEF RecoveryTyped, RecoveryTypeOK, AtMarker, AtWorker, AtBot, Markers, MarkerType

LEMMA OnePlaceKept ==
  ASSUME OnePlace, tokens' = tokens, announced' = announced,
         AtMarker' \in {AtMarker, NoToken}, AtWorker' \in {AtWorker, NoToken},
         AtBot' \in {AtBot, NoToken}
  PROVE  OnePlace'
  BY DEF OnePlace, Unsent

LEMMA OnePlaceNext ==
  ASSUME RecoveryTyped, OnePlace, [RecoveryNext]_recoveryVars
  PROVE  OnePlace'
<1> USE RecoveryAssumption DEF files, redisKeys, deliveryVars, scriptVars, tokenHistory
<1>t. /\ marker \in MarkerType \cup {NoMarker} /\ tokens \in 0..MaxToken
      /\ announced \in [Tokens \cup {NoToken} -> Nat]
  BY DEF RecoveryTyped, RecoveryTypeOK, Markers
<1>m. marker \in MarkerType => AtMarker = marker.token
  BY NoMarkerIsNone DEF AtMarker
<1>k. ASSUME tokens' = tokens, announced' = announced, marker' = marker \/ marker' = NoMarker
                    \/ (marker' \in MarkerType /\ marker'.token \in {AtMarker, NoToken}),
             wpc' # "send" \/ UNCHANGED <<wpc, wToken>>, bpc' # "send" \/ UNCHANGED <<bpc, bToken>>
      PROVE  OnePlace'
  BY <1>k, <1>m, OnePlaceKept, NoMarkerIsNone DEF AtMarker, AtWorker, AtBot
<1>f. ASSUME FreshToken \in Tokens, tokens' = FreshToken, announced' = announced,
             marker' \in MarkerType, marker'.token = FreshToken,
             wpc' # "send" \/ UNCHANGED <<wpc, wToken>>, bpc' # "send" \/ UNCHANGED <<bpc, bToken>>
      PROVE  OnePlace'
  <2>1. AtMarker' = FreshToken /\ AtWorker' \in {AtWorker, NoToken} /\ AtBot' \in {AtBot, NoToken}
    BY <1>f, NoMarkerIsNone DEF AtMarker, AtWorker, AtBot
  <2>2. /\ {AtWorker, AtBot} \subseteq 0..tokens /\ announced[FreshToken] = 0
        /\ FreshToken # NoToken
    BY <1>f, <1>t, PlaceTypes DEF OnePlace, Unsent, FreshToken, Tokens, NoToken
  <2> QED
    BY <1>f, <1>t, <2>1, <2>2 DEF OnePlace, Unsent, FreshToken, Tokens
<1>1. CASE StoreNotes
  <2>1. CASE HasMarker /\ marker.token = NoToken
    <3>1. marker' \in MarkerType /\ marker'.token = FreshToken
      BY <1>1, <1>t, <2>1, ZenonT(60) DEF StoreNotes, HasMarker, MarkerType
    <3> QED
      BY <1>1, <1>f, <2>1, <3>1 DEF StoreNotes
  <2>2. CASE HasMarker /\ marker.token # NoToken
    <3>1. marker' \in MarkerType /\ marker'.token = AtMarker
      BY <1>1, <1>t, <1>m, <2>2 DEF StoreNotes, HasMarker, MarkerType
    <3> QED
      BY <1>1, <1>k, <2>2, <3>1 DEF StoreNotes
  <2>3. CASE ~HasMarker
    BY <1>1, <1>k, <2>3 DEF StoreNotes
  <2> QED
    BY <2>1, <2>2, <2>3
<1>2. CASE WritePending
  <2>1. marker' \in MarkerType /\ marker'.token = FreshToken
    BY <1>2 DEF WritePending, RecoveryTyped, RawKnown, MarkerType
  <2> QED
    BY <1>2, <1>f, <2>1 DEF WritePending
<1>3. CASE WorkerLooks
  <2>1. CASE HasMarker /\ marker.recovered
    <3>1. AtMarker' = NoToken /\ AtWorker' = AtMarker /\ AtBot' = AtBot
      BY <1>3, <2>1 DEF WorkerLooks, ClaimFile, HasMarker, AtMarker, AtWorker, AtBot
    <3> QED
      BY <1>3, <3>1 DEF WorkerLooks, OnePlace, Unsent
  <2> QED
    BY <1>3, <1>k, <2>1 DEF WorkerLooks
<1>4. CASE BotClaims
  <2>1. AtMarker' = NoToken /\ AtWorker' = AtWorker /\ AtBot' = AtMarker
    BY <1>4 DEF BotClaims, ClaimFile, HasMarker, AtMarker, AtWorker, AtBot
  <2> QED
    BY <1>4, <2>1 DEF BotClaims, OnePlace, Unsent
<1>a. ASSUME NEW k \in Tokens \cup {NoToken}, Announce(k)
      PROVE  \/ announced' = announced
             \/ announced' = [announced EXCEPT ![k] = @ + 1]
  BY <1>a DEF Announce
<1>5. CASE WorkerSends
  <2>1. /\ AtMarker' = AtMarker /\ AtWorker' = NoToken /\ AtBot' = AtBot /\ wToken = AtWorker
        /\ tokens' = tokens /\ Announce(wToken)
    BY <1>5 DEF WorkerSends, AtMarker, AtWorker, AtBot
  <2>2. AtWorker \in Tokens \cup {NoToken}
    BY PlaceTypes
  <2>3. CASE announced' = announced
    BY <2>1, <2>3, OnePlaceKept
  <2>4. CASE announced' = [announced EXCEPT ![AtWorker] = @ + 1]
    BY <1>t, <2>1, <2>2, <2>4 DEF OnePlace, Unsent, Tokens, NoToken
  <2> QED
    BY <1>a, <2>1, <2>2, <2>3, <2>4
<1>6. CASE BotSends
  <2>1. /\ AtMarker' = AtMarker /\ AtWorker' = AtWorker /\ AtBot' = NoToken /\ bToken = AtBot
        /\ tokens' = tokens /\ Announce(bToken)
    BY <1>6 DEF BotSends, AtMarker, AtWorker, AtBot
  <2>2. AtBot \in Tokens \cup {NoToken}
    BY PlaceTypes
  <2>3. CASE announced' = announced
    BY <2>1, <2>3, OnePlaceKept
  <2>4. CASE announced' = [announced EXCEPT ![AtBot] = @ + 1]
    BY <1>t, <2>1, <2>2, <2>4 DEF OnePlace, Unsent, Tokens, NoToken
  <2> QED
    BY <1>a, <2>1, <2>2, <2>3, <2>4
<1>7. CASE Reload \/ Reexec
  <2>1. marker \in MarkerType => marker' \in MarkerType /\ marker'.token = marker.token
    BY <1>7, <1>t, ReservedTypes, CompletedTypes DEF Reload, Reexec, Markers
  <2>2. marker = NoMarker => marker' = NoMarker
    BY <1>7, ReservedTypes, CompletedTypes DEF Reload, Reexec, Markers
  <2> QED
    BY <1>7, <1>k, <1>m, <1>t, <2>1, <2>2 DEF Reload, Reexec
<1>8. CASE NotifyStart
  <2>1. Ensured \in Markers /\ (Ensured = marker \/ (Ensured \in MarkerType /\ Ensured.token = NoToken))
    BY EnsuredTypes DEF RecoveryTyped
  <2>2. marker' = NoMarker \/ (marker' \in MarkerType /\ marker'.token \in {AtMarker, NoToken})
    BY <1>8, <1>m, <1>t, <2>1, ReservedTypes DEF NotifyStart, Markers
  <2> QED
    BY <1>8, <1>k, <2>2 DEF NotifyStart
<1>9. CASE EndDeploy
  <2>1. marker' = NoMarker \/ (marker' \in MarkerType /\ marker'.token = AtMarker)
    BY <1>9, <1>m, <1>t, CompletedTypes DEF EndDeploy, Markers
  <2> QED
    BY <1>9, <1>k, <2>1 DEF EndDeploy
<1>10. CASE WriteMarker
  <2>1. wTurn \in Turns /\ turns[wTurn].sess \in Sessions \cup {NoSession}
    BY <1>10 DEF WriteMarker, RecoveryTyped, RecoveryTypeOK, TurnKnown, Row
  <2>2. \/ marker' = NewMarker("started", turns[wTurn].sess, wTurn)
        \/ marker' = NewMarker("session_active", turns[wTurn].sess, wTurn)
    BY <1>10 DEF WriteMarker
  <2>3. marker' \in MarkerType /\ marker'.token = NoToken
    BY <2>1, <2>2, NewMarkerTypes
  <2> QED
    BY <1>10, <1>k, <2>3 DEF WriteMarker
<1>11. CASE EndTurn \/ ClearStale
  BY <1>11, <1>k DEF EndTurn, ClearStale
<1>12. CASE \/ Boot \/ Consume \/ SettleRows \/ ResumeDeployed \/ SetReady \/ TellInterrupted
            \/ Requeue \/ ResumeStale \/ WorkerReleases \/ FinishRow \/ RecoveryFails \/ Look
            \/ TurnRaises \/ \E t \in Turns : Claim(t)
  BY <1>12, <1>k, SMTT(60) DEF Boot, Consume, SettleRows, ResumeDeployed, SetReady, TellInterrupted,
     Requeue, ResumeStale, WorkerReleases, FinishRow, RecoveryFails, Look, TurnRaises, Claim
<1>13. CASE BotLooks \/ BotSeesRecovery \/ BotSeesReady \/ BotGivesUp \/ BotReleases
  BY <1>13, <1>k DEF BotLooks, BotSeesRecovery, BotSeesReady, BotGivesUp, BotReleases
<1>14. CASE StartScript \/ Preflight \/ RecreateBot \/ RequestRestart \/ ReadMarker
  BY <1>14, <1>k DEF StartScript, Preflight, RecreateBot, RequestRestart, ReadMarker
<1>15. CASE \/ \E s \in Sessions : Message(s) \/ AskDeploy(s)
            \/ \E clean \in BOOLEAN : Stop(clean)
  BY <1>15, <1>k DEF Message, AskDeploy, Stop
<1>16. CASE UNCHANGED recoveryVars
  BY <1>16, <1>k DEF recoveryVars
<1> QED
  BY <1>1, <1>2, <1>3, <1>4, <1>5, <1>6, <1>7, <1>8, <1>9, <1>10, <1>11, <1>12, <1>13, <1>14,
     <1>15, <1>16
  DEF RecoveryNext, WorkerStep, RecoveryStep, BotStep, ScriptStep

\* What is stored under one token is sent once at most, whatever crashes.
THEOREM TokenSentOnce == RecoverySpec => []DeliveredOnce
<1>1. RecoveryInit => OnePlace
  BY RecoveryAssumption
  DEF RecoveryInit, OnePlace, Unsent, AtMarker, AtWorker, AtBot, Tokens, NoToken
<1>2. RecoverySpec => []RecoveryTyped
  BY TypedInit, TypedNext, PTL DEF RecoverySpec
<1>3. RecoveryTyped /\ OnePlace /\ [RecoveryNext]_recoveryVars => OnePlace'
  BY OnePlaceNext
<1>4. OnePlace => DeliveredOnce
  BY DEF OnePlace, DeliveredOnce
<1> QED
  BY <1>1, <1>2, <1>3, <1>4, PTL DEF RecoverySpec
----
(* The rows. *)

\* Rows are numbered as they come; each has the number of a message's or a
\* deploy's row as its root, a message's row its own.
RowsShape ==
    /\ \E n \in 0..MaxTurn : Used = 1..n
    /\ \A t \in Turns \ Used : turns[t] = NoRow /\ demises[t] = 0
    /\ \A t \in Used : turns[t].root \in Used
    /\ \A t \in Used : turns[t].kind = "user" => turns[t].root = t /\ turns[t].attempt = 0

\* What the worker and the markers know of them.
RowsKnown ==
    /\ wTurn \in Used \cup {NoTurn}
    /\ wpc \in InTurn => turns[wTurn].st = "running"
    /\ scan \subseteq Pending
    /\ wpc = "marking" => turns[wTurn].kind # "resume"
    /\ wResume # NoRow => wResume.root = turns[wTurn].root /\ wResume.kind = "resume"
    /\ \A m \in {marker, wMarker} : Active(m) => /\ m.task \in Used
                                                /\ turns[m.task].kind = "user"
                                                /\ turns[m.task].sess = m.sess

RowsInv == RowsShape /\ RowsKnown

\* A row that is there keeps everything but its status.
RowsStay == \A t \in Used : /\ t \in Used'
                            /\ turns'[t].sess = turns[t].sess /\ turns'[t].kind = turns[t].kind
                            /\ turns'[t].attempt = turns[t].attempt
                            /\ turns'[t].root = turns[t].root

\* Only statuses change.
OnlyStatus == /\ RowsStay /\ Used' = Used
              /\ \A t \in Turns \ Used : turns'[t] = turns[t]

\* One row more.
OneRowMore(r) == /\ NewTurn \in Turns \ Used /\ Used' = Used \cup {NewTurn}
                    /\ \A t \in Turns \ {NewTurn} : turns'[t] = turns[t]
                 /\ turns'[NewTurn] = [r EXCEPT !.st = "pending"]

LEMMA NewTurnIsNext ==
  ASSUME RecoveryTyped, RowsShape, CanCreate
  PROVE  /\ NewTurn \in Turns \ Used
         /\ \E n \in 0..MaxTurn : Used \cup {NewTurn} = 1..n
<1> USE RecoveryAssumption
<1>1. PICK n \in 0..MaxTurn : Used = 1..n
  BY DEF RowsShape
<1>2. Cardinality(Used) = n
  BY <1>1, FS_Interval
<1>3. NewTurn = n + 1 /\ n + 1 \in 0..MaxTurn
  BY <1>2 DEF NewTurn, CanCreate, Turns
<1>4. Used \cup {NewTurn} = 1..(n + 1)
  BY <1>1, <1>3
<1> QED
  BY <1>1, <1>3, <1>4 DEF CanCreate, Turns

LEMMA CreateOne ==
  ASSUME RecoveryTyped, RowsShape, CanCreate, NEW r \in Row, turns' = Created(r)
  PROVE  OneRowMore(r)
<1>1. NewTurn \in Turns \ Used
  BY NewTurnIsNext
<1>2. turns \in [Turns -> Row]
  BY DEF RecoveryTyped, RecoveryTypeOK
<1>3. /\ \A t \in Turns \ {NewTurn} : turns'[t] = turns[t]
      /\ turns'[NewTurn] = [r EXCEPT !.st = "pending"]
  BY <1>1, <1>2 DEF Created
<1>4. turns'[NewTurn].st = "pending"
  BY <1>3 DEF Row
<1>5. Used' = Used \cup {NewTurn}
  <2>1. \A t \in Turns \ {NewTurn} : t \in Used' <=> t \in Used
    BY <1>3 DEF Used
  <2>2. NewTurn \in {t \in Turns : turns'[t].st # "none"}
    BY <1>1, <1>4
  <2>3. Used' = {t \in Turns : turns'[t].st # "none"} /\ Used \subseteq Turns
    BY DEF Used
  <2> QED
    BY <2>1, <2>2, <2>3
<1> QED
  BY <1>1, <1>3, <1>5 DEF OneRowMore

\* A new row is one of its own, or a resume.
NewRow(r) == /\ r \in Row /\ OneRowMore(r) /\ r.root \in Used \cup {NewTurn}
             /\ r.kind = "user" => r.root = NewTurn /\ r.attempt = 0

LEMMA ShapeOfNew ==
  ASSUME RecoveryTyped, RowsShape, CanCreate, NEW r, NewRow(r), demises' = demises
  PROVE  RowsShape' /\ RowsStay
<1>1. /\ turns'[NewTurn].root = r.root /\ turns'[NewTurn].kind = r.kind
      /\ turns'[NewTurn].attempt = r.attempt
  BY DEF NewRow, OneRowMore, Row
<1>2. \E n \in 0..MaxTurn : Used' = 1..n
  BY NewTurnIsNext DEF NewRow, OneRowMore
<1>3. RowsStay
  BY DEF NewRow, OneRowMore, RowsStay, Used
<1>4. \A t \in Turns \ Used' : turns'[t] = NoRow /\ demises'[t] = 0
  BY DEF NewRow, OneRowMore, RowsShape
<1>5. \A t \in Used' : turns'[t].root \in Used'
  BY <1>1 DEF NewRow, OneRowMore, RowsShape, Used
<1>6. ASSUME NEW t \in Used', turns'[t].kind = "user"
      PROVE  turns'[t].root = t /\ turns'[t].attempt = 0
  <2>1. CASE t = NewTurn
    BY <1>1, <1>6, <2>1 DEF NewRow
  <2>2. CASE t # NewTurn
    <3>1. t \in Used /\ turns'[t] = turns[t]
      BY <1>6, <2>2 DEF NewRow, OneRowMore, Used
    <3> QED
      BY <1>6, <3>1 DEF RowsShape
  <2> QED
    BY <2>1, <2>2
<1> QED
  BY <1>2, <1>3, <1>4, <1>5, <1>6 DEF RowsShape

LEMMA ShapeOfOld ==
  ASSUME RowsShape, OnlyStatus, \A r \in Turns \ Used : demises'[r] = demises[r]
  PROVE  RowsShape' /\ RowsStay
  BY DEF RowsShape, OnlyStatus, RowsStay, Used

LEMMA StatusSteps ==
  ASSUME RecoveryTyped, RowsKnown, SettleRows \/ FinishRow \/ \E t \in Turns : Claim(t)
  PROVE  OnlyStatus
<1> USE DEF RecoveryTyped, RecoveryTypeOK
<1>r. turns \in [Turns -> Row] /\ turns' \in [Turns -> Row]
  <2>1. RecoveryNext
    BY DEF RecoveryNext, WorkerStep, RecoveryStep
  <2> QED
    BY <2>1, TypedNext
<1>k. ASSUME \A t \in Turns : \/ turns'[t] = turns[t]
                              \/ \E x : /\ x # "none" /\ turns[t].st # "none"
                                        /\ turns'[t] = [turns[t] EXCEPT !.st = x]
      PROVE  OnlyStatus
  <2>1. \A t \in Turns : /\ turns'[t].sess = turns[t].sess /\ turns'[t].kind = turns[t].kind
                         /\ turns'[t].attempt = turns[t].attempt
                         /\ turns'[t].root = turns[t].root
                         /\ (turns'[t].st = "none") <=> (turns[t].st = "none")
                         /\ turns[t].st = "none" => turns'[t] = turns[t]
    BY <1>k, <1>r DEF Row
  <2> QED
    BY <2>1 DEF OnlyStatus, RowsStay, Used
<1>1. CASE SettleRows
  <2>1. \A t \in Turns : Verdict(t).st # "none"
    BY VerdictTypes
  <2> QED
    BY <1>1, <1>k, <2>1 DEF SettleRows, Running
<1>2. CASE FinishRow
  <2>1. wTurn \in Turns /\ turns[wTurn].st = "running"
    BY <1>2 DEF FinishRow, TurnKnown, RowsKnown, InTurn
  <2>2. PICK st \in {"completed", "failed"} : turns' = [turns EXCEPT ![wTurn].st = st]
    BY <1>2 DEF FinishRow
  <2>3. turns'[wTurn] = [turns[wTurn] EXCEPT !.st = st] /\ st # "none"
    BY <1>r, <2>1, <2>2
  <2>4. \A t \in Turns \ {wTurn} : turns'[t] = turns[t]
    BY <1>r, <2>1, <2>2
  <2> QED
    BY <1>k, <2>1, <2>3, <2>4
<1>3. ASSUME NEW t \in Turns, Claim(t) PROVE OnlyStatus
  <2>1. turns[t].st = "pending" /\ turns' = [turns EXCEPT ![t].st = "running"]
    BY <1>3 DEF Claim, RowsKnown, Pending
  <2> QED
    BY <1>k, <1>r, <2>1
<1> QED
  BY <1>1, <1>2, <1>3

\* How the rows change: one more row, a status, or not at all.
RowMore(r) ==
    /\ CanCreate /\ NewRow(r) /\ UNCHANGED <<wTurn, scan, wMarker, wClean, demises, cutShort>>
    /\ wpc' = wpc \/ (wpc \in Settled /\ wpc' \in Settled)
    /\ wResume' \in {wResume, NoRow}
    /\ \/ r.root = NewTurn /\ r.attempt <= 1
       \/ Requeue /\ r = wResume /\ wResume # NoRow
       \/ /\ ResumeStale /\ Active(wMarker) /\ wMarker.sess \in WithChat /\ ~AlreadyResumed
          /\ r.root = wMarker.task /\ r.attempt = 1

RowStep == \/ turns' = turns
           \/ SettleRows \/ FinishRow \/ \E t \in Turns : Claim(t)
           \/ \E r : RowMore(r)

LEMMA RowSteps ==
  ASSUME RecoveryTyped, RowsInv, [RecoveryNext]_recoveryVars PROVE RowStep
<1> USE RecoveryAssumption
<1> USE DEF turnHistory, recoveryLocals, files, loopVars, Settled
<1>k. StepKind /\ RowsShape /\ RowsKnown
  BY StepKinds DEF RowsInv
<1>t. RecoveryTypeOK
  BY DEF RecoveryTyped
<1>u. Used \subseteq Turns
  BY DEF Used
<1>1. ASSUME NEW x \in Sessions, NEW kind \in {"user", "deploy"}, CanCreate, turns' = NewWork(x, kind),
             UNCHANGED <<marker, cleanFile, wpc, wTurn, scan, wMarker, wClean, wNote, wResume, turnHistory>>
      PROVE  RowStep
  <2> DEFINE r == [NoRow EXCEPT !.sess = x, !.kind = kind, !.root = NewTurn]
  <2>1. r \in Row /\ r.root = NewTurn /\ r.attempt = 0
    BY <1>t, <1>1, NewWorkTypes DEF NoRow
  <2>2. NewRow(r)
    BY <1>k, <1>1, <2>1, CreateOne DEF NewWork, NewRow
  <2>3. RowMore(r)
    BY <1>1, <2>1, <2>2 DEF RowMore
  <2> QED
    BY <2>3 DEF RowStep
<1>2. ASSUME NEW x \in Sessions, NEW root \in Used \cup {NewTurn}, CanCreate,
             turns' = Created(Resume(x, 1, root))
      PROVE  NewRow(Resume(x, 1, root)) /\ Resume(x, 1, root).root = root
             /\ Resume(x, 1, root).attempt = 1
  <2>1. /\ Resume(x, 1, root) \in Row /\ Resume(x, 1, root).root = root
        /\ Resume(x, 1, root).attempt = 1 /\ Resume(x, 1, root).kind = "resume"
    BY <1>u, <1>2, ResumeTypes DEF CanCreate
  <2> QED
    BY <1>k, <1>2, <2>1, CreateOne DEF NewRow
<1>3. CASE ResumeDeployed
  <2>1. CASE turns' = turns
    BY <2>1 DEF RowStep
  <2>2. CASE wMarker.sess \in WithChat
    <3>1. CanCreate /\ turns' = Created(Resume(wMarker.sess, 1, NewTurn)) /\ wMarker.sess \in Sessions
      BY <1>3, <2>2 DEF ResumeDeployed
    <3>2. RowMore(Resume(wMarker.sess, 1, NewTurn))
      BY <1>2, <1>3, <3>1 DEF ResumeDeployed, RowMore
    <3> QED
      BY <3>2 DEF RowStep
  <2> QED
    BY <1>3, <2>1, <2>2 DEF ResumeDeployed
<1>4. CASE Requeue
  <2>1. CASE wResume = NoRow
    BY <1>4, <2>1 DEF Requeue, RowStep
  <2>2. CASE wResume # NoRow
    <3>1. wResume \in Row /\ wResume.root \in Used /\ wResume.kind = "resume"
      <4>1. wTurn \in Used
        BY <1>k, <2>2 DEF RowsKnown, RecoveryTyped, ResumeHeld, Turns, NoTurn
      <4> QED
        BY <1>k, <1>t, <2>2, <4>1 DEF RowsKnown, RowsShape, RecoveryTypeOK
    <3>2. NewRow(wResume)
      BY <1>k, <1>4, <2>2, <3>1, CreateOne DEF Requeue, NewRow
    <3>3. RowMore(wResume)
      BY <1>4, <2>2, <3>2 DEF Requeue, RowMore
    <3> QED
      BY <3>3 DEF RowStep
  <2> QED
    BY <2>1, <2>2
<1>5. CASE ResumeStale
  <2>1. CASE turns' = turns
    BY <2>1 DEF RowStep
  <2>2. CASE /\ Active(wMarker) /\ wMarker.sess \in WithChat /\ ~AlreadyResumed /\ CanCreate
             /\ turns' = Created(Resume(wMarker.sess, 1, turns[wMarker.task].root))
    <3>1. turns[wMarker.task].root = wMarker.task /\ wMarker.task \in Used /\ wMarker.sess \in Sessions
      BY <1>k, <2>2 DEF RowsKnown, RowsShape
    <3>2. RowMore(Resume(wMarker.sess, 1, wMarker.task))
      BY <1>2, <1>5, <2>2, <3>1 DEF ResumeStale, RowMore
    <3> QED
      BY <3>2 DEF RowStep
  <2> QED
    BY <1>5, <2>1, <2>2 DEF ResumeStale
<1>6. CASE \/ Consume \/ ClearStale \/ RecoveryFails \/ WorkerLooks \/ WriteMarker \/ Quiet
           \/ \E clean \in BOOLEAN : Stop(clean)
  BY <1>6, SMTT(60) DEF Consume, ClearStale, RecoveryFails, WorkerLooks, WriteMarker, Quiet, Stop, RowStep
<1> QED
  BY <1>k, <1>1, <1>3, <1>4, <1>5, <1>6 DEF StepKind, RowStep

\* Crashes are counted only for rows that are there.
LEMMA CountSteps ==
  ASSUME RecoveryTyped, RowsInv, [RecoveryNext]_recoveryVars
  PROVE  \/ demises' = demises
         \/ Stop(TRUE) /\ demises' = [r \in Turns |-> 0]
         \/ /\ Stop(FALSE) /\ wpc \in InTurn /\ turns[wTurn].root \in Used
            /\ demises' = [demises EXCEPT ![turns[wTurn].root] = @ + 1]
<1> USE DEF turnHistory
<1>1. StepKind
  BY StepKinds
<1>2. CASE Stop(TRUE)
  BY <1>2 DEF Stop
<1>3. CASE Stop(FALSE)
  <2>1. wpc \in InTurn => turns[wTurn].root \in Used
    BY DEF RecoveryTyped, TurnKnown, InTurn, RowsInv, RowsKnown, RowsShape, Used, Turns, NoTurn
  <2> QED
    BY <1>3, <2>1 DEF Stop
<1>4. demises' = demises \/ \E clean \in BOOLEAN : Stop(clean)
  BY <1>1, SMTT(60) DEF StepKind, Consume, SettleRows, ResumeDeployed, Requeue, ResumeStale, ClearStale,
     RecoveryFails, WorkerLooks, WriteMarker, FinishRow, Claim, Quiet
<1> QED
  BY <1>2, <1>3, <1>4

LEMMA RowsNext ==
  ASSUME RecoveryTyped, RowsInv, [RecoveryNext]_recoveryVars
  PROVE  RowsInv' /\ RowsStay
<1> USE RecoveryAssumption
<1> USE DEF turnHistory, recoveryLocals, files, loopVars
<1>k. StepKind /\ RowsShape /\ RowsKnown
  BY StepKinds DEF RowsInv
<1>t. RecoveryTypeOK /\ TurnKnown /\ ActiveHasTask
  BY DEF RecoveryTyped
<1>u. Used \subseteq Turns /\ Running \subseteq Used /\ Pending \subseteq Used /\ NoTurn \notin Turns
  BY DEF Used, Running, Pending, Turns, NoTurn
<1>n. ~Active(NoMarker)
  BY DEF Active, NoMarker
<1>s. RowStep
  BY RowSteps
<1>1. RowsShape' /\ RowsStay
  <2>1. CASE SettleRows \/ FinishRow \/ \E t \in Turns : Claim(t)
    <3>1. OnlyStatus
      BY <1>k, <2>1, StatusSteps
    <3>2. demises' = demises
      BY <2>1 DEF SettleRows, FinishRow, Claim
    <3> QED
      BY <1>k, <3>1, <3>2, ShapeOfOld
  <2>2. CASE turns' = turns
    <3>1. OnlyStatus
      BY <2>2 DEF OnlyStatus, RowsStay, Used
    <3>2. \A r \in Turns \ Used : demises'[r] = demises[r]
      <4> HIDE DEF StepKind
      <4>1. demises \in [Turns -> Nat] /\ \A r \in Turns \ Used : demises[r] = 0
        BY <1>k, <1>t DEF RowsShape, RecoveryTypeOK
      <4>2. CASE demises' = demises
        BY <4>2
      <4>3. CASE demises' = [r \in Turns |-> 0]
        BY <4>1, <4>3
      <4>4. ASSUME NEW own \in Used, demises' = [demises EXCEPT ![own] = @ + 1]
            PROVE  \A r \in Turns \ Used : demises'[r] = demises[r]
        BY <4>1, <4>4
      <4> QED
        BY <4>2, <4>3, <4>4, CountSteps
    <3> QED
      BY <1>k, <3>1, <3>2, ShapeOfOld
  <2>3. ASSUME NEW r, RowMore(r) PROVE RowsShape' /\ RowsStay
    BY <1>k, <2>3, ShapeOfNew DEF RowMore
  <2> QED
    BY <1>s, <2>1, <2>2, <2>3 DEF RowStep
<1>2. wTurn' \in Used' \cup {NoTurn}
  <2>1. Used \subseteq Used'
    BY <1>1 DEF RowsStay
  <2>2. wTurn' \in Used \cup {NoTurn}
    <3>1. CASE SettleRows
      BY <1>u, <3>1 DEF SettleRows
    <3>2. ASSUME NEW t \in Turns, Claim(t) PROVE wTurn' \in Used
      BY <1>k, <1>u, <3>2 DEF Claim, RowsKnown
    <3>3. CASE RecoveryFails \/ WorkerLooks \/ \E clean \in BOOLEAN : Stop(clean)
      BY <3>3 DEF RecoveryFails, WorkerLooks, Stop, LocalsGone
    <3>4. CASE \/ Consume \/ ResumeDeployed \/ Requeue \/ ResumeStale \/ ClearStale \/ WriteMarker
               \/ FinishRow \/ Quiet
      BY <1>k, <3>4, SMTT(60) DEF Consume, ResumeDeployed, Requeue, ResumeStale, ClearStale,
         WriteMarker, FinishRow, Quiet, RowsKnown
    <3> QED
      BY <1>k, <3>1, <3>2, <3>3, <3>4 DEF StepKind, RowsKnown
  <2> QED
    BY <2>1, <2>2
<1>3. /\ wpc' \in InTurn => turns'[wTurn'].st = "running"
      /\ scan' \subseteq Pending'
  <2> USE DEF InTurn, RowsKnown
  <2>1. CASE SettleRows
    <3>1. wpc' \notin InTurn /\ scan' = scan
      BY <2>1 DEF SettleRows
    <3>2. Pending \subseteq Pending'
      BY <2>1, <1>t DEF SettleRows, Pending, Running, RecoveryTypeOK
    <3> QED
      BY <1>k, <3>1, <3>2
  <2>2. ASSUME NEW t \in Turns, Claim(t)
        PROVE  turns'[wTurn'].st = "running" /\ scan' \subseteq Pending'
    <3>1. /\ turns'[t].st = "running" /\ wTurn' = t /\ scan' = scan \ {t}
          /\ \A u \in Turns \ {t} : turns'[u] = turns[u]
      BY <1>t, <2>2 DEF Claim, RecoveryTypeOK, Row
    <3> QED
      BY <1>k, <3>1 DEF Pending
  <2>3. CASE FinishRow
    <3>1. /\ wTurn \in Turns /\ wTurn \notin Pending /\ scan' = scan /\ wpc' \notin InTurn
          /\ \A u \in Turns \ {wTurn} : turns'[u] = turns[u]
      BY <1>k, <1>t, <2>3 DEF FinishRow, TurnKnown, Pending, RecoveryTypeOK
    <3> QED
      BY <1>k, <3>1 DEF Pending
  <2>4. ASSUME NEW r, RowMore(r)
        PROVE  /\ wpc' \in InTurn => turns'[wTurn'].st = "running"
               /\ scan' \subseteq Pending'
    <3>1. \A t \in Used : turns'[t] = turns[t]
      BY <1>u, <2>4 DEF RowMore, NewRow, OneRowMore
    <3>2. wpc \in InTurn => wTurn \in Used
      BY <1>k, <1>t DEF TurnKnown, Turns, NoTurn
    <3> QED
      <4>1. Pending \subseteq Pending' /\ scan' = scan
        BY <1>u, <2>4, <3>1 DEF RowMore, Pending
      <4>2. wpc' \in InTurn => wpc \in InTurn /\ wTurn' = wTurn
        BY <2>4 DEF RowMore, Settled
      <4> QED
        BY <1>k, <3>1, <3>2, <4>1, <4>2
  <2>5. CASE turns' = turns
    <3>1. \/ SettleRows \/ FinishRow \/ \E t \in Turns : Claim(t)
          \/ /\ wpc' \in InTurn => wpc \in InTurn /\ wTurn' = wTurn
             /\ scan' \subseteq scan \cup Pending
      BY <1>k, SMTT(60) DEF StepKind, Consume, ResumeDeployed, Requeue, ResumeStale, ClearStale,
         RecoveryFails, WorkerLooks, WriteMarker, Stop, Quiet, QuietMoves, LocalsGone
    <3> QED
      BY <1>k, <2>1, <2>2, <2>3, <2>5, <3>1 DEF Pending
  <2> QED
    BY <1>s, <2>1, <2>2, <2>3, <2>4, <2>5 DEF RowStep
<1>4. wpc' = "marking" => turns'[wTurn'].kind # "resume"
  <2>1. ASSUME NEW t \in Turns, Claim(t) PROVE wpc' = "marking" => turns'[wTurn'].kind # "resume"
    BY <1>k, <1>u, <1>1, <2>1 DEF Claim, RowsStay, RowsKnown
  <2>2. UNCHANGED <<wpc, wTurn>> \/ wpc' # "marking" \/ \E t \in Turns : Claim(t)
    BY <1>k, SMTT(60) DEF StepKind, Consume, SettleRows, ResumeDeployed, Requeue, ResumeStale, ClearStale,
       RecoveryFails, WorkerLooks, WriteMarker, FinishRow, Stop, Quiet, QuietMoves
  <2> QED
    BY <1>k, <1>t, <1>u, <1>1, <2>1, <2>2 DEF TurnKnown, RowsKnown, RowsStay
<1>5. wResume' # NoRow => wResume'.root = turns'[wTurn'].root /\ wResume'.kind = "resume"
  <2>1. CASE SettleRows
    <3> DEFINE u == CHOOSE t \in Running : TRUE
    <3>1. CASE Running # {} /\ wResume' = Resume(turns[u].sess, NextAttempt(u), turns[u].root)
      <4>1. u \in Used /\ wTurn' = u
        BY <1>u, <2>1, <3>1 DEF SettleRows
      <4>2. wResume'.root = turns[u].root /\ wResume'.kind = "resume"
        BY <3>1 DEF Resume, NoRow
      <4> QED
        BY <1>1, <4>1, <4>2 DEF RowsStay
    <3> QED
      BY <2>1, <3>1 DEF SettleRows
  <2>2. CASE wResume' \in {wResume, NoRow} /\ (wTurn' = wTurn \/ wpc \notin {"tell", "requeue"})
    <3>1. wResume # NoRow => wTurn \in Used /\ wpc \in {"tell", "requeue"}
      BY <1>k, <1>u DEF RecoveryTyped, ResumeHeld, RowsKnown
    <3> QED
      BY <1>k, <1>1, <2>2, <3>1 DEF RowsKnown, RowsStay
  <2>3. SettleRows \/ (wResume' \in {wResume, NoRow} /\ (wTurn' = wTurn \/ wpc \notin {"tell", "requeue"}))
        \/ wResume' = NoRow
    BY <1>k, SMTT(60) DEF StepKind, Consume, ResumeDeployed, Requeue, ResumeStale, ClearStale,
       RecoveryFails, WorkerLooks, WriteMarker, FinishRow, Claim, Stop, Quiet, LocalsGone
  <2> QED
    BY <2>1, <2>2, <2>3
<1>6. \A m \in {marker', wMarker'} : Active(m) => /\ m.task \in Used'
                                                /\ turns'[m.task].kind = "user"
                                                /\ turns'[m.task].sess = m.sess
  <2>1. ASSUME NEW m \in {marker, wMarker}, Active(m)
        PROVE  m.task \in Used' /\ turns'[m.task].kind = "user" /\ turns'[m.task].sess = m.sess
    BY <1>k, <1>1, <2>1 DEF RowsKnown, RowsStay
  <2>2. CASE WriteMarker
    <3>1. wTurn \in Used /\ wpc = "marking" /\ wMarker' = wMarker
      BY <1>k, <1>t, <1>u, <2>2 DEF WriteMarker, RowsKnown, TurnKnown
    <3>2. CASE turns[wTurn].kind = "deploy"
      BY <2>1, <2>2, <3>1, <3>2 DEF WriteMarker, NewMarker, Active
    <3>3. CASE turns[wTurn].kind = "user"
      BY <1>1, <2>1, <2>2, <3>1, <3>3 DEF WriteMarker, NewMarker, RowsStay
    <3> QED
      BY <1>k, <1>t, <1>u, <3>1, <3>2, <3>3 DEF RowsKnown, RecoveryTypeOK, Row
  <2>3. CASE /\ \/ marker' \in {marker, NoMarker}
                \/ Active(marker') => /\ Active(marker) /\ marker'.task = marker.task
                                      /\ marker'.sess = marker.sess
             /\ wMarker' \in {wMarker, marker, NoMarker}
    BY <1>n, <2>1, <2>3
  <2>4. ~WriteMarker =>
             /\ \/ marker' \in {marker, NoMarker}
                \/ Active(marker') => /\ Active(marker) /\ marker'.task = marker.task
                                      /\ marker'.sess = marker.sess
             /\ wMarker' \in {wMarker, marker, NoMarker}
    BY <1>k, SMTT(60) DEF StepKind, Consume, SettleRows, ResumeDeployed, Requeue, ResumeStale, ClearStale,
       RecoveryFails, WorkerLooks, FinishRow, Claim, Stop, Quiet, LocalsGone, ClaimFile
  <2> QED
    BY <2>2, <2>3, <2>4
<1> QED
  BY <1>1, <1>2, <1>3, <1>4, <1>5, <1>6 DEF RowsInv, RowsKnown
----
(* What becomes of a turn that was cut off. *)

\* Only the row of the turn the worker is in runs; one that was left running
\* waits for the recovery that settles it.
Recovers == {"down", "consume", "rows"}
RunningIsTurn ==
    /\ wpc \in InTurn => Running \subseteq {wTurn}
    /\ wpc \in Recovers => \A t, u \in Running : t = u
    /\ wpc \notin InTurn \cup Recovers => Running = {}

LEMMA RunningNext ==
  ASSUME RecoveryTyped, RowsInv, RunningIsTurn, [RecoveryNext]_recoveryVars
  PROVE  RunningIsTurn'
<1> USE DEF InTurn, Recovers, Settled, RunningIsTurn
<1>t. turns \in [Turns -> Row] /\ StepKind /\ RowStep
  BY StepKinds, RowSteps DEF RecoveryTyped, RecoveryTypeOK
<1>1. CASE SettleRows
  <2>1. \A t \in Turns : Verdict(t).st # "running"
    BY VerdictTypes
  <2>2. Running' = {}
    BY <1>1, <1>t, <2>1 DEF SettleRows, Running, Row
  <2> QED
    BY <2>2
<1>2. ASSUME NEW t \in Turns, Claim(t) PROVE RunningIsTurn'
  <2>1. Running = {} /\ wTurn' = t /\ wpc' \in InTurn
    BY <1>2 DEF Claim
  <2>2. Running' \subseteq {t}
    BY <1>2, <1>t, <2>1 DEF Claim, Running
  <2> QED
    BY <2>1, <2>2
<1>3. CASE FinishRow
  <2>1. Running' = {}
    BY <1>3, <1>t DEF FinishRow, Running, RecoveryTyped, TurnKnown, Row
  <2> QED
    BY <2>1
<1>4. CASE turns' = turns
  <2>1. Running' = Running
    BY <1>4 DEF Running
  <2>2. \A t, u \in Running : t = u
    OBVIOUS
  <2>3. \/ SettleRows \/ FinishRow \/ \E t \in Turns : Claim(t)
        \/ wpc' = wpc /\ wTurn' = wTurn
        \/ wpc \in InTurn /\ wpc' \in InTurn /\ wTurn' = wTurn
        \/ wpc' \in Recovers
        \/ wpc \notin InTurn \cup Recovers /\ wpc' \notin InTurn \cup Recovers
    <3>1. CASE \/ Consume \/ ResumeDeployed \/ Requeue \/ ResumeStale \/ ClearStale
               \/ RecoveryFails \/ WorkerLooks \/ WriteMarker
      BY <3>1 DEF Consume, ResumeDeployed, Requeue, ResumeStale, ClearStale, RecoveryFails,
         WorkerLooks, WriteMarker, loopVars
    <3>2. CASE Quiet
      BY <3>2, SMTT(60) DEF Quiet, QuietMoves
    <3>3. ASSUME NEW clean \in BOOLEAN, Stop(clean) PROVE wpc' = "down"
      BY <3>3 DEF Stop
    <3> QED
      BY <1>t, <3>1, <3>2, <3>3 DEF StepKind
  <2> QED
    BY <1>1, <1>2, <1>3, <2>1, <2>2, <2>3
<1>5. ASSUME NEW r, RowMore(r) PROVE RunningIsTurn'
  <2>1. turns'[NewTurn].st = "pending" /\ \A t \in Turns \ {NewTurn} : turns'[t] = turns[t]
    BY <1>5 DEF RowMore, NewRow, OneRowMore, Row
  <2>2. Running' \subseteq Running
    BY <2>1 DEF Running
  <2> QED
    BY <1>5, <2>2 DEF RowMore
<1> QED
  BY <1>t, <1>1, <1>2, <1>3, <1>4, <1>5 DEF RowStep

\* The verdict is without a note only for a row the marker's session replaces.
LEMMA NoteGiven ==
  ASSUME NEW t
  PROVE  /\ Verdict(t).note = "none" => ShouldRecover(wMarker) /\ wMarker.sess = turns[t].sess
         /\ ~ShouldRecover(wMarker) /\ turns[t].kind # "deploy" /\ turns[t].sess \in WithChat
               => Verdict(t).note \in {"interrupted", "exhausted"}
<1> DEFINE C1 == ByDeploy(t) \/ turns[t].kind = "deploy"
           C2 == ~ByDeploy(t) /\ Superseded(t)
           C3 == turns[t].sess \notin WithChat
           C4 == ~wClean /\ turns[t].attempt >= MaxAttempts
<1>2. C1 => ShouldRecover(wMarker) \/ turns[t].kind = "deploy"
  BY DEF ByDeploy
<1>3. C2 => ShouldRecover(wMarker) /\ wMarker.sess = turns[t].sess
  BY DEF Superseded
<1>4. C3 => turns[t].sess \notin WithChat
  OBVIOUS
<1> HIDE DEF C1, C2, C3, C4
<1>1. Verdict(t) =
        CASE C1 -> [st |-> "completed", note |-> "online"]
          [] C2 -> [st |-> "failed", note |-> "none"]
          [] C3 -> [st |-> "failed", note |-> "nosession"]
          [] C4 -> [st |-> "failed", note |-> "exhausted"]
          [] OTHER -> [st |-> "failed", note |-> "interrupted"]
  BY DEF Verdict, C1, C2, C3, C4
<1>5. Verdict(t).note = "none" => C2
  BY <1>1
<1>6. ~C1 /\ ~C2 /\ ~C3 => Verdict(t).note \in {"interrupted", "exhausted"}
  BY <1>1
<1> QED
  BY <1>2, <1>3, <1>4, <1>5, <1>6

\* A turn that was cut off is handled, or excused, or is the one the recovery
\* holds a note or the marker's resume for.
Answered == handled \cup dropped \cup cutShort
CutHandled ==
    /\ wpc \notin {"store", "resume", "tell"} => cut \subseteq Answered
    /\ wpc \in {"store", "resume", "tell"} => cut \subseteq Answered \cup {wTurn}
    /\ wpc \in {"store", "resume"} /\ wTurn \in cut => wTurn \in Answered \/ ResumesSession(wTurn)
    /\ wpc = "tell" /\ wTurn # NoTurn => wNote # "none"

LEMMA CutHandledNext ==
  ASSUME RecoveryTyped, RowsInv, RunningIsTurn, CutHandled, [RecoveryNext]_recoveryVars
  PROVE  CutHandled'
<1> USE DEF recoveryLocals, turnHistory, loopVars, Settled
<1>t. StepKind /\ NoTurn \notin Turns /\ Used \subseteq Turns
  BY StepKinds DEF Turns, NoTurn, Used
<1>s. RowsStay
  BY RowsNext
<1>w. ASSUME wTurn \in cut, wpc \in {"store", "resume"}, wTurn' = wTurn, wMarker' = wMarker,
             ResumesSession(wTurn)
      PROVE  ResumesSession(wTurn)'
  <2>1. wTurn \in Used
    BY <1>t, <1>w DEF RecoveryTyped, RecoveryTypeOK, RowsInv, RowsKnown
  <2> QED
    BY <1>s, <1>w, <2>1 DEF RowsStay, ResumesSession
<1>1. CASE SettleRows
  <2> DEFINE u == CHOOSE t \in Running : TRUE
  <2>1. cut \subseteq Answered /\ Answered \subseteq Answered' /\ wMarker' = wMarker
    BY <1>1 DEF SettleRows, CutHandled, Answered
  <2>2. CASE Running = {}
    BY <1>1, <1>t, <2>1, <2>2 DEF SettleRows, CutHandled, RecoveryTyped, RecoveryTypeOK
  <2>3. CASE Running # {}
    <3>1. u \in Turns /\ Running = {u} /\ u \in Used
      BY <1>1, <2>3, RunningTypes DEF SettleRows, RunningIsTurn, Recovers, Running, RecoveryTyped, Used
    <3>2. wTurn' = u /\ cut' \subseteq Answered \cup {u} /\ wNote' = Verdict(u).note
      BY <1>1, <2>1, <2>3, <3>1 DEF SettleRows
    <3>3. CASE ShouldRecover(wMarker)
      <4>1. wpc' = "store"
        BY <1>1, <3>3 DEF SettleRows
      <4>2. u \in dropped' \/ ResumesSession(u)
        BY <1>1, <3>1, <3>3 DEF SettleRows
      <4>3. ResumesSession(u) => ResumesSession(wTurn)'
        BY <1>s, <2>1, <3>1, <3>2 DEF ResumesSession, RowsStay
      <4> QED
        BY <2>1, <3>2, <4>1, <4>2, <4>3 DEF CutHandled, Answered
    <3>4. CASE ~ShouldRecover(wMarker)
      BY <1>1, <2>1, <3>2, <3>4, NoteGiven DEF SettleRows, CutHandled
    <3> QED
      BY <3>3, <3>4
  <2> QED
    BY <2>2, <2>3
<1>2. CASE ResumeDeployed
  <2>1. cut \subseteq Answered \cup {wTurn} /\ (wTurn \in cut => wTurn \in Answered \/ ResumesSession(wTurn))
    BY <1>2 DEF ResumeDeployed, CutHandled
  <2>2. ResumesSession(wTurn) /\ wTurn \in cut => wTurn \in handled'
    BY <1>2 DEF ResumeDeployed, ResumesSession
  <2>3. Answered \subseteq Answered' /\ cut' = cut /\ wpc' = "ready"
    BY <1>2 DEF ResumeDeployed, Answered
  <2>4. handled' \subseteq Answered'
    BY DEF Answered
  <2> QED
    BY <2>1, <2>2, <2>3, <2>4 DEF CutHandled
<1>3. CASE Requeue \/ ResumeStale \/ ClearStale
  BY <1>3 DEF Requeue, ResumeStale, ClearStale, CutHandled, Answered
<1>4. ASSUME wpc \in Settled => cutShort' = cutShort \cup InRecovery,
             wpc \notin Settled => cutShort' = cutShort,
             UNCHANGED <<cut, handled, dropped>>, wpc' \in {"idle", "down"}
      PROVE  CutHandled'
  <2>1. wTurn \in cut => wTurn \in InRecovery
    BY <1>t DEF InRecovery, RecoveryTyped, RecoveryTypeOK
  <2>2. cut \subseteq Answered \cup {wTurn} /\ (wpc \notin Settled => cut \subseteq Answered)
    BY DEF CutHandled
  <2> QED
    BY <1>4, <2>1, <2>2 DEF CutHandled, Answered
<1>5. CASE RecoveryFails
  BY <1>4, <1>5 DEF RecoveryFails
<1>6. ASSUME NEW clean \in BOOLEAN, Stop(clean) PROVE CutHandled'
  BY <1>4, <1>6 DEF Stop
<1>7. CASE \/ Consume \/ WorkerLooks \/ WriteMarker \/ FinishRow \/ \E t \in Turns : Claim(t)
  <2>1. UNCHANGED <<cut, handled, dropped, cutShort>> /\ wpc \notin Settled /\ wpc' \notin Settled
    BY <1>7 DEF Consume, WorkerLooks, WriteMarker, FinishRow, Claim
  <2> QED
    BY <2>1 DEF CutHandled, Answered
<1>8. CASE Quiet
  <2>1. /\ wTurn' = wTurn /\ wMarker' = wMarker /\ wNote' = wNote /\ cut' = cut
        /\ cutShort' = cutShort /\ handled \subseteq handled' /\ dropped \subseteq dropped'
    BY <1>8 DEF Quiet
  <2>2. Answered \subseteq Answered'
    BY <2>1 DEF Answered
  <2>3. CASE wpc' = wpc
    BY <1>w, <2>1, <2>2, <2>3 DEF CutHandled
  <2>4. CASE wpc = "tell" /\ wpc' = "requeue"
    <3>1. wTurn = NoTurn \/ wNote = "none" \/ wTurn \in Answered'
      BY <1>8, <2>4 DEF Quiet, QuietMoves, Answered
    <3>2. cut \subseteq Answered \cup {wTurn} /\ (wTurn # NoTurn => wNote # "none") /\ NoTurn \notin cut
      BY <1>t, <2>4 DEF CutHandled, RecoveryTyped, RecoveryTypeOK
    <3> QED
      BY <2>1, <2>2, <2>4, <3>1, <3>2 DEF CutHandled
  <2>5. CASE wpc = "store" /\ wpc' = "resume"
    BY <1>w, <2>1, <2>2, <2>5 DEF CutHandled
  <2>6. CASE wpc \notin {"store", "resume", "tell"} /\ wpc' \notin {"store", "resume", "tell"}
    BY <2>1, <2>2, <2>6 DEF CutHandled
  <2> QED
    BY <1>8, <2>3, <2>4, <2>5, <2>6 DEF Quiet, QuietMoves
<1>9. CASE UNCHANGED <<wpc, wTurn, wMarker, wNote, turnHistory>>
  BY <1>w, <1>9 DEF CutHandled, Answered
<1> QED
  BY <1>t, <1>1, <1>2, <1>3, <1>5, <1>6, <1>7, <1>8, <1>9 DEF StepKind

RecoveryInv == RecoveryTyped /\ RowsInv /\ RunningIsTurn

LEMMA RecoveryInvariant == RecoverySpec => []RecoveryInv
<1>1. RecoveryInit => RecoveryInv
  <2> SUFFICES ASSUME RecoveryInit PROVE RecoveryInv
    OBVIOUS
  <2>1. Used = {} /\ Running = {} /\ NoTurn \notin Turns
    BY DEF RecoveryInit, Used, Running, NoRow, Turns, NoTurn
  <2>2. \E n \in 0..MaxTurn : Used = 1..n
    <3>1. 0 \in 0..MaxTurn /\ 1..0 = {}
      BY RecoveryAssumption
    <3> QED
      BY <2>1, <3>1
  <2>3. RowsShape
    BY <2>1, <2>2 DEF RecoveryInit, RowsShape
  <2>4. RowsKnown /\ RunningIsTurn
    BY <2>1 DEF RecoveryInit, RowsKnown, RunningIsTurn, InTurn, Active
  <2> QED
    BY TypedInit, <2>3, <2>4 DEF RecoveryInv, RowsInv
<1>2. RecoveryInv /\ [RecoveryNext]_recoveryVars => RecoveryInv'
  BY TypedNext, RowsNext, RunningNext DEF RecoveryInv
<1> QED
  BY <1>1, <1>2, PTL DEF RecoverySpec

\* When the worker serves again, the user of every turn that was cut off has
\* been told of it, or the turn's session has its resume queued, unless the
\* recovery was cut short, Telegram refused the note, or a deploy's recovery of
\* another session took its place.
THEOREM InterruptionsHandled == RecoverySpec => []InterruptedIsHandled
<1>1. RecoveryInit => CutHandled
  BY DEF RecoveryInit, CutHandled
<1>2. RecoveryInv /\ CutHandled /\ [RecoveryNext]_recoveryVars => CutHandled'
  BY CutHandledNext DEF RecoveryInv
<1>3. CutHandled => InterruptedIsHandled
  BY DEF CutHandled, Answered, InterruptedIsHandled, Serving, InTurn
<1> QED
  BY <1>1, <1>2, <1>3, RecoveryInvariant, PTL DEF RecoverySpec
----
(* How often a piece of work dies. *)

\* After a clean stop nothing has died, until the worker serves again.
CleanZero ==
    /\ cleanFile => wpc \in {"down", "consume"} /\ \A r \in Turns : demises[r] = 0
    /\ wClean /\ wpc = "rows" => \A r \in Turns : demises[r] = 0

\* An active marker that is still there when the recovery ends is the one it
\* has read, and is removed.
MarkerRead ==
    /\ wpc \in Settled \cup {"rows"} /\ Active(marker) => wMarker = marker
    /\ wpc \in {"store", "resume", "ready"} => ShouldRecover(wMarker)
    /\ wpc \in {"look", "send", "release"} => ~Active(marker)

\* A row of a session with a chat, settled without a deploy, has a note that
\* keeps its session from being resumed for the marker.
NoteKept ==
    wpc \in {"tell", "requeue", "stale"} /\ wTurn # NoTurn /\ turns[wTurn].kind # "deploy"
        /\ turns[wTurn].sess \in WithChat => wNote \in {"interrupted", "exhausted"}

PlacesInv == CleanZero /\ MarkerRead /\ NoteKept

LEMMA PlacesNext ==
  ASSUME RecoveryInv, PlacesInv, [RecoveryNext]_recoveryVars
  PROVE  PlacesInv'
<1> USE DEF files, recoveryLocals, loopVars, turnHistory
<1>k. StepKind /\ RowsStay /\ CleanZero /\ MarkerRead /\ NoteKept
  BY StepKinds, RowsNext DEF RecoveryInv, PlacesInv
<1>t. /\ wTurn \in Used \cup {NoTurn} /\ NoTurn \notin Turns /\ Used \subseteq Turns
      /\ demises \in [Turns -> Nat]
  BY DEF RecoveryInv, RowsInv, RowsKnown, RecoveryTyped, RecoveryTypeOK, Turns, NoTurn, Used
<1>a. ~Active(NoMarker) /\ \A m : ShouldRecover(m) => ~Active(m)
  BY DEF Active, ShouldRecover, NoMarker
<1>1. CleanZero'
  <2>1. CASE Consume
    BY <1>k, <2>1 DEF Consume, CleanZero
  <2>2. ASSUME NEW clean \in BOOLEAN, Stop(clean) PROVE CleanZero'
    <3>1. wpc' = "down" /\ wClean' = FALSE /\ cleanFile' = (cleanFile \/ clean)
      BY <2>2 DEF Stop, LocalsGone
    <3>2. CASE clean
      BY <2>2, <3>1, <3>2 DEF Stop, CleanZero
    <3>3. CASE ~clean /\ cleanFile
      BY <1>k, <2>2, <3>1, <3>3 DEF Stop, CleanZero, InTurn
    <3>4. CASE ~clean /\ ~cleanFile
      BY <3>1, <3>4 DEF CleanZero
    <3> QED
      BY <3>2, <3>3, <3>4
  <2>3. CASE /\ demises' = demises /\ cleanFile' = cleanFile /\ (wClean' => wClean)
             /\ wpc \in {"down", "consume"} => wpc' \in {"down", "consume"}
             /\ wpc' = "rows" => wpc = "rows"
    BY <1>k, <2>3 DEF CleanZero
  <2>4. CASE Quiet
    BY <2>3, <2>4, SMTT(60) DEF Quiet, QuietMoves
  <2>5. CASE \/ SettleRows \/ ResumeDeployed \/ Requeue \/ ResumeStale \/ ClearStale
             \/ RecoveryFails \/ WorkerLooks \/ WriteMarker \/ FinishRow \/ \E t \in Turns : Claim(t)
    <3>1. CASE RecoveryFails \/ WorkerLooks
      BY <2>3, <3>1 DEF RecoveryFails, WorkerLooks, LocalsGone
    <3>2. CASE SettleRows \/ ResumeDeployed \/ Requeue \/ ResumeStale \/ ClearStale
      BY <2>3, <3>2 DEF SettleRows, ResumeDeployed, Requeue, ResumeStale, ClearStale
    <3>3. CASE WriteMarker \/ FinishRow \/ \E t \in Turns : Claim(t)
      BY <2>3, <3>3 DEF WriteMarker, FinishRow, Claim
    <3> QED
      BY <2>5, <3>1, <3>2, <3>3
  <2>6. CASE UNCHANGED <<marker, cleanFile, wpc, wTurn, scan, wMarker, wClean, wNote, wResume,
                         turnHistory>>
    BY <2>3, <2>6
  <2> QED
    BY <1>k, <2>1, <2>2, <2>4, <2>5, <2>6 DEF StepKind
<1>2. MarkerRead'
  <2> USE DEF Settled
  <2>1. CASE Consume
    BY <2>1 DEF Consume, MarkerRead
  <2>2. CASE SettleRows \/ ResumeDeployed \/ Requeue \/ ResumeStale
    BY <1>k, <2>2 DEF SettleRows, ResumeDeployed, Requeue, ResumeStale, MarkerRead, ShouldRecover, Active
  <2>3. CASE ClearStale
    BY <1>a, <1>k, <2>3 DEF ClearStale, MarkerRead
  <2>4. CASE WorkerLooks
    BY <1>a, <1>k, <2>4 DEF WorkerLooks, ClaimFile, MarkerRead
  <2>5. CASE Quiet
    <3>1. /\ wMarker' = wMarker
          /\ Active(marker') => Active(marker) /\ (marker' = marker \/ wpc = "store")
      BY <2>5 DEF Quiet
    <3>2. wpc \in {"store", "resume", "ready"} => ~Active(marker')
      BY <1>a, <1>k, <3>1 DEF MarkerRead
    <3>3. \/ wpc' = wpc
          \/ wpc \in {"store", "tell"} /\ wpc' \in {"resume", "requeue"} /\ (wpc' = "resume" => wpc = "store")
          \/ wpc \in {"ready", "send"} /\ wpc' \in {"look", "release"}
          \/ wpc' \notin Settled \cup {"rows", "look", "send", "release"}
      BY <2>5 DEF Quiet, QuietMoves
    <3> QED
      BY <1>k, <3>1, <3>2, <3>3 DEF MarkerRead
  <2>6. CASE UNCHANGED <<marker, cleanFile, wpc, wTurn, scan, wMarker, wClean, wNote, wResume,
                         turnHistory>>
    BY <1>k, <2>6 DEF MarkerRead
  <2>7. CASE \/ RecoveryFails \/ WriteMarker \/ FinishRow
             \/ (\E t \in Turns : Claim(t)) \/ \E clean \in BOOLEAN : Stop(clean)
    BY <2>7 DEF RecoveryFails, WriteMarker, FinishRow, Claim, Stop, MarkerRead
  <2> QED
    BY <1>k, <2>1, <2>2, <2>3, <2>4, <2>5, <2>6, <2>7 DEF StepKind
<1>3. NoteKept'
  <2>1. CASE SettleRows
    <3> DEFINE u == CHOOSE t \in Running : TRUE
    <3>1. CASE Running = {}
      BY <2>1, <3>1 DEF SettleRows, NoteKept
    <3>2. CASE Running # {}
      <4>1. u \in Used /\ wTurn' = u /\ wNote' = Verdict(u).note
            /\ (wpc' = "tell" => ~ShouldRecover(wMarker)) /\ wpc' \in {"store", "tell"}
        BY <2>1, <3>2 DEF SettleRows, Running, Used
      <4>2. turns'[u].kind = turns[u].kind /\ turns'[u].sess = turns[u].sess
        BY <1>k, <4>1 DEF RowsStay
      <4> QED
        BY <4>1, <4>2, NoteGiven DEF NoteKept
    <3> QED
      BY <3>1, <3>2
  <2>2. CASE /\ wTurn' = wTurn /\ wNote' = wNote
             /\ wpc' \in {"tell", "requeue", "stale"} => wpc \in {"tell", "requeue", "stale"}
    BY <1>k, <1>t, <2>2 DEF NoteKept, RowsStay
  <2>3. CASE Quiet
    BY <2>2, <2>3 DEF Quiet, QuietMoves
  <2>4. CASE Consume \/ ResumeDeployed \/ Requeue \/ ResumeStale \/ ClearStale \/ WriteMarker
    BY <2>2, <2>4 DEF Consume, ResumeDeployed, Requeue, ResumeStale, ClearStale, WriteMarker
  <2>5. CASE UNCHANGED <<marker, cleanFile, wpc, wTurn, scan, wMarker, wClean, wNote, wResume,
                         turnHistory>>
    BY <2>2, <2>5
  <2>6. CASE \/ RecoveryFails \/ WorkerLooks \/ FinishRow
             \/ (\E t \in Turns : Claim(t)) \/ \E clean \in BOOLEAN : Stop(clean)
    BY <2>6 DEF RecoveryFails, WorkerLooks, FinishRow, Claim, Stop, NoteKept
  <2> QED
    BY <1>k, <2>1, <2>3, <2>4, <2>5, <2>6 DEF StepKind
<1> QED
  BY <1>1, <1>2, <1>3 DEF PlacesInv

\* The work that is excused stays excused.
LEMMA LooseGrows ==
  ASSUME RecoveryInv, [RecoveryNext]_recoveryVars
  PROVE  \A r \in Turns : r \in Loose => r \in Loose'
<1>1. cutShort \subseteq cutShort'
  <2>1. StepKind
    BY StepKinds DEF RecoveryInv
  <2> QED
    BY <2>1, SMTT(60) DEF StepKind, Consume, SettleRows, ResumeDeployed, Requeue, ResumeStale, ClearStale,
       RecoveryFails, WorkerLooks, WriteMarker, FinishRow, Claim, Stop, Quiet, turnHistory
<1>2. ASSUME NEW t \in cutShort, turns[t].root \in Turns PROVE turns[t].root \in Loose'
  <2>1. t \in Turns
    BY DEF RecoveryInv, RecoveryTyped, RecoveryTypeOK
  <2>2. t \in Used
    BY <1>2, <2>1 DEF RecoveryInv, RowsInv, RowsShape, NoRow, Turns, NoTurn
  <2>3. turns'[t].root = turns[t].root
    BY <2>2, RowsNext DEF RecoveryInv, RowsStay
  <2> QED
    BY <1>1, <2>3 DEF Loose
<1> QED
  BY <1>2 DEF Loose
----
\* A row whose work is not done; a row found running has one crash more than
\* its attempt says.
Live(t) == turns[t].st \in {"pending", "running"}
DiedIn(t) == IF turns[t].st = "running" /\ wpc \in Recovers THEN 1 ELSE 0

\* A piece of work has one live row at most, or is about to be queued again, and
\* the attempt of that row bounds its crashes.
BudgetOf(r) ==
    /\ demises[r] <= MaxAttempts + 1
    /\ \A t, u \in Used : Live(t) /\ Live(u) /\ turns[t].root = r /\ turns[u].root = r => t = u
    /\ \A t \in Used : Live(t) /\ turns[t].root = r
           => demises[r] <= turns[t].attempt + DiedIn(t) /\ demises[r] <= MaxAttempts + DiedIn(t)
    /\ wResume # NoRow /\ wResume.root = r
           => /\ demises[r] <= wResume.attempt /\ demises[r] <= MaxAttempts
              /\ \A t \in Used : Live(t) => turns[t].root # r
BudgetInv == \A r \in Turns : r \in Loose \/ BudgetOf(r)

\* Nothing of this work is queued and it has not died.
Inert(t) == /\ demises[t] = 0
            /\ \A u \in Used : Live(u) => turns[u].root # t
            /\ wResume # NoRow => wResume.root # t

\* A marker without a deploy is that of the turn that runs, or was found
\* running, or of one that raised and left nothing to do.
HeldMarker == IF wpc \in Settled \cup {"rows"} THEN wMarker ELSE marker
MarkerWork ==
    Active(HeldMarker) /\ wpc # "clear"
        => \/ HeldMarker.task \in Loose
           \/ Inert(HeldMarker.task)
           \/ IF wpc \in Settled THEN wTurn = HeldMarker.task
                                 ELSE turns[HeldMarker.task].st = "running"

WorkInv == RecoveryInv /\ PlacesInv /\ BudgetInv /\ MarkerWork

LEMMA BudgetNext ==
  ASSUME WorkInv, [RecoveryNext]_recoveryVars
  PROVE  BudgetInv'
<1> USE RecoveryAssumption DEF Settled
<1>k. /\ RecoveryTyped /\ RowsShape /\ RowsKnown /\ RunningIsTurn /\ RowStep /\ StepKind /\ RowsStay
      /\ PlacesInv /\ BudgetInv /\ MarkerWork
  BY RowSteps, StepKinds, RowsNext DEF WorkInv, RecoveryInv, RowsInv
<1>t. /\ Used \subseteq Turns /\ turns \in [Turns -> Row] /\ demises \in [Turns -> Nat]
      /\ demises' \in [Turns -> Nat] /\ turns' \in [Turns -> Row] /\ Used' \subseteq Turns
      /\ wTurn \in Used \cup {NoTurn} /\ NoTurn \notin Turns /\ MaxAttempts \in Nat
  <2>1. RecoveryTyped'
    BY <1>k, TypedNext
  <2>2. turns \in [Turns -> Row] /\ demises \in [Turns -> Nat]
    BY <1>k DEF RecoveryTyped, RecoveryTypeOK
  <2>3. turns' \in [Turns -> Row] /\ demises' \in [Turns -> Nat]
    BY <2>1 DEF RecoveryTyped, RecoveryTypeOK
  <2> QED
    BY <1>k, <2>2, <2>3 DEF Used, RowsKnown, Turns, NoTurn
<1> SUFFICES ASSUME NEW r \in Turns, r \notin Loose' PROVE BudgetOf(r)'
  BY DEF BudgetInv
<1>b. BudgetOf(r)
  BY <1>k, LooseGrows DEF BudgetInv, WorkInv
<1>c. demises[r] \in Nat /\ demises'[r] \in Nat
  BY <1>t
<1>a. \A t \in Used : turns[t].attempt \in Nat
  BY <1>t DEF Row
<1>1. CASE /\ demises' = demises /\ Used' = Used /\ wResume' \in {wResume, NoRow}
           /\ \A t \in Used : /\ Live(t)' => Live(t) /\ DiedIn(t) <= DiedIn(t)'
                              /\ turns'[t].root = turns[t].root
                              /\ turns'[t].attempt = turns[t].attempt
  <2>1. \A t \in Used : DiedIn(t) \in {0, 1} /\ DiedIn(t)' \in {0, 1}
    BY DEF DiedIn
  <2> QED
    BY <1>1, <1>a, <1>b, <1>c, <1>t, <2>1, SMTT(60) DEF BudgetOf
<1>2. CASE turns' = turns /\ demises' = demises /\ wResume' \in {wResume, NoRow}
           /\ (wpc \in Recovers => wpc' \in Recovers)
  <2>1. \A t \in Used : (Live(t)' => Live(t)) /\ DiedIn(t) <= DiedIn(t)'
    BY <1>2 DEF Live, DiedIn
  <2>2. Used' = Used
    BY <1>2 DEF Used
  <2> QED
    BY <1>1, <1>2, <2>1, <2>2
<1>3. ASSUME NEW t \in Turns, Claim(t) PROVE BudgetOf(r)'
  <2>1. turns[t].st = "pending" /\ wpc \notin Recovers
    BY <1>k, <1>3 DEF Claim, RowsKnown, Pending, Recovers
  <2>2. \A u \in Turns \ {t} : turns'[u] = turns[u]
    BY <1>3, <1>t DEF Claim
  <2>3. OnlyStatus /\ demises' = demises /\ wResume' = wResume
    BY <1>3, <1>k, StatusSteps DEF Claim, recoveryLocals, turnHistory
  <2>4. \A u \in Used : (Live(u)' => Live(u)) /\ DiedIn(u) <= DiedIn(u)'
    <3>1. ASSUME NEW u \in Used PROVE DiedIn(u) = 0 /\ DiedIn(u)' \in {0, 1}
      BY <2>1 DEF DiedIn
    <3>2. ASSUME NEW u \in Used, Live(u)' PROVE Live(u)
      BY <1>t, <2>1, <2>2, <3>2 DEF Live
    <3> QED
      BY <3>1, <3>2
  <2> QED
    BY <1>1, <2>3, <2>4 DEF OnlyStatus, RowsStay
<1>4. CASE FinishRow
  <2>1. wpc \notin Recovers /\ wTurn \in Turns
    BY <1>k, <1>4 DEF FinishRow, RecoveryTyped, TurnKnown, Recovers
  <2>2. \A u \in Turns : turns'[u] = turns[u] \/ turns'[u].st \in {"completed", "failed"}
    BY <1>4, <1>t DEF FinishRow, Row
  <2>3. OnlyStatus /\ demises' = demises /\ wResume' = wResume
    BY <1>4, <1>k, StatusSteps DEF FinishRow, recoveryLocals, turnHistory
  <2>4. \A u \in Used : (Live(u)' => Live(u)) /\ DiedIn(u) <= DiedIn(u)'
    <3>1. ASSUME NEW u \in Used PROVE DiedIn(u) = 0 /\ DiedIn(u)' \in {0, 1}
      BY <2>1 DEF DiedIn
    <3>2. ASSUME NEW u \in Used, Live(u)' PROVE Live(u)
      BY <1>t, <2>2, <3>2 DEF Live
    <3> QED
      BY <3>1, <3>2
  <2> QED
    BY <1>1, <2>3, <2>4 DEF OnlyStatus, RowsStay
<1>5. CASE SettleRows
  <2> DEFINE u == CHOOSE t \in Running : TRUE
  <2>1. OnlyStatus /\ demises' = demises /\ wpc \in Recovers /\ wpc' \notin Recovers
    BY <1>5, <1>k, StatusSteps DEF SettleRows, turnHistory, Recovers
  <2>2. \A t \in Turns : IF t \in Running THEN turns'[t].st \in {"completed", "failed"}
                                         ELSE turns'[t] = turns[t]
    BY <1>5, <1>t, VerdictTypes DEF SettleRows, Row
  <2>3. \A t \in Used : /\ Live(t)' => Live(t) /\ turns[t].st = "pending"
                        /\ DiedIn(t)' = 0 /\ (turns[t].st = "pending" => DiedIn(t) = 0)
                        /\ turns'[t].root = turns[t].root /\ turns'[t].attempt = turns[t].attempt
    BY <1>t, <2>1, <2>2 DEF OnlyStatus, RowsStay, Live, DiedIn, Running
  <2>4. CASE wResume' = NoRow \/ wResume'.root # r
    BY <1>a, <1>b, <1>c, <1>t, <2>1, <2>3, <2>4, SMTT(60) DEF BudgetOf, OnlyStatus
  <2>5. CASE wResume' # NoRow /\ wResume'.root = r
    <3>1. /\ Running # {} /\ Verdict(u).note = "interrupted"
          /\ wResume' = Resume(turns[u].sess, NextAttempt(u), turns[u].root)
      BY <1>5, <2>5 DEF SettleRows
    <3>2. /\ u \in Used /\ turns[u].st = "running" /\ u \in Running
      BY <3>1 DEF Running, Used
    <3>3. turns[u].root = r /\ wResume'.attempt = NextAttempt(u)
      BY <2>5, <3>1 DEF Resume, NoRow
    <3>4. Live(u) /\ DiedIn(u) = 1
      BY <2>1, <3>2 DEF Live, DiedIn
    <3>5. demises[r] <= turns[u].attempt + 1 /\ demises[r] <= MaxAttempts + 1
      BY <1>b, <3>2, <3>3, <3>4 DEF BudgetOf
    <3>6. demises[r] <= NextAttempt(u) /\ demises[r] <= MaxAttempts
      <4>1. CASE wClean
        <5>1. demises[r] = 0
          BY <1>5, <1>k, <4>1 DEF SettleRows, PlacesInv, CleanZero
        <5> QED
          BY <1>t, <4>1, <5>1 DEF NextAttempt
      <4>2. CASE ~wClean
        <5>1. ~(turns[u].attempt >= MaxAttempts)
          BY <3>1, <4>2, VerdictTypes
        <5> QED
          BY <1>a, <1>c, <1>t, <3>2, <3>5, <4>2, <5>1 DEF NextAttempt
      <4> QED
        BY <4>1, <4>2
    <3>7. \A t \in Used' : Live(t)' => turns'[t].root # r
      <4>1. ASSUME NEW t \in Used, Live(t)', turns'[t].root = r PROVE FALSE
        <5>1. Live(t) /\ turns[t].root = r /\ turns[t].st = "pending"
          BY <2>3, <4>1
        <5>2. t = u
          BY <1>b, <3>2, <3>3, <3>4, <5>1 DEF BudgetOf
        <5> QED
          BY <3>2, <5>1, <5>2
      <4> QED
        BY <2>1, <4>1 DEF OnlyStatus
    <3> QED
      BY <2>1, <2>5, <3>3, <3>5, <3>6, <3>7 DEF BudgetOf
  <2> QED
    BY <2>4, <2>5
<1>6. ASSUME NEW row, RowMore(row) PROVE BudgetOf(r)'
  <2>n. PICK new \in Turns : new = NewTurn
    BY <1>6 DEF RowMore, CanCreate
  <2>1. /\ new \notin Used /\ Used' = Used \cup {new} /\ row \in Row
        /\ \A t \in Used : turns'[t] = turns[t]
        /\ turns'[new].root = row.root /\ turns'[new].attempt = row.attempt
        /\ turns'[new].st = "pending" /\ demises' = demises
        /\ wResume' \in {wResume, NoRow} /\ row.attempt \in Nat
    BY <1>6, <1>t, <2>n DEF RowMore, NewRow, OneRowMore, Row
  <2>2. /\ \A t \in Used : /\ Live(t)' = Live(t) /\ DiedIn(t)' = DiedIn(t)
                           /\ turns'[t].root = turns[t].root
                           /\ turns'[t].attempt = turns[t].attempt
        /\ DiedIn(new)' = 0
    BY <1>6, <2>1 DEF RowMore, Live, DiedIn, Recovers
  <2>3. CASE r # row.root
    BY <1>b, <2>1, <2>2, <2>3, SMTT(60) DEF BudgetOf
  <2>4. ASSUME r = row.root, demises[r] <= row.attempt, demises[r] <= MaxAttempts,
               \A t \in Used : Live(t) => turns[t].root # r,
               wResume' # NoRow => wResume'.root # r
        PROVE  BudgetOf(r)'
    <3>1. \A t \in Used' : Live(t)' /\ turns'[t].root = r => t = new
      BY <2>1, <2>2, <2>4
    <3> QED
      BY <1>c, <1>t, <2>1, <2>2, <2>4, <3>1, SMTT(60) DEF BudgetOf
  <2>5. CASE r = new /\ row.root = new
    <3>1. demises[r] = 0 /\ \A t \in Used : turns[t].root # r
      BY <1>k, <2>1, <2>5 DEF RowsShape
    <3>2. wResume # NoRow => wResume.root # r
      BY <1>k, <1>t, <3>1 DEF RowsKnown, RecoveryTyped, ResumeHeld
    <3> QED
      BY <1>t, <2>1, <2>4, <2>5, <3>1, <3>2
  <2>6. CASE r = row.root /\ Requeue /\ row = wResume /\ wResume # NoRow
    <3>1. wResume' = NoRow
      BY <2>6 DEF Requeue
    <3> QED
      BY <1>b, <2>4, <2>6, <3>1 DEF BudgetOf
  <2>7. CASE /\ r = row.root /\ ResumeStale /\ Active(wMarker) /\ wMarker.sess \in WithChat
             /\ ~AlreadyResumed /\ r = wMarker.task /\ row.attempt = 1
    <3>1. wpc = "stale" /\ wResume' = wResume /\ wResume = NoRow
      BY <1>k, <2>7 DEF ResumeStale, recoveryLocals, RecoveryTyped, ResumeHeld
    <3>2. r \notin Loose
      BY LooseGrows DEF WorkInv
    <3>3. wTurn # r
      <4>1. /\ wMarker.task \in Used /\ turns[wMarker.task].kind = "user"
            /\ turns[wMarker.task].sess = wMarker.sess
        BY <1>k, <2>7 DEF RowsKnown
      <4> QED
        BY <1>k, <1>t, <2>7, <3>1, <4>1 DEF PlacesInv, NoteKept, AlreadyResumed
    <3>4. Inert(r)
      BY <1>k, <2>7, <3>1, <3>2, <3>3 DEF MarkerWork, HeldMarker
    <3> QED
      BY <1>c, <1>t, <2>4, <2>7, <3>1, <3>4 DEF Inert
  <2> QED
    BY <1>6, <2>n, <2>3, <2>5, <2>6, <2>7 DEF RowMore
<1>7. ASSUME NEW clean \in BOOLEAN, Stop(clean) PROVE BudgetOf(r)'
  <2>1. /\ turns' = turns /\ Used' = Used /\ wpc' = "down" /\ wResume' = NoRow
        /\ \A t \in Used : Live(t)' = Live(t)
    BY <1>7 DEF Stop, LocalsGone, Used, Live
  <2>2. CASE clean
    <3>1. demises'[r] = 0
      BY <1>7, <2>2 DEF Stop
    <3>2. \A t \in Used : DiedIn(t)' \in {0, 1}
      BY DEF DiedIn
    <3> QED
      BY <1>a, <1>b, <1>t, <2>1, <3>1, <3>2 DEF BudgetOf
  <2>3. CASE ~clean /\ wpc \notin InTurn
    <3>1. demises' = demises
      BY <1>7, <2>3 DEF Stop
    <3> QED
      BY <1>2, <2>1, <3>1 DEF Recovers
  <2>4. CASE ~clean /\ wpc \in InTurn
    <3>w. PICK w \in Used : w = wTurn
      BY <1>k, <1>t, <2>4 DEF RecoveryTyped, TurnKnown, InTurn
    <3>o. PICK own : own = turns[w].root
      OBVIOUS
    <3>1. /\ demises' = [demises EXCEPT ![own] = @ + 1]
          /\ turns[w].st = "running"
          /\ \A t \in Used : DiedIn(t) = 0
      BY <1>7, <1>k, <1>t, <2>4, <3>w, <3>o DEF Stop, RowsKnown, RecoveryTyped, TurnKnown, InTurn, DiedIn, Recovers
    <3>2. CASE r # own
      <4>1. demises'[r] = demises[r] /\ \A t \in Used : DiedIn(t)' \in {0, 1}
        BY <1>t, <3>1, <3>2 DEF DiedIn
      <4> QED
        BY <1>a, <1>b, <1>c, <1>t, <2>1, <3>1, <4>1, SMTT(60) DEF BudgetOf
    <3>3. CASE r = own
      <4>1. demises'[r] = demises[r] + 1
        BY <1>t, <3>1, <3>3
      <4>2. Live(w) /\ DiedIn(w)' = 1
        BY <2>1, <3>1 DEF Live, DiedIn, Recovers
      <4>3. demises[r] <= turns[w].attempt /\ demises[r] <= MaxAttempts
        BY <1>a, <1>b, <1>c, <1>t, <3>o, <3>1, <3>3, <4>2 DEF BudgetOf
      <4>4. \A t \in Used : Live(t) /\ turns[t].root = r => t = w
        BY <1>b, <3>o, <3>1, <3>3, <4>2 DEF BudgetOf
      <4> QED
        BY <1>a, <1>b, <1>c, <1>t, <2>1, <3>1, <4>1, <4>2, <4>3, <4>4, SMTT(60) DEF BudgetOf
    <3> QED
      BY <3>2, <3>3
  <2> QED
    BY <2>2, <2>3, <2>4
<1>8. CASE turns' = turns
  <2>1. \/ SettleRows \/ FinishRow \/ (\E t \in Turns : Claim(t))
        \/ \E clean \in BOOLEAN : Stop(clean)
        \/ demises' = demises /\ wResume' \in {wResume, NoRow}
              /\ (wpc \in Recovers => wpc' \in Recovers)
    <3> USE DEF Recovers, recoveryLocals, turnHistory
    <3>1. CASE \/ Consume \/ ResumeDeployed \/ Requeue \/ ResumeStale \/ ClearStale
               \/ RecoveryFails \/ WorkerLooks \/ WriteMarker
      BY <3>1 DEF Consume, ResumeDeployed, Requeue, ResumeStale, ClearStale, RecoveryFails,
         WorkerLooks, WriteMarker, LocalsGone
    <3>2. CASE Quiet
      BY <3>2 DEF Quiet, QuietMoves
    <3> QED
      BY <1>k, <3>1, <3>2 DEF StepKind
  <2> QED
    BY <1>2, <1>3, <1>4, <1>5, <1>7, <1>8, <2>1
<1> QED
  BY <1>k, <1>3, <1>4, <1>5, <1>6, <1>8 DEF RowStep
----
LEMMA MarkerWorkNext ==
  ASSUME WorkInv, [RecoveryNext]_recoveryVars
  PROVE  MarkerWork'
<1> USE RecoveryAssumption DEF recoveryLocals, files, loopVars, turnHistory
<1>k. /\ RecoveryTyped /\ RowsShape /\ RowsKnown /\ RunningIsTurn /\ RowStep /\ StepKind /\ RowsStay
      /\ PlacesInv /\ BudgetInv /\ MarkerWork
  BY RowSteps, StepKinds, RowsNext DEF WorkInv, RecoveryInv, RowsInv
<1>p. MarkerRead /\ MarkerRead'
  BY PlacesNext DEF WorkInv, PlacesInv
<1>t. /\ Used \subseteq Turns /\ turns \in [Turns -> Row] /\ demises \in [Turns -> Nat]
      /\ NoTurn \notin Turns /\ MaxAttempts \in Nat
  BY <1>k DEF Used, RecoveryTyped, RecoveryTypeOK, Turns, NoTurn
<1>a. ~Active(NoMarker) /\ \A m : ShouldRecover(m) => ~Active(m)
  BY DEF Active, ShouldRecover, NoMarker
<1> SUFFICES ASSUME Active(HeldMarker'), wpc' # "clear", NEW t, t = HeldMarker'.task
             PROVE  \/ t \in Loose' \/ Inert(t)'
                    \/ IF wpc' \in Settled THEN wTurn' = t ELSE turns'[t].st = "running"
  BY DEF MarkerWork
<1> USE DEF Settled
<1>l. t \in Loose /\ t \in Used => t \in Loose'
  BY <1>t, LooseGrows DEF WorkInv
<1>f. ASSUME Inert(t), demises'[t] = demises[t], Used' = Used, wResume' \in {wResume, NoRow},
             \A u \in Used : (Live(u)' => Live(u)) /\ turns'[u].root = turns[u].root
      PROVE  Inert(t)'
  BY <1>f DEF Inert
<1>r. ASSUME Inert(t), turns' = turns, demises'[t] = demises[t], wResume' \in {wResume, NoRow}
      PROVE  Inert(t)'
  BY <1>r DEF Inert, Used, Live
\* What is known of the marker's task when it was known before the step.
<1>h. ASSUME Active(HeldMarker), HeldMarker.task = t
      PROVE  /\ t \in Used /\ turns[t].root = t /\ turns[t].attempt = 0
             /\ wpc # "clear" => \/ t \in Loose' \/ Inert(t)
                    \/ IF wpc \in Settled THEN wTurn = t ELSE turns[t].st = "running"
  <2>1. t \in Used /\ turns[t].root = t /\ turns[t].attempt = 0
    BY <1>h, <1>k DEF HeldMarker, RowsKnown, RowsShape
  <2> QED
    BY <1>h, <1>k, <1>l, <2>1 DEF MarkerWork
<1>1. CASE Quiet
  <2>1. UNCHANGED <<turns, demises, wResume, wTurn, wMarker>>
    BY <1>1 DEF Quiet
  <2>2. \/ wpc' = wpc \/ {wpc, wpc'} \subseteq Settled
        \/ {wpc, wpc'} \cap (Settled \cup {"rows"}) = {}
        \/ wpc' = "look"
    BY <1>1 DEF Quiet, QuietMoves
  <2>3. wpc' # "look" \/ wpc' = wpc
    BY <1>p DEF HeldMarker, MarkerRead
  <2>4. Active(HeldMarker) /\ HeldMarker.task = t
    BY <1>1, <2>1, <2>2, <2>3 DEF Quiet, HeldMarker
  <2>5. wpc # "clear"
    BY <1>1 DEF Quiet, QuietMoves
  <2> QED
    BY <1>h, <1>r, <2>1, <2>2, <2>3, <2>4, <2>5
<1>2. CASE Consume
  <2>1. Active(HeldMarker) /\ HeldMarker.task = t
    BY <1>2 DEF Consume, HeldMarker
  <2>2. turns' = turns /\ demises' = demises /\ wResume' = wResume /\ wpc = "consume" /\ wpc' = "rows"
    BY <1>2 DEF Consume
  <2> QED
    BY <1>h, <1>r, <2>1, <2>2
<1>3. CASE SettleRows
  <2> DEFINE w == CHOOSE u \in Running : TRUE
  <2>1. wpc = "rows" /\ wpc' \in {"store", "tell"} /\ demises' = demises /\ wMarker' = wMarker
    BY <1>3 DEF SettleRows
  <2>2. Active(HeldMarker) /\ HeldMarker.task = t
    BY <2>1 DEF HeldMarker
  <2>3. OnlyStatus
    BY <1>3, <1>k, StatusSteps
  <2>4. \A u \in Used : Live(u)' => Live(u)
    <3>1. \A u \in Turns : IF u \in Running THEN turns'[u].st \in {"completed", "failed"}
                                            ELSE turns'[u] = turns[u]
      BY <1>3, <1>t, VerdictTypes DEF SettleRows, Row
    <3> QED
      BY <1>t, <3>1 DEF Live
  <2>5. CASE Inert(t)
    <3>1. wResume' # NoRow => wResume'.root # t
      <4>1. ASSUME wResume' # NoRow PROVE wResume'.root = turns[w].root /\ w \in Running
        BY <1>3, <4>1 DEF SettleRows, Resume, NoRow
      <4>2. w \in Running => w \in Used /\ Live(w)
        BY DEF Running, Used, Live
      <4> QED
        BY <2>5, <4>1, <4>2 DEF Inert
    <3> QED
      BY <2>1, <2>3, <2>4, <2>5, <3>1 DEF Inert, OnlyStatus, RowsStay
  <2>6. CASE turns[t].st = "running"
    <3>1. t \in Running /\ Running = {t}
      BY <1>h, <1>k, <1>t, <2>1, <2>2, <2>6 DEF Running, RunningIsTurn, Recovers
    <3> QED
      BY <1>3, <2>1, <3>1 DEF SettleRows
  <2> QED
    BY <1>h, <2>1, <2>2, <2>5, <2>6
<1>4. CASE ResumeDeployed
  <2>1. wpc = "resume" /\ wpc' = "ready" /\ wMarker' = wMarker
    BY <1>4 DEF ResumeDeployed
  <2> QED
    BY <1>a, <1>p, <2>1 DEF MarkerRead, HeldMarker
<1>5. ASSUME Requeue \/ UNCHANGED <<marker, cleanFile, wpc, wTurn, scan, wMarker, wClean, wNote,
                                    wResume, turnHistory>>
      PROVE  \/ t \in Loose' \/ Inert(t)' \/ SettleRows \/ FinishRow \/ (\E c \in Turns : Claim(c))
             \/ ResumeStale
             \/ IF wpc' \in Settled THEN wTurn' = t ELSE turns'[t].st = "running"
  <2>1. /\ marker' = marker /\ wMarker' = wMarker /\ wTurn' = wTurn /\ demises' = demises
        /\ wResume' \in {wResume, NoRow}
        /\ wpc' = wpc \/ (wpc = "requeue" /\ wpc' = "stale")
    BY <1>5 DEF Requeue
  <2>2. Active(HeldMarker) /\ HeldMarker.task = t /\ wpc # "clear"
    BY <2>1 DEF HeldMarker
  <2>3. CASE turns' = turns
    BY <1>h, <1>r, <2>1, <2>2, <2>3
  <2>4. ASSUME NEW row, RowMore(row), ~ResumeStale
        PROVE  \/ t \in Loose' \/ Inert(t)'
               \/ IF wpc' \in Settled THEN wTurn' = t ELSE turns'[t].st = "running"
    <3>n. PICK new \in Turns : new = NewTurn
      BY <2>4 DEF RowMore, CanCreate
    <3>1. /\ new \notin Used /\ Used' = Used \cup {new} /\ turns'[new].root = row.root
          /\ \A u \in Used : turns'[u] = turns[u]
      BY <1>t, <2>4, <3>n DEF RowMore, NewRow, OneRowMore, Row
    <3>2. Inert(t) => row.root # t
      BY <1>h, <2>2, <2>4, <3>n, <3>1 DEF RowMore, Inert
    <3>3. CASE Inert(t)
      BY <2>1, <3>1, <3>2, <3>3 DEF Inert, Live
    <3> QED
      BY <1>h, <2>1, <2>2, <3>1, <3>3
  <2> QED
    BY <1>k, <2>3, <2>4 DEF RowStep
<1>6. CASE ResumeStale
  BY <1>6 DEF ResumeStale
<1>7. CASE ClearStale
  <2>1. wpc' = "look"
    BY <1>7 DEF ClearStale
  <2> QED
    BY <1>p, <2>1 DEF MarkerRead, HeldMarker
<1>8. ASSUME wpc \in Settled, wpc' \notin Settled \cup {"rows"}, cutShort' = cutShort \cup InRecovery,
             marker' = marker, turns' = turns
      PROVE  t \in Loose'
  <2>1. Active(marker) /\ wMarker = marker /\ t = marker.task
    BY <1>8, <1>p DEF HeldMarker, MarkerRead
  <2>2. t \in Used /\ turns[t].root = t /\ t \in InRecovery
    BY <1>a, <1>k, <1>t, <2>1 DEF RowsKnown, RowsShape, InRecovery
  <2> QED
    BY <1>8, <2>2 DEF Loose
<1>9. CASE RecoveryFails
  BY <1>8, <1>9 DEF RecoveryFails
<1>10. CASE WorkerLooks
  <2>1. wpc = "look" /\ wpc' \in {"send", "idle"} /\ marker' \in {marker, NoMarker}
    BY <1>10 DEF WorkerLooks, ClaimFile
  <2> QED
    BY <1>a, <1>p, <2>1 DEF MarkerRead, HeldMarker
<1>11. CASE WriteMarker
  <2>1. wpc = "marking" /\ wpc' \notin Settled \cup {"rows"} /\ turns' = turns
    BY <1>11 DEF WriteMarker
  <2>2. marker'.status = "session_active" => marker'.task = wTurn
    BY <1>11 DEF WriteMarker, NewMarker
  <2>3. turns[wTurn].st = "running"
    BY <1>k, <2>1 DEF RowsKnown, InTurn
  <2> QED
    BY <2>1, <2>2, <2>3 DEF HeldMarker, Active
<1>12. CASE FinishRow
  <2>1. /\ wpc = "ending" /\ wpc' = "idle" /\ marker' = marker /\ demises' = demises
        /\ wResume' = wResume /\ wResume = NoRow /\ wTurn \in Turns
    BY <1>12, <1>k DEF FinishRow, RecoveryTyped, ResumeHeld, TurnKnown
  <2>2. Active(HeldMarker) /\ HeldMarker.task = t
    BY <2>1 DEF HeldMarker
  <2>3. OnlyStatus
    BY <1>12, <1>k, StatusSteps
  <2>4. /\ \A u \in Turns \ {wTurn} : turns'[u] = turns[u]
        /\ turns'[wTurn].st \in {"completed", "failed"}
    BY <1>12, <1>t, <2>1 DEF FinishRow, Row
  <2>5. \A u \in Used : Live(u)' => Live(u)
    BY <1>t, <2>4 DEF Live
  <2>6. CASE Inert(t)
    BY <1>f, <2>1, <2>3, <2>5, <2>6 DEF OnlyStatus, RowsStay
  <2>7. CASE turns[t].st = "running" /\ t \notin Loose'
    <3>1. t \in Turns /\ t = wTurn
      BY <1>h, <1>k, <1>t, <2>1, <2>2, <2>7 DEF RunningIsTurn, Running, InTurn
    <3>2. BudgetOf(t)
      BY <1>h, <1>k, <1>l, <2>2, <2>7, <3>1 DEF BudgetInv
    <3>3. Live(t) /\ DiedIn(t) = 0
      BY <2>1, <2>7 DEF Live, DiedIn, Recovers
    <3>4. demises[t] = 0 /\ \A u \in Used : Live(u) /\ turns[u].root = t => u = t
      BY <1>h, <1>t, <2>2, <3>1, <3>2, <3>3 DEF BudgetOf
    <3>5. ~Live(t)'
      BY <2>4, <3>1 DEF Live
    <3> QED
      BY <2>1, <2>3, <2>5, <3>4, <3>5 DEF Inert, OnlyStatus, RowsStay
  <2> QED
    BY <1>h, <2>1, <2>2, <2>6, <2>7
<1>13. ASSUME NEW c \in Turns, Claim(c)
       PROVE  \/ t \in Loose' \/ Inert(t)'
              \/ IF wpc' \in Settled THEN wTurn' = t ELSE turns'[t].st = "running"
  <2>1. /\ wpc = "idle" /\ wpc' \in {"turn", "marking"} /\ marker' = marker /\ demises' = demises
        /\ wResume' = wResume /\ turns[c].st = "pending"
        /\ turns'[c].st = "running" /\ \A u \in Turns \ {c} : turns'[u] = turns[u]
    BY <1>13, <1>k, <1>t DEF Claim, RowsKnown, Pending, Row
  <2>2. Active(HeldMarker) /\ HeldMarker.task = t
    BY <2>1 DEF HeldMarker
  <2>3. OnlyStatus
    BY <1>13, <1>k, StatusSteps
  <2>4. \A u \in Used : Live(u)' => Live(u)
    BY <1>t, <2>1 DEF Live
  <2>5. turns[t].st = "running" => turns'[t].st = "running"
    BY <1>h, <1>t, <2>1, <2>2
  <2> QED
    BY <1>f, <1>h, <2>1, <2>2, <2>3, <2>4, <2>5 DEF OnlyStatus, RowsStay
<1>14. ASSUME NEW clean \in BOOLEAN, Stop(clean)
       PROVE  t \in Loose' \/ Inert(t)' \/ (wpc' \notin Settled /\ turns'[t].st = "running")
  <2>1. wpc' = "down" /\ turns' = turns /\ marker' = marker /\ wResume' = NoRow
    BY <1>14 DEF Stop, LocalsGone
  <2>2. CASE wpc \in Settled
    BY <1>14, <1>8, <2>1, <2>2 DEF Stop
  <2>3. CASE wpc \notin Settled
    <3>1. Active(HeldMarker) /\ HeldMarker.task = t
      BY <1>p, <2>1, <2>3 DEF HeldMarker, MarkerRead
    <3>2. Inert(t) => demises'[t] = 0
      <4>1. CASE demises' = demises
        BY <4>1 DEF Inert
      <4>2. CASE demises' = [r \in Turns |-> 0]
        BY <1>h, <1>t, <3>1, <4>2
      <4>3. CASE /\ wpc \in InTurn
                 /\ demises' = [demises EXCEPT ![turns[wTurn].root] = @ + 1]
        <5>1. turns[wTurn].st = "running" /\ wTurn \in Used
          BY <1>k, <1>t, <4>3 DEF RowsKnown, RecoveryTyped, TurnKnown, InTurn
        <5>2. Inert(t) => turns[wTurn].root # t
          BY <5>1 DEF Inert, Live
        <5> QED
          BY <1>h, <1>t, <3>1, <4>3, <5>2 DEF Inert
      <4> QED
        BY <4>1, <4>2, <4>3, CountSteps DEF WorkInv, RecoveryInv
    <3>3. Inert(t) => demises[t] = 0
      BY DEF Inert
    <3> QED
      BY <1>h, <1>r, <2>1, <2>3, <3>1, <3>2, <3>3
  <2> QED
    BY <2>2, <2>3
<1> QED
  BY <1>k, <1>1, <1>2, <1>3, <1>4, <1>5, <1>6, <1>7, <1>9, <1>10, <1>11, <1>12, <1>13, <1>14
  DEF StepKind

\* No piece of work dies more often than MAX_RECOVERY_ATTEMPTS allows, whatever
\* the markers, unless a recovery of it was itself cut short.
THEOREM BudgetKept == RecoverySpec => []CrashBudget
<1>1. RecoveryInit => PlacesInv /\ BudgetInv /\ MarkerWork
  <2> SUFFICES ASSUME RecoveryInit PROVE PlacesInv /\ BudgetInv /\ MarkerWork
    OBVIOUS
  <2>1. Used = {}
    BY DEF RecoveryInit, Used, NoRow
  <2>2. PlacesInv
    BY DEF RecoveryInit, PlacesInv, CleanZero, MarkerRead, NoteKept, Settled
  <2>3. \A r \in Turns : demises[r] = 0
    BY DEF RecoveryInit
  <2>4. BudgetInv
    BY RecoveryAssumption, <2>1, <2>3 DEF RecoveryInit, BudgetInv, BudgetOf
  <2>5. MarkerWork
    BY DEF RecoveryInit, MarkerWork, HeldMarker, Active, Settled, NoMarker
  <2> QED
    BY <2>2, <2>4, <2>5
<1>2. /\ RecoveryInv /\ RecoveryInv' /\ PlacesInv /\ BudgetInv /\ MarkerWork /\ [RecoveryNext]_recoveryVars
      => (PlacesInv /\ BudgetInv /\ MarkerWork)'
  BY PlacesNext, BudgetNext, MarkerWorkNext DEF WorkInv
<1>3. BudgetInv => CrashBudget
  BY DEF BudgetInv, BudgetOf, CrashBudget
<1> QED
  BY <1>1, <1>2, <1>3, RecoveryInvariant, PTL DEF RecoverySpec
====
