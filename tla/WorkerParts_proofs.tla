---- MODULE WorkerParts_proofs ----
(* Proofs about the worker's parts, for any versions, deploys, faults,        *)
(* accounts, logins and tasks: the guard of deploys (DeployGuard), the        *)
(* accounts of the host (CursorAccounts), and the five parts side by side     *)
(* (MCWorkerParts).                                                           *)
EXTENDS MCWorkerParts, DeployRecovery_proofs, AgentTurn_proofs

(***************************************************************************)
(* The guard of deploys.                                                   *)
(***************************************************************************)


LEMMA GuardTypeInit == GuardInit => GuardTypeOK
<1> SUFFICES ASSUME GuardInit PROVE GuardTypeOK
  OBVIOUS
<1>1. 0 \in Versions /\ {0, NoSnapshot} \subseteq 0..Partial
  BY GuardAssumption DEF Versions, NoSnapshot, Partial
<1>2. [version |-> 0, since |-> 0] \in Process
  BY <1>1 DEF Process
<1> QED
  BY <1>1, <1>2 DEF GuardInit, GuardTypeOK, GuardPlaces

LEMMA FreshTypes ==
  ASSUME GuardTypeOK, NEW v \in Versions
  PROVE  Fresh(v) \in Process
  BY DEF Fresh, Process, GuardTypeOK

LEMMA GoToTypes ==
  ASSUME GuardTypeOK, NEW d \in Deploys, NEW p \in GuardPlaces, GoTo(d, p)
  PROVE  guardAt' \in [Deploys -> GuardPlaces]
  BY DEF GoTo, GuardTypeOK

LEMMA GuardTypeNext == GuardTypeOK /\ [GuardNext]_guardVars => GuardTypeOK'
<1> SUFFICES ASSUME GuardTypeOK, [GuardNext]_guardVars PROVE GuardTypeOK'
  OBVIOUS
<1> USE GuardAssumption DEF GuardTypeOK, sources, guardFile, processes
<1>v. Versions \subseteq 0..Partial /\ Broken \subseteq Versions /\ Partial \in 0..Partial
  BY DEF Versions, Partial
<1>p. {"none", "preflight", "bot", "flag", "watch", "copy", "save",
       "back", "restore", "fix", "services", "clear", "ended"} = GuardPlaces
  BY DEF GuardPlaces
<1>1. CASE UNCHANGED guardVars
  BY <1>1 DEF guardVars
<1>2. CASE Edit
  BY <1>2 DEF Edit, Versions
<1>3. CASE BeginTurn \/ EndTurnOfWorker
  BY <1>3 DEF BeginTurn, EndTurnOfWorker
<1>4. CASE ReloadWorker
  BY <1>4, FreshTypes DEF ReloadWorker, StartWorker
<1>5. ASSUME NEW d \in Deploys, BeginDeploy(d) PROVE GuardTypeOK'
  <2>1. guardAt' \in [Deploys -> GuardPlaces]
    BY <1>5, <1>p, SMTT(60) DEF BeginDeploy, GoTo
  <2> QED
    BY <1>5, <2>1 DEF BeginDeploy
<1>6. ASSUME NEW d \in Deploys, GuardStep(d) \/ GuardDies(d) PROVE GuardTypeOK'
  <2>1. guardAt' \in [Deploys -> GuardPlaces]
    BY <1>6, <1>p
    DEF GuardStep, GuardDies, GoTo, PreflightPasses, PreflightFails, DeployBot, FlagWorker,
        WatchSucceeds, WatchTimesOut, RemoveSnapshot, SaveSnapshot, RefuseRollback, StartRollback,
        RestoreGood, NothingToRestore, QueueFix, RestartServices, ClearRollback
  <2>2. CASE PreflightPasses(d) \/ PreflightFails(d) \/ FlagWorker(d) \/ WatchTimesOut(d)
             \/ RefuseRollback(d) \/ StartRollback(d) \/ ClearRollback(d) \/ GuardDies(d)
    <3>1. UNCHANGED <<sources, bot, worker, busy, fixQueued, told, verified>>
      BY <2>2, SMTT(60) DEF PreflightPasses, PreflightFails, FlagWorker, WatchTimesOut, RefuseRollback,
                  StartRollback, ClearRollback, GuardDies
    <3>2. startedAt' \in Nat /\ passed' \in Nat
      BY <2>2 DEF PreflightPasses, PreflightFails, FlagWorker, WatchTimesOut, RefuseRollback,
                  StartRollback, ClearRollback, GuardDies
    <3>3. rollingBack' \in {TRUE, FALSE, rollingBack} /\ reloadFlag' \in {TRUE, reloadFlag}
          /\ crashed' \in {TRUE, crashed}
      BY <2>2, Zenon DEF PreflightPasses, PreflightFails, FlagWorker, WatchTimesOut, RefuseRollback,
                  StartRollback, ClearRollback, GuardDies
    <3>4. rollingBack' \in BOOLEAN /\ reloadFlag' \in BOOLEAN /\ crashed' \in BOOLEAN
      BY <3>3, Zenon
    <3> QED
      BY <2>1, <3>1, <3>2, <3>4
  <2>3. CASE DeployBot(d)
    BY <2>1, <2>3, FreshTypes DEF DeployBot
  <2>4. CASE WatchSucceeds(d)
    BY <2>1, <2>4 DEF WatchSucceeds, Process
  <2>5. CASE RemoveSnapshot(d) \/ SaveSnapshot(d)
    BY <1>v, <2>1, <2>5 DEF RemoveSnapshot, SaveSnapshot
  <2>6. CASE RestoreGood(d)
    BY <1>v, <2>1, <2>6 DEF RestoreGood
  <2>7. CASE NothingToRestore(d)
    BY <2>1, <2>7 DEF NothingToRestore
  <2>8. CASE QueueFix(d)
    BY <2>1, <2>8 DEF QueueFix
  <2>9. CASE RestartServices(d)
    BY <2>1, <2>9, FreshTypes DEF RestartServices, StartWorker
  <2> QED
    BY <1>6, <2>2, <2>3, <2>4, <2>5, <2>6, <2>7, <2>8, <2>9 DEF GuardStep
<1> QED
  BY <1>1, <1>2, <1>3, <1>4, <1>5, <1>6 DEF GuardNext

\* Every variable of the guard keeps its type, for any versions, deploys and faults.
THEOREM GuardTypeCorrect == GuardSpec => []GuardTypeOK
  BY GuardTypeInit, GuardTypeNext, PTL DEF GuardSpec

(* The snapshot. *)

\* Sources are edited, and a deploy begun, only while no guard is at work.
Apart == GuardFaults \cap {"edit", "overlap"} = {}

\* Deploys come one after the other.
OneAfterOther == \A d, e \in Deploys : e < d /\ guardAt[d] # "none" => guardAt[e] = "ended"

\* No process began later than the last preflight that passed.
SincePassed == worker.since <= passed /\ bot.since <= passed

\* While a deploy restarts and watches, a worker that began since its preflight runs
\* the sources it deploys; when they are copied they have run.
DeployedIsOnDisk ==
    \A d \in Deploys :
        /\ guardAt[d] \in {"bot", "flag", "watch"} =>
              startedAt = passed /\ (worker.since >= startedAt => worker.version = disk)
        /\ guardAt[d] \in {"copy", "save"} => disk \in verified

GuardInv == /\ GuardTypeOK /\ OneAfterOther /\ SincePassed /\ DeployedIsOnDisk
            /\ SnapshotIsVerified

LEMMA GuardInvInit == GuardInit => GuardInv
<1> SUFFICES ASSUME GuardInit PROVE GuardInv
  OBVIOUS
<1>1. GuardTypeOK
  BY GuardTypeInit
<1>2. NoSnapshot \notin Versions
  BY GuardAssumption DEF NoSnapshot, Versions
<1>3. OneAfterOther /\ SincePassed /\ DeployedIsOnDisk /\ SnapshotIsVerified
  BY <1>2 DEF GuardInit, OneAfterOther, SincePassed, DeployedIsOnDisk, SnapshotIsVerified
<1> QED
  BY <1>1, <1>3 DEF GuardInv

\* One guard at a time is at work.
LEMMA AloneAtWork ==
  ASSUME OneAfterOther, NEW d \in Deploys, AtWork(d)
  PROVE  \A e \in Deploys \ {d} : guardAt[e] \in {"none", "ended"}
<1>1. \A e \in Deploys : d \in Nat /\ e \in Nat
  BY DEF Deploys
<1> QED
  BY <1>1 DEF OneAfterOther, AtWork

\* A step of a guard leaves the others where they are.
LEMMA StepKeepsOrder ==
  ASSUME GuardTypeOK, OneAfterOther, NEW d \in Deploys, AtWork(d),
         NEW p \in GuardPlaces, p # "none", GoTo(d, p)
  PROVE  OneAfterOther'
<1>1. guardAt' = [guardAt EXCEPT ![d] = p] /\ guardAt \in [Deploys -> GuardPlaces]
  BY DEF GoTo, GuardTypeOK
<1>2. \A e \in Deploys : d \in Nat /\ e \in Nat
  BY DEF Deploys
<1> QED
  BY <1>1, <1>2, AloneAtWork DEF OneAfterOther, AtWork

\* Deploys keep their order as long as none begins while another is watched.
LEMMA BeginKeepsOrder ==
  ASSUME GuardTypeOK, OneAfterOther, "overlap" \notin GuardFaults, NEW d \in Deploys,
         BeginDeploy(d)
  PROVE  OneAfterOther'
<1>1. /\ guardAt[d] = "none" /\ \A e \in Deploys : e < d => guardAt[e] = "ended"
      /\ guardAt' = [guardAt EXCEPT ![d] = "preflight"]
  BY DEF BeginDeploy, GoTo
<1>2. \A e \in Deploys : d \in Nat /\ e \in Nat
  BY DEF Deploys
<1> QED
  BY <1>1, <1>2 DEF OneAfterOther, GuardTypeOK

\* A guard that takes a step was at work, and goes to some other place.
LEMMA GuardGoes ==
  ASSUME NEW d \in Deploys, GuardStep(d) \/ GuardDies(d)
  PROVE  AtWork(d) /\ \E p \in GuardPlaces : p # "none" /\ GoTo(d, p)
  BY DEF GuardStep, GuardDies, AtWork, GuardPlaces, PreflightPasses, PreflightFails, DeployBot,
        FlagWorker, WatchSucceeds, WatchTimesOut, RemoveSnapshot, SaveSnapshot, RefuseRollback,
        StartRollback, RestoreGood, NothingToRestore, QueueFix, RestartServices, ClearRollback

LEMMA GuardInvNext ==
  ASSUME Apart, GuardInv, [GuardNext]_guardVars
  PROVE  GuardInv'
<1> USE DEF sources, guardFile, processes
<1>t. GuardTypeOK /\ GuardTypeOK'
  BY GuardTypeNext DEF GuardInv
<1>n. Partial \notin Versions
  BY GuardAssumption DEF Partial, Versions
<1>1. CASE UNCHANGED guardVars
  BY <1>1, <1>t DEF guardVars, GuardInv, OneAfterOther, SincePassed, DeployedIsOnDisk, SnapshotIsVerified
<1>2. CASE Edit
  BY <1>2, <1>t DEF Edit, Apart, AtWork, GuardInv, OneAfterOther, SincePassed, DeployedIsOnDisk,
                    SnapshotIsVerified, Versions
<1>3. CASE BeginTurn \/ EndTurnOfWorker
  BY <1>3, <1>t DEF BeginTurn, EndTurnOfWorker, GuardInv, OneAfterOther, SincePassed,
                    DeployedIsOnDisk, SnapshotIsVerified
<1>4. CASE ReloadWorker
  BY <1>4, <1>t DEF ReloadWorker, StartWorker, Fresh, GuardInv, OneAfterOther, SincePassed,
                    DeployedIsOnDisk, SnapshotIsVerified, GuardTypeOK
<1>5. ASSUME NEW d \in Deploys, BeginDeploy(d) PROVE GuardInv'
  <2>1. /\ guardAt[d] = "none" /\ \A e \in Deploys : e < d => guardAt[e] = "ended"
        /\ guardAt' = [guardAt EXCEPT ![d] = "preflight"]
        /\ UNCHANGED <<sources, guardFile, processes, passed, verified>>
    BY <1>5 DEF BeginDeploy, Apart, GoTo
  <2>3. OneAfterOther'
    BY <1>5, <1>t, BeginKeepsOrder DEF GuardInv, Apart
  <2>4. SincePassed' /\ DeployedIsOnDisk' /\ SnapshotIsVerified'
    BY <2>1, <1>t, SMTT(60) DEF GuardInv, SincePassed, DeployedIsOnDisk, SnapshotIsVerified, GuardTypeOK
  <2> QED
    BY <1>t, <2>3, <2>4 DEF GuardInv
<1>6. ASSUME NEW d \in Deploys, GuardStep(d) \/ GuardDies(d) PROVE GuardInv'
  <2>1. AtWork(d) /\ \E p \in GuardPlaces : p # "none" /\ GoTo(d, p)
    BY <1>6, GuardGoes
  <2>2. OneAfterOther'
    BY <1>t, <2>1, StepKeepsOrder DEF GuardInv
  <2>3. \A e \in Deploys \ {d} : guardAt'[e] = guardAt[e] /\ guardAt[e] \in {"none", "ended"}
    BY <2>1, AloneAtWork, <1>t DEF GuardInv, GoTo, GuardTypeOK
  <2> SUFFICES SincePassed' /\ DeployedIsOnDisk' /\ SnapshotIsVerified'
    BY <1>t, <2>2 DEF GuardInv
  <2>4. SincePassed /\ DeployedIsOnDisk /\ SnapshotIsVerified
    BY DEF GuardInv
  <2> USE DEF SincePassed, DeployedIsOnDisk, SnapshotIsVerified, GoTo, GuardTypeOK
  <2>5. CASE PreflightPasses(d)
    <3>1. /\ guardAt'[d] = "bot" /\ startedAt' = passed + 1 /\ passed' = passed + 1
          /\ UNCHANGED <<sources, processes, verified>>
      BY <1>t, <2>5 DEF PreflightPasses
    <3>2. ~(worker.since >= startedAt')
      BY <1>t, <2>4, <3>1 DEF Process
    <3>3. SincePassed'
      BY <1>t, <2>4, <3>1 DEF Process
    <3> QED
      BY <2>3, <2>4, <3>1, <3>2, <3>3
  <2>6. CASE PreflightFails(d) \/ WatchTimesOut(d) \/ RefuseRollback(d) \/ StartRollback(d)
             \/ NothingToRestore(d) \/ QueueFix(d) \/ ClearRollback(d) \/ GuardDies(d)
    <3>1. /\ guardAt'[d] \notin {"bot", "flag", "watch", "copy", "save"}
          /\ UNCHANGED <<sources, worker, bot, passed, verified>>
      BY <1>t, <2>6 DEF PreflightFails, WatchTimesOut, RefuseRollback, StartRollback,
                        NothingToRestore, QueueFix, ClearRollback, GuardDies
    <3> QED
      BY <2>3, <2>4, <3>1, SMTT(60)
  <2>7. CASE DeployBot(d) \/ FlagWorker(d)
    <3>1. /\ guardAt[d] \in {"bot", "flag"} /\ guardAt'[d] \in {"flag", "watch"}
          /\ bot' = Fresh(disk) \/ bot' = bot
          /\ UNCHANGED <<sources, guardFile, worker, passed, verified>>
      BY <1>t, <2>7 DEF DeployBot, FlagWorker
    <3>2. SincePassed'
      BY <1>t, <2>4, <3>1 DEF Fresh
    <3> QED
      BY <2>3, <2>4, <3>1, <3>2
  <2>8. CASE WatchSucceeds(d)
    <3>1. /\ guardAt[d] = "watch" /\ guardAt'[d] = "copy" /\ Healthy
          /\ verified' = verified \cup {worker.version}
          /\ UNCHANGED <<sources, guardFile, processes, passed>>
      BY <1>t, <2>8 DEF WatchSucceeds
    <3>2. worker.version = disk
      BY <2>4, <3>1 DEF Healthy, FromThisDeploy
    <3> QED
      BY <2>3, <2>4, <3>1, <3>2
  <2>9. CASE RemoveSnapshot(d)
    BY <1>n, <1>t, <2>3, <2>4, <2>9 DEF RemoveSnapshot
  <2>10. CASE SaveSnapshot(d)
    BY <1>t, <2>3, <2>4, <2>10 DEF SaveSnapshot
  <2>11. CASE RestoreGood(d)
    BY <1>t, <2>3, <2>4, <2>11 DEF RestoreGood
  <2>12. CASE RestartServices(d)
    <3>1. /\ guardAt'[d] = "clear" /\ bot' = Fresh(disk) /\ worker' = Fresh(disk)
          /\ UNCHANGED <<sources, passed, verified>>
      BY <1>t, <2>12 DEF RestartServices, StartWorker
    <3>2. SincePassed'
      BY <1>t, <3>1 DEF Fresh
    <3> QED
      BY <2>3, <2>4, <3>1, <3>2
  <2> QED
    BY <1>6, <2>5, <2>6, <2>7, <2>8, <2>9, <2>10, <2>11, <2>12 DEF GuardStep
<1> QED
  BY <1>1, <1>2, <1>3, <1>4, <1>5, <1>6 DEF GuardNext

\* What a rollback would restore has come up and been healthy, whatever guard dies and
\* however long a turn is, as long as nobody edits or deploys beside a guard
\* (heartbeat_from_this_deploy, snapshot_good).
THEOREM SnapshotVerified ==
  ASSUME Apart
  PROVE  GuardSpec => []SnapshotIsVerified
<1>1. GuardInv /\ [GuardNext]_guardVars => GuardInv'
  BY GuardInvNext
<1>2. GuardInv => SnapshotIsVerified
  BY DEF GuardInv
<1> QED
  BY GuardInvInit, <1>1, <1>2, PTL DEF GuardSpec

(* What is left of three claims of the guard where each one's failure is kept out. *)

\* A bot that began since the preflight runs the sources its deploy is about, and a
\* deploy is rolled back only when these cannot run.
RolledBackIsBad ==
    \A d \in Deploys :
        /\ guardAt[d] \in {"bot", "flag", "watch"} =>
              (bot.since >= startedAt => bot.version = disk)
        /\ guardAt[d] \in {"back", "restore"} => disk \in Broken \cup Sick

\* Nobody edits or deploys beside a guard, and no turn is longer than a watch.
Prompt == GuardFaults \cap {"edit", "overlap", "slow"} = {}

LEMMA RolledBackIsBadNext ==
  ASSUME Prompt, GuardInv, RolledBackIsBad, [GuardNext]_guardVars
  PROVE  RolledBackIsBad'
<1> USE DEF sources, guardFile, processes
<1>t. GuardTypeOK
  BY DEF GuardInv
<1>1. CASE UNCHANGED guardVars
  BY <1>1 DEF guardVars, RolledBackIsBad
<1>2. CASE Edit
  BY <1>2 DEF Edit, Prompt, AtWork, RolledBackIsBad
<1>3. CASE BeginTurn \/ EndTurnOfWorker \/ ReloadWorker
  BY <1>3 DEF BeginTurn, EndTurnOfWorker, ReloadWorker, RolledBackIsBad
<1>4. ASSUME NEW d \in Deploys, BeginDeploy(d) PROVE RolledBackIsBad'
  BY <1>t, <1>4 DEF BeginDeploy, GoTo, GuardTypeOK, RolledBackIsBad
<1>5. ASSUME NEW d \in Deploys, GuardStep(d) \/ GuardDies(d) PROVE RolledBackIsBad'
  <2>1. \A e \in Deploys \ {d} : guardAt'[e] = guardAt[e] /\ guardAt[e] \in {"none", "ended"}
    BY <1>t, <1>5, GuardGoes, AloneAtWork DEF GuardInv, GoTo, GuardTypeOK
  <2> SUFFICES /\ guardAt'[d] \in {"bot", "flag", "watch"} =>
                     (bot'.since >= startedAt' => bot'.version = disk')
               /\ guardAt'[d] \in {"back", "restore"} => disk' \in Broken \cup Sick
    BY <2>1 DEF RolledBackIsBad
  <2> USE DEF GoTo, GuardTypeOK
  <2>2. CASE PreflightPasses(d)
    <3>1. guardAt'[d] = "bot" /\ startedAt' = passed + 1 /\ UNCHANGED bot
      BY <1>t, <2>2 DEF PreflightPasses
    <3>2. ~(bot.since >= startedAt')
      BY <1>t, <3>1 DEF GuardInv, SincePassed, Process
    <3> QED
      BY <3>1, <3>2
  <2>3. CASE PreflightFails(d)
    BY <1>t, <2>3 DEF PreflightFails
  <2>4. CASE DeployBot(d) \/ FlagWorker(d)
    BY <1>t, <2>4 DEF DeployBot, FlagWorker, Fresh, RolledBackIsBad
  <2>5. CASE WatchTimesOut(d)
    <3>1. /\ guardAt[d] = "watch" /\ ~Healthy /\ Restarted
          /\ guardAt'[d] = "back" /\ UNCHANGED disk
      BY <1>t, <2>5 DEF WatchTimesOut, Prompt
    <3>2. worker.version = disk /\ bot.version = disk
      BY <3>1 DEF Restarted, GuardInv, DeployedIsOnDisk, RolledBackIsBad
    <3>3. disk \in Broken \cup Sick
      BY <3>1, <3>2 DEF Healthy, FromThisDeploy, Restarted, Beats
    <3> QED
      BY <3>1, <3>3
  <2>6. CASE StartRollback(d)
    BY <1>t, <2>6 DEF StartRollback, RolledBackIsBad
  <2>7. CASE WatchSucceeds(d) \/ RemoveSnapshot(d) \/ SaveSnapshot(d) \/ RefuseRollback(d)
             \/ RestoreGood(d) \/ NothingToRestore(d) \/ QueueFix(d) \/ RestartServices(d)
             \/ ClearRollback(d) \/ GuardDies(d)
    BY <1>t, <2>7 DEF WatchSucceeds, RemoveSnapshot, SaveSnapshot, RefuseRollback, RestoreGood,
                      NothingToRestore, QueueFix, RestartServices, ClearRollback, GuardDies
  <2> QED
    BY <1>5, <2>2, <2>3, <2>4, <2>5, <2>6, <2>7 DEF GuardStep
<1> QED
  BY <1>1, <1>2, <1>3, <1>4, <1>5 DEF GuardNext

\* Where turns are shorter than a watch, a deploy is only rolled back when its sources
\* cannot run, whatever guards die: no pulse of an old process, no leftover of an earlier
\* rollback and no reload that comes late takes back sources that are well.
THEOREM WellKept ==
  ASSUME Prompt
  PROVE  GuardSpec => []WellIsKept
<1>1. GuardInv /\ [GuardNext]_guardVars => GuardInv'
  BY GuardInvNext DEF Prompt, Apart
<1>2. GuardInv /\ RolledBackIsBad /\ [GuardNext]_guardVars => RolledBackIsBad'
  BY RolledBackIsBadNext
<1>3. GuardInit => RolledBackIsBad
  BY DEF GuardInit, RolledBackIsBad
<1>4. RolledBackIsBad => WellIsKept
  BY DEF RolledBackIsBad, WellIsKept
<1> QED
  BY GuardInvInit, <1>1, <1>2, <1>3, <1>4, PTL DEF GuardSpec

\* A rollback is on record only while its guard is at it ...
RollingAtWork ==
    rollingBack => \E d \in Deploys : guardAt[d] \in {"restore", "fix", "services", "clear"}
RollingInv == OneAfterOther /\ RollingAtWork

LEMMA RollingNext ==
  ASSUME GuardFaults \cap {"crash", "overlap"} = {}, GuardTypeOK, RollingInv,
         [GuardNext]_guardVars
  PROVE  RollingInv'
<1> USE DEF sources, guardFile, processes
<1>1. CASE UNCHANGED guardVars
  BY <1>1 DEF guardVars, RollingInv, OneAfterOther, RollingAtWork
<1>2. CASE Edit \/ BeginTurn \/ EndTurnOfWorker \/ ReloadWorker
  BY <1>2 DEF Edit, BeginTurn, EndTurnOfWorker, ReloadWorker, RollingInv, OneAfterOther,
              RollingAtWork
<1>3. ASSUME NEW d \in Deploys, BeginDeploy(d) PROVE RollingInv'
  <2>1. OneAfterOther'
    BY <1>3, BeginKeepsOrder DEF RollingInv
  <2>2. RollingAtWork'
    BY <1>3 DEF BeginDeploy, GoTo, GuardTypeOK, RollingInv, RollingAtWork
  <2> QED
    BY <2>1, <2>2 DEF RollingInv
<1>4. ASSUME NEW d \in Deploys, GuardStep(d) PROVE RollingInv'
  <2>1. AtWork(d) /\ \E p \in GuardPlaces : p # "none" /\ GoTo(d, p)
    BY <1>4, GuardGoes
  <2>2. OneAfterOther'
    BY <2>1, StepKeepsOrder DEF RollingInv
  <2>3. rollingBack => guardAt[d] \in {"restore", "fix", "services", "clear"}
    BY <2>1, AloneAtWork DEF RollingInv, RollingAtWork, AtWork
  <2> USE DEF GoTo, GuardTypeOK, RollingAtWork
  <2>4. CASE PreflightPasses(d) \/ PreflightFails(d) \/ DeployBot(d) \/ FlagWorker(d)
             \/ WatchSucceeds(d) \/ WatchTimesOut(d) \/ RemoveSnapshot(d)
             \/ SaveSnapshot(d) \/ RefuseRollback(d)
    <3>1. ~rollingBack'
      BY <2>3, <2>4 DEF PreflightPasses, PreflightFails, DeployBot, FlagWorker, WatchSucceeds,
                        WatchTimesOut, RemoveSnapshot, SaveSnapshot, RefuseRollback
    <3> QED
      BY <2>2, <3>1 DEF RollingInv
  <2>5. CASE StartRollback(d) \/ RestoreGood(d) \/ QueueFix(d) \/ RestartServices(d)
    <3>1. guardAt'[d] \in {"restore", "fix", "services", "clear"}
      BY <2>5 DEF StartRollback, RestoreGood, QueueFix, RestartServices
    <3> QED
      BY <2>2, <3>1 DEF RollingInv
  <2>6. CASE NothingToRestore(d) \/ ClearRollback(d)
    BY <2>2, <2>6 DEF NothingToRestore, ClearRollback, RollingInv
  <2> QED
    BY <1>4, <2>4, <2>5, <2>6 DEF GuardStep
<1>5. ASSUME NEW d \in Deploys, GuardDies(d) PROVE FALSE
  BY <1>5 DEF GuardDies
<1> QED
  BY <1>1, <1>2, <1>3, <1>4, <1>5 DEF GuardNext

\* ... so as long as no guard dies and deploys come one after the other, none that has to
\* be rolled back is refused for a rollback that is over.
THEOREM RollbackRuns ==
  ASSUME GuardFaults \cap {"crash", "overlap"} = {}
  PROVE  GuardSpec => []RollbackNotRefused
<1>1. GuardInit => RollingInv
  BY DEF GuardInit, RollingInv, OneAfterOther, RollingAtWork
<1>2. GuardTypeOK /\ RollingInv /\ [GuardNext]_guardVars => RollingInv'
  BY RollingNext
<1>3. RollingInv => RollbackNotRefused
  <2> SUFFICES ASSUME RollingInv, NEW d \in Deploys, guardAt[d] = "back" PROVE ~rollingBack
    BY DEF RollbackNotRefused
  <2>1. \A e \in Deploys \ {d} : guardAt[e] \in {"none", "ended"}
    BY AloneAtWork DEF RollingInv, AtWork
  <2> QED
    BY <2>1 DEF RollingInv, RollingAtWork
<1> QED
  BY GuardTypeCorrect, <1>1, <1>2, <1>3, PTL DEF GuardSpec

\* Half a snapshot has its guard at work on it.
PartialAtSave == good = Partial => \E d \in Deploys : guardAt[d] = "save"

LEMMA PartialNext ==
  ASSUME "crash" \notin GuardFaults, GuardTypeOK, PartialAtSave, [GuardNext]_guardVars
  PROVE  PartialAtSave'
<1> USE DEF sources, guardFile, processes, PartialAtSave
<1>n. Partial \notin Versions
  BY GuardAssumption DEF Partial, Versions
<1>1. CASE UNCHANGED guardVars
  BY <1>1 DEF guardVars
<1>2. CASE Edit \/ BeginTurn \/ EndTurnOfWorker \/ ReloadWorker
  BY <1>2 DEF Edit, BeginTurn, EndTurnOfWorker, ReloadWorker
<1>3. ASSUME NEW d \in Deploys, BeginDeploy(d) PROVE PartialAtSave'
  BY <1>3 DEF BeginDeploy, GoTo, GuardTypeOK
<1>4. ASSUME NEW d \in Deploys, GuardStep(d) PROVE PartialAtSave'
  <2> USE DEF GoTo, GuardTypeOK
  <2>1. CASE RemoveSnapshot(d)
    BY <2>1 DEF RemoveSnapshot
  <2>2. CASE SaveSnapshot(d)
    BY <1>n, <2>2 DEF SaveSnapshot
  <2>3. CASE ~RemoveSnapshot(d) /\ ~SaveSnapshot(d)
    <3>1. good' = good /\ guardAt[d] # "save" /\ \E p : GoTo(d, p)
      BY <1>4, <2>3 DEF GuardStep, PreflightPasses, PreflightFails, DeployBot, FlagWorker,
         WatchSucceeds, WatchTimesOut, RefuseRollback, StartRollback, RestoreGood,
         NothingToRestore, QueueFix, RestartServices, ClearRollback
    <3> QED
      BY <3>1
  <2> QED
    BY <2>1, <2>2, <2>3
<1>5. ASSUME NEW d \in Deploys, GuardDies(d) PROVE FALSE
  BY <1>5 DEF GuardDies
<1> QED
  BY <1>1, <1>2, <1>3, <1>4, <1>5 DEF GuardNext

\* As long as no guard dies none leaves half a snapshot behind, even if the sources are
\* edited and deployed beside it.
THEOREM SnapshotLeftWhole ==
  ASSUME "crash" \notin GuardFaults
  PROVE  GuardSpec => []SnapshotWhole
<1>1. GuardInit => PartialAtSave
  <2>1. Partial \notin {0, NoSnapshot}
    BY GuardAssumption DEF Partial, NoSnapshot
  <2> QED
    BY <2>1 DEF GuardInit, PartialAtSave
<1>2. GuardTypeOK /\ PartialAtSave /\ [GuardNext]_guardVars => PartialAtSave'
  BY PartialNext
<1>3. PartialAtSave => SnapshotWhole
  BY DEF PartialAtSave, SnapshotWhole, AtWork
<1> QED
  BY GuardTypeCorrect, <1>1, <1>2, <1>3, PTL DEF GuardSpec

(***************************************************************************)
(* The accounts and their logins.                                          *)
(***************************************************************************)

LoginRecords == [acc : Accounts \cup {NoAccount}, proc : Procs, mon : Monitors, late : BOOLEAN]
TaskPlaces   == {"idle", "heal", "usage", "rotate", "pick", "run", "rerotate", "rerun",
                 "url", "kill", "clear", "forget"}

\* A login that has begun is one into an account.
BegunHaveAccount == \A n \in Logins : logins[n].mon # "none" => logins[n].acc \in Accounts

\* A turn that may blame an account has one.
TurnHasAccount == atTask \in {"usage", "rotate", "run", "rerotate"} => acc \in Accounts

AccountsTyped == AccountsTypeOK /\ BegunHaveAccount /\ TurnHasAccount

LEMMA SomeAccounts ==
    /\ Default \in Accounts /\ NoAccount \notin Accounts /\ NoLogin \notin Logins
    /\ NoAuth \in AuthIds /\ Logins \subseteq AuthIds
    /\ \A a \in Accounts : FirstToken(a) \in AuthIds
  BY AccountAssumption DEF Default, Accounts, NoAccount, NoLogin, Logins, NoAuth, AuthIds, FirstToken

LEMMA FirstIsIn == ASSUME NEW S \in SUBSET Accounts, S # {} PROVE First(S) \in S
<1>1. S \in SUBSET Nat
  BY DEF Accounts
<1>2. \E a \in S : \A b \in S : a <= b
  BY <1>1, LeastNumber
<1> QED
  BY <1>2 DEF First

\* The registry lists accounts, and one of them at least.
LEMMA ListedAccounts == ASSUME registry \in SUBSET Accounts PROVE Listed \in SUBSET Accounts /\ Listed # {}
  BY SomeAccounts DEF Listed

LEMMA ActiveIsListed == ASSUME registry \in SUBSET Accounts PROVE ActiveAccount \in Listed
  BY ListedAccounts, FirstIsIn DEF ActiveAccount

LEMMA NextIsCandidate ==
  ASSUME registry \in SUBSET Accounts, NEW a, Candidates(a) # {}
  PROVE  NextAfter(a) \in Accounts /\ NextAfter(a) \in Candidates(a)
<1> DEFINE S == Candidates(a)
<1>1. S \in SUBSET Accounts /\ S # {}
  BY ListedAccounts DEF Candidates
<1>2. Behind(a, S) \in SUBSET S
  BY DEF Behind
<1>3. NextAfter(a) = IF Behind(a, S) # {} THEN First(Behind(a, S)) ELSE First(S)
  BY DEF NextAfter
<1> HIDE DEF S
<1>4. Behind(a, S) # {} => First(Behind(a, S)) \in Behind(a, S)
  BY <1>1, <1>2, FirstIsIn
<1>5. First(S) \in S
  BY <1>1, FirstIsIn
<1>6. NextAfter(a) \in S
  BY <1>2, <1>3, <1>4, <1>5
<1> QED
  BY <1>1, <1>6 DEF S

LEMMA AccountsTypedInit == AccountsInit => AccountsTyped
<1> SUFFICES ASSUME AccountsInit PROVE AccountsTyped
  OBVIOUS
<1>1. registry \in SUBSET Accounts /\ token \in [Accounts -> AuthIds]
  BY SomeAccounts DEF AccountsInit
<1>2. logins \in [Logins -> LoginRecords] /\ BegunHaveAccount
  BY DEF AccountsInit, NoLoginYet, LoginRecords, Procs, Monitors, BegunHaveAccount
<1>3. /\ live = NoAuth /\ active = NoAccount /\ exhausted = {} /\ spent = {} /\ atTask = "idle"
      /\ acc = NoAccount /\ ran = NoAuth /\ login = NoLogin /\ monitored = NoLogin
      /\ tasksLeft = MaxTask /\ failures = 0 /\ verdicts \in [Logins -> Nat]
      /\ excused = {} /\ raised = {}
  BY DEF AccountsInit
<1> QED
  BY <1>1, <1>2, <1>3, SomeAccounts, AccountAssumption
  DEF AccountsTyped, AccountsTypeOK, LoginRecords, TurnHasAccount

\* What the actions that leave the logins alone do.
TurnStep == BeginAgentTurn \/ Heal \/ CheckUsage \/ RotateBefore \/ PickAccount \/ RunSucceeds
            \/ RunBlamesAccount \/ RotateAfter \/ LogoutKeys \/ AccountRaises
            \/ (\E a \in Accounts : SwitchAccount(a) \/ MarkLapses(a)) \/ \E k \in AuthIds : Spend(k)

LEMMA FilesTyped ==
  ASSUME AccountsTyped, AccountsNext
  PROVE  /\ registry' \subseteq Accounts /\ token' \in [Accounts -> AuthIds] /\ live' \in AuthIds
         /\ active' \in Accounts \cup {NoAccount} /\ exhausted' \subseteq Accounts /\ spent' \subseteq AuthIds
         /\ acc' \in Accounts \cup {NoAccount} /\ ran' \in AuthIds
<1> USE SomeAccounts
<1>0. atTask \in {"usage", "rotate", "run", "rerotate"} => acc \in Accounts
  BY DEF AccountsTyped, TurnHasAccount
<1>1. /\ registry \in SUBSET Accounts /\ token \in [Accounts -> AuthIds] /\ live \in AuthIds
      /\ active \in Accounts \cup {NoAccount} /\ exhausted \subseteq Accounts /\ spent \subseteq AuthIds
      /\ acc \in Accounts \cup {NoAccount} /\ ran \in AuthIds
      /\ \A n \in Logins : logins[n].mon # "none" => logins[n].acc \in Accounts
  BY DEF AccountsTyped, AccountsTypeOK, BegunHaveAccount
<1>2. Listed \in SUBSET Accounts /\ ActiveAccount \in Accounts
  BY <1>1, ListedAccounts, ActiveIsListed
<1>3. ASSUME NEW a \in Accounts, Activate(a) PROVE live' \in AuthIds /\ active' \in Accounts
  BY <1>1, <1>3 DEF Activate
<1>4. CASE BeginAgentTurn \/ Heal \/ RunSucceeds \/ RunBlamesAccount \/ LogoutKeys
  BY <1>0, <1>1, <1>2, <1>4 DEF BeginAgentTurn, Heal, RunSucceeds, RunBlamesAccount, LogoutKeys, accountFiles,
     accountKeys
<1>5. CASE CheckUsage
  <2>1. exhausted' = exhausted \/ (atTask' = "rotate" /\ \E marks \in {{}, {acc}} : exhausted' = exhausted \cup marks)
    BY <1>5 DEF CheckUsage
  <2>2. UNCHANGED <<registry, token, live, active, spent, acc, ran>> /\ acc \in Accounts
    BY <1>0, <1>5 DEF CheckUsage, accountFiles
  <2> QED
    BY <1>1, <2>1, <2>2
<1>6. ASSUME NEW from, NEW to, NEW other, Rotate(from, to, other)
      PROVE  /\ exhausted' \subseteq Accounts /\ UNCHANGED <<registry, token, spent>>
             /\ live' \in AuthIds /\ active' \in Accounts \cup {NoAccount}
             /\ acc' \in Accounts \cup {NoAccount} /\ ran' \in AuthIds
  <2>1. UNCHANGED <<registry, token, spent>> /\ exhausted' \subseteq Accounts
    BY <1>1, <1>2, <1>6 DEF Rotate, Passed
  <2>2. CASE Candidates(acc) = {}
    BY <1>1, <1>6, <2>1, <2>2 DEF Rotate
  <2>3. CASE Candidates(acc) # {}
    <3>1. NextAfter(acc) \in Accounts
      BY <1>1, <2>3, NextIsCandidate
    <3>2. Activate(NextAfter(acc)) /\ acc' = NextAfter(acc) /\ ran' = token[NextAfter(acc)]
      BY <1>6, <2>3 DEF Rotate
    <3> QED
      BY <1>1, <1>3, <2>1, <3>1, <3>2
  <2> QED
    BY <2>2, <2>3
<1>7. CASE PickAccount
  BY <1>1, <1>2, <1>3, <1>7 DEF PickAccount
<1>8. ASSUME NEW a \in Accounts, SwitchAccount(a) \/ StartLogin(a) \/ MarkLapses(a)
      PROVE  /\ UNCHANGED <<registry, token, spent, ran>>
             /\ live' \in AuthIds /\ active' \in Accounts \cup {NoAccount} /\ exhausted' \subseteq Accounts
             /\ acc' \in Accounts \cup {NoAccount}
  BY <1>1, <1>3, <1>8 DEF SwitchAccount, StartLogin, MarkLapses, accountFiles, accountKeys, workerState
<1>9. CASE LogoutFiles
  BY <1>1, <1>9, SMTT(60) DEF LogoutFiles, accountKeys
<1>10. CASE LinkShown \/ NoLink \/ KillLogin \/ ForgetLogin \/ CancelMonitor \/ KeyLapses
            \/ \E n \in Logins : ProcessEnded(n) \/ WaitTimesOut(n) \/ TellVerdict(n) \/ FinishMonitor(n)
  BY <1>1, <1>10 DEF LinkShown, NoLink, KillLogin, ForgetLogin, CancelMonitor, KeyLapses, ProcessEnded,
     WaitTimesOut, TellVerdict, FinishMonitor, accountFiles, accountKeys, workerState
<1>11. ASSUME NEW n \in Logins, Register(n) \/ ActivateLogin(n)
       PROVE  /\ UNCHANGED <<token, spent, acc, ran, exhausted>> /\ registry' \subseteq Accounts
              /\ live' \in AuthIds /\ active' \in Accounts \cup {NoAccount}
  <2>1. logins[n].acc \in Accounts
    BY <1>1, <1>11 DEF Register, ActivateLogin, Monitor
  <2> QED
    BY <1>1, <1>2, <1>3, <1>11, <2>1 DEF Register, ActivateLogin, accountKeys, workerState
<1>12. ASSUME NEW n \in Logins, Browse(n)
       PROVE  /\ UNCHANGED <<registry, live, active, exhausted, spent, acc, ran>>
              /\ token' \in [Accounts -> AuthIds]
  BY <1>1, <1>12, ZenonT(60) DEF Browse, accountKeys, workerState
<1>13. CASE WorkerDies
  BY <1>1, <1>13 DEF WorkerDies, accountFiles, accountKeys
<1>14. ASSUME NEW k \in AuthIds, Spend(k)
       PROVE  UNCHANGED <<registry, token, live, active, exhausted, acc, ran>> /\ spent' \subseteq AuthIds
  BY <1>1, <1>14 DEF Spend, accountFiles, accountKeys, workerState
<1>15. ASSUME NEW a \in Accounts, CopyOnly(a) PROVE live' \in AuthIds /\ UNCHANGED active
  BY <1>1, <1>15 DEF CopyOnly
<1>16. CASE AccountRaises
  <2>1. UNCHANGED <<registry, token, spent, acc, ran>> /\ exhausted' \subseteq Accounts
    BY <1>1, <1>2, <1>16 DEF AccountRaises, Passed
  <2>2. ASSUME Candidates(acc) # {}, CopyOnly(NextAfter(acc)) PROVE live' \in AuthIds /\ UNCHANGED active
    <3>1. NextAfter(acc) \in Accounts
      BY <1>1, <2>2, NextIsCandidate
    <3> QED
      BY <1>15, <2>2, <3>1
  <2>3. UNCHANGED <<live, active>> \/ (Candidates(acc) # {} /\ CopyOnly(NextAfter(acc))) \/ CopyOnly(ActiveAccount)
    BY <1>16 DEF AccountRaises
  <2> QED
    BY <1>1, <1>2, <1>15, <2>1, <2>2, <2>3
<1>17. ASSUME NEW n \in Logins, MonitorRaises(n) \/ FinishRaises(n)
       PROVE  /\ UNCHANGED <<registry, token, active, spent, acc, ran, exhausted>>
              /\ live' \in AuthIds
  <2>1. UNCHANGED <<registry, token, spent, acc, ran, exhausted>>
    BY <1>17 DEF MonitorRaises, FinishRaises, accountFiles, accountKeys, workerState
  <2>2. UNCHANGED <<live, active>> \/ (logins[n].acc \in Listed /\ CopyOnly(logins[n].acc))
    BY <1>17 DEF MonitorRaises, FinishRaises, accountFiles, accountKeys
  <2> QED
    BY <1>1, <1>2, <1>15, <2>1, <2>2
<1> QED
  BY <1>1, <1>4, <1>5, <1>6, <1>7, <1>8, <1>9, <1>10, <1>11, <1>12, <1>13, <1>14, <1>16, <1>17
  DEF AccountsNext, MainStep, MonitorStep, RotateBefore, RotateAfter

LEMMA TasksTyped ==
  ASSUME AccountsTyped, AccountsNext
  PROVE  atTask' \in TaskPlaces /\ tasksLeft' \in 0..MaxTask /\ failures' \in 0..MaxFault
<1>1. atTask \in TaskPlaces /\ tasksLeft \in 0..MaxTask /\ failures \in 0..MaxFault
  BY DEF AccountsTyped, AccountsTypeOK, TaskPlaces
<1>2. TakeTask => tasksLeft' \in 0..MaxTask
  BY <1>1, AccountAssumption DEF TakeTask
<1>9. AccountFault => failures' \in 0..MaxFault
  BY <1>1, AccountAssumption DEF AccountFault
<1>3. CASE BeginAgentTurn \/ LogoutFiles \/ KillLogin \/ \E a \in Accounts : SwitchAccount(a) \/ StartLogin(a)
  BY <1>1, <1>2, <1>3 DEF BeginAgentTurn, LogoutFiles, KillLogin, SwitchAccount, StartLogin, TaskPlaces,
     workerState
<1>4. CASE Heal \/ CheckUsage \/ RotateBefore \/ PickAccount \/ RunSucceeds \/ RunBlamesAccount
           \/ RotateAfter \/ LogoutKeys
  BY <1>1, <1>4 DEF Heal, CheckUsage, RotateBefore, Rotate, PickAccount, RunSucceeds, RunBlamesAccount,
     RotateAfter, LogoutKeys, TaskPlaces
<1>5. CASE LinkShown \/ NoLink \/ ForgetLogin \/ CancelMonitor \/ KeyLapses
  BY <1>1, <1>5, <1>9 DEF LinkShown, NoLink, ForgetLogin, CancelMonitor, KeyLapses, TaskPlaces, workerState
<1>6. CASE \E n \in Logins : MonitorStep(n) \/ Browse(n)
  BY <1>1, <1>6 DEF MonitorStep, ProcessEnded, WaitTimesOut, Register, ActivateLogin, TellVerdict,
     FinishMonitor, Browse, workerState
<1>7. CASE (\E a \in Accounts : MarkLapses(a)) \/ \E k \in AuthIds : Spend(k)
  BY <1>1, <1>7 DEF MarkLapses, Spend, workerState
<1>8. CASE WorkerDies \/ AccountRaises \/ \E n \in Logins : MonitorRaises(n) \/ FinishRaises(n)
  <2>1. atTask' \in {"idle", atTask} /\ tasksLeft' = tasksLeft /\ AccountFault
    BY <1>8 DEF WorkerDies, AccountRaises, MonitorRaises, FinishRaises, workerState
  <2> QED
    BY <1>1, <1>9, <2>1, SMTT(60) DEF TaskPlaces
<1> QED
  BY <1>3, <1>4, <1>5, <1>6, <1>7, <1>8 DEF AccountsNext, MainStep

LEMMA TurnKeepsAccount == ASSUME AccountsTyped, AccountsNext PROVE TurnHasAccount'
<1>1. atTask \in {"usage", "rotate", "run", "rerotate"} => acc \in Accounts
  BY DEF AccountsTyped, TurnHasAccount
<1>2. registry \in SUBSET Accounts
  BY DEF AccountsTyped, AccountsTypeOK
<1>3. ActiveAccount \in Accounts
  BY <1>2, ListedAccounts, ActiveIsListed
<1>4. CASE Heal \/ PickAccount
  BY <1>3, <1>4 DEF Heal, PickAccount, TurnHasAccount
<1>5. CASE CheckUsage \/ RunBlamesAccount \/ RunSucceeds \/ RotateBefore \/ RotateAfter
  BY <1>1, <1>5 DEF CheckUsage, RunBlamesAccount, RunSucceeds, RotateBefore, RotateAfter, Rotate, TurnHasAccount
<1>6. CASE BeginAgentTurn \/ LogoutFiles \/ LogoutKeys \/ KillLogin \/ LinkShown \/ NoLink \/ ForgetLogin
           \/ CancelMonitor \/ WorkerDies \/ AccountRaises \/ \E a \in Accounts : StartLogin(a)
  <2>1. atTask' \in {"idle", "heal", "forget", "kill", "clear", "url"} \/ UNCHANGED <<atTask, acc>>
    BY <1>6 DEF BeginAgentTurn, LogoutFiles, LogoutKeys, KillLogin, LinkShown, NoLink, ForgetLogin,
       CancelMonitor, WorkerDies, AccountRaises, StartLogin, TakeTask
  <2> QED
    BY <1>1, <2>1, SMTT(60) DEF TurnHasAccount, Accounts
<1>7. CASE (\E a \in Accounts : SwitchAccount(a) \/ MarkLapses(a)) \/ (\E k \in AuthIds : Spend(k))
           \/ KeyLapses \/ \E n \in Logins : MonitorStep(n) \/ MonitorRaises(n) \/ FinishRaises(n) \/ Browse(n)
  <2>1. UNCHANGED <<atTask, acc>>
    BY <1>7, ZenonT(60) DEF SwitchAccount, MarkLapses, Spend, KeyLapses, MonitorStep, ProcessEnded, WaitTimesOut,
       Register, ActivateLogin, TellVerdict, FinishMonitor, MonitorRaises, FinishRaises, Browse, workerState
  <2> QED
    BY <1>1, <2>1 DEF TurnHasAccount, Accounts
<1> QED
  BY <1>4, <1>5, <1>6, <1>7 DEF AccountsNext, MainStep

(* One login at a time. *)

\* Logins begin in the order of their numbers.
BegunInTurn == \E k \in 0..MaxLogin : \A n \in Logins : logins[n].mon # "none" <=> n <= k

\* A login whose monitor runs is the one the worker knows, and was begun.
Watched(n) == logins[n].mon \in {"waiting", "register", "activate", "tell", "sorry", "finish"}
OneMonitor == /\ \A n \in Logins : Watched(n) => monitored = n
              /\ monitored # NoLogin => monitored \in Begun

\* While a link is read for a login, there is no other.
LinkAwaited == /\ atTask = "url" => /\ login = NoLogin /\ monitored = NoLogin
                                    /\ \E n \in Logins : logins[n].mon = "starting"
               /\ \A n \in Logins : logins[n].mon = "starting" =>
                     atTask = "url" /\ \A m \in Begun : m <= n

LoginParts == BegunInTurn /\ OneMonitor /\ LinkAwaited /\ LoginIsHeld /\ KeyHasMonitor
LoginInv   == AccountsTyped /\ LoginParts

LEMMA LoginsType == AccountsTyped => logins \in [Logins -> LoginRecords]
  BY DEF AccountsTyped, AccountsTypeOK, LoginRecords

\* The logins begun are the first ones.
LEMMA BegunAreFirst ==
  ASSUME NEW k \in 0..MaxLogin, \A n \in Logins : logins[n].mon # "none" <=> n <= k
  PROVE  Begun = 1..k /\ NextLogin = k + 1
<1>1. Begun = 1..k
  BY AccountAssumption DEF Begun, Logins
<1>2. Cardinality(1..k) = k
  BY FS_Interval, AccountAssumption
<1> QED
  BY <1>1, <1>2 DEF NextLogin

LEMMA NextIsNew ==
  ASSUME BegunInTurn, NextLogin \in Logins
  PROVE  /\ logins[NextLogin].mon = "none" /\ \A m \in Begun : m <= NextLogin
         /\ (\A n \in Logins : logins'[n].mon # "none" <=> logins[n].mon # "none" \/ n = NextLogin)
              => BegunInTurn'
<1>1. PICK k \in 0..MaxLogin : \A n \in Logins : logins[n].mon # "none" <=> n <= k
  BY DEF BegunInTurn
<1>2. Begun = 1..k /\ NextLogin = k + 1
  BY <1>1, BegunAreFirst
<1>3. logins[NextLogin].mon = "none" /\ \A m \in Begun : m <= NextLogin
  BY <1>1, <1>2, AccountAssumption DEF Logins
<1>4. ASSUME \A n \in Logins : logins'[n].mon # "none" <=> logins[n].mon # "none" \/ n = NextLogin
      PROVE  BegunInTurn'
  <2>1. k + 1 \in 0..MaxLogin
    BY <1>2, AccountAssumption DEF Logins
  <2>2. \A n \in Logins : logins'[n].mon # "none" <=> n <= k + 1
    BY <1>1, <1>2, <1>4, AccountAssumption DEF Logins
  <2> QED
    BY <2>1, <2>2 DEF BegunInTurn, Logins
<1> QED
  BY <1>3, <1>4

LEMMA NewestIsLast ==
  ASSUME BegunInTurn, Begun # {} PROVE Newest \in Begun /\ \A m \in Begun : m <= Newest
<1>1. PICK k \in 0..MaxLogin : \A n \in Logins : logins[n].mon # "none" <=> n <= k
  BY DEF BegunInTurn
<1>2. Begun = 1..k
  BY <1>1, BegunAreFirst
<1>3. k \in Begun /\ \A m \in Begun : m <= k
  BY <1>2, AccountAssumption
<1> QED
  BY <1>3 DEF Newest

\* The login whose link is read is the newest.
LEMMA AwaitedIsNewest ==
  ASSUME LoginInv, atTask = "url"
  PROVE  /\ Newest \in Logins /\ logins[Newest].mon = "starting"
         /\ \A n \in Logins : logins[n].mon = "starting" => n = Newest
<1>1. PICK n \in Logins : logins[n].mon = "starting"
  BY DEF LoginInv, LoginParts, LinkAwaited
<1>2. n \in Begun
  BY <1>1 DEF Begun
<1>3. Newest \in Begun /\ \A m \in Begun : m <= Newest
  BY <1>2, NewestIsLast DEF LoginInv, LoginParts
<1>4. ASSUME NEW m \in Logins, logins[m].mon = "starting" PROVE m = Newest
  <2>1. m \in Begun
    BY <1>4 DEF Begun
  <2>2. Newest <= m /\ m <= Newest
    BY <1>3, <1>4, <2>1 DEF LoginInv, LoginParts, LinkAwaited
  <2>3. m \in Nat /\ Newest \in Nat
    BY <1>3, <2>1 DEF Begun, Logins
  <2> QED
    BY <2>2, <2>3
<1> QED
  BY <1>1, <1>3, <1>4 DEF Begun
----
(* Steps that leave to every login its monitor. *)

Kept ==
    /\ \A n \in Logins : /\ logins'[n].mon = "none" <=> logins[n].mon = "none"
                         /\ logins'[n].mon = "starting" <=> logins[n].mon = "starting"
                         /\ Watched(n)' => Watched(n)
                         /\ logins'[n].mon = "gone" => logins[n].mon = "gone"
                         /\ logins'[n].mon \in {"waiting", "register", "activate", "tell", "sorry"} =>
                              logins[n].mon \in {"waiting", "register", "activate", "tell", "sorry"}
                         /\ logins[n].late => logins'[n].late
    /\ UNCHANGED <<login, monitored>> /\ excused \subseteq excused'
    /\ atTask' = "url" <=> atTask = "url"
    /\ atTask \in {"kill", "clear"} => atTask' \in {"kill", "clear"}

LEMMA KeptParts == ASSUME LoginInv, Kept PROVE LoginParts'
<1>1. Begun' = Begun
  BY DEF Kept, Begun, Logins
<1>2. BegunInTurn'
  BY DEF LoginInv, LoginParts, BegunInTurn, Kept, Logins
<1>3. OneMonitor' /\ LinkAwaited'
  BY <1>1 DEF LoginInv, LoginParts, OneMonitor, LinkAwaited, Kept, Logins
<1>4. LoginIsHeld'
  BY DEF LoginInv, LoginParts, LoginIsHeld, Ended, Kept, Logins
<1>5. KeyHasMonitor'
  BY LoginsType DEF LoginInv, LoginParts, KeyHasMonitor, Kept, AccountsTyped, AccountsTypeOK
<1> QED
  BY <1>2, <1>3, <1>4, <1>5 DEF LoginParts

LEMMA TurnKeeps == ASSUME LoginInv, TurnStep \/ LogoutFiles PROVE Kept
<1>1. CASE TurnStep
  <2>1. UNCHANGED <<logins, login, monitored, excused>>
    BY <1>1 DEF TurnStep, BeginAgentTurn, Heal, CheckUsage, RotateBefore, Rotate, PickAccount, RunSucceeds,
       RunBlamesAccount, RotateAfter, LogoutKeys, AccountRaises, SwitchAccount, MarkLapses, Spend, loginVars,
       loginHistory
  <2>2. atTask' = atTask \/ (atTask \notin {"url", "kill", "clear"} /\ atTask' \notin {"url", "kill", "clear"})
    BY <1>1 DEF TurnStep, BeginAgentTurn, TakeTask, Heal, CheckUsage, RotateBefore, Rotate, PickAccount,
       RunSucceeds, RunBlamesAccount, RotateAfter, LogoutKeys, AccountRaises, SwitchAccount, MarkLapses, Spend,
       workerState
  <2> QED
    BY <2>1, <2>2, SMTT(60) DEF Kept, Watched, Logins
<1>2. CASE LogoutFiles
  BY <1>2 DEF LogoutFiles, TakeTask, loginVars, Kept, Watched, Logins
<1> QED
  BY <1>1, <1>2

LEMMA MonitorKeeps ==
  ASSUME LoginInv, NEW n \in Logins,
         \/ Browse(n) \/ ProcessEnded(n) \/ WaitTimesOut(n) \/ Register(n) \/ ActivateLogin(n)
         \/ TellVerdict(n) \/ MonitorRaises(n)
  PROVE  Kept
<1>1. logins \in [Logins -> LoginRecords]
  BY LoginsType DEF LoginInv
<1>2. UNCHANGED <<login, monitored, excused, atTask>>
  BY DEF Browse, ProcessEnded, WaitTimesOut, Register, ActivateLogin, TellVerdict, MonitorRaises, workerState,
     loginHistory
<1>3. ASSUME NEW from \in Monitors, NEW to \in Monitors, Monitor(n, from, to)
      PROVE  /\ logins[n].mon = from /\ logins'[n].mon = to /\ logins'[n].late = logins[n].late
             /\ \A m \in Logins \ {n} : logins'[m] = logins[m]
  BY <1>1, <1>3 DEF Monitor, LoginRecords
<1>4. CASE Browse(n)
  <2>1. PICK p \in Procs : logins' = [logins EXCEPT ![n].proc = p]
    BY <1>4 DEF Browse, Procs
  <2>2. \A m \in Logins : logins'[m].mon = logins[m].mon /\ logins'[m].late = logins[m].late
    BY <1>1, <2>1 DEF LoginRecords
  <2> QED
    BY <1>2, <2>2 DEF Kept, Watched, Logins
<1>5. CASE WaitTimesOut(n)
  <2>1. PICK p : logins' = [logins EXCEPT ![n].mon = "sorry", ![n].proc = p]
    BY <1>5 DEF WaitTimesOut
  <2>2. /\ \A m \in Logins \ {n} : logins'[m] = logins[m]
        /\ logins'[n].mon = "sorry" /\ logins'[n].late = logins[n].late /\ logins[n].mon = "waiting"
    <3>1. logins[n] \in LoginRecords /\ logins[n].mon = "waiting"
      BY <1>1, <1>5 DEF WaitTimesOut
    <3>2. /\ logins'[n] = [logins[n] EXCEPT !.mon = "sorry", !.proc = p]
          /\ \A m \in Logins \ {n} : logins'[m] = logins[m]
      BY <1>1, <2>1
    <3> QED
      BY <3>1, <3>2 DEF LoginRecords
  <2> QED
    BY <1>2, <2>2 DEF Kept, Watched, Logins
<1>6. CASE ProcessEnded(n) \/ Register(n) \/ ActivateLogin(n) \/ TellVerdict(n) \/ MonitorRaises(n)
  <2>1. PICK from \in {"waiting", "register", "activate", "tell", "sorry"},
             to \in {"register", "sorry", "activate", "tell", "finish"} : Monitor(n, from, to)
    BY <1>6 DEF ProcessEnded, Register, ActivateLogin, TellVerdict, MonitorRaises
  <2>2. /\ logins[n].mon = from /\ logins'[n].mon = to /\ logins'[n].late = logins[n].late
        /\ \A m \in Logins \ {n} : logins'[m] = logins[m]
    BY <1>3, <2>1 DEF Monitors
  <2> QED
    BY <1>2, <2>2 DEF Kept, Watched, Logins
<1> QED
  BY <1>4, <1>5, <1>6

LEMMA KillKeeps == ASSUME LoginInv, KillLogin PROVE Kept
<1>1. logins \in [Logins -> LoginRecords] /\ (login # NoLogin => login \in Logins)
  BY LoginsType DEF LoginInv, AccountsTyped, AccountsTypeOK
<1>2. UNCHANGED <<login, monitored, excused>> /\ atTask = "idle" /\ atTask' \in {"idle", "kill"}
  BY DEF KillLogin, TakeTask, loginHistory
<1>3. \A m \in Logins : logins'[m].mon = logins[m].mon /\ logins'[m].late = logins[m].late
  <2>1. CASE login = NoLogin
    BY <2>1 DEF KillLogin
  <2>2. CASE login # NoLogin
    <3>1. PICK p : logins' = [logins EXCEPT ![login].proc = p]
      BY <2>2 DEF KillLogin
    <3> QED
      BY <1>1, <2>2, <3>1 DEF LoginRecords
  <2> QED
    BY <2>1, <2>2
<1> QED
  BY <1>2, <1>3 DEF Kept, Watched, Logins

(* Steps that begin or end a login, or move its key. *)

LEMMA LoginFacts ==
  ASSUME LoginInv
  PROVE  /\ logins \in [Logins -> LoginRecords]
         /\ login \in Logins \cup {NoLogin} /\ monitored \in Logins \cup {NoLogin}
         /\ NoLogin \notin Logins /\ Logins \subseteq Nat
         /\ BegunInTurn /\ OneMonitor /\ LinkAwaited /\ LoginIsHeld /\ KeyHasMonitor
  BY LoginsType, SomeAccounts DEF LoginInv, LoginParts, AccountsTyped, AccountsTypeOK, Logins

\* What has begun stays begun.
BegunKept == \A n \in Logins : logins'[n].mon = "none" <=> logins[n].mon = "none"
LEMMA KeepsTurn == ASSUME LoginInv, BegunKept PROVE BegunInTurn' /\ Begun' = Begun
  BY DEF LoginInv, LoginParts, BegunInTurn, Begun, BegunKept, Logins

LEMMA StartsLogin == ASSUME LoginInv, NEW a \in Accounts, StartLogin(a) PROVE LoginParts' /\ logins' \in [Logins -> LoginRecords] /\ BegunHaveAccount'
<1> USE LoginFacts
<1>0. atTask = "idle"
  BY DEF StartLogin, TakeTask
<1>1. CASE login # NoLogin
  <2>1. UNCHANGED <<logins, monitored, atTask, excused, login>>
    BY <1>1 DEF StartLogin
  <2>2. Kept
    BY <2>1 DEF Kept, Watched, Logins
  <2> QED
    BY <2>1, <2>2, KeptParts DEF LoginInv, AccountsTyped, BegunHaveAccount, Logins, LoginRecords
<1>2. CASE login = NoLogin
  <2> DEFINE new == [acc |-> a, proc |-> "running", mon |-> "starting", late |-> FALSE]
             old(n) == [logins[n] EXCEPT !.mon = "gone"]
  <2>1. /\ NextLogin \in Logins
        /\ logins' = [n \in Logins |-> IF n = NextLogin THEN new ELSE IF n = monitored THEN old(n) ELSE logins[n]]
        /\ monitored' = NoLogin /\ login' = NoLogin /\ atTask' = "url"
        /\ excused' = excused \cup ({monitored} \ {NoLogin})
    BY <1>2 DEF StartLogin
  <2>2. new \in LoginRecords /\ new.mon = "starting" /\ new.acc = a /\ new.late = FALSE
    BY DEF LoginRecords, Procs, Monitors
  <2>3. \A n \in Logins : old(n) \in LoginRecords /\ old(n).mon = "gone" /\ old(n).acc = logins[n].acc
    BY DEF LoginRecords, Monitors
  <2> HIDE DEF new, old
  <2>4. logins[NextLogin].mon = "none" /\ \A m \in Begun : m <= NextLogin
    BY <2>1, NextIsNew
  <2>5. monitored # NextLogin /\ (monitored # NoLogin => logins[monitored].mon # "none")
    BY <2>1, <2>4 DEF OneMonitor, Begun
  <2>6. \A n \in Logins : logins'[n].mon # "none" <=> logins[n].mon # "none" \/ n = NextLogin
    BY <2>1, <2>2, <2>3, <2>5
  <2>7. BegunInTurn'
    BY <2>1, <2>6, NextIsNew
  <2>8. ~\E n \in Logins : logins[n].mon = "starting"
    BY <1>0 DEF LinkAwaited
  <2>9. \A n \in Logins : logins'[n].mon \in {"none", "gone"} \/ (n = NextLogin /\ logins'[n].mon = "starting")
    <3> SUFFICES ASSUME NEW n \in Logins, n # NextLogin, n # monitored PROVE logins[n].mon \in {"none", "gone"}
      BY <2>1, <2>2, <2>3
    <3>1. ~Watched(n) /\ logins[n].mon # "starting" /\ logins[n].mon \in Monitors
      BY <2>8 DEF OneMonitor, LoginRecords
    <3> QED
      BY <3>1 DEF Watched, Monitors
  <2>10. OneMonitor' /\ LoginIsHeld' /\ KeyHasMonitor'
    BY <2>1, <2>9 DEF OneMonitor, LoginIsHeld, KeyHasMonitor, Watched, Logins
  <2>11. LinkAwaited'
    <3>1. \A m \in Begun' : m <= NextLogin
      <4>1. NextLogin <= NextLogin
        BY <2>1
      <4> QED
        BY <2>4, <2>6, <4>1 DEF Begun, Logins
    <3>2. logins'[NextLogin].mon = "starting"
      BY <2>1, <2>2
    <3> QED
      BY <2>1, <2>9, <3>1, <3>2 DEF LinkAwaited, Logins
  <2>12. logins' \in [Logins -> LoginRecords]
    BY <2>1, <2>2, <2>3
  <2>13. BegunHaveAccount'
    <3>1. \A n \in Logins : n # NextLogin => logins'[n].acc = logins[n].acc /\ (logins'[n].mon # "none" => logins[n].mon # "none")
      BY <2>1, <2>3, <2>6
    <3> QED
      BY <2>1, <2>2, <3>1 DEF LoginInv, AccountsTyped, BegunHaveAccount, Logins, Accounts
  <2> QED
    BY <2>7, <2>10, <2>11, <2>12, <2>13 DEF LoginParts
<1> QED
  BY <1>1, <1>2

LEMMA LinkEnds ==
  ASSUME LoginInv, LinkShown \/ NoLink
  PROVE  /\ LoginParts' /\ logins' \in [Logins -> LoginRecords]
         /\ \A n \in Logins : logins'[n].acc = logins[n].acc
         /\ login' \in Logins \cup {NoLogin} /\ monitored' \in Logins \cup {NoLogin}
         /\ BegunKept /\ excused' \in SUBSET (excused \cup Logins)
<1> USE LoginFacts
<1>1. atTask = "url" /\ atTask' = "idle" /\ login = NoLogin /\ monitored = NoLogin
  BY DEF LinkShown, NoLink, LinkAwaited
<1>2. /\ Newest \in Logins /\ logins[Newest].mon = "starting"
      /\ \A n \in Logins : logins[n].mon = "starting" => n = Newest
  BY <1>1, AwaitedIsNewest
<1>3. \A n \in Logins \ {Newest} : logins[n].mon \in {"none", "gone"}
  <2>1. \A n \in Logins : ~Watched(n) /\ logins[n].mon \in Monitors
    BY <1>1 DEF OneMonitor, LoginRecords
  <2> QED
    BY <1>2, <2>1 DEF Watched, Monitors
<1>4. CASE LinkShown
  <2>1. /\ logins' = [logins EXCEPT ![Newest].mon = "waiting"] /\ login' = Newest /\ monitored' = Newest
        /\ excused' = excused
    BY <1>4 DEF LinkShown, loginHistory
  <2>2. /\ logins'[Newest] \in LoginRecords /\ logins'[Newest].mon = "waiting" /\ logins'[Newest].acc = logins[Newest].acc
        /\ \A n \in Logins \ {Newest} : logins'[n] = logins[n]
    BY <1>2, <2>1 DEF LoginRecords, Monitors
  <2>3. logins' \in [Logins -> LoginRecords] /\ BegunKept
    BY <1>2, <2>1, <2>2 DEF BegunKept
  <2>4. OneMonitor' /\ LinkAwaited' /\ LoginIsHeld' /\ KeyHasMonitor'
    BY <1>1, <1>2, <1>3, <2>1, <2>2 DEF OneMonitor, LinkAwaited, LoginIsHeld, KeyHasMonitor, Watched, Begun, Logins
  <2> QED
    BY <1>2, <2>1, <2>2, <2>3, <2>4, KeepsTurn DEF LoginParts
<1>5. CASE NoLink
  <2>1. /\ logins' \in [Logins -> LoginRecords] /\ logins'[Newest].mon = "gone"
        /\ logins'[Newest].acc = logins[Newest].acc
        /\ \A n \in Logins \ {Newest} : logins'[n] = logins[n]
    <3> DEFINE ends(p) == [logins[Newest] EXCEPT !.mon = "gone", !.proc = p]
    <3>1. logins[Newest] \in LoginRecords /\ logins[Newest].proc \in Procs
      BY <1>2 DEF LoginRecords
    <3>2. \A p \in Procs : ends(p) \in LoginRecords /\ ends(p).mon = "gone" /\ ends(p).acc = logins[Newest].acc
      BY <3>1 DEF LoginRecords, Monitors
    <3>3. CASE logins' = [logins EXCEPT ![Newest].mon = "gone"]
      BY <1>2, <3>1, <3>3 DEF LoginRecords, Monitors
    <3>4. ASSUME NEW p \in Procs, logins' = [logins EXCEPT ![Newest].mon = "gone", ![Newest].proc = p]
          PROVE  logins' = [logins EXCEPT ![Newest] = ends(p)]
      BY <1>2, <3>1, <3>4
    <3>5. \/ logins' = [logins EXCEPT ![Newest].mon = "gone"]
          \/ \E p \in Procs : logins' = [logins EXCEPT ![Newest].mon = "gone", ![Newest].proc = p]
      BY <1>2, <1>5, <3>1 DEF NoLink, Procs
    <3> HIDE DEF ends
    <3> QED
      BY <1>2, <3>2, <3>3, <3>4, <3>5
  <2>2. login' = NoLogin /\ monitored' = NoLogin /\ excused' = excused \cup {Newest}
    BY <1>1, <1>5 DEF NoLink
  <2>3. BegunKept
    BY <1>2, <2>1 DEF BegunKept
  <2>4. OneMonitor' /\ LinkAwaited' /\ LoginIsHeld' /\ KeyHasMonitor'
    BY <1>1, <1>2, <1>3, <2>1, <2>2, ZenonT(60) DEF OneMonitor, LinkAwaited, LoginIsHeld, KeyHasMonitor, Watched, Begun, Logins
  <2> QED
    BY <1>2, <2>1, <2>2, <2>3, <2>4, KeepsTurn DEF LoginParts
<1> QED
  BY <1>4, <1>5

LEMMA KeyMoves ==
  ASSUME LoginInv, ForgetLogin \/ KeyLapses PROVE LoginParts' /\ BegunKept
<1> USE LoginFacts
<1>1. CASE ForgetLogin
  <2>1. login' = NoLogin /\ atTask = "kill" /\ atTask' = "clear" /\ UNCHANGED <<logins, monitored, excused>>
    BY <1>1 DEF ForgetLogin, loginHistory
  <2>2. BegunKept
    BY <2>1 DEF BegunKept
  <2>3. OneMonitor' /\ LinkAwaited' /\ LoginIsHeld' /\ KeyHasMonitor'
    BY <2>1 DEF OneMonitor, LinkAwaited, LoginIsHeld, Ended, KeyHasMonitor, Watched, Begun, Logins
  <2> QED
    BY <2>2, <2>3, KeepsTurn DEF LoginParts
<1>2. CASE KeyLapses
  <2>1. /\ login \in Logins /\ logins' = [logins EXCEPT ![login].late = TRUE] /\ login' = NoLogin
        /\ UNCHANGED <<monitored, excused, atTask>>
    BY <1>2 DEF KeyLapses, workerState, loginHistory
  <2>2. \A n \in Logins : logins'[n].mon = logins[n].mon /\ (logins'[n].late <=> logins[n].late \/ n = login)
    BY <2>1 DEF LoginRecords
  <2>3. BegunKept /\ Begun' = Begun
    BY <2>2 DEF BegunKept, Begun, Logins
  <2>4. OneMonitor' /\ LinkAwaited'
    BY <2>1, <2>2, <2>3 DEF OneMonitor, LinkAwaited, Watched, Logins
  <2>5. LoginIsHeld' /\ KeyHasMonitor'
    BY <2>1, <2>2 DEF LoginIsHeld, Ended, KeyHasMonitor, Logins
  <2> QED
    BY <2>3, <2>4, <2>5, KeepsTurn DEF LoginParts
<1> QED
  BY <1>1, <1>2

\* The monitor that is cancelled, has finished, or dies with the worker was the only one.
LEMMA MonitorGoes ==
  ASSUME LoginInv, CancelMonitor \/ WorkerDies \/ \E n \in Logins : FinishMonitor(n) \/ FinishRaises(n)
  PROVE  LoginParts' /\ BegunKept
<1> USE LoginFacts
<1>1. CASE CancelMonitor
  <2>1. /\ atTask = "clear" /\ atTask' = "idle" /\ monitored' = NoLogin /\ login' = login
        /\ excused' = excused \cup ({monitored} \ {NoLogin})
        /\ logins' = IF monitored = NoLogin THEN logins ELSE [logins EXCEPT ![monitored].mon = "gone"]
    BY <1>1 DEF CancelMonitor, Cancelled
  <2>2. \A n \in Logins : IF n = monitored THEN logins'[n].mon = "gone" ELSE logins'[n] = logins[n]
    BY <2>1 DEF LoginRecords
  <2>3. BegunKept
    BY <2>2 DEF BegunKept, OneMonitor, Begun
  <2>4. \A n \in Logins : logins'[n].mon \in {"none", "gone"}
    <3> SUFFICES ASSUME NEW n \in Logins, n # monitored PROVE logins[n].mon \in {"none", "gone"}
      BY <2>2
    <3>1. ~Watched(n) /\ logins[n].mon # "starting" /\ logins[n].mon \in Monitors
      BY <2>1 DEF OneMonitor, LinkAwaited, LoginRecords
    <3> QED
      BY <3>1 DEF Watched, Monitors
  <2>5. OneMonitor' /\ LinkAwaited' /\ LoginIsHeld' /\ KeyHasMonitor'
    BY <2>1, <2>4, SMTT(60) DEF OneMonitor, LinkAwaited, LoginIsHeld, KeyHasMonitor, Watched, Logins
  <2> QED
    BY <2>3, <2>5, KeepsTurn DEF LoginParts
<1>2. CASE WorkerDies
  <2>1. /\ atTask' = "idle" /\ monitored' = NoLogin /\ login' = login /\ excused' = excused \cup Begun
        /\ \A n \in Logins : IF n \in Begun THEN \E p : logins'[n] = [logins[n] EXCEPT !.mon = "gone", !.proc = p]
                             ELSE logins'[n] = logins[n]
    BY <1>2 DEF WorkerDies
  <2>2. \A n \in Logins : logins'[n].mon = (IF logins[n].mon = "none" THEN "none" ELSE "gone")
    <3> SUFFICES ASSUME NEW n \in Logins PROVE logins'[n].mon = (IF logins[n].mon = "none" THEN "none" ELSE "gone")
      OBVIOUS
    <3>1. logins[n] \in LoginRecords /\ (n \in Begun <=> logins[n].mon # "none")
      BY DEF Begun
    <3>2. CASE n \in Begun
      <4>1. PICK p : logins'[n] = [logins[n] EXCEPT !.mon = "gone", !.proc = p]
        BY <2>1, <3>2
      <4> QED
        BY <3>1, <3>2, <4>1 DEF LoginRecords
    <3> QED
      BY <2>1, <3>1, <3>2
  <2>3. BegunKept
    BY <2>2 DEF BegunKept
  <2>4. OneMonitor' /\ LinkAwaited' /\ LoginIsHeld' /\ KeyHasMonitor'
    <3>1. login # NoLogin => login \in Begun \/ login \in excused
      BY DEF KeyHasMonitor, OneMonitor
    <3> QED
      BY <2>1, <2>2, <3>1 DEF OneMonitor, LinkAwaited, LoginIsHeld, KeyHasMonitor, Watched, Logins
  <2> QED
    BY <2>3, <2>4, KeepsTurn DEF LoginParts
<1>3. ASSUME NEW n \in Logins, FinishMonitor(n) PROVE LoginParts' /\ BegunKept
  <2>1. /\ logins[n].mon = "finish" /\ logins' = [logins EXCEPT ![n].mon = "gone"]
        /\ login' = NoLogin /\ monitored' = NoLogin /\ UNCHANGED <<excused, atTask>>
    BY <1>3 DEF FinishMonitor, Monitor, workerState, loginHistory
  <2>2. logins'[n].mon = "gone" /\ \A m \in Logins \ {n} : logins'[m] = logins[m]
    BY <2>1 DEF LoginRecords
  <2>3. BegunKept
    BY <2>1, <2>2 DEF BegunKept
  <2>4. \A m \in Logins : ~Watched(m)' /\ (logins'[m].mon = "starting" <=> logins[m].mon = "starting")
    <3>1. monitored = n /\ NoLogin # n
      BY <2>1 DEF OneMonitor, Watched
    <3> QED
      BY <2>1, <2>2, <3>1 DEF OneMonitor, Watched
  <2>5. Begun' = Begun
    BY <2>3, KeepsTurn
  <2>6. OneMonitor' /\ LinkAwaited' /\ LoginIsHeld' /\ KeyHasMonitor'
    BY <2>1, <2>4, <2>5 DEF OneMonitor, LinkAwaited, LoginIsHeld, KeyHasMonitor, Watched, Logins
  <2> QED
    BY <2>3, <2>6, KeepsTurn DEF LoginParts
<1>4. ASSUME NEW n \in Logins, FinishRaises(n) PROVE LoginParts' /\ BegunKept
  <2>1. /\ logins[n].mon = "finish" /\ logins' = [logins EXCEPT ![n].mon = "gone"]
        /\ UNCHANGED <<login, monitored, atTask>> /\ excused' = excused \cup {n}
    BY <1>4 DEF FinishRaises, Monitor, workerState
  <2>2. logins'[n].mon = "gone" /\ \A m \in Logins \ {n} : logins'[m] = logins[m]
    BY <2>1 DEF LoginRecords
  <2>3. BegunKept
    BY <2>1, <2>2 DEF BegunKept
  <2>4. /\ monitored = n /\ n # NoLogin
        /\ \A m \in Logins : ~Watched(m)' /\ (logins'[m].mon = "starting" <=> logins[m].mon = "starting")
    <3>1. monitored = n /\ NoLogin # n
      BY <2>1 DEF OneMonitor, Watched
    <3> QED
      BY <2>1, <2>2, <3>1 DEF OneMonitor, Watched
  <2>5. Begun' = Begun
    BY <2>3, KeepsTurn
  <2>6. OneMonitor' /\ LinkAwaited' /\ LoginIsHeld' /\ KeyHasMonitor'
    BY <2>1, <2>2, <2>4, <2>5 DEF OneMonitor, LinkAwaited, LoginIsHeld, KeyHasMonitor, Watched, Logins
  <2> QED
    BY <2>3, <2>6, KeepsTurn DEF LoginParts
<1> QED
  BY <1>1, <1>2, <1>3, <1>4

(* The types of the logins, and the invariant. *)

\* A login keeps its account.
SameAccounts == \A n \in Logins : logins'[n].acc = logins[n].acc

LEMMA BegunKeepAccount == ASSUME LoginInv, SameAccounts, BegunKept PROVE BegunHaveAccount'
  BY DEF LoginInv, AccountsTyped, BegunHaveAccount, SameAccounts, BegunKept, Logins, Accounts

LEMMA MonitorTyped ==
  ASSUME LoginInv, NEW n \in Logins, MonitorStep(n) \/ MonitorRaises(n) \/ FinishRaises(n) \/ Browse(n)
  PROVE  logins' \in [Logins -> LoginRecords] /\ SameAccounts
<1> USE LoginFacts
<1>1. ASSUME NEW from, NEW to \in Monitors, Monitor(n, from, to)
      PROVE  logins' \in [Logins -> LoginRecords] /\ SameAccounts
  <2>1. logins' = [logins EXCEPT ![n].mon = to] /\ logins[n] \in LoginRecords
    BY <1>1 DEF Monitor
  <2> QED
    BY <2>1 DEF LoginRecords, SameAccounts
<1>2. ASSUME NEW p \in Procs, NEW q \in Monitors, logins' = [logins EXCEPT ![n].mon = q, ![n].proc = p]
      PROVE  logins' \in [Logins -> LoginRecords] /\ SameAccounts
  <2>1. /\ logins'[n] = [logins[n] EXCEPT !.mon = q, !.proc = p] /\ logins[n] \in LoginRecords
        /\ \A m \in Logins \ {n} : logins'[m] = logins[m]
    BY <1>2
  <2>2. logins'[n] \in LoginRecords /\ logins'[n].acc = logins[n].acc
    BY <2>1 DEF LoginRecords
  <2> QED
    BY <1>2, <2>1, <2>2 DEF SameAccounts
<1>3. CASE WaitTimesOut(n)
  <2>1. logins[n].proc \in Procs
    BY DEF LoginRecords
  <2>2. \E p \in Procs : logins' = [logins EXCEPT ![n].mon = "sorry", ![n].proc = p]
    BY <1>3, <2>1 DEF WaitTimesOut, Procs
  <2> QED
    BY <1>2, <2>2 DEF Monitors
<1>4. CASE Browse(n)
  <2>1. PICK p \in Procs : logins' = [logins EXCEPT ![n].proc = p]
    BY <1>4 DEF Browse, Procs
  <2> QED
    BY <2>1 DEF LoginRecords, SameAccounts
<1>5. CASE \/ ProcessEnded(n) \/ Register(n) \/ ActivateLogin(n) \/ TellVerdict(n) \/ FinishMonitor(n)
           \/ MonitorRaises(n) \/ FinishRaises(n)
  <2>1. \E from, to \in Monitors : Monitor(n, from, to)
    <3>1. logins[n].mon \in Monitors
      BY DEF LoginRecords
    <3> QED
      BY <1>5, <3>1 DEF ProcessEnded, Register, ActivateLogin, TellVerdict, FinishMonitor, MonitorRaises,
         FinishRaises, Monitors
  <2> QED
    BY <1>1, <2>1
<1> QED
  BY <1>3, <1>4, <1>5 DEF MonitorStep

LEMMA OthersTyped ==
  ASSUME LoginInv, KillLogin \/ ForgetLogin \/ KeyLapses \/ CancelMonitor \/ WorkerDies
  PROVE  logins' \in [Logins -> LoginRecords] /\ SameAccounts
<1> USE LoginFacts
<1>1. CASE KillLogin
  <2>1. CASE login = NoLogin
    BY <1>1, <2>1 DEF KillLogin, SameAccounts
  <2>2. CASE login # NoLogin
    <3>1. logins[login].proc \in Procs
      BY <2>2 DEF LoginRecords
    <3>2. \E p \in Procs : logins' = [logins EXCEPT ![login].proc = p]
      BY <1>1, <2>2, <3>1 DEF KillLogin, Procs
    <3> QED
      BY <2>2, <3>2 DEF LoginRecords, SameAccounts
  <2> QED
    BY <2>1, <2>2
<1>2. CASE ForgetLogin
  BY <1>2 DEF ForgetLogin, SameAccounts
<1>3. CASE KeyLapses
  <2>1. logins' = [logins EXCEPT ![login].late = TRUE] /\ login \in Logins
    BY <1>3 DEF KeyLapses
  <2> QED
    BY <2>1 DEF LoginRecords, SameAccounts
<1>4. CASE CancelMonitor
  <2>1. logins' = logins \/ (monitored \in Logins /\ logins' = [logins EXCEPT ![monitored].mon = "gone"])
    BY <1>4 DEF CancelMonitor, Cancelled
  <2>2. "gone" \in Monitors
    BY DEF Monitors
  <2> QED
    BY <2>1, <2>2 DEF LoginRecords, SameAccounts
<1>5. CASE WorkerDies
  <2> DEFINE end(n) == [logins[n] EXCEPT !.mon = "gone", !.proc = IF @ = "running" THEN "failed" ELSE @]
  <2>1. logins' = [n \in Logins |-> IF n \in Begun THEN end(n) ELSE logins[n]]
    BY <1>5 DEF WorkerDies
  <2>2. \A n \in Logins : end(n) \in LoginRecords /\ end(n).acc = logins[n].acc
    BY ZenonT(60) DEF LoginRecords, Monitors, Procs
  <2> HIDE DEF end
  <2> QED
    BY <2>1, <2>2 DEF SameAccounts
<1> QED
  BY <1>1, <1>2, <1>3, <1>4, <1>5

\* The variables of the logins, after each step.
LEMMA LoginsTyped ==
  ASSUME LoginInv, AccountsNext
  PROVE  /\ logins' \in [Logins -> LoginRecords] /\ BegunHaveAccount'
         /\ login' \in Logins \cup {NoLogin} /\ monitored' \in Logins \cup {NoLogin}
         /\ verdicts' \in [Logins -> Nat] /\ excused' \subseteq Logins /\ raised' \subseteq Logins
         /\ LoginParts'
<1> USE LoginFacts
<1>1. verdicts \in [Logins -> Nat] /\ excused \subseteq Logins /\ raised \subseteq Logins /\ BegunHaveAccount /\ Begun \subseteq Logins
  BY DEF LoginInv, AccountsTyped, AccountsTypeOK, Begun
<1>2. CASE TurnStep \/ LogoutFiles
  <2>1. Kept
    BY <1>2, TurnKeeps
  <2>2. UNCHANGED <<logins, login, monitored, verdicts, raised>> /\ excused' \subseteq Logins
    BY <1>1, <1>2 DEF TurnStep, BeginAgentTurn, Heal, CheckUsage, RotateBefore, Rotate, PickAccount, RunSucceeds,
       RunBlamesAccount, RotateAfter, LogoutKeys, AccountRaises, SwitchAccount, MarkLapses, Spend, LogoutFiles,
       loginVars, loginHistory
  <2> QED
    BY <1>1, <2>1, <2>2, KeptParts DEF BegunHaveAccount, Logins, Accounts
<1>3. ASSUME NEW n \in Logins, Browse(n) \/ ProcessEnded(n) \/ WaitTimesOut(n) \/ Register(n)
                               \/ ActivateLogin(n) \/ TellVerdict(n) \/ MonitorRaises(n)
      PROVE  /\ logins' \in [Logins -> LoginRecords] /\ BegunHaveAccount'
             /\ login' \in Logins \cup {NoLogin} /\ monitored' \in Logins \cup {NoLogin}
             /\ verdicts' \in [Logins -> Nat] /\ excused' \subseteq Logins /\ raised' \subseteq Logins
             /\ LoginParts'
  <2>1. Kept /\ logins' \in [Logins -> LoginRecords] /\ SameAccounts
    BY <1>3, MonitorKeeps, MonitorTyped DEF MonitorStep
  <2>2. /\ UNCHANGED <<login, monitored, excused>> /\ raised' \in {raised, raised \cup {n}}
        /\ verdicts' = verdicts \/ verdicts' = [verdicts EXCEPT ![n] = @ + 1]
    BY <1>3 DEF Browse, ProcessEnded, WaitTimesOut, Register, ActivateLogin, TellVerdict, MonitorRaises, loginHistory
  <2>3. verdicts' \in [Logins -> Nat]
    BY <1>1, <2>2
  <2>4. BegunKept
    BY <2>1 DEF Kept, BegunKept
  <2> QED
    BY <1>1, <2>1, <2>2, <2>3, <2>4, KeptParts, BegunKeepAccount
<1>4. CASE KillLogin
  <2>1. Kept /\ UNCHANGED <<login, monitored, verdicts, excused, raised>>
    BY <1>4, KillKeeps DEF KillLogin, loginHistory
  <2>2. BegunKept
    BY <2>1 DEF Kept, BegunKept
  <2> QED
    BY <1>1, <1>4, <2>1, <2>2, KeptParts, OthersTyped, BegunKeepAccount
<1>5. ASSUME NEW a \in Accounts, StartLogin(a)
      PROVE  /\ logins' \in [Logins -> LoginRecords] /\ BegunHaveAccount'
             /\ login' \in Logins \cup {NoLogin} /\ monitored' \in Logins \cup {NoLogin}
             /\ verdicts' \in [Logins -> Nat] /\ excused' \subseteq Logins /\ raised' \subseteq Logins
             /\ LoginParts'
  <2>1. UNCHANGED <<login, verdicts, raised>> /\ monitored' \in {monitored, NoLogin}
        /\ excused' \in {excused, excused \cup ({monitored} \ {NoLogin})}
    BY <1>5 DEF StartLogin
  <2> QED
    BY <1>1, <1>5, <2>1, StartsLogin
<1>6. CASE LinkShown \/ NoLink
  <2>1. UNCHANGED <<verdicts, raised>>
    BY <1>6 DEF LinkShown, NoLink, loginHistory
  <2> QED
    BY <1>1, <1>6, <2>1, LinkEnds, BegunKeepAccount DEF SameAccounts
<1>7. CASE ForgetLogin \/ KeyLapses
  <2>1. login' = NoLogin /\ UNCHANGED <<monitored, verdicts, excused, raised>>
    BY <1>7 DEF ForgetLogin, KeyLapses, loginHistory
  <2> QED
    BY <1>1, <1>7, <2>1, KeyMoves, OthersTyped, BegunKeepAccount
<1>8. CASE CancelMonitor \/ WorkerDies
  <2>1. login' = login /\ monitored' = NoLogin /\ UNCHANGED <<verdicts, raised>>
        /\ excused' \in {excused \cup ({monitored} \ {NoLogin}), excused \cup Begun}
    BY <1>8 DEF CancelMonitor, WorkerDies
  <2> QED
    BY <1>1, <1>8, <2>1, MonitorGoes, OthersTyped, BegunKeepAccount
<1>9. ASSUME NEW n \in Logins, FinishMonitor(n) \/ FinishRaises(n)
      PROVE  /\ logins' \in [Logins -> LoginRecords] /\ BegunHaveAccount'
             /\ login' \in Logins \cup {NoLogin} /\ monitored' \in Logins \cup {NoLogin}
             /\ verdicts' \in [Logins -> Nat] /\ excused' \subseteq Logins /\ raised' \subseteq Logins
             /\ LoginParts'
  <2>1. /\ login' \in {login, NoLogin} /\ monitored' \in {monitored, NoLogin}
        /\ excused' \in {excused, excused \cup {n}} /\ UNCHANGED <<verdicts, raised>>
    BY <1>9 DEF FinishMonitor, FinishRaises, loginHistory
  <2> QED
    BY <1>1, <1>9, <2>1, MonitorGoes, MonitorTyped, BegunKeepAccount DEF MonitorStep
<1> QED
  BY <1>2, <1>3, <1>4, <1>5, <1>6, <1>7, <1>8, <1>9 DEF AccountsNext, MainStep, MonitorStep, TurnStep

LEMMA LoginInvNext == LoginInv /\ [AccountsNext]_accountVars => LoginInv'
<1> SUFFICES ASSUME LoginInv, [AccountsNext]_accountVars PROVE LoginInv'
  OBVIOUS
<1>1. CASE AccountsNext
  <2>1. AccountsTyped
    BY DEF LoginInv
  <2> QED
    BY <1>1, <2>1, FilesTyped, TasksTyped, TurnKeepsAccount, LoginsTyped
    DEF LoginInv, AccountsTyped, AccountsTypeOK, LoginRecords, TaskPlaces
<1>2. CASE UNCHANGED accountVars
  <2>1. /\ UNCHANGED <<registry, token, live, active, exhausted, spent, atTask, acc, ran>>
        /\ UNCHANGED <<login, logins, monitored, tasksLeft, failures, verdicts, excused, raised>>
    BY <1>2 DEF accountVars, accountFiles, accountKeys, workerState, loginVars, loginHistory
  <2>2. Kept
    BY <2>1 DEF Kept, Watched, Logins
  <2> QED
    BY <2>1, <2>2, KeptParts, ZenonT(60)
    DEF LoginInv, AccountsTyped, AccountsTypeOK, BegunHaveAccount, TurnHasAccount, Accounts, Logins, AuthIds
<1> QED
  BY <1>1, <1>2

LEMMA LoginInvInit == AccountsInit => LoginInv
<1> SUFFICES ASSUME AccountsInit PROVE LoginParts
  BY AccountsTypedInit DEF LoginInv
<1>1. /\ \A n \in Logins : logins[n].mon = "none"
      /\ login = NoLogin /\ monitored = NoLogin /\ atTask = "idle"
  BY DEF AccountsInit, NoLoginYet
<1>2. BegunInTurn
  <2>1. \A n \in Logins : logins[n].mon # "none" <=> n <= 0
    BY <1>1 DEF Logins
  <2> QED
    BY <2>1, AccountAssumption DEF BegunInTurn, Logins
<1> QED
  BY <1>1, <1>2 DEF LoginParts, OneMonitor, LinkAwaited, LoginIsHeld, KeyHasMonitor, Watched

LEMMA LoginHolds == AccountsSpec => []LoginInv
  BY LoginInvInit, LoginInvNext, PTL DEF AccountsSpec

\* The accounts' files and keys, the worker's place and its logins keep their
\* types, for any number of accounts, logins and tasks; a rotation, a switch and an
\* activation always name an account that is listed (services/cursor_accounts.py).
THEOREM AccountsTypeCorrect == AccountsSpec => []AccountsTypeOK
<1>1. LoginInv => AccountsTypeOK
  BY DEF LoginInv, AccountsTyped
<1> QED
  BY <1>1, LoginHolds, PTL

\* A login that is waited for is named by the user's key, unless its time is over
\* or it is being cancelled: no second login begins beside it, and no older
\* monitor's finally deletes its key (services/cursor_account_login.py).
THEOREM LoginHeld == AccountsSpec => []LoginIsHeld
<1>1. LoginInv => LoginIsHeld
  BY DEF LoginInv, LoginParts
<1> QED
  BY <1>1, LoginHolds, PTL

\* The user's key names the login of the monitor that will delete it, or one that
\* was cancelled, replaced, or died with the worker.
THEOREM KeyMonitored == AccountsSpec => []KeyHasMonitor
<1>1. LoginInv => KeyHasMonitor
  BY DEF LoginInv, LoginParts
<1> QED
  BY <1>1, LoginHolds, PTL

(***************************************************************************)
(* The parts side by side.                                                 *)
(***************************************************************************)

LEMMA WorkerSteps ==
  ASSUME [MCNext]_partVars
  PROVE  /\ [RecoveryNext]_recoveryVars /\ [GuardNext]_guardVars /\ [AccountsNext]_accountVars
         /\ [AgentRunNext]_runVars /\ [LiveNext]_liveVars
<1>1. CASE UNCHANGED partVars
  BY <1>1 DEF partVars
<1>2. CASE RecoveryPart
  BY <1>2 DEF RecoveryPart
<1>3. CASE GuardPart
  BY <1>3 DEF GuardPart
<1>4. CASE AccountsPart
  BY <1>4 DEF AccountsPart
<1>5. CASE RunPart
  BY <1>5 DEF RunPart
<1>6. CASE LivePart
  BY <1>6 DEF LivePart
<1> QED
  BY <1>1, <1>2, <1>3, <1>4, <1>5, <1>6 DEF MCNext

\* A behaviour of the parts side by side is one of each part: what is proved of a
\* part, from its own specification, holds in the run that checks them together.
THEOREM WorkerPartsAreTheirSpecs ==
  MCSpec => RecoverySpec /\ GuardSpec /\ AccountsSpec /\ AgentRunSpec /\ LiveSpec
<1>1. MCInit => RecoveryInit /\ GuardInit /\ AccountsInit /\ AgentRunInit /\ LiveInit
  BY DEF MCInit
<1> QED
  BY <1>1, WorkerSteps, PTL DEF MCSpec, RecoverySpec, GuardSpec, AccountsSpec, AgentRunSpec, LiveSpec

\* Every variable of the worker's parts keeps its type.
THEOREM WorkerTypesCorrect == MCSpec => []TypesOK
<1>1. RecoveryTypeOK /\ GuardTypeOK /\ AccountsTypeOK /\ AgentRunTypeOK /\ LiveTypeOK => TypesOK
  BY DEF TypesOK
<1> QED
  BY <1>1, WorkerPartsAreTheirSpecs, RecoveryTypeCorrect, GuardTypeCorrect, AccountsTypeCorrect,
     AgentRunTypeCorrect, LiveTypeCorrect, PTL
====
