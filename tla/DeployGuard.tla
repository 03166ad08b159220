---- MODULE DeployGuard ----
(***************************************************************************)
(* scripts/tca_guard.py: the preflight of a deploy, the watch after it, the *)
(* snapshot of the last good sources and the rollback to it, with the two   *)
(* processes it watches (services/health.py) and restarts, the reload of    *)
(* the worker (services/runtime_revision.py) and the diagnosis it asks for. *)
(*                                                                          *)
(* Each deploy has a guard process for its preflight and one for its watch, *)
(* one after the other; an action is one step of it between two looks at    *)
(* the world.  Time is counted in passed preflights: a heartbeat is from    *)
(* this deploy if its process started after the preflight that wrote        *)
(* started_at.  Errors a component records count as no heartbeat.           *)
(***************************************************************************)
EXTENDS Naturals, FiniteSets

CONSTANTS MaxVersion,    \* the sources' versions are 0..MaxVersion, edited in turn
          Broken,        \* versions that fail the import check or the tests
          Sick,          \* versions that pass, and whose processes write no heartbeat
          MaxDeploy,     \* deploys in a behaviour
          GuardFaults    \* subset of AllGuardFaults

\* The guard dies; a turn is longer than WATCH_SECONDS; the sources are edited
\* while a guard is at work; a deploy begins while another is watched.
AllGuardFaults == {"crash", "slow", "edit", "overlap"}

ASSUME GuardAssumption ==
    /\ MaxVersion \in Nat /\ MaxDeploy \in Nat
    /\ Broken \cup Sick \subseteq 1..MaxVersion
    /\ GuardFaults \subseteq AllGuardFaults

VARIABLES disk, newest,             \* the sources, and the newest version of them
          good,                     \* the snapshot in .deploy-good
          rollingBack, startedAt,   \* .deploy-guard.json
          bot, worker,              \* the running processes: version and start
          busy, reloadFlag,         \* the worker is in a turn; it is to reload after it
          guardAt,                  \* where each deploy's guard is
          passed, crashed,
          fixQueued,                \* .deploy-fix-request.json, and fix_queued in the marker
          told, verified            \* history

sources    == <<disk, newest, good>>
guardFile  == <<rollingBack, startedAt>>
processes  == <<bot, worker, busy, reloadFlag>>
guardVars  == <<sources, guardFile, processes, guardAt, passed, crashed, fixQueued, told, verified>>

Versions   == 0..MaxVersion
Deploys    == 1..MaxDeploy
NoSnapshot == MaxVersion + 1
Partial    == MaxVersion + 2       \* .deploy-good while it is being written
Process    == [version : Versions, since : Nat]
GuardPlaces == {"none", "preflight", "bot", "flag", "watch", "copy", "save",
                "back", "restore", "fix", "services", "clear", "ended"}

GuardTypeOK ==
    /\ disk \in Versions /\ newest \in Versions /\ good \in 0..Partial
    /\ rollingBack \in BOOLEAN /\ startedAt \in Nat
    /\ bot \in Process /\ worker \in Process /\ busy \in BOOLEAN /\ reloadFlag \in BOOLEAN
    /\ guardAt \in [Deploys -> GuardPlaces]
    /\ passed \in Nat /\ crashed \in BOOLEAN /\ fixQueued \subseteq {"request", "marked"}
    /\ told \subseteq Deploys /\ verified \subseteq Versions

GuardInit ==
    /\ disk = 0 /\ newest = 0 /\ good \in {0, NoSnapshot}
    /\ rollingBack = FALSE /\ startedAt = 0
    /\ bot = [version |-> 0, since |-> 0] /\ worker = [version |-> 0, since |-> 0]
    /\ busy = FALSE /\ reloadFlag = FALSE
    /\ guardAt = [d \in Deploys |-> "none"]
    /\ passed = 0 /\ crashed = FALSE /\ fixQueued = {}
    /\ told = {} /\ verified = {0}
----
GoTo(d, place) == guardAt' = [guardAt EXCEPT ![d] = place]
AtWork(d)      == guardAt[d] \notin {"none", "ended"}
Fresh(v)       == [version |-> v, since |-> passed]

\* heartbeat_from_this_deploy: alive, and not the pulse of the process before.
Beats(p)    == p.version \notin Broken \cup Sick
\* Mutant: the pulse of the old process counts.
FromThisDeployMutant(p) == Beats(p)

FromThisDeploy(p) == Beats(p) /\ p.since >= startedAt
Healthy     == FromThisDeploy(worker) /\ FromThisDeploy(bot)

\* Both have been restarted since the preflight.
Restarted == worker.since >= startedAt /\ bot.since >= startedAt
----
(* The worker, and the agent that edits the sources. *)

\* An edit leads to a new version.
Edit ==
    /\ newest + 1 \in Versions
    /\ "edit" \in GuardFaults \/ \A d \in Deploys : ~AtWork(d)
    /\ newest' = newest + 1 /\ disk' = newest + 1
    /\ UNCHANGED <<good, guardFile, processes, guardAt, passed, crashed, fixQueued, told, verified>>

\* should_reload_process, asked whenever a task has been taken from the queue.
ReloadDue == reloadFlag \/ worker.version # disk

BeginTurn ==
    /\ ~busy /\ ~ReloadDue /\ Beats(worker)
    /\ busy' = TRUE
    /\ UNCHANGED <<sources, guardFile, bot, worker, reloadFlag, guardAt, passed, crashed,
                   fixQueued, told, verified>>

EndTurnOfWorker ==
    /\ busy
    /\ busy' = FALSE
    /\ UNCHANGED <<sources, guardFile, bot, worker, reloadFlag, guardAt, passed, crashed,
                   fixQueued, told, verified>>

\* The worker starts anew; one that comes up queues the diagnosis that is asked
\* for (claim_fix_request, _consume_fix_request), and its recovery delivers the
\* deploy marker and removes it.
StartWorker(v) ==
    /\ worker' = Fresh(v)
    /\ busy' = FALSE /\ reloadFlag' = FALSE
    /\ fixQueued' = IF v \in Broken \cup Sick THEN fixQueued ELSE {}

ReloadWorker ==
    /\ ~busy /\ ReloadDue
    /\ StartWorker(disk)
    /\ UNCHANGED <<sources, guardFile, bot, guardAt, passed, crashed, told, verified>>
----
(* A deploy: preflight, restarts, watch. *)

BeginDeploy(d) ==
    /\ guardAt[d] = "none"
    /\ \A e \in Deploys : e < d => guardAt[e] = "ended"
                                     \/ ("overlap" \in GuardFaults /\ guardAt[e] = "watch")
    /\ GoTo(d, "preflight")
    /\ UNCHANGED <<sources, guardFile, processes, passed, crashed, fixQueued, told, verified>>

\* preflight: a new deploy is on record, whatever was there; or a rollback.
PreflightPasses(d) ==
    /\ guardAt[d] = "preflight" /\ disk \notin Broken
    /\ rollingBack' = FALSE /\ startedAt' = passed + 1
    /\ passed' = passed + 1
    /\ GoTo(d, "bot")
    /\ UNCHANGED <<sources, processes, crashed, fixQueued, told, verified>>

PreflightFails(d) ==
    /\ guardAt[d] = "preflight" /\ disk \in Broken
    /\ GoTo(d, "back")
    /\ UNCHANGED <<sources, guardFile, processes, passed, crashed, fixQueued, told, verified>>

\* deploy-self.sh goes on: the bot is recreated, the worker asked to reload.
DeployBot(d) ==
    /\ guardAt[d] = "bot"
    /\ bot' = Fresh(disk)
    /\ GoTo(d, "flag")
    /\ UNCHANGED <<sources, guardFile, worker, busy, reloadFlag, passed, crashed, fixQueued,
                   told, verified>>

FlagWorker(d) ==
    /\ guardAt[d] = "flag"
    /\ reloadFlag' = TRUE
    /\ GoTo(d, "watch")
    /\ UNCHANGED <<sources, guardFile, bot, worker, busy, passed, crashed, fixQueued, told, verified>>

\* watch: healthy at one of the looks ...
WatchSucceeds(d) ==
    /\ guardAt[d] = "watch" /\ Healthy
    /\ verified' = verified \cup {worker.version}
    /\ GoTo(d, "copy")
    /\ UNCHANGED <<sources, guardFile, processes, passed, crashed, fixQueued, told>>

\* Mutant: the watch ends without a rollback.
WatchTimesOutMutant(d) ==
    /\ guardAt[d] = "watch" /\ ~Healthy
    /\ Restarted \/ "slow" \in GuardFaults
    /\ GoTo(d, "ended")
    /\ UNCHANGED <<sources, guardFile, processes, passed, crashed, fixQueued, told, verified>>

\* ... or at none until the deadline.
WatchTimesOut(d) ==
    /\ guardAt[d] = "watch" /\ ~Healthy
    /\ Restarted \/ "slow" \in GuardFaults
    /\ GoTo(d, "back")
    /\ UNCHANGED <<sources, guardFile, processes, passed, crashed, fixQueued, told, verified>>

\* snapshot_good: the old one is removed first, then the sources are copied.
RemoveSnapshot(d) ==
    /\ guardAt[d] = "copy"
    /\ good' = Partial
    /\ GoTo(d, "save")
    /\ UNCHANGED <<disk, newest, guardFile, processes, passed, crashed, fixQueued, told, verified>>

SaveSnapshot(d) ==
    /\ guardAt[d] = "save"
    /\ good' = disk
    /\ rollingBack' = FALSE
    /\ GoTo(d, "ended")
    /\ UNCHANGED <<disk, newest, startedAt, processes, passed, crashed, fixQueued, told, verified>>
----
(* The rollback. *)

\* Only one at a time: the flag is read, then set.
RefuseRollback(d) ==
    /\ guardAt[d] = "back" /\ rollingBack
    /\ GoTo(d, "ended")
    /\ UNCHANGED <<sources, guardFile, processes, passed, crashed, fixQueued, told, verified>>

StartRollback(d) ==
    /\ guardAt[d] = "back" /\ ~rollingBack
    /\ rollingBack' = TRUE
    /\ GoTo(d, "restore")
    /\ UNCHANGED <<sources, startedAt, processes, passed, crashed, fixQueued, told, verified>>

\* restore_good; a snapshot that was not finished restores sources that break ...
RestoreGood(d) ==
    /\ guardAt[d] = "restore" /\ good # NoSnapshot
    /\ IF good \in Versions THEN disk' = good ELSE disk' \in Broken
    /\ GoTo(d, "fix")
    /\ UNCHANGED <<newest, good, guardFile, processes, passed, crashed, fixQueued, told, verified>>

\* ... or, if it has no src yet, nothing at all, like one that was never taken.
NothingToRestore(d) ==
    /\ guardAt[d] = "restore" /\ good \in {NoSnapshot, Partial}
    /\ told' = told \cup {d}
    /\ rollingBack' = FALSE /\ startedAt' = 0
    /\ GoTo(d, "ended")
    /\ UNCHANGED <<sources, processes, passed, crashed, fixQueued, verified>>

\* queue_fix: the request for the worker, and a message.  A marker, if there is
\* one, notes it; a marker that has the note already silences the next rollback.
QueueFix(d) ==
    /\ guardAt[d] = "fix"
    /\ IF "marked" \in fixQueued
       THEN UNCHANGED <<fixQueued, told>>
       ELSE /\ fixQueued' \in {{"request"}, {"request", "marked"}}
            /\ told' = told \cup {d}
    /\ GoTo(d, "services")
    /\ UNCHANGED <<sources, guardFile, processes, passed, crashed, verified>>

\* restart_services does not wait for a turn.
RestartServices(d) ==
    /\ guardAt[d] = "services"
    /\ bot' = Fresh(disk)
    /\ StartWorker(disk)
    /\ GoTo(d, "clear")
    /\ UNCHANGED <<sources, guardFile, passed, crashed, told, verified>>

\* The file is written anew, without started_at.
ClearRollback(d) ==
    /\ guardAt[d] = "clear"
    /\ rollingBack' = FALSE /\ startedAt' = 0
    /\ GoTo(d, "ended")
    /\ UNCHANGED <<sources, processes, passed, crashed, fixQueued, told, verified>>

\* The guard's process dies.
GuardDies(d) ==
    /\ "crash" \in GuardFaults /\ ~crashed /\ AtWork(d)
    /\ crashed' = TRUE
    /\ GoTo(d, "ended")
    /\ UNCHANGED <<sources, guardFile, processes, passed, fixQueued, told, verified>>
----
GuardStep(d) ==
    \/ PreflightPasses(d) \/ PreflightFails(d) \/ DeployBot(d) \/ FlagWorker(d)
    \/ WatchSucceeds(d) \/ WatchTimesOut(d) \/ RemoveSnapshot(d) \/ SaveSnapshot(d)
    \/ RefuseRollback(d) \/ StartRollback(d) \/ RestoreGood(d) \/ NothingToRestore(d)
    \/ QueueFix(d) \/ RestartServices(d) \/ ClearRollback(d)

GuardNext ==
    \/ Edit \/ BeginTurn \/ EndTurnOfWorker \/ ReloadWorker
    \/ \E d \in Deploys : BeginDeploy(d) \/ GuardStep(d) \/ GuardDies(d)

GuardSpec == GuardInit /\ [][GuardNext]_guardVars

\* A guard's steps end, a turn ends, and the worker reloads when it is idle.
GuardFairness == /\ \A d \in Deploys : WF_guardVars(GuardStep(d))
                 /\ WF_guardVars(EndTurnOfWorker) /\ WF_guardVars(ReloadWorker)
FairGuardSpec == GuardSpec /\ GuardFairness
----
(* Properties. *)

\* What a rollback would restore has run: both processes came up with exactly
\* these sources after a preflight (the pulse of an old process does not count).
SnapshotIsVerified == good \in Versions => good \in verified

\* A deploy that cannot run ends: it is rolled back to sources that ran, or
\* the user is told, as long as no guard dies.
BadDeployEnds == \A d \in Deploys :
    (guardAt[d] = "watch" /\ disk \in Sick) ~> (crashed \/ disk \in verified \/ d \in told)

\* Also seen.  A deploy that is well is rolled back: its worker was in a turn
\* longer than the watch, and "restarts after the current task".
WellIsKept == \A d \in Deploys : guardAt[d] = "restore" => disk \in Broken \cup Sick

\* Also seen.  A guard that dies in a rollback leaves rolling_back set, and the
\* next preflight that fails is not rolled back.
RollbackNotRefused == \A d \in Deploys : guardAt[d] = "back" => ~rollingBack

\* Also seen.  A guard that dies in snapshot_good leaves half a snapshot.
SnapshotWhole == (\A d \in Deploys : ~AtWork(d)) => good # Partial
====
