# A TLA+ model of telegram-cursor-agent

telegram-cursor-agent lets a Telegram user talk to a coding agent that runs on
a host.  Two processes share a Postgres database, a Redis instance and some
marker files:

- the **bot** (aiogram, in a container) runs one coroutine per update; every
  handler has one database session, committed when the handler returns;
- the **worker** (on the host, under systemd with `Restart=always`) takes task
  ids from a Redis list and runs one task at a time, with two pub/sub listeners,
  a heartbeat and a SIGTERM handler beside its main loop.

Nothing else coordinates them.  What is hard about the program is what happens
between their steps, and that is what is modelled here.

Contents: [inventory](#inventory), [modules](#modules), [checks](#checks),
[proofs](#proofs), [disagreements](#disagreements-between-the-code-and-what-it-says),
[what is left out](#what-is-left-out), [plan](#plan).

Paths below are relative to `src/telegram_cursor_agent/`.

## Inventory

| component | state | operations | what is hard | what makes it correct |
|---|---|---|---|---|
| task rows: `database/repositories/task.py`, `telegram/middlewares/db.py` | status, payload, pid of each task | create, mark_*, list_*, update_payload | a handler's writes commit late; `mark_cancelled` and the claim's `mark_running` ignore what the status has become | statuses move forward only; one turn per task |
| queue and channels: `queue/task_queue.py` | list of ids; channels task_cancel, session_redirect | enqueue, dequeue, publish, listen | enqueued before commit; pub/sub forgets | every committed task is claimed; a lost message does no harm that lasts |
| session execution: `services/session_execution.py` | running task, lease, worker owner, redirect payload, redirect instructions, live message | register, release, get_running_task_id, note, set, consume, publish | every GET, SET, DELETE is a round trip of its own; three kinds of actor | a released lease is gone; readers get no stale answer; no redirect is lost |
| worker: `queue/worker.py` | current task, cancel requests, session map, pids, stop | start and recovery, loop, claim, turn, terminal status, watchdog, listeners, promotion, shutdown, reload | crash and SIGTERM anywhere, failed writes, redirects and cancels at every await | every running row ends; the result is stored before it is told; cancel means no answer |
| action service: `services/actions.py` | none of its own | queue or redirect a message, cancel, deploy, confirmed commands | decides on rows and keys that have changed by the time it acts | a message is queued, merged or redirected, once |
| confirmations and MCP setup: `services/confirmations.py`, `services/mcp_setup.py`, `telegram/handlers/callbacks.py` | confirmation rows; the MCP dialogue in the payload of one; the MCP configuration | ask, approve, reject, expire; add a server, give keys, install, cancel, remove | double presses; a payload written over one that has changed; a row approved twice in one handler | what was resolved stays so; an approved command runs |
| deploy recovery: `services/deploy_recovery.py`, `services/deploy_resume.py`, `scripts/deploy-self.sh` | marker file, its claimed copy, clean-shutdown file, two Redis keys, attempts in payloads | write, ensure, reserve, complete, recover, resume, claim, deliver | crash between any two steps; worker, bot and script write one file | what is stored is told once; nobody interrupted is forgotten; nothing is resumed for ever |
| deploy guard: `scripts/tca_guard.py`, `services/runtime_revision.py`, `services/health.py` | sources, snapshot, guard file, heartbeats, reload flag, fix request | preflight, watch, snapshot, rollback, reload | the pulse of the old process, a long turn, a guard that dies | a rollback restores sources that ran; a bad deploy is rolled back or told |
| process runner and adapters: `execution/runner.py`, `agent/adapter.py`, `agent/opencode_adapter.py` | the process group, the pipe, the table of active processes, two flags | run, read, time out, cancel, cancel_pid, parse | timeout against cancel; a child that keeps the pipe; a line cut in two | a run returns, with one verdict and its agent gone |
| accounts and login: `services/cursor_accounts.py`, `services/cursor_account_login.py` | accounts file, auth files, active account, exhausted marks, login key, login monitors | pick, rotate, switch, login, cancel, logout | expiring keys, a monitor that outlives its task | a login is held while it is waited for, and answered |
| sessions: `agent/sessions.py` | active session of a user, engine, chat ids | create, resume, delete, align to a model, save the chat | two handlers at once; a turn that began before | one active session; one session per chat |
| pictures: `telegram/media_groups.py`, `telegram/handlers/uploads.py`, `services/image_attachments.py` | album buffers and timers, Redis list | collect, flush, store, add, peek, clear | timers, read-modify-write, a session nobody commits | a part is processed once; what was told saved is there |
| live message: `telegram/live_message.py`, `telegram/session_live.py` | its id, its reference in Redis, the debounced text | begin, update, flush, move below, answer, remove | four coroutines and a message Telegram may refuse | the answer is whole; nothing after it; no bubble is left |
| menu's question: `telegram/menu_input.py`, `telegram/handlers/messages.py`, `menu_actions.py` | one key per chat | ask, show, take back, answer, expire | a text and a button at once | what was taken back is not waited for |

Everything else (screens, prompts, formatting, path and command checks, git,
projects, model catalogues, configuration) is listed in `PROJECT.json` with the
reason it is not modelled.

How they interact: a message handler reads the lease, then either stores a
redirect and announces it on a channel, or merges its text into a pending row,
or creates a row and queues its id.  The worker claims the row, registers the
lease, runs the agent, looks at the redirect payload after every run, releases
the lease, writes the terminal status, clears the instructions and tells the
user.  A cancel publishes a message and marks the row.  A restarted worker fails
what it finds running, may queue a resume, and turns a left-over redirect into a
task.  The other components hang on this one at a few points only: recovery
(`DeployRecovery`) settles rows the worker left running, a run's result
(`AgentRun`) decides how the turn ends, an account (`CursorAccounts`) is picked
before a run and blamed after it, the live message (`LiveMessage`) follows the
turn, and a confirmation, a picture or a session (`Confirmation`, `Uploads`,
`AgentSessions`) ends in a row that is queued.  Each is modelled by itself, with
the other side of these points as nondeterministic inputs.

## Modules

### `SessionLease` - the lease, round trip by round trip

`services/session_execution.py`, one action per Redis command.  Actors are
worker processes, their SIGTERM handlers and readers (`get_running_task_id`).
`saw` is the local variable of a call (the lease it has read), `pc` the place in
the call.  `register_running_task` is `RegisterRead`, `RegisterPublish`,
`RegisterReread`, `RegisterTask`, `RegisterOwner`; `release_if_owner` with
`_delete_lease_if_unchanged` and `clear_running_task` is `ReleaseRead`,
`CheckDrops`/`CheckKeeps`, `DeleteTask`, `DeleteOwner`, `DeleteStray`;
`get_running_task_id` with `_lease_is_live` is `GetTask`, `GetOwner`,
`GetWorker`, `Answer`.  `Overlap` says whether a replacement may start while the
old process still runs (a deploy may do that, systemd alone does not).
`begun`, `ended`, `released`, `asked` and `answer` are history variables: what
the properties talk about, read by no guard except that a task is claimed once
(which `TurnProtocol` shows).  `asked` keeps what was true when a reader began to
read, and, once it has read the lease, who held it then (`Holder`).

The key `exec_state` and `_relax_busy_state` are left out: nothing but the
helper that resets the key ever reads it.

### `TurnProtocol` - from a message to its answer

One chat session, all its handlers, the one worker.

| variables | stand for |
|---|---|
| `status`, `prompt`, `made` | committed rows of the session's agent tasks |
| `bufStatus`, `bufPrompt` | uncommitted writes of each handler; they lock their rows |
| `hpc`, `seen`, `target`, `noted` | a handler's place and locals |
| `queue`, `payload`, `notes`, `lease`, `fresh` | the Redis keys |
| `cancelMsgs`, `redirectMsgs` | published and not yet heard; empty whenever nobody is subscribed |
| `wpc`, `task`, `cur`, `job`, `again`, `reviews`, `outcome`, `fate`, `tell`, `todo`, `cancelReq`, `stop` | the worker's main loop and fields |
| `lpc`, `held`, `heldTask`, `lseen` | `_promote_orphan_redirect` in progress |
| `ran`, `claims`, `told`, `answered`, `halted`, `overruled`, `cut`, `spent` | history, and the fault kinds used up; `halted` are the tasks a commit has cancelled while they ran and their end was not decided, `overruled` those of them a promotion has since marked as failed |

A message is a model value.  A payload is the message it was made from, a
redirect's payload that message and the set of all it repeats.  `NoMsg` as a
prompt is a resume without a text of the user's.

An action runs from one await at which another coroutine could make a difference
to the next.  Three simplifications make it fit: the lease is atomic (the round
trips are `SessionLease`'s subject); the three looks at the payload after a run
are one, the last (a redirect found by an earlier look would be found by the
last one too); and the switch to another Cursor account after a failed run is
part of the run.  The worker also serves other sessions; for this one they are a
delay, which an interleaving model has anyway.  The age a row must have before
the watchdog takes it is left out: the watchdog may take any row that is running
and not current, which allows more than the code does for safety; for liveness
it is assumed to take a row that stays eligible (strong fairness).

Faults are actions of their own, each kind at most once in a behaviour
(`FaultKinds`): the process dies (`crash`), SIGTERM (`term`), a transaction of
the worker fails (`db`), a Redis command fails at a handler's step, at
registration, at the release or at the settlement (`redis`), the agent raises
(`agent`), nobody is logged in (`logout`), a reload is due (`reload`), a handler
raises before its commit (`rollback`).

### `TaskLife` - what a session's tasks promise

Absent, waiting, merged, active, over: a task waits, has at most one turn, and
is over; one turn at a time; the user is told of an end once, after it.
`TurnProtocol` implements it: `LifeOf` maps a row and its claim count to a life,
`Life == INSTANCE TaskLife WITH life <- ...`, and `ImplementsTaskLife` is
`Life!Spec`.

### The chat's side

One user each; every update is a coroutine (a *handler*) with a database session
of its own, whose writes are seen by others when it commits.

- **`Confirmation`** - `database/repositories/confirmation.py`, the two buttons,
  `execute_confirmed_action`, and the dialogue of `services/mcp_setup.py`, which
  lives in the payload of a pending row.  `rowStatus`, `rowKind`, `rowKeys` are
  the committed columns, `bufStatus` and `bufKeys` a handler's flushed ones (they
  lock the row), `saw` and `sawKeys` what it read.  `Press`, `Approve`, `Reject`
  and `ExecuteConfirmed` are the buttons; `StartAdd`, `CancelPending`,
  `CreateDialogue` are "mcp add"; `TakeKeys`, `SaveState` an answer with keys;
  `WriteConfig`, `ApproveInstalled` the installation; `Lapse` the passing of
  `expires_at`.
- **`Uploads`** - `SendPart` puts a part into its album's buffer and cancels the
  timer that runs, `FlushAlbum` is the timer's end; a job goes through `StoreOne`
  for each picture, then `AddRead` and `AddWrite` (the list in Redis is read and
  written back) or `QueueBatch`.  A text goes through `Peek`, `ClearList`,
  `QueueText`.  `captioned` says which pictures have a caption.
- **`AgentSessions`** - `sessStatus`, `sessEngine`, `sessChat`, `recent` are the
  committed columns (`recent` is a session's place in the order of
  `last_active_at`, newest first), `writes` an update's flushed ones; `updListed`, `updSaw` what
  it loaded and what does not change under it.  `New`, `Resume`, `Delete`,
  `Prompt`, `PickModel` begin an update; `ListActive` and `Flush` are its queries;
  `BeginTurn` and `SaveChat` are the worker, which reads the chat id before a turn
  and writes it after.
- **`MenuInput`** - `input` is the key, `prompts` the questions on the screen.
  `SetInput` and `ShowPrompt` ask, `Back`, `PressDelete`, `PressRevoke` and a
  command (`SlashText`) take back, `PeekInput`, `ApplyName`/`ApplyGrant`,
  `ClearInput`, `CommitAnswer` are a text that answers.

### The worker's side

- **`DeployRecovery`** - the files and keys above, and everybody who writes them:
  the worker's start (`Boot`, `Consume`, `SettleRows`, `StoreNotes`,
  `ResumeDeployed`, `SetReady`, or `TellInterrupted`, `Requeue`, `ResumeStale`,
  `ClearStale`; `RecoveryFails` where a call of it raises), its delivery
  (`WorkerLooks`, `WorkerSends`, `WorkerReleases`) and its loop and turns: `Look`
  takes one id off the queue or all pending rows (`scan`), and only there the worker
  asks for a reload (`Reload`, `Reexec`); `Claim`, `WriteMarker`, `EndTurn` or
  `TurnRaises`, `EndDeploy`, `FinishRow` are a turn.  Then the bot (`BotLooks` ...
  `BotReleases`), and the script (`NotifyStart` ... `WritePending`).  `Stop` is a
  crash or SIGTERM at any place, `Announce` a send that Telegram may refuse.  `turns`
  are rows with the attempt of their payload and, as history, the message's or
  deploy's row whose work they continue (`root`).  History counts what really
  happened, apart from the code's own counters: `demises`, the deaths of the worker in
  a turn of each such work since the last clean stop; `cut`, the turns found running;
  `handled`, those whose user was told or whose session was queued anew; `dropped`,
  those whose note Telegram refused or a deploy of another session replaced;
  `cutShort`, those whose recovery died or raised; `lost`, the tokens whose marker was
  written over or whose one delivery failed.  The module spells out what
  `TurnProtocol` takes as "recovery may or may not resume".
- **`DeployGuard`** - `disk` is the version of the sources, `good` the snapshot,
  `guardAt` the place of each deploy's guard; `bot` and `worker` are a version and
  a start.  A snapshot its guard died in is `Partial`: restoring it leaves sources that
  break, or, when it has no `src` yet, nothing is restored.  Time is the number of
  preflights that have passed: a heartbeat counts
  if its process began after the preflight.
- **`CursorAccounts`** - the worker's main loop with an account's task at a time
  (`PickAccount`, `RunBlamesAccount`, `SwitchAccount`, `LogoutFiles`/`LogoutKeys`,
  `StartLogin`, `KillLogin`/`ForgetLogin`/`CancelMonitor`), and a monitor per login
  (`ProcessEnded`, `WaitTimesOut`, `Register`, `ActivateLogin`, `TellVerdict`,
  `FinishMonitor`).  A token is the number of the login it came from.  Calls that fail
  (`AccountFault`, at most `MaxFault`): the usage API, Redis, a file or Telegram raises
  in a turn (`AccountRaises`), in a monitor (`MonitorRaises`) or in its `finally`
  (`FinishRaises`).
- **`AgentRun`** - one run: `leader` and `child` are the process group, `pipe` and
  `got` the lines printed and read, `atRun` the coroutine, `marked`, `userMark` and
  `late` its flags, `atKill` a listener in `cancel_pid`; `reply` is what the
  adapter makes of the lines (`Output`), and there are three: Cursor's, whose `Parsed`
  is the parser's state after each line; the same with progress shown, which keeps the
  last text (`Spoken`) as it was read; and OpenCode's, the last text or the last error.
  A text is `odd` when the parser, which splits the whole output anew, breaks it in
  two.  It is what `AgentEnds` and `Kill` of `TurnProtocol`
  take as given.
- **`LiveMessage`** - `chat` is what the user sees, `liveRef` the reference in
  Redis, `bubble`, `lastText`, `display` the notifier's fields, `writer` the four
  coroutines that may await Telegram in `_apply_live_text`: the turn and the watcher
  (`Progress`, and the turn's `Status` of another run), the poll for a redirect
  (`Status`), the flusher (`FlusherWakes`).  `BlankAnswer` is `finalize` with nothing
  to say; `mover` are the handlers that move the bubble down.

### `MCSessionLease`, `MCTurnProtocol`, `MCChatParts`, `MCWorkerParts`

Model values, the actors' processes and symmetry sets for TLC.  Symmetry is over
tasks (SessionLease) and messages (TurnProtocol) and is used in safety runs
only; `ImplementsTaskLife` has no liveness part, its box-action formula is
symmetric in the messages.

The parts of the chat's side share no variable with one another, nor do those of
the worker's side.  `MCChatParts` and `MCWorkerParts` check them in one run each:
`part` names the part a behaviour is about, the others stay in one initial state.
This is a sum and not a product: every behaviour of a part is one of the run, no
interleaving of two parts is, and none could matter.

### The proofs

`SessionLease_proofs`, `TurnProtocol_proofs`, `DeployRecovery_proofs` and
`AgentSessions_proofs` hold the theorems about the module of that name.
`AgentTurn_proofs` is about `AgentRun` and `LiveMessage`, what a turn does beside
its row.  `ChatParts_proofs` is about `Confirmation`, `MenuInput` and `Uploads` and
about all of `MCChatParts`; `WorkerParts_proofs` about `DeployGuard` and
`CursorAccounts` and about all of `MCWorkerParts`.  `NumberLemmas` has what several
of them need of sets of numbers.

## Checks

`TurnProtocol` is checked for deadlock in every run: the worker always has
something to do, at least to look at its queue.  The others are not: with the
bounds spent (tasks and epochs, updates, rows, the schedule of stops, lines and
so on) they stop, as the program does when nobody writes to it.

| run | instance | what it shows |
|---|---|---|
| `lease_all` | 2 processes, one after the other or at once, 1 SIGTERM handler, 1 reader, 2 tasks, 2 epochs | `TypeOK`, `LeaseEndsWithRelease`, `AnswerHeldLease` |
| `turn_cancel` | 2 messages, 1 cancel, 2 tasks, 1 review pass | `TypeOK`, `NoAnswerAfterCancel` |
| `turn_restart` | 2 messages, 4 tasks, one crash and one SIGTERM | `RunningHasTurn`, `AnswerBacked`, `ImplementsTaskLife` |
| `turn_faults` | 2 messages, 3 tasks, the six other fault kinds, each once | `OneTurnPerTask`, `LeaseIsTurn` |
| `turn_ends` | 1 message, 1 cancel, a crash and a failed transaction, fair | `RunningEnds` |
| `turn_live` | 2 messages, a crash, fair | `RedirectTaken`, `PendingIsClaimed` |
| `chat_parts` | confirmations: 3 handlers, 2 rows, 2 keys; uploads: an album of two, a picture, a text, 3 jobs; sessions: 4 updates, 2 at once, 2 sessions, 1 chat; menu: 3 updates at once, 2 questions | `TypesOK`, `NeverReopened`; `AlbumPartOnce`, `SavedIsKept`, `PictureHandled`; `OneActive`, `PromptFits`, `ChatInOneSession`; `BackCancels` |
| `worker_parts` | recovery: 2 sessions, 4 tasks, 1 attempt, six schedules of up to 3 faults; guard: 4 versions, one broken and one sick, 2 deploys, a death and a long turn; accounts: 2 accounts, 2 logins, 2 tasks, 1 crash or failing call; run: 2 lines, 2 kills; live: 2 updates, 2 chunks, 2 refusals, 1 mover | `TypesOK`; `DeliveredOnce`, `CrashBudget`, `InterruptedIsHandled`, `DeployIsAnnounced`; `SnapshotIsVerified`, `BadDeployEnds`; `LoginIsHeld`, `KeyHasMonitor`, `LoginIsAnswered`; `TimeoutIsNotCancel`, `NoTornAnswer`, `AnswerIsLast`, `LeaderIsGone`, `RunReturns`; `AnswerIsWhole`, `NothingAfterAnswer`, `BubbleRemoved` |
| `lease_clobber`, `turn_left`, `turn_silent`, `confirm_approve` | small | violated, see below |

**Why the bounds are enough.**  Two messages are what it takes for one to be
merged or redirected into the other's task.  A cancel acts on all running rows at
once; a second one repeats it.  Two tasks let a turn end and another begin; the
instances with restarts have one or two more, for the resume and for what a
promotion creates.  One review pass is enough to see a turn go round without a
redirect.  Two processes are a dying worker and its replacement, and two epochs
let each of them own the lease.  Of the liveness properties, `RunningEnds` has an
instance of its own, with the failed write that leaves a row to the watchdog;
`PendingIsClaimed` needs the id to be lost, which the crash does.

In the parts: two handlers at once are what each race needs, and a third or a
second row is what it takes to see its effect (a press on what two others have
resolved; an answer to a question two others have replaced).  An album of two
parts can be late by one; three jobs are the album, its late part and the single
picture.  Two sessions are the one a chat is carried from and the one it is
carried to.  A schedule counts faults (a crash, a clean stop, a refused send, a turn or
a recovery that raises), deploys by a task, deploys by hand and messages: three faults
and a message, two and two messages, a deploy by hand and a message, two faults and a
deploy by hand, a fault and a deploy by a task, a deploy by a task and a message.
Three faults are a crash in a turn, one in the recovery that follows and one in the
turn it resumed; the others are the pairs that meet in the code; one attempt is the smallest
bound that is both allowed and exceeded (the code has two: `CrashBudget` is proved
for every bound).  One failing call is enough for a monitor or a turn to raise.  Two
deploys are a good one that makes a snapshot and a bad one
that needs it.  Two logins are one that is replaced and its successor.  Two lines
are one whole and one cut, or two texts; two kills are an early and a late one.  Two refusals
are one more than `AnswerIsWhole` allows, so that its limit is seen.
`DeployRecovery` was also checked with a stop, a deploy and a script and a message
each, `AgentRun` with three lines, `MenuInput` with four updates, each alone,
with the same results.

**Fairness** (`FairSpec`).  Weak fairness of the worker's main step, of its two
listeners and of the promotion: they are coroutines of one event loop, and each
of their awaits returns (the runner kills an agent after its timeout, BLPOP has
one, systemd starts a dead worker again).  Weak fairness of each handler's step,
for the same reason.  Weak fairness of the heartbeat's expiry: time passes.
Strong fairness of the watchdog: it looks once a minute and its age limit is
reached by every row that stays; the queue need only be empty again and again,
which a session with finitely many messages guarantees.  Faults, Redis failures
and crashes are never fair.

In the parts (`MCFairness`, each part's own): the steps of the recovery's worker,
bot and script, for the reasons above and because the bot gives up after half a
minute; a guard's steps, which all have a deadline, the end of a turn, and the
reload of an idle worker; an album's timer and the job it starts (the event loop
runs both); the worker's steps around accounts, a monitor's steps (its wait has a
timeout) and the expiry of the login's key; the steps of `run`, whose timeout is
always set.  The user, Telegram, the agent's process and its child owe nothing.

**Properties**, in short:

- `LeaseEndsWithRelease` - a lease its turn has released never comes back.
- `AnswerHeldLease` - who is told that a turn is live is told of one that held the
  lease, for the worker that was current, at one moment of the call.
- `LeaseIsTurn` - a live worker's lease names the turn it is in, unless a turn has
  left before its try or a call of Redis has failed.
- `OneTurnPerTask` - a task runs once, however often its id is on the queue.
- `RunningHasTurn` - a row says running only while the worker is in that turn,
  or is down or recovering.
- `AnswerBacked` - the user is told of an end only when it is in the database.
- `NoAnswerAfterCancel` - a cancel committed before the worker reads the row to
  end it leaves no answer, heard or not, unless a promotion that listed the row
  earlier writes "failed" over it (`overruled`).
- `ImplementsTaskLife` - the rows move through a task's life in order.
- `RunningEnds`, `PendingIsClaimed`, `RedirectTaken` - liveness.
- `NeverReopened` - a resolved confirmation is never open again, whoever had read
  it before.
- `AlbumPartOnce`, `PictureHandled` - a part is processed by one task; every
  picture is refused, saved, prompted or fails.
- `SavedIsKept` - an image told saved is in the list or with a text, unless two
  accesses to the list overlapped or it expired.
- `OneActive`, `PromptFits`, `ChatInOneSession` - without two updates at once there
  is one active session, a prompt is in it and of the model's engine, and a chat
  belongs to one session unless it was carried away under a turn.
- `BackCancels` - a question taken back is never waited for again.
- `DeliveredOnce` - what is stored under one token is sent once.
- `CrashBudget` - the turn and the resumes of one message or deploy die with the worker
  at most `MaxAttempts + 1` times since the last clean stop, unless a recovery of that
  very work was cut short.
- `InterruptedIsHandled` - when the worker serves again, the user of a turn that was
  cut off was told of it or its session's resume is queued, unless the recovery of it was
  cut short, the note was refused, or a deploy of another session was recovered.
- `DeployIsAnnounced` - a deploy run to its end by a task is announced under the token
  the script gave it, unless its marker is written over or its one delivery fails.
- `SnapshotIsVerified`, `BadDeployEnds` - a rollback restores what ran; a deploy
  that does not come up is rolled back or told.
- `LoginIsHeld`, `KeyHasMonitor`, `LoginIsAnswered` - the key of a login lives as
  long as its monitor, also when that raises; who was shown a link hears how it ended,
  unless a call of the monitor failed, the login was cancelled or replaced, or the
  worker died.
- `TimeoutIsNotCancel`, `NoTornAnswer`, `AnswerIsLast`, `LeaderIsGone`, `RunReturns` -
  one verdict per run, an answer made of whole lines that begins with the last
  text (with each adapter, unless the parser breaks that text), no agent left, no
  reader stuck.
- `AnswerIsWhole`, `NothingAfterAnswer`, `BubbleRemoved` - the answer is shown in
  full and in order despite a refusal, nothing is posted after it or after a blank
  one, whichever of the four coroutines was under way, nothing is left.

Where a property has an excuse ("unless two updates overlapped"), the same
property without it is in the module too and is violated: see *Also seen*.

Each property of a passing run has a mutant: a changed definition of the model
that stands for a plausible bug, under which the run finds it violated.

## Proofs

TLAPS checks the theorems for every value of the constants: any number of
workers, signal handlers, readers, tasks and epochs, with or without overlap; any
messages, cancels, tasks and review passes, with any set of fault kinds; any
sessions, updates, pictures, logins, lines, chunks and so on.  Every safety
property that a passing run checks is stated by a theorem.

| module | theorem | establishes |
|---|---|---|
| `SessionLease_proofs` | `TypeCorrect` | `Spec => []TypeOK` |
| | `LeaseReleased` | `Spec => []LeaseEndsWithRelease` |
| | `AnswerIsCurrent` | `Spec => []NoStaleAnswer` |
| | `AnswerIsOfOneMoment` | `Spec => []AnswerHeldLease` |
| | `EndedAnswersLeftEarly` | `Spec => []EndedAnswerLeftEarly` |
| | `ReplacementKept` | `Spec => ReleaseLeavesReplacement`, if processes do not overlap |
| `TurnProtocol_proofs` | `TypeCorrect` | `Spec => []TypeOK` |
| | `OneTurn` | `Spec => []OneTurnPerTask` |
| | `RunningRows` | `Spec => [](NoOutage => RunningHasTurn)` |
| | `ToldIsOver` | `Spec => [](DatabaseUp => AnswerBacked)` |
| | `CancelledUnanswered` | `Spec => [](DatabaseUp => NoAnswerAfterCancel)` |
| | `TaskLifeImplemented` | `Spec /\ []NoOutage => ImplementsTaskLife` |
| | `WithoutOutages` | the last four outright, for `FaultKinds` without `"db"` and `"redis"` |
| | `LeaseNamesTurn` | `Spec => []LeaseIsTurn` |
| | `WatchdogSeesAll` | `Spec => []NothingSkipped` |
| | `LocksFree` | `Spec => []NoLockCycle` |
| `DeployRecovery_proofs` | `RecoveryTypeCorrect` | `RecoverySpec => []RecoveryTypeOK` |
| | `TokenSentOnce` | `RecoverySpec => []DeliveredOnce` |
| | `BudgetKept` | `RecoverySpec => []CrashBudget` |
| | `InterruptionsHandled` | `RecoverySpec => []InterruptedIsHandled` |
| `AgentSessions_proofs` | `SessionsTypeCorrect` | `SessionsSpec => []SessionsTypeOK` |
| | `ActiveIsAlone` | `SessionsSpec => []OneActive` |
| | `PromptsFit` | `SessionsSpec => PromptFits` |
| | `ChatsApart` | `SessionsSpec => []ChatInOneSession` |
| `ChatParts_proofs` | `ConfirmTypeCorrect` | `ConfirmSpec => []ConfirmTypeOK` |
| | `ResolvedStays` | `ConfirmSpec => NeverReopened` |
| | `MenuTypeCorrect` | `MenuSpec => []MenuTypeOK` |
| | `BackHolds` | `MenuSpec => []BackCancels` |
| | `UploadsTypeCorrect` | `UploadsSpec => []UploadsTypeOK` |
| | `PartsOnce` | `UploadsSpec => []AlbumPartOnce` |
| | `SavedKept` | `UploadsSpec => []SavedIsKept` |
| | `ChatPartsAreTheirSpecs` | `MCSpec` implies each part's own specification |
| | `ChatTypesCorrect` | `MCSpec => []TypesOK` |
| `AgentTurn_proofs` | `AgentRunTypeCorrect` | `AgentRunSpec => []AgentRunTypeOK` |
| | `CancelWasMeant` | `AgentRunSpec => []TimeoutIsNotCancel` |
| | `LeaderGone` | `AgentRunSpec => []LeaderIsGone` |
| | `AnswerNotTorn` | `AgentRunSpec => []NoTornAnswer` |
| | `AnswerBeginsWithLast` | `AgentRunSpec => []AnswerIsLast` |
| | `LiveTypeCorrect` | `LiveSpec => []LiveTypeOK` |
| | `ProgressEnds` | `LiveSpec => NothingAfterAnswer` |
| | `BubbleIsRemoved` | `LiveSpec => []BubbleRemoved` |
| | `AnswerShownWhole` | `LiveSpec => []AnswerIsWhole` |
| | `OneBubbleCalm` | `LiveSpec => [](refusals = 0 /\ ~moved => OneBubble)` |
| | `ChunksOnce` | `LiveSpec => [](refusals = 0 => NothingTwice)` |
| `WorkerParts_proofs` | `GuardTypeCorrect` | `GuardSpec => []GuardTypeOK` |
| | `SnapshotVerified` | `GuardSpec => []SnapshotIsVerified`, if nobody edits or deploys beside a guard |
| | `WellKept` | `GuardSpec => []WellIsKept`, if also no turn outlasts a watch |
| | `RollbackRuns` | `GuardSpec => []RollbackNotRefused`, if no guard dies and none overlap |
| | `SnapshotLeftWhole` | `GuardSpec => []SnapshotWhole`, if no guard dies |
| | `AccountsTypeCorrect` | `AccountsSpec => []AccountsTypeOK` |
| | `LoginHeld` | `AccountsSpec => []LoginIsHeld` |
| | `KeyMonitored` | `AccountsSpec => []KeyHasMonitor` |
| | `WorkerPartsAreTheirSpecs` | `MCSpec` implies each part's own specification |
| | `WorkerTypesCorrect` | `MCSpec => []TypesOK` |

Assumed are only the named assumptions of the modules: sentinels are not tasks,
workers, messages, keys, albums or sessions; kinds of actor are disjoint; an actor
belongs to a process; subsets are subsets; bounds are naturals.  The theorems whose
row says "if" also assume that certain faults are not among the constants:
`~Overlap` for the lease, `Apart`, `Prompt` and the like for the guard.
`worker_parts` checks `SnapshotIsVerified` with such faults; the others are what is
left of claims that fail without the assumption (*What is left of what fails*).

**What an outage breaks.**  Four theorems of `TurnProtocol` have a condition on the
faults so far: `DatabaseUp` (no operation of the worker on the database has
failed), `NoOutage` (nor one on Redis).  Everything else may happen: crashes,
SIGTERM, reloads, rollbacks, raising agents, logouts.  The conditions cannot be
dropped, TLC refutes each without them: the worker tells the user of an end whose
write has failed, and takes a row it could not read for one that was not cancelled
(`DatabaseUp`); a failed write, or a registration that fails in Redis after the
claim, leaves a row running (`NoOutage`; the latter is the finding
`turn_silent`).  `DatabaseUp` is enough for what the user is told: a Redis outage
leaves rows behind but makes nothing untrue.

**The parts in one run.**  `ChatPartsAreTheirSpecs` and `WorkerPartsAreTheirSpecs`
say that a behaviour of `MCChatParts` or `MCWorkerParts` is one of each part: a
step of a part leaves the others' variables alone.  So the theorems about a part
hold in the run that checks it among the others.

**The lease.**  `LeaseEndsWithRelease` is not inductive: it says nothing of a
worker that is about to write a lease.  `LeaseInv` adds that a turn belongs to
one process and is not over (`TurnsApart`), that a lease being written names its
writer's own turn (`LeaseInHand`), that the stored lease is of a turn that has not
released it, and that while its worker checks it, it is what the worker read
(`LeaseIsOwn`), that a reader's partial knowledge is still true (`ReaderKnows`),
and that the worker's owner key holds the latest epoch (`OwnerIsLatest`).  The
proof has a step per action; the cases that matter are the two writes of
`register_running_task` and the deletion after the check.

**One moment.**  `TurnProtocol` reads the lease in one step where the code takes
three round trips, and `AnswerHeldLease` is what entitles it to: an answer names a
turn that held the lease, for the current worker, at the moment the lease was read.
`ReadInv` says why it is still right to answer when the owner key is compared later.
No epoch is drawn twice and every one in a key or in hand has been drawn
(`EpochsDrawn`), so an owner which matches the lease now cannot have come after the
lease was read: it was the owner then (`HolderKnown`).  `EndedUnreleased` adds that a
turn which had returned without releasing never releases, which is what
`EndedAnswersLeftEarly` comes down to.

**One turn per task.**  `OneTurnPerTask` needs to know why a claim finds a row
nobody has claimed.  `ClaimInv` adds that a pending row is unclaimed
(`PendingUnclaimed`), so is one that does not exist yet (`NotCreatedUnclaimed`),
so is one a handler has created and not committed, which no other handler creates
and no worker can have seen (`CommitsUnclaimed`), and so is the task between the
claim's read and its write (`MarkUnclaimed`).  Most actions create, claim and
write no pending row, and `ClaimsKept` settles them at once; what is left is the
commit, the three ways to create a row, the claim's read and the claim's write.
`TypeCorrect` carries `TaskInHand` along: who is about to use a task id has one.

**Nobody waits in a circle.**  A handler holds the row locks of its uncommitted writes
until it commits, and waits for the rows of its last query.  `NoLockCycle` says that
among any handlers one waits for none of the others, so no circle of them waits.
`LockInv` has the reasons: a handler writes only after its first waits
(`EmptyHanded`); a message that goes on to the pending rows holds only rows it found
stale, which had their turn and are pending for nobody (`HoldsClaimed`, which needs
that a pending row was never claimed, from *A row's life* below); and of the messages
that merge into pending rows, whose lists may overlap, one waits for none of the
others (`SomeoneFree`).  `TurnProtocol` takes the locks of one query in one step, so
the order in which Postgres locks the rows of one UPDATE is not covered.  A transaction
of the worker is one step too: it may wait for a handler's rows, and holds none of its
own while it does.

**A row's life.**  What the other theorems of the turn protocol share is `LifeInv`: it
adds to `ClaimInv` that a claimed row runs or is over and a running row was claimed
(`ClaimedBegun`), that the turn's task was claimed (`TurnClaimed`), that a row which
is not created is nothing, and its creation the only write anybody has in hand for
it (`NotCreated`, `WritesExist`), and that what handlers and the worker have read
of rows are rows that exist.  From it follows `RowMove`, the only things a step can
do to a row: nothing; create it, pending; claim it; end it.  The next proofs look
at those four instead of at every action, and lemmas at the head of the section
(frames, one per group of variables) say which actions write which.

- `RunningHasTurn`: `RunningInv` says that at most one row says running, and who
  will end it (`HasTurn`): the next start, the recovery that has listed it, or the
  turn it is in, which has not written its end yet.  Without the second part the
  claim could not keep the first.
- `AnswerBacked`: `BackedInv` says that what was told of was claimed and is over,
  and that a turn which writes no end, or has come to telling, finds its row over.
  `OverStays` then keeps it: nothing reopens a claimed row.
- `TaskLife`: on top of `LifeInv`, `RunningInv` and `BackedInv` the refinement needs
  `TurnUntold`, that a turn's task is told of when it ends and not before.  Each
  step maps to a step of `TaskLife` on one task or on the set a commit writes, or
  to a stutter; the claim maps to the begin of a turn because of `RunningInv`.
- `NoAnswerAfterCancel`: a cancel that was committed must still be there when the
  worker reads the row to end it, unless a promotion has written over it: `Standing`
  are the cancels it has not.  A late commit could also write over one: that of a
  message that found the row stale.  `StaleAreDead` says that no such message looked
  while the turn went on, because a serving worker's heartbeat is fresh
  (`FreshInv`), and that what is about to be failed is past its turn
  (`FailedWritesPast`).  `HaltInv` says what remains: a cancelled task's row says so
  while its turn goes on, the turn ends as cancelled or writes nothing.

**The turn and its lease.**  `LeaseIsTurn` relates the key that sends redirects to the
worker's program counter.  With the task in hand at the registration (`LeaseInv`) it
is inductive; the work is in the list of ways to leave a turn without passing the
release, and the three fault kinds it names are all there are.  `CurIsTurn` does the
same for the field the watchdog compares with: as long as Redis has not failed it
is set only while its turn goes on, so that every running row the watchdog sees is
its to end.

**Delivery and the budget.**  `DeliveredOnce` speaks of what was sent; `OnePlace`
says where a token is that may still be sent: in the marker, with the worker or
with the bot, in one of them at most (a rename moves it), and nothing was sent
under it, nor under a token that nobody has handed out.  The script's stale copy
of a marker does no harm because it is written back under a fresh token.

`CrashBudget` counts deaths, the code counts attempts in payloads, and what relates the
two is `BudgetInv`: a piece of work whose recovery was never cut short has one live row
at most, or one resume waiting to be queued, and has died as often as that row's
attempt says at most, or once more while the row is found running.  That needs the
rows' own shape (`RowsInv`: numbered as they come, roots are rows, an active marker is a
message's), that a clean stop is believed only while nothing has died since
(`CleanZero`), that the marker the recovery has read is the one it removes
(`MarkerRead`), and that a row which was told of is not resumed a second time for its
marker (`NoteKept`).

**Interrupted turns.**  `InterruptedIsHandled` holds when the worker serves again;
`CutHandled` says where what it owes is at each place of the recovery before: with the
marker's session, which is the turn's own, or with a note that is still to be sent.
That there is one such turn at most is `RunningIsTurn`: one row was left running.  The
turn is credited only when the note is sent or the resume queued; the three ways it can
fall through - a recovery cut short, a refused note, a deploy of another session - are
history of their own and the property's excuses.

**The snapshot.**  `SnapshotIsVerified` needs to know that what the watch saw healthy
is what is on disk when it is copied.  `OneAfterOther` orders the guards,
`SincePassed` says that no process began later than the last preflight, and
`DeployedIsOnDisk` that in the restarts and in the watch a worker that began since
the preflight runs what is on disk.

**Accounts and logins.**  `LoginIsHeld` and `KeyHasMonitor` are inductive together
once the logins are ordered (`BegunInTurn`: the next number is new), the running
monitor is the one the worker would cancel (`OneMonitor`), and nothing is waited
for while a link is read (`LinkAwaited`).  That an account's task names a listed
account is `TurnHasAccount` and `BegunHaveAccount`, part of the types.

**One run.**  `LateAfterTimeout` says that the flag of the timeout is set once, where
the run then is; `MarksWereAsked` that a handle marked before it was marked by a
listener, and that the verdict "cancelled" stands for such a mark; `GoneWhenLeft`
that the run leaves the group only when the agent has ended.

**The answer.**  `AnswerIsLast` is about what the parser keeps of any number of
lines, so it is proved by induction over them.  `Parsed` is a recursive function
(`PartsExist` shows there is one), and `EveryNumber` of `NumberLemmas` is induction
for a set of numbers: here those of the lines after which the parts hold lines
read before, first of them the last text so far (`PartsHold`, `OneMoreLine`).  The
other two adapters take the last of a set of places, which needs no induction.
`NoTornAnswer` adds what the run has read: a line without an end is read only when
the agent is gone and the timeout has not come (`CutAtEnd`), so an answer after a
timeout has none.

**The live message.**  `NobodyWrites` says which coroutines are at rest at each place
of the turn: watcher and poll beside no other place than the run, the flusher not
beside the answer.  With it no call to Telegram can end late, which is
`NothingAfterAnswer`.  `Shown` says what the chat holds as long as nothing was
refused and nobody moved the message - the one bubble, named by the turn and by
Redis - and that the first text is sent by the turn, all others are edits.
`SoFar` and `AllShown` count the answer's chunks.

**Sessions.**  `OneActive` and `PromptFits` hold because what an update has read stays
true until it commits, as long as no other is handled.  `SoloInv` says so: what it
saw, the list of active rows it archives, what its writes will leave
(`StatusAfter`), and that a prompt's session is active and of the model's engine.
The least number of a set is what "the latest session" comes down to.
`ChatInOneSession` adds the worker: the chat of the turn that runs and the one an
update carries belong to no other session (`TurnAlone`, `CarryAlone`), and a new
chat is one nobody has opened (`ChatsOpened`).

**Resolved confirmations.**  A write of a status was decided by what the handler had
read, which may be old.  `RowInv` says that a row number is used once
(`ShownInTurn`, `CreatedIsShown`), that "pending" is flushed by the one who creates
the row and on a row that is not there yet (`FlushedOnce`), and that whatever else
is written belongs to a row that was read as committed (`SawCommitted`).  So no
commit can make a row pending that ever was anything.

**Pictures.**  `AlbumPartOnce` needs that each place a part can be in - a buffer, a
job's batch - holds it alone (`OneHolder`).  `SavedIsKept` needs that a read of the
list that will be written back is of the list as it is, as long as nothing
overlapped (`Undisturbed`).

**Back.**  `BackCancels` is about a key that a handler may still be about to write.
`OwnAsk` says that a handler which is about to set the key or to show the screen
has a question that no other such handler has, and that the screen of a question
is not shown before its key is set; `AskedInTurn` and `ShownWasAsked` that a new
question is one no screen has shown.

**What is left of what fails.** A claim that a run or *Also seen* refutes still says
something, and these theorems say what. A dying worker deletes its replacement's lease
only if the two overlap (`ReplacementKept`): without overlap one process is up
(`OneUp`), a signal handler only runs in a process that is (`HandlersUp`), and what
either is about to delete is a lease it has checked to be its own, or none
(`ChecksOwn`, `DeletesOwn`). A reader is told of an ended turn only if that turn left
before its try (`EndedAnswersLeftEarly`). The watchdog skips a running row only after
Redis has failed (`WatchdogSeesAll`). A deploy that is well is rolled back only if a
turn outlasts the watch, or sources are edited or deployed beside the guard
(`WellKept`; a guard may die); a rollback refuses itself only if a guard has died or
deploys overlap (`RollbackRuns`); a snapshot is left in half only by a guard that died
(`SnapshotLeftWhole`). Two bubbles take a message of the user that moves one or a
refusal (`OneBubbleCalm`: a flusher that outlives its turn, a status of the poll and a
run cut off in a call do not suffice; a refused first bubble does, two coroutines then
send one each), a chunk shown twice takes a refusal (`ChunksOnce`). TLC refutes each of
the last five, and `ReplacementKept`, with any one of its hypotheses dropped. The
conditions on `spent` in `LeaseIsTurn` and `NothingSkipped` are there for the same
reason.

## Disagreements between the code and what it says

Each is a run that TLC must find violated; the line quoted and the line of the
code are in `PROJECT.json` under `findings`.

| run | in short |
|---|---|
| `lease_clobber` | a dying worker can delete its replacement's lease |
| `turn_left` | a redirect stored while the turn ends stays in Redis |
| `turn_silent` | Redis failing just after the claim leaves a row running that the watchdog skips |
| `confirm_approve` | the button approves a confirmation, the action it calls approves it again, finds it no longer pending and queues nothing: the user is told "Approved" |

**Also seen.**  These have a definition in the modules and no run of their own; to
see one, put the definition in place of the properties of the configuration named
(those with a box or a `~>` are PROPERTYs).

| definition | configuration | in short |
|---|---|---|
| `NoEndedAnswer` | `SessionLease_all.cfg` | a turn refused for a missing login (`queue/worker.py:1357`) keeps its lease; later messages are redirected into it |
| `PayloadIsRun` | `TurnProtocol_left.cfg` | a text merged into a task between the claim's read and its write is not run |
| `EveryInstructionKept` | `TurnProtocol_left.cfg` with three messages and tasks | of two redirects that extend the list of instructions at once one is lost |
| `NotesEndWithTurn` | `TurnProtocol_left.cfg` | a turn that timed out leaves its instructions to the next |
| `CancelWasAsked` | `TurnProtocol_left.cfg` | the late announcement of a redirect kills the agent that runs it, and the task ends "cancelled" |
| `AnswerBacked`, `NoAnswerAfterCancel`, `RunningHasTurn` | `TurnProtocol_cancel.cfg` with `FaultKinds = {"db"}` | the user is told of an end whose write failed; a cancel is missed whose row could not be read; a row is left running |
| `NoAnswerAtAll` | `TurnProtocol_cancel.cfg` | a promotion lists the row the loop has just claimed and not yet named (`queue/worker.py:580-586`, `649`), a cancel commits, "failed" is written over it, and the turn delivers its answer |
| `CancelHeeded` | `TurnProtocol_cancel.cfg` | a redirect that was waiting when the cancel came is run |
| `LaterMessageAnswered` | `TurnProtocol_cancel.cfg` | a message sent after a cancel is run in the cancelled turn, and its answer dropped |
| `VerdictStands` | `chat_parts.cfg` | of two presses on one confirmation the later overwrites the verdict of the first |
| `KeysKept` | `chat_parts.cfg` | of two messages with keys at once one message's keys are lost |
| `OneDialogue` | `chat_parts.cfg` | two "mcp add" at once leave two dialogues open |
| `CancelledStaysOut` | `chat_parts.cfg` with `Keys = {}` | the dialogue of a server that needs no keys and was cancelled is installed by its old button |
| `SavedIsKeptAlways`, `ImageInOnePrompt` | `chat_parts.cfg` (the second with two texts) | of two photos at once one is lost, or an image a text has taken comes back |
| `AlbumPromptRuns` | `chat_parts.cfg` | an album with a caption is processed after its handlers' sessions are closed: its prompt's row is committed by nobody |
| `ChatInOneSessionAlways`, `ChatKept`, `TurnEngine` | `chat_parts.cfg` (the second with two chats) | a chat carried away under a turn is written back, a carried chat replaces another, a model picked after a prompt runs it with another engine |
| `DeletedStays` | `chat_parts.cfg` | a session deleted while its resume button is handled comes back |
| `OwnQuestion`, `OneAnswer`, `RevokedStays` | `chat_parts.cfg` | the end of one answer deletes the next question, two texts answer one question, an answer gives back what a press has revoked |
| `OnlineOnce`, `WarnedOnce`, `ResumedOnce` | `worker_parts.cfg` | one deploy is announced twice under two tokens, warned of twice, resumed twice |
| `CrashBudgetAlways` | `worker_parts.cfg` with the schedule (4, 0, 0, 1) | a crash between the resume and the removal of the marker leaves a second resume, counted from one again |
| `InterruptedIsHandledAlways` | `worker_parts.cfg`; with the schedule (1, 1, 0, 1) alone | Telegram refuses the only note of a turn that is not resumed; under a deploy of one session the interrupted turn of another is failed, and its user is sent "online" only |
| `DeployMarkerKept` | `worker_parts.cfg` | the marker of a deploy is written over by the turn of a message claimed in the same scan: nobody announces it |
| `WellIsKept` | `worker_parts.cfg` | a deploy that is well is rolled back: its worker was in a turn longer than the watch |
| `RollbackNotRefused`, `SnapshotWhole` | `worker_parts.cfg` | a guard that dies in a rollback makes the next one refuse; one that dies while copying leaves half a snapshot |
| `SnapshotIsVerified` | `worker_parts.cfg` with the fault `overlap` | a second deploy during the watch of the first gets its snapshot from the first one's verdict |
| `MarksAreEarned`, `OwnUsage` | `worker_parts.cfg` (the second with three tasks) | an account is marked for a run with its old token, or judged by the active copy's usage |
| `SuccessIsTold` | `worker_parts.cfg` | after a browser login that worked, an error of the usage API, of Redis or of Telegram ends the monitor without a word |
| `CancelIsSilent`, `OneLoginProcess` | `worker_parts.cfg` | a cancelled login is also told to have failed; a login whose key lapsed leaves its process behind |
| `GroupIsGone`, `StartFailureEndsAgent`, `LateIsClean` | `worker_parts.cfg` | a child survives the agent; an agent whose start callback failed is never ended; noise is shown after a timeout |
| `AnswerIsLastAlways` | `worker_parts.cfg` | a last text with a separator of `str.splitlines` (U+2028, say) is not the answer: Cursor's parser shows what came before, OpenCode's loses it |
| `OneBubble`, `NothingAfterEnd`, `NothingTwice` | `worker_parts.cfg` | bubbles are orphaned by moves, or sent twice when the first one was refused (the flusher's and that of a status); posted after the turn; chunks shown twice |
| `BlankIsCleared` | `worker_parts.cfg` | a turn whose answer is blank says nothing and leaves its bubble |

## What is left out

In `TurnProtocol`: `exec_state`; live messages (and a Redis failure in
`clear_live_message`); other task types than agent prompts; rollback-diagnosis
tasks; `process_pid` (the bot's container cannot see the host's processes, so its
check of that pid always fails); recovery attempts and marker files (recovery
may or may not resume, which covers both; `DeployRecovery` says which); a failure
of the watchdog's own write; reconnection of the listeners (a message published
meanwhile is lost as it is while the worker is down).  Expiry of keys after a day
is not modelled.

In the parts: several users and chats at once (they share no row, key or file);
what texts, titles, labels and screens say; the registry search and web research
of an MCP setup, which change nothing; documents that are no images; Cursor chat
ids, which never leave their session; the building of containers and the copying
of files, which are one step; a claim's rename and the read after it, another step; that
the same status may be pushed twice in a row, and a blank answer when there is no
bubble; the accounts' labels and usage figures; error
counters in the heartbeat.

**Not modelled** at all: prompts, skills and command lines (text in, text out);
the path, command and sandbox checks (predicates on one request); projects, git,
uploads to disk, memory and model catalogues (files and subprocesses around the
core); Markdown and outbound files; configuration, logging and schema; the
read-only commands and most screens of the menus (they show state kept elsewhere
and change none).  These have no protocol of their own, and nothing of them would
be left once their data are abstracted.

**Model-checked and not proved.**  Liveness (`RunningEnds`, `RedirectTaken`,
`PendingIsClaimed`, `PictureHandled`, `DeployIsAnnounced`, `BadDeployEnds`,
`LoginIsAnswered`, `RunReturns`): fairness and ENABLED are beyond the prover.  And
the four findings, which are behaviours and not theorems.

## Plan

Done, in this order: the lease; the turn protocol with its abstract
specification; the parts of the chat's side and of the worker's side; a proof of
every safety property the runs check; what the disagreements leave of the claims
they refute.  What is left, in the order of what matters most:

1. The rest of the safety half of the liveness properties: who is responsible for
   the next step while something is owed.  `RunningHasTurn` and `NothingSkipped` say
   it of running rows.  Still to say: a pending row has its id on the queue, with the
   worker or with a commit, or the next scan finds it; a redirect's payload has a
   turn that will look, or nobody (`turn_left`).
2. A model of command tasks, whose confirmation is `Confirmation`'s and whose run is
   `AgentRun`'s without an adapter, and of the rollback diagnosis `DeployGuard` asks for.
