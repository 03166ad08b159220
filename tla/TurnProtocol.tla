---------------------------- MODULE TurnProtocol ----------------------------
(***************************************************************************)
(* One chat session from the user's message to the agent's answer: the     *)
(* bot's message and cancel handlers (services/actions.py), the task rows  *)
(* in Postgres, the queue, the redirect payload and the lease in Redis,    *)
(* and the one worker process that runs the turns (queue/worker.py).       *)
(*                                                                         *)
(* A handler writes rows inside a transaction that commits when the        *)
(* handler returns (DbSessionMiddleware).  Until then its writes are       *)
(* invisible and lock their rows; what it decides it decides on rows read  *)
(* earlier.  Redis operations take effect at once.  The worker's main      *)
(* loop, its two listeners and its SIGTERM handler are coroutines: they    *)
(* interleave at every await, and an action runs from one await that       *)
(* matters to the next.  The lease is atomic here, see SessionLease.       *)
(***************************************************************************)
EXTENDS Naturals, Sequences

CONSTANTS
    Msgs,       \* messages of the user, each with its handler
    Cancels,    \* "cancel" commands and presses of the cancel button
    NoMsg,      \* no message; as a prompt, "go on" with no text of the user's
    MaxTask,    \* bound: how many task rows can be created
    MaxReview,  \* bound: review passes of one turn
    FaultKinds  \* what may go wrong, each kind once

AllFaults == {"crash", "term", "db", "redis", "agent", "logout", "reload", "rollback"}

ASSUME ParamAssumption ==
    /\ NoMsg \notin Msgs \cup Cancels
    /\ Msgs \cap Cancels = {}
    /\ MaxTask \in Nat
    /\ MaxReview \in Nat
    /\ FaultKinds \subseteq AllFaults

VARIABLES
    \* Postgres, what is committed
    status,       \* of a task row
    prompt,       \* the message in a task's payload
    made,         \* rows created, committed or not
    \* Redis
    queue,        \* tca:tasks
    payload,      \* redirect_payload
    notes,        \* redirect_instructions
    lease,        \* the task of a lease whose owner is the current worker
    fresh,        \* is the worker's heartbeat fresh?
    cancelMsgs,   \* task_cancel messages the worker has not heard yet
    redirectMsgs, \* session_redirect messages the worker has not heard yet
    \* handlers
    hpc,          \* where a handler stands
    seen,         \* the rows its last query returned
    target,       \* the running task a message is redirected into
    noted,        \* the redirect instructions it read, then wrote
    bufStatus,    \* its uncommitted writes
    bufPrompt,
    \* the worker's main loop
    wpc,          \* where it stands
    task,         \* the task it is processing
    cur,          \* _current_task_id and the session's _session_task_map entry
    job,          \* the messages in the prompt of the current agent run
    again,        \* redirect_iteration > 0
    reviews,      \* review_passes
    outcome,      \* how the agent run ended
    fate,         \* the status about to be written
    tell,         \* will the user be told?
    todo,         \* rows found by the last scan
    cancelReq,    \* _cancel_requested
    stop,         \* _stop
    \* _promote_orphan_redirect, run at startup and by the redirect listener
    lpc, held, heldTask, lseen,
    spent,        \* fault kinds used up
    \* history
    ran,          \* messages an agent was started with
    claims,       \* how often a task was claimed
    told,         \* tasks whose end the user was told of
    answered,     \* those of them that ended with the agent's answer
    halted,       \* tasks cancelled before their end was decided
    overruled,    \* those of them a promotion has since marked as failed
    cut           \* messages a cancel was meant for

db == <<status, prompt, made>>
signals == <<cancelMsgs, redirectMsgs>>
redis == <<queue, payload, notes, lease, fresh, signals>>
handlers == <<hpc, seen, target, noted, bufStatus, bufPrompt>>
turn == <<task, cur, job, again, reviews, outcome, fate, tell>>
worker == <<wpc, turn, todo, cancelReq, stop>>
promote == <<lpc, held, heldTask, lseen>>
history == <<ran, claims, told, answered, halted, overruled, cut>>
vars == <<db, redis, handlers, worker, promote, spent, history>>

Handlers == Msgs \cup Cancels
Tasks == 1 .. MaxTask
NoTask == 0
Prompts == Msgs \cup {NoMsg}
Over == {"completed", "failed", "cancelled"}
Statuses == {"none", "pending", "running"} \cup Over
NoPayload == [head |-> NoMsg, all |-> {}]
NoNotes == [orig |-> NoMsg, said |-> {}]
NoneSeen == [stale |-> {}, pending |-> {}]
NoRows == [t \in {} |-> NoMsg]
Rows(v) == {t \in Tasks : status[t] = v}
Oldest(t, ts) == t \in ts /\ \A u \in ts : t <= u
\* Uncommitted writes to some of the rows.
Partial(values) == UNION {[ts -> values] : ts \in SUBSET Tasks}

Up == wpc # "down"
Serving == wpc \notin {"down", "recover", "fail", "resume", "drain", "drained"}
LeaseLive == lease # NoTask /\ fresh

Locks(h) == DOMAIN bufStatus[h] \cup DOMAIN bufPrompt[h]
Unlocked(ts) == \A h \in Handlers : Locks(h) \cap ts = {}
UnlockedFor(h, ts) == \A g \in Handlers \ {h} : Locks(g) \cap ts = {}
Texts(ms) == ms \ {NoMsg}

RowsType ==
    /\ status \in [Tasks -> Statuses]
    /\ prompt \in [Tasks -> Prompts]
    /\ made \in 0 .. MaxTask

RedisType ==
    /\ queue \in Seq(Tasks)
    /\ payload \in [head : Prompts, all : SUBSET Msgs]
    /\ notes \in [orig : Prompts, said : SUBSET Msgs]
    /\ lease \in Tasks \cup {NoTask}
    /\ fresh \in BOOLEAN
    /\ cancelMsgs \in SUBSET Tasks
    /\ redirectMsgs \in Nat

HandlerType ==
    /\ hpc \in [Handlers -> {"new", "lease", "stale", "list", "coalesce", "create",
                             "note", "keep", "store", "announce", "drop",
                             "publish", "mark", "commit", "done", "lost"}]
    /\ seen \in [Handlers -> SUBSET Tasks]
    /\ target \in [Msgs -> Tasks \cup {NoTask}]
    /\ noted \in [Msgs -> [orig : Prompts, said : SUBSET Msgs]]
    /\ bufStatus \in [Handlers -> Partial(Over \cup {"pending"})]
    /\ bufPrompt \in [Handlers -> Partial(Msgs)]

WorkerType ==
    /\ wpc \in {"down", "recover", "fail", "resume", "drain", "drained",
                "idle", "scan", "claim", "mark", "missed", "begin", "register",
                "turn", "spawn", "agent", "consume", "release", "persist",
                "write", "settle", "deliver"}
    /\ task \in Tasks \cup {NoTask}
    /\ cur \in Tasks \cup {NoTask}
    /\ job \in SUBSET Msgs
    /\ again \in BOOLEAN
    /\ reviews \in 0 .. MaxReview
    /\ outcome \in {"none", "ok", "timeout", "error", "cancelled"}
    /\ fate \in Over \cup {"kept"}
    /\ tell \in BOOLEAN
    /\ todo \in SUBSET Tasks
    /\ cancelReq \in SUBSET Tasks
    /\ stop \in BOOLEAN

PromoteType ==
    /\ lpc \in {"idle", "check", "take", "read", "write", "enqueue"}
    /\ held \in Prompts
    /\ heldTask \in Tasks \cup {NoTask}
    /\ lseen \in [stale : SUBSET Tasks, pending : SUBSET Tasks]

HistoryType ==
    /\ spent \in SUBSET FaultKinds
    /\ ran \in SUBSET Msgs
    /\ claims \in [Tasks -> Nat]
    /\ told \in SUBSET Tasks
    /\ answered \in SUBSET told
    /\ halted \in SUBSET Tasks
    /\ overruled \in SUBSET halted
    /\ cut \in SUBSET Msgs

TypeOK ==
    RowsType /\ RedisType /\ HandlerType /\ WorkerType /\ PromoteType /\ HistoryType

Init ==
    /\ status = [t \in Tasks |-> "none"]
    /\ prompt = [t \in Tasks |-> NoMsg]
    /\ made = 0
    /\ queue = <<>>
    /\ payload = NoPayload
    /\ notes = NoNotes
    /\ lease = NoTask
    /\ fresh = FALSE
    /\ cancelMsgs = {}
    /\ redirectMsgs = 0
    /\ hpc = [h \in Handlers |-> "new"]
    /\ seen = [h \in Handlers |-> {}]
    /\ target = [m \in Msgs |-> NoTask]
    /\ noted = [m \in Msgs |-> NoNotes]
    /\ bufStatus = [h \in Handlers |-> NoRows]
    /\ bufPrompt = [h \in Handlers |-> NoRows]
    /\ wpc = "down"
    /\ task = NoTask /\ cur = NoTask /\ job = {} /\ again = FALSE
    /\ reviews = 0 /\ outcome = "none" /\ fate = "kept" /\ tell = FALSE
    /\ todo = {}
    /\ cancelReq = {}
    /\ stop = FALSE
    /\ lpc = "idle" /\ held = NoMsg /\ heldTask = NoTask /\ lseen = NoneSeen
    /\ spent = {}
    /\ ran = {} /\ claims = [t \in Tasks |-> 0] /\ cut = {}
    /\ told = {} /\ answered = {} /\ halted = {} /\ overruled = {}

\* A fault of this kind may still happen; it happens in this step.
Fault(kind) == kind \in FaultKinds \ spent /\ spent' = spent \cup {kind}

HGoto(h, step) == hpc' = [hpc EXCEPT ![h] = step]
See(h, ts) == seen' = [seen EXCEPT ![h] = ts]
Set(f, ts, v) == [t \in Tasks |-> IF t \in ts THEN v ELSE f[t]]
\* A partial write laid over the committed rows.
Overlay(f, b) == [t \in Tasks |-> IF t \in DOMAIN b THEN b[t] ELSE f[t]]
Buffered(buf, h, ts, v) ==
    [buf EXCEPT ![h] = [t \in DOMAIN buf[h] \cup ts |->
                          IF t \in ts THEN v ELSE buf[h][t]]]

-----------------------------------------------------------------------------
(* A message: _queue_agent_work, _live_running_task_id.                     *)

ListRunning(m) ==
    /\ hpc[m] = "new"
    /\ See(m, Rows("running"))
    /\ HGoto(m, "lease")
    /\ UNCHANGED <<db, redis, target, noted, bufStatus, bufPrompt,
                   worker, promote, spent, history>>

\* get_running_task_id also deletes a lease that is not live.  Without a live
\* lease a fresh heartbeat is enough to redirect into a row that says running.
ReadLease(m) ==
    /\ hpc[m] = "lease"
    /\ \/ /\ LeaseLive
          /\ target' = [target EXCEPT ![m] = lease]
          /\ HGoto(m, "note")
       \/ /\ ~LeaseLive /\ fresh
          /\ \E t \in seen[m] : target' = [target EXCEPT ![m] = t]
          /\ HGoto(m, "note")
       \/ /\ ~LeaseLive /\ (fresh => seen[m] = {})
          /\ HGoto(m, IF seen[m] = {} THEN "list" ELSE "stale")
          /\ UNCHANGED target
    /\ lease' = IF LeaseLive THEN lease ELSE NoTask
    /\ UNCHANGED <<db, queue, payload, notes, fresh, signals, seen, noted,
                   bufStatus, bufPrompt, worker, promote, spent, history>>

\* mark_failed looks at the status as it was read in this transaction.
FailStale(m) ==
    /\ hpc[m] = "stale"
    /\ UnlockedFor(m, seen[m])
    /\ bufStatus' = Buffered(bufStatus, m, seen[m], "failed")
    /\ HGoto(m, "list")
    /\ UNCHANGED <<db, redis, seen, target, noted, bufPrompt,
                   worker, promote, spent, history>>

ListPending(m) ==
    /\ hpc[m] = "list"
    /\ See(m, Rows("pending"))
    /\ HGoto(m, IF Rows("pending") = {} THEN "create" ELSE "coalesce")
    /\ UNCHANGED <<db, redis, target, noted, bufStatus, bufPrompt,
                   worker, promote, spent, history>>

\* The message takes over the oldest pending task; the others are cancelled.
Coalesce(m) ==
    /\ hpc[m] = "coalesce"
    /\ UnlockedFor(m, seen[m])
    /\ \E primary \in Tasks :
         /\ Oldest(primary, seen[m])
         /\ bufStatus' = Buffered(bufStatus, m, seen[m] \ {primary}, "cancelled")
         /\ bufPrompt' = Buffered(bufPrompt, m, {primary}, m)
    /\ HGoto(m, "commit")
    /\ UNCHANGED <<db, redis, seen, target, noted,
                   worker, promote, spent, history>>

\* The task is on the queue before its row is committed.
Create(m) ==
    /\ hpc[m] = "create"
    /\ made < MaxTask
    /\ made' = made + 1
    /\ bufStatus' = Buffered(bufStatus, m, {made + 1}, "pending")
    /\ bufPrompt' = Buffered(bufPrompt, m, {made + 1}, m)
    /\ queue' = Append(queue, made + 1)
    /\ HGoto(m, "commit")
    /\ UNCHANGED <<status, prompt, payload, notes, lease, fresh, signals,
                   seen, target, noted, worker, promote, spent, history>>

\* note_redirect_instruction reads the list, appends, and writes it back.
NoteRead(m) ==
    /\ hpc[m] = "note"
    /\ noted' = [noted EXCEPT ![m] =
                   [orig |-> IF notes.orig = NoMsg THEN prompt[target[m]]
                                                   ELSE notes.orig,
                    said |-> notes.said \cup {m}]]
    /\ HGoto(m, "keep")
    /\ UNCHANGED <<db, redis, seen, target, bufStatus, bufPrompt,
                   worker, promote, spent, history>>

NoteWrite(m) ==
    /\ hpc[m] = "keep"
    /\ notes' = noted[m]
    /\ HGoto(m, "store")
    /\ UNCHANGED <<db, queue, payload, lease, fresh, signals, seen, target,
                   noted, bufStatus, bufPrompt, worker, promote, spent, history>>

\* set_pending_redirect: the latest payload replaces the one before.
Store(m) ==
    /\ hpc[m] = "store"
    /\ payload' = [head |-> m, all |-> Texts(noted[m].said \cup {noted[m].orig})]
    /\ HGoto(m, "announce")
    /\ UNCHANGED <<db, queue, notes, lease, fresh, signals, seen, target,
                   noted, bufStatus, bufPrompt, worker, promote, spent, history>>

\* publish_redirect; nobody hears a message published while nobody listens.
Announce(m) ==
    /\ hpc[m] = "announce"
    /\ redirectMsgs' = IF Serving THEN redirectMsgs + 1 ELSE redirectMsgs
    /\ HGoto(m, "commit")
    /\ UNCHANGED <<db, queue, payload, notes, lease, fresh, cancelMsgs, seen,
                   target, noted, bufStatus, bufPrompt,
                   worker, promote, spent, history>>

\* Redis fails under a handler: handle_text catches it, and what was written to
\* the database so far is committed all the same.
HandlerFails(h) ==
    /\ hpc[h] \in {"lease", "note", "keep", "store", "announce", "drop", "publish"}
    /\ Fault("redis")
    /\ HGoto(h, "commit")
    /\ UNCHANGED <<db, redis, seen, target, noted, bufStatus, bufPrompt,
                   worker, promote, history>>

CreateUnqueued(m) ==
    /\ hpc[m] = "create"
    /\ made < MaxTask
    /\ Fault("redis")
    /\ made' = made + 1
    /\ bufStatus' = Buffered(bufStatus, m, {made + 1}, "pending")
    /\ bufPrompt' = Buffered(bufPrompt, m, {made + 1}, m)
    /\ HGoto(m, "commit")
    /\ UNCHANGED <<status, prompt, redis, seen, target, noted,
                   worker, promote, history>>

\* The worker has read the row whose end it is about to write.
Deciding == wpc \in {"write", "settle", "deliver"}

\* DbSessionMiddleware, once the handler has returned ...
Commit(h) ==
    /\ hpc[h] = "commit"
    /\ status' = Overlay(status, bufStatus[h])
    /\ prompt' = Overlay(prompt, bufPrompt[h])
    /\ bufStatus' = [bufStatus EXCEPT ![h] = NoRows]
    /\ bufPrompt' = [bufPrompt EXCEPT ![h] = NoRows]
    /\ HGoto(h, "done")
    /\ halted' = IF h \in Cancels
                   THEN halted \cup {t \in DOMAIN bufStatus[h] \cap Rows("running") :
                                           ~(task = t /\ Deciding)}
                   ELSE halted
    /\ UNCHANGED <<made, redis, seen, target, noted, worker, promote, spent,
                   ran, claims, told, answered, overruled, cut>>

\* ... or raised, in the reply to Telegram or in the commit itself.
Rollback(h) ==
    /\ hpc[h] = "commit"
    /\ Fault("rollback")
    /\ bufStatus' = [bufStatus EXCEPT ![h] = NoRows]
    /\ bufPrompt' = [bufPrompt EXCEPT ![h] = NoRows]
    /\ HGoto(h, "lost")
    /\ UNCHANGED <<db, redis, seen, target, noted, worker, promote, history>>

-----------------------------------------------------------------------------
(* Cancel: _handle_cancel, and the button's handle_cancel_task.             *)

ListForCancel(c) ==
    /\ hpc[c] = "new"
    /\ See(c, Rows("running"))
    \* The button leaves the redirect payload where it is.
    /\ \E next \in {"drop", "publish"} :
         HGoto(c, IF Rows("running") = {} THEN "done" ELSE next)
    /\ UNCHANGED <<db, redis, target, noted, bufStatus, bufPrompt,
                   worker, promote, spent, history>>

DropPending(c) ==
    /\ hpc[c] = "drop"
    /\ payload' = NoPayload
    /\ HGoto(c, "publish")
    /\ UNCHANGED <<db, queue, notes, lease, fresh, signals, seen, target,
                   noted, bufStatus, bufPrompt, worker, promote, spent, history>>

\* What a cancel of task t is meant for: its prompt and the redirects so far.
Covered(t) ==
    Texts({prompt[t]}) \cup (IF task = t THEN job ELSE {}) \cup
    {m \in Msgs : target[m] = t /\ hpc[m] \in {"announce", "commit", "done"}}

PublishCancel(c) ==
    /\ hpc[c] = "publish"
    /\ cancelMsgs' = IF Serving THEN cancelMsgs \cup seen[c] ELSE cancelMsgs
    /\ cut' = cut \cup UNION {Covered(t) : t \in seen[c]}
    /\ HGoto(c, "mark")
    /\ UNCHANGED <<db, queue, payload, notes, lease, fresh, redirectMsgs, seen,
                   target, noted, bufStatus, bufPrompt, worker, promote, spent,
                   ran, claims, told, answered, halted, overruled>>

\* mark_cancelled does not look at the status at all.
MarkCancelled(c) ==
    /\ hpc[c] = "mark"
    /\ UnlockedFor(c, seen[c])
    /\ bufStatus' = Buffered(bufStatus, c, seen[c], "cancelled")
    /\ HGoto(c, "commit")
    /\ UNCHANGED <<db, redis, seen, target, noted, bufPrompt,
                   worker, promote, spent, history>>

-----------------------------------------------------------------------------
(* The worker process: start, stop, crash.                                  *)

\* What dies with the process; wpc' = "down".
GoDown ==
    /\ wpc' = "down"
    /\ task' = NoTask /\ cur' = NoTask /\ job' = {} /\ again' = FALSE
    /\ reviews' = 0 /\ outcome' = "none" /\ fate' = "kept" /\ tell' = FALSE
    /\ todo' = {} /\ cancelReq' = {} /\ stop' = FALSE
    /\ lpc' = "idle" /\ held' = NoMsg /\ heldTask' = NoTask /\ lseen' = NoneSeen
    /\ cancelMsgs' = {} /\ redirectMsgs' = 0

Crash ==
    /\ Up
    /\ Fault("crash")
    /\ GoDown
    /\ UNCHANGED <<db, queue, payload, notes, lease, fresh, handlers, history>>

\* A running agent is stopped and the loop of _run_agent_prompt looks at why.
Kill == wpc' = "consume" /\ outcome' = "cancelled"

\* SIGTERM: _begin_shutdown releases the session, kills the agent and lets the
\* main loop finish what it is doing.
Term ==
    /\ Up
    /\ Fault("term")
    /\ lease' = NoTask
    /\ stop' = TRUE
    /\ IF wpc = "agent" THEN Kill ELSE UNCHANGED <<wpc, outcome>>
    /\ UNCHANGED <<db, queue, payload, notes, fresh, signals, handlers, task,
                   cur, job, again, reviews, fate, tell, todo, cancelReq,
                   promote, history>>

Exit ==
    /\ wpc = "idle" /\ stop
    /\ GoDown
    /\ UNCHANGED <<db, queue, payload, notes, lease, fresh, handlers, spent,
                   history>>

\* A reload is due: a task just dequeued goes to the end of the queue, and the
\* process gives up its ownership.
Reload ==
    /\ wpc = "idle" /\ ~stop
    /\ Fault("reload")
    /\ queue' = IF queue = <<>> THEN queue ELSE Append(Tail(queue), Head(queue))
    /\ lease' = NoTask
    /\ GoDown
    /\ UNCHANGED <<db, payload, notes, fresh, handlers, history>>

\* HEARTBEAT_MAX_AGE_SECONDS after the last beat.
HeartbeatExpires ==
    /\ fresh /\ ~Serving
    /\ fresh' = FALSE
    /\ UNCHANGED <<db, queue, payload, notes, lease, signals, handlers, worker,
                   promote, spent, history>>

\* publish_owner: no lease of an earlier process is live any more.
Start ==
    /\ wpc = "down"
    /\ wpc' = "recover"
    /\ lease' = NoTask
    /\ UNCHANGED <<db, queue, payload, notes, fresh, signals, handlers, turn,
                   todo, cancelReq, stop, promote, spent, history>>

\* Mutant: recovery lists the wrong rows.
InterruptedMutant == Rows("pending")
\* The rows a dead worker left.
Interrupted == Rows("running")

\* recover_tasks_on_startup, reduced to the session's own rows.
RecoverRead ==
    /\ wpc = "recover"
    /\ todo' = Interrupted
    /\ wpc' = "fail"
    /\ UNCHANGED <<db, redis, handlers, turn, cancelReq, stop, promote, spent,
                   history>>

\* Every interrupted row fails in one transaction.  One may be resumed, with
\* its prompt; a stale marker alone resumes the session with no prompt.
RecoverWrite ==
    /\ wpc = "fail"
    /\ Unlocked(todo)
    /\ status' = Set(status, todo, "failed")
    /\ todo' = {}
    /\ \/ wpc' = "drain" /\ UNCHANGED job
       \/ /\ \E t \in Tasks : claims[t] > 0
          /\ \E q \in {prompt[t] : t \in todo} \cup {NoMsg} : job' = Texts({q})
          /\ wpc' = "resume"
    /\ UNCHANGED <<prompt, made, redis, handlers, task, cur, again, reviews,
                   outcome, fate, tell, cancelReq, stop, promote, spent, history>>

\* "A recovery failure must never stop the worker from serving new tasks."
RecoverFails ==
    /\ wpc = "fail"
    /\ Fault("db")
    /\ todo' = {}
    /\ wpc' = "drain"
    /\ UNCHANGED <<db, redis, handlers, turn, cancelReq, stop, promote, history>>

\* _queue_session_resume commits the row ...
QueueResume ==
    /\ wpc = "resume" /\ task = NoTask
    /\ made < MaxTask
    /\ made' = made + 1
    /\ task' = made + 1
    /\ status' = Set(status, {made + 1}, "pending")
    /\ \E q \in Prompts : Texts({q}) = job /\ prompt' = Set(prompt, {made + 1}, q)
    /\ job' = {}
    /\ UNCHANGED <<redis, handlers, wpc, cur, again, reviews, outcome, fate,
                   tell, todo, cancelReq, stop, promote, spent, history>>

\* ... and then enqueues it.
EnqueueResume ==
    /\ wpc = "resume" /\ task # NoTask
    /\ queue' = Append(queue, task)
    /\ task' = NoTask
    /\ wpc' = "drain"
    /\ UNCHANGED <<db, payload, notes, lease, fresh, signals, handlers, cur, job,
                   again, reviews, outcome, fate, tell, todo, cancelReq, stop,
                   promote, spent, history>>

\* Mutant: a starting worker leaves redirects where they are.
DrainMutant ==
    /\ wpc = "drain"
    /\ wpc' = "drained"
    /\ UNCHANGED <<db, redis, handlers, turn, todo, cancelReq, stop, promote,
                   spent, history>>

\* _drain_orphan_redirects promotes a payload that is there now.
Drain ==
    /\ wpc = "drain"
    /\ wpc' = "drained"
    /\ lpc' = IF payload = NoPayload THEN "idle" ELSE "check"
    /\ UNCHANGED <<db, redis, handlers, turn, todo, cancelReq, stop, held,
                   heldTask, lseen, spent, history>>

\* The listeners subscribe and the heartbeat starts.
Serve ==
    /\ wpc = "drained" /\ lpc = "idle"
    /\ wpc' = "idle"
    /\ fresh' = TRUE
    /\ UNCHANGED <<db, queue, payload, notes, lease, signals, handlers, turn,
                   todo, cancelReq, stop, promote, spent, history>>

-----------------------------------------------------------------------------
(* The worker's main loop, up to the claim.                                 *)

Dequeue ==
    /\ wpc = "idle" /\ ~stop
    /\ queue # <<>>
    /\ task' = Head(queue)
    /\ queue' = Tail(queue)
    /\ wpc' = "claim"
    /\ UNCHANGED <<db, payload, notes, lease, fresh, signals, handlers, cur, job,
                   again, reviews, outcome, fate, tell, todo, cancelReq, stop,
                   promote, spent, history>>

\* Mutant: an empty queue means that there is nothing to do.
WaitingMutant == {}
Waiting == Rows("pending")

\* The queue stayed empty: _recover_pending_tasks looks for pending rows ...
Scan ==
    /\ wpc = "idle" /\ ~stop
    /\ queue = <<>>
    /\ todo' = Waiting
    /\ wpc' = "scan"
    /\ UNCHANGED <<db, redis, handlers, turn, cancelReq, stop, promote, spent,
                   history>>

ScanNext ==
    /\ wpc = "scan"
    /\ \E t \in Tasks : Oldest(t, todo) /\ task' = t /\ todo' = todo \ {t}
    /\ wpc' = "claim"
    /\ UNCHANGED <<db, redis, handlers, cur, job, again, reviews, outcome, fate,
                   tell, cancelReq, stop, promote, spent, history>>

\* Mutant: the watchdog looks at the task in hand and skips the others.
StuckMutant == Rows("running") \cap {cur}
Stuck == Rows("running") \ {cur}

\* ... and the watchdog for rows that have been running for too long.
Watchdog ==
    /\ wpc = "scan" /\ todo = {}
    /\ Stuck # {} /\ Unlocked(Stuck)
    /\ status' = Set(status, Stuck, "failed")
    /\ told' = told \cup Stuck
    /\ wpc' = "idle"
    /\ UNCHANGED <<prompt, made, redis, handlers, turn, todo, cancelReq, stop,
                   promote, spent, ran, claims, answered, halted, overruled, cut>>

ScanEnds ==
    /\ wpc = "scan" /\ todo = {}
    /\ wpc' = "idle"
    /\ UNCHANGED <<db, redis, handlers, turn, todo, cancelReq, stop, promote,
                   spent, history>>

\* Where the main loop goes on after a task of the queue or of a scan.
AfterTask == IF todo = {} THEN "idle" ELSE "scan"

\* Mutant: the claim does not look at the status.
ClaimableMutant == TRUE
Claimable == status[task] = "pending"

\* _claim_task reads the row, and keeps this copy of its payload ...
ClaimRead ==
    /\ wpc = "claim"
    /\ IF Claimable
         THEN job' = Texts({prompt[task]}) /\ wpc' = "mark"
         ELSE UNCHANGED job /\ wpc' = "missed"
    /\ UNCHANGED <<db, redis, handlers, task, cur, again, reviews, outcome, fate,
                   tell, todo, cancelReq, stop, promote, spent, history>>

\* A row that was not there may have been committed since.
Missed ==
    /\ wpc = "missed"
    /\ queue' = IF status[task] = "pending" THEN Append(queue, task) ELSE queue
    /\ task' = NoTask
    /\ wpc' = AfterTask
    /\ UNCHANGED <<db, payload, notes, lease, fresh, signals, handlers, cur, job,
                   again, reviews, outcome, fate, tell, todo, cancelReq, stop,
                   promote, spent, history>>

\* ... and mark_running writes it, whatever its status has become.
Mark ==
    /\ wpc = "mark"
    /\ Unlocked({task})
    /\ status' = [status EXCEPT ![task] = "running"]
    /\ claims' = [claims EXCEPT ![task] = @ + 1]
    /\ wpc' = "begin"
    /\ UNCHANGED <<prompt, made, redis, handlers, turn, todo, cancelReq, stop,
                   promote, spent, ran, told, answered, halted, overruled, cut>>

\* The claim raises: the main loop logs it and goes on, scan and all forgotten.
MarkFails ==
    /\ wpc = "mark"
    /\ Fault("db")
    /\ task' = NoTask /\ job' = {} /\ todo' = {}
    /\ wpc' = "idle"
    /\ UNCHANGED <<db, redis, handlers, cur, again, reviews, outcome, fate, tell,
                   cancelReq, stop, promote, history>>

Begin ==
    /\ wpc = "begin"
    /\ cur' = task
    /\ wpc' = "register"
    /\ UNCHANGED <<db, redis, handlers, task, job, again, reviews, outcome, fate,
                   tell, todo, cancelReq, stop, promote, spent, history>>

Register ==
    /\ wpc = "register"
    /\ lease' = cur
    /\ wpc' = "turn"
    /\ UNCHANGED <<db, queue, payload, notes, fresh, signals, handlers, turn,
                   todo, cancelReq, stop, promote, spent, history>>

\* Redis fails here, outside the try: nothing undoes the claim.
RegisterFails ==
    /\ wpc = "register"
    /\ Fault("redis")
    /\ task' = NoTask /\ job' = {} /\ todo' = {}
    /\ wpc' = "idle"
    /\ UNCHANGED <<db, redis, handlers, cur, again, reviews, outcome, fate, tell,
                   cancelReq, stop, promote, history>>

-----------------------------------------------------------------------------
(* The turn: _run_agent_prompt and _execute_agent_prompt.                   *)

\* There is no Cursor account, or something raises before the try: no release.
LeaveEarly ==
    /\ wpc = "turn" /\ ~again /\ reviews = 0
    /\ \/ Fault("logout") /\ outcome' = "ok"
       \/ Fault("agent") /\ outcome' = "error"
    /\ wpc' = "persist"
    /\ UNCHANGED <<db, redis, handlers, task, cur, job, again, reviews, fate,
                   tell, todo, cancelReq, stop, promote, history>>

\* The head of the loop; after a redirect an earlier cancel is forgotten.
Turn ==
    /\ wpc = "turn"
    /\ cancelReq' = IF again THEN cancelReq \ {task} ELSE cancelReq
    /\ wpc' = "spawn"
    /\ UNCHANGED <<db, redis, handlers, turn, todo, stop, promote, spent, history>>

\* on_process_start registers the lease again, and kills at once an agent
\* whose task was cancelled before it had a pid.
Spawn ==
    /\ wpc = "spawn"
    /\ lease' = task
    /\ ran' = ran \cup job
    /\ IF task \in cancelReq THEN Kill ELSE wpc' = "agent" /\ UNCHANGED outcome
    /\ UNCHANGED <<db, queue, payload, notes, fresh, signals, handlers, task, cur,
                   job, again, reviews, fate, tell, todo, cancelReq, stop,
                   promote, spent, claims, told, answered, halted, overruled, cut>>

\* The agent exits or the runner's timeout kills it; an exception skips the
\* look for a redirect.
AgentEnds ==
    /\ wpc = "agent"
    /\ \/ outcome' \in {"ok", "timeout"} /\ wpc' = "consume" /\ UNCHANGED spent
       \/ Fault("agent") /\ outcome' = "error" /\ wpc' = "release"
    /\ UNCHANGED <<db, redis, handlers, task, cur, job, again, reviews, fate,
                   tell, todo, cancelReq, stop, promote, history>>

\* poll_redirect
KillByPoll ==
    /\ wpc = "agent"
    /\ payload # NoPayload
    /\ Kill
    /\ UNCHANGED <<db, redis, handlers, task, cur, job, again, reviews, fate,
                   tell, todo, cancelReq, stop, promote, spent, history>>

\* The last of the looks at the redirect payload after an agent run.
Consume ==
    /\ wpc = "consume" /\ payload # NoPayload
    /\ job' = payload.all
    /\ payload' = NoPayload
    /\ again' = TRUE
    /\ reviews' = 0
    /\ wpc' = "turn"
    /\ UNCHANGED <<db, queue, notes, lease, fresh, signals, handlers, task, cur,
                   outcome, fate, tell, todo, cancelReq, stop, promote, spent,
                   history>>

\* Mutant: no limit on the review passes.
MayReviewMutant == outcome = "ok"
MayReview == outcome = "ok" /\ reviews < MaxReview

NothingToConsume ==
    /\ wpc = "consume" /\ payload = NoPayload
    /\ \/ wpc' = "release" /\ UNCHANGED reviews
       \/ /\ MayReview
          /\ reviews' = reviews + 1
          /\ wpc' = "turn"
    /\ UNCHANGED <<db, redis, handlers, task, cur, job, again, outcome, fate,
                   tell, todo, cancelReq, stop, promote, spent, history>>

\* Mutant: the lease is released only by a turn that ended well.
ReleaseMutant ==
    /\ wpc = "release"
    /\ lease' = IF outcome = "ok" THEN NoTask ELSE lease
    /\ wpc' = "persist"
    /\ UNCHANGED <<db, queue, payload, notes, fresh, signals, handlers, turn,
                   todo, cancelReq, stop, promote, spent, history>>

Release ==
    /\ wpc = "release"
    /\ lease' = NoTask
    /\ wpc' = "persist"
    /\ UNCHANGED <<db, queue, payload, notes, fresh, signals, handlers, turn,
                   todo, cancelReq, stop, promote, spent, history>>

-----------------------------------------------------------------------------
(* The end of the turn: _run_claimed_task, _persist_status, _fail_task.     *)

\* A finished run whose task was cancelled meanwhile counts as cancelled.
Ended == IF outcome = "ok" /\ task \in cancelReq THEN "cancelled" ELSE outcome

Unless(written) ==
    IF status[task] \in {"running", "pending"} THEN written ELSE "kept"

\* Mutant: complete_unless_stopped does not look for a cancel.
StoppedMutant == FALSE
Stopped == status[task] = "cancelled"

\* One transaction reads the row ...
PersistRead ==
    /\ wpc = "persist"
    /\ outcome' = Ended
    /\ fate' = CASE Ended = "cancelled" -> "cancelled"
                 [] Ended = "ok"        -> Unless("completed")
                 [] OTHER               -> Unless("failed")
    /\ tell' = (Ended \in {"ok", "cancelled"} => ~Stopped)
    /\ wpc' = "write"
    /\ UNCHANGED <<db, redis, handlers, task, cur, job, again, reviews, todo,
                   cancelReq, stop, promote, spent, history>>

\* Mutant: the result is delivered before it is written.
PersistWriteMutant ==
    /\ wpc = "write"
    /\ wpc' = "settle"
    /\ UNCHANGED <<db, redis, handlers, turn, todo, cancelReq, stop, promote,
                   spent, history>>

\* ... and writes the end on what it read.
PersistWrite ==
    /\ wpc = "write"
    /\ IF fate = "kept"
         THEN UNCHANGED status
         ELSE Unlocked({task}) /\ status' = [status EXCEPT ![task] = fate]
    /\ wpc' = "settle"
    /\ UNCHANGED <<prompt, made, redis, handlers, turn, todo, cancelReq, stop,
                   promote, spent, history>>

\* STATUS_PERSIST_ATTEMPTS failures in a row; nobody looks at the result.
PersistLost ==
    /\ wpc \in {"persist", "write"}
    /\ Fault("db")
    /\ outcome' = Ended
    /\ tell' = (wpc = "persist" \/ tell)
    /\ wpc' = "settle"
    /\ UNCHANGED <<db, redis, handlers, task, cur, job, again, reviews, fate,
                   todo, cancelReq, stop, promote, history>>

\* clear_redirect_instructions, unless the turn timed out or raised.
Settle ==
    /\ wpc = "settle"
    /\ notes' = IF outcome \in {"ok", "cancelled"} THEN NoNotes ELSE notes
    /\ wpc' = "deliver"
    /\ UNCHANGED <<db, queue, payload, lease, fresh, signals, handlers, turn,
                   todo, cancelReq, stop, promote, spent, history>>

\* Redis fails as the turn releases its lease or clears the instructions: the
\* safety net of _process_task ends the turn as failed, whatever it has written.
EndFails ==
    /\ \/ wpc = "release"
       \/ wpc = "settle" /\ outcome \in {"ok", "cancelled"}
    /\ Fault("redis")
    /\ outcome' = "error"
    /\ wpc' = "persist"
    /\ UNCHANGED <<db, redis, handlers, task, cur, job, again, reviews, fate,
                   tell, todo, cancelReq, stop, promote, history>>

Deliver ==
    /\ wpc = "deliver"
    /\ LET said == IF tell /\ ~(outcome = "cancelled" /\ task \in cancelReq)
                     THEN {task} ELSE {}
       IN  /\ told' = told \cup said
           /\ answered' = IF outcome = "ok" THEN answered \cup said ELSE answered
    /\ task' = NoTask /\ cur' = NoTask /\ job' = {} /\ again' = FALSE
    /\ reviews' = 0 /\ outcome' = "none" /\ fate' = "kept" /\ tell' = FALSE
    /\ wpc' = AfterTask
    /\ UNCHANGED <<db, redis, handlers, todo, cancelReq, stop, promote, spent,
                   ran, claims, halted, overruled, cut>>

-----------------------------------------------------------------------------
(* The listeners, and _promote_orphan_redirect.                             *)

HearCancel(t) ==
    /\ Serving
    /\ t \in cancelMsgs
    /\ cancelMsgs' = cancelMsgs \ {t}
    /\ cancelReq' = cancelReq \cup {t}
    /\ IF wpc = "agent" /\ cur = t THEN Kill ELSE UNCHANGED <<wpc, outcome>>
    /\ UNCHANGED <<db, queue, payload, notes, lease, fresh, redirectMsgs,
                   handlers, task, cur, job, again, reviews, fate, tell, todo,
                   stop, promote, spent, history>>

\* Kills the agent, or does nothing for a turn without a live one; a redirect
\* with no turn at all is promoted.
HearRedirect ==
    /\ Serving
    /\ redirectMsgs > 0 /\ lpc = "idle"
    /\ redirectMsgs' = redirectMsgs - 1
    /\ IF wpc = "agent" THEN Kill ELSE UNCHANGED <<wpc, outcome>>
    /\ lpc' = IF cur = NoTask THEN "check" ELSE "idle"
    /\ UNCHANGED <<db, queue, payload, notes, lease, fresh, cancelMsgs, handlers,
                   task, cur, job, again, reviews, fate, tell, todo, cancelReq,
                   stop, held, heldTask, lseen, spent, history>>

\* A live owner keeps the payload.
PromoteCheck ==
    /\ lpc = "check"
    /\ lpc' = IF lease # NoTask THEN "idle" ELSE "take"
    /\ UNCHANGED <<db, redis, handlers, worker, held, heldTask, lseen, spent,
                   history>>

PromoteTake ==
    /\ lpc = "take"
    /\ held' = payload.head
    /\ payload' = NoPayload
    /\ lpc' = IF payload = NoPayload THEN "idle" ELSE "read"
    /\ UNCHANGED <<db, queue, notes, lease, fresh, signals, handlers, worker,
                   heldTask, lseen, spent, history>>

PromoteRead ==
    /\ lpc = "read"
    /\ lseen' = [stale |-> Rows("running") \ {cur}, pending |-> Rows("pending")]
    /\ lpc' = "write"
    /\ UNCHANGED <<db, redis, handlers, worker, held, heldTask, spent, history>>

Promoted(t) == IF lseen.pending = {} THEN "pending" ELSE status[t]

\* Stale rows fail, whatever their status has become; the text goes to the
\* oldest pending task, or to a new one.
PromoteWrite ==
    /\ lpc = "write"
    /\ Unlocked(lseen.stale \cup lseen.pending)
    /\ \E t \in Tasks :
         /\ IF lseen.pending # {}
              THEN Oldest(t, lseen.pending) /\ UNCHANGED made
              ELSE t = made + 1 /\ made' = made + 1
         /\ status' = [Set(Set(status, lseen.stale, "failed"),
                           lseen.pending \ {t}, "cancelled")
                        EXCEPT ![t] = Promoted(t)]
         /\ prompt' = [prompt EXCEPT ![t] = held]
         /\ heldTask' = t
    /\ held' = NoMsg
    /\ lseen' = NoneSeen
    /\ lpc' = "enqueue"
    /\ overruled' = overruled \cup (halted \cap lseen.stale)
    /\ UNCHANGED <<redis, handlers, worker, spent, ran, claims, told, answered,
                   halted, cut>>

\* The transaction fails; the payload is out of Redis already.
PromoteFails ==
    /\ lpc = "write"
    /\ Fault("db")
    /\ held' = NoMsg
    /\ lseen' = NoneSeen
    /\ lpc' = "idle"
    /\ UNCHANGED <<db, redis, handlers, worker, heldTask, history>>

PromoteEnqueue ==
    /\ lpc = "enqueue"
    /\ queue' = Append(queue, heldTask)
    /\ heldTask' = NoTask
    /\ lpc' = "idle"
    /\ UNCHANGED <<db, payload, notes, lease, fresh, signals, handlers, worker,
                   held, lseen, spent, history>>

-----------------------------------------------------------------------------
MessageStep(m) ==
    \/ ListRunning(m) \/ ReadLease(m) \/ FailStale(m) \/ ListPending(m)
    \/ Coalesce(m) \/ Create(m)
    \/ NoteRead(m) \/ NoteWrite(m) \/ Store(m) \/ Announce(m)

CancelStep(c) ==
    \/ ListForCancel(c) \/ DropPending(c) \/ PublishCancel(c) \/ MarkCancelled(c)

StartStep ==
    \/ Start \/ RecoverRead \/ RecoverWrite \/ QueueResume \/ EnqueueResume
    \/ Drain \/ Serve

LoopStep ==
    \/ Exit \/ Dequeue \/ Scan \/ ScanNext \/ Watchdog \/ ScanEnds
    \/ ClaimRead \/ Missed \/ Mark \/ Begin \/ Register

TurnStep ==
    \/ LeaveEarly \/ Turn \/ Spawn \/ AgentEnds \/ KillByPoll
    \/ Consume \/ NothingToConsume \/ Release
    \/ PersistRead \/ PersistWrite \/ Settle \/ Deliver

PromoteStep ==
    \/ PromoteCheck \/ PromoteTake \/ PromoteRead \/ PromoteWrite \/ PromoteEnqueue

FaultStep ==
    \/ Crash \/ Term \/ Reload \/ RecoverFails \/ MarkFails \/ RegisterFails
    \/ PersistLost \/ EndFails \/ PromoteFails
    \/ \E h \in Handlers : Rollback(h) \/ HandlerFails(h)
    \/ \E m \in Msgs : CreateUnqueued(m)

HandlerStep(h) ==
    \/ h \in Msgs /\ MessageStep(h)
    \/ h \in Cancels /\ CancelStep(h)
    \/ Commit(h)

MainStep == StartStep \/ LoopStep \/ TurnStep

Next ==
    \/ \E h \in Handlers : HandlerStep(h)
    \/ MainStep
    \/ \E t \in Tasks : HearCancel(t)
    \/ HearRedirect
    \/ PromoteStep
    \/ HeartbeatExpires
    \/ FaultStep

Spec == Init /\ [][Next]_vars

\* The event loops of both processes run every coroutine that can go on, the
\* runner's timeout ends every agent, systemd starts a worker again, Redis
\* delivers what was published; a row stuck long enough meets the watchdog.
Fairness ==
    /\ WF_vars(MainStep)
    /\ WF_vars(PromoteStep)
    /\ WF_vars(HearRedirect)
    /\ WF_vars(\E t \in Tasks : HearCancel(t))
    /\ WF_vars(HeartbeatExpires)
    /\ SF_vars(Watchdog)
    /\ \A h \in Handlers : WF_vars(HandlerStep(h))

FairSpec == Spec /\ Fairness

-----------------------------------------------------------------------------
(* Properties *)

\* However often a task id is on the queue - enqueued before its commit, again
\* after a miss, again by a scan or a reload - its turn begins once.
OneTurnPerTask == \A t \in Tasks : claims[t] <= 1

\* A row says running only while the worker is in that turn, or is down or
\* recovering: no restart, redirect, cancel or promotion leaves one behind.
RunningHasTurn ==
    \A t \in Rows("running") : task = t \/ wpc \in {"down", "recover", "fail"}

\* "Persist before delivering": what the user has been told of is over in the
\* database, and no restart resumes it.
AnswerBacked == \A t \in told : status[t] \in Over

\* Once a cancel has been committed, and the worker had not yet read the row to
\* end it, the user gets no answer from that task (complete_unless_stopped),
\* whether the cancel message is heard early, late or not at all.  One loss is
\* excepted: a promotion that listed the row between the claim and the moment
\* _current_task_id is set (_promote_orphan_redirect) writes "failed" over the
\* cancel, which nobody then finds; NoAnswerAtAll is without the exception.
NoAnswerAfterCancel == answered \cap halted \subseteq overruled

\* The same without the exception, which the code does not keep.
NoAnswerAtAll == answered \cap halted = {}

\* Where a task stands in TaskLife; one cancelled without a turn was merged.
LifeOf(t) ==
    CASE status[t] = "none"    -> "absent"
      [] status[t] = "pending" -> "waiting"
      [] status[t] = "running" -> "active"
      [] OTHER -> IF claims[t] = 0 THEN "merged" ELSE "over"

Life == INSTANCE TaskLife WITH life <- [t \in Tasks |-> LifeOf(t)]

\* The rows, whoever writes them and whenever, go through a task's life in
\* order: no turn for a task that is over, one turn at a time across restarts,
\* and the user told once, after the end.
ImplementsTaskLife == Life!Spec

\* Nothing is going on and nothing is waiting.
Quiet ==
    /\ \A h \in Handlers : hpc[h] \in {"done", "lost"}
    /\ wpc = "idle" /\ queue = <<>> /\ Rows("pending") = {}
    /\ lpc = "idle" /\ redirectMsgs = 0

\* Every pending task is claimed or cancelled, even if its id never made it to
\* the queue (_recover_pending_tasks).
PendingIsClaimed ==
    \A t \in Tasks : status[t] = "pending" ~> status[t] # "pending"

\* Every running task ends, by its turn, by startup recovery or by the watchdog.
RunningEnds ==
    \A t \in Tasks : status[t] = "running" ~> status[t] # "running"

\* A redirect that is there while an agent runs, or before a starting worker
\* drains, is taken out (poll_redirect, _drain_orphan_redirects).
RedirectTaken ==
    (/\ payload # NoPayload
     /\ wpc \in {"down", "recover", "fail", "resume", "drain", "agent"})
    ~> payload = NoPayload

-----------------------------------------------------------------------------
(* What the repository says of these paths and the code does not do.        *)

\* _interrupt_session_for_redirect: a redirect with no process "used to return
\* and leave the user's text in Redis forever".
NoRedirectLeft == Quiet => payload = NoPayload

\* A message that comes while a task is pending goes into its payload; the turn
\* of a task runs the payload it has.
PayloadIsRun ==
    Quiet => \A t \in Tasks : claims[t] > 0 => prompt[t] \in ran \cup {NoMsg}

\* build_redirect_prompt: "Keep every redirect instruction, not only the latest
\* one."  When no redirect is left, every one has reached an agent.
EveryInstructionKept ==
    (Quiet /\ payload = NoPayload) =>
        \A m \in Msgs : target[m] # NoTask => m \in ran

\* note_redirect_instruction: "Earlier ones stay until the turn finishes."
NotesEndWithTurn == Quiet /\ payload = NoPayload => notes = NoNotes

\* A turn that has taken a redirect is not cancelled by it.
CancelWasAsked ==
    (wpc = "write" /\ fate = "cancelled" /\ again) =>
        \E c \in Cancels : task \in seen[c]

\* "cancel - cancel running processes": no agent is started for nothing but
\* messages the user has cancelled.
CancelHeeded ==
    (wpc = "agent" /\ task \notin cancelMsgs /\ job # {}) => ~(job \subseteq cut)

\* A turn that answers a message sent after a cancel delivers the answer.
LaterMessageAnswered ==
    (wpc = "deliver" /\ outcome = "ok" /\ ~(job \subseteq cut)) => tell

-----------------------------------------------------------------------------
(* What the modelled failures leave of two claims, and why nobody deadlocks. *)

\* The rows a handler waits for, those of its last query; their locks are
\* taken as one.
Waits(h) == IF hpc[h] \in {"stale", "coalesce", "mark"} THEN seen[h] ELSE {}

\* Whichever handlers hold locks and wait, one of them waits for none of the
\* others: messages and cancels never wait for one another in a circle.
NoLockCycle ==
    \A H \in SUBSET Handlers :
        H # {} => \E h \in H : \A g \in H \ {h} : Waits(h) \cap Locks(g) = {}

\* A live worker's lease names the turn it is in, unless a turn has left before
\* its try or a call of Redis has failed: then the lease of a turn that is over
\* stays, and redirects go to it.
LeaseIsTurn ==
    lease # NoTask =>
        \/ wpc = "down"
        \/ lease = task /\ wpc \in {"turn", "spawn", "agent", "consume", "release"}
        \/ spent \cap {"agent", "logout", "redis"} # {}

\* As long as Redis has not failed, the watchdog passes over no running row.
NothingSkipped ==
    (wpc = "scan" /\ "redis" \notin spent) => Stuck = Rows("running")

-----------------------------------------------------------------------------
(* Why OneTurnPerTask and TypeOK hold: the invariant behind the proofs.     *)

\* Who is about to use a task id has one.
TaskInHand ==
    /\ wpc \in {"claim", "missed", "mark", "begin", "register", "turn", "spawn",
                "agent", "consume", "release", "persist", "write", "settle",
                "deliver"} => task \in Tasks
    /\ lpc = "enqueue" => heldTask \in Tasks
    /\ \A m \in Msgs : hpc[m] = "note" => target[m] \in Tasks

\* Only a row that has been created and never claimed is pending ...
PendingUnclaimed ==
    \A t \in Tasks : status[t] = "pending" => t <= made /\ claims[t] = 0

NotCreatedUnclaimed == \A t \in Tasks : t > made => claims[t] = 0

\* ... or will be when its handler commits, which is the only one to create it.
CommitsUnclaimed ==
    \A h \in Handlers : \A t \in DOMAIN bufStatus[h] :
        bufStatus[h][t] = "pending" =>
            /\ t <= made /\ claims[t] = 0 /\ status[t] # "pending"
            /\ ~(wpc = "mark" /\ task = t)
            /\ \A g \in Handlers \ {h} :
                 t \in DOMAIN bufStatus[g] => bufStatus[g][t] # "pending"

\* The main loop is about to claim a task nobody has claimed.
MarkUnclaimed == wpc = "mark" => task <= made /\ claims[task] = 0

Claims ==
    /\ PendingUnclaimed /\ NotCreatedUnclaimed /\ CommitsUnclaimed /\ MarkUnclaimed
    /\ OneTurnPerTask

ClaimInv == TypeOK /\ TaskInHand /\ Claims
=============================================================================
