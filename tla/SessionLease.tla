---------------------------- MODULE SessionLease ----------------------------
(***************************************************************************)
(* The execution lease of one chat session, services/session_execution.py. *)
(*                                                                         *)
(* Two Redis keys say whether a session is busy: the id of the running     *)
(* task and the lease naming the worker process that runs it.  No          *)
(* operation on them is atomic: each GET, SET and DELETE is a separate     *)
(* round trip, and worker processes, their SIGTERM handlers and the bot's  *)
(* message handlers interleave between any two.  One action below is one   *)
(* round trip.  The third key, exec_state, is written by all of them and   *)
(* read by none but the helper that resets it: it decides nothing, and it  *)
(* is left out together with _relax_busy_state.                            *)
(***************************************************************************)
EXTENDS Naturals

CONSTANTS
    Workers,   \* operating-system processes that may run the worker (pids)
    Handlers,  \* SIGTERM handlers, a coroutine beside the worker's main loop
    Readers,   \* callers of get_running_task_id
    Pid,       \* the process a worker or a handler runs in
    Tasks,     \* agent tasks of the session
    NoPid,     \* no process
    NoTask,    \* no task
    MaxEpoch,  \* bound: how many lease epochs (uuid4) the model draws
    Overlap    \* may a replacement start before the dying worker has gone?

ASSUME NamesAssumption == /\ NoPid \notin Workers
                          /\ NoTask \notin Tasks
ASSUME ActorsAssumption == /\ Workers \cap Handlers = {}
                           /\ Workers \cap Readers = {}
                           /\ Handlers \cap Readers = {}
ASSUME PidAssumption == /\ Pid \in [Workers \cup Handlers -> Workers]
                        /\ \A p \in Workers : Pid[p] = p
ASSUME BoundAssumption == /\ MaxEpoch \in Nat
                          /\ Overlap \in BOOLEAN

VARIABLES
    epochs,       \* epochs drawn so far; the next one drawn is epochs + 1
    workerOwner,  \* tca:worker:owner
    runTask,      \* tca:session:<id>:running_task
    runOwner,     \* tca:session:<id>:running_owner, the lease
    beat,         \* the pid whose heartbeat is still fresh
    pc,           \* where each actor stands in its current call
    saw,          \* the lease an actor read earlier in its current call
    turn,         \* the task each worker process is executing
    inTry,        \* worker processes inside the try of _run_agent_prompt
    begun,        \* history: tasks some worker has claimed
    ended,        \* history: tasks whose turn has returned
    released,     \* history: those of them whose turn released its lease
    asked,        \* history: what was true when a reader began to read, and
                  \* the turn that held the lease when it read the lease
    answer        \* what a reader was told

redis == <<workerOwner, runTask, runOwner, beat>>
ghosts == <<begun, ended, released, asked, answer>>
vars == <<epochs, workerOwner, runTask, runOwner, beat, pc,
          saw, turn, inTry, begun, ended, released, asked, answer>>

Actors == Workers \cup Handlers \cup Readers
Epochs == 0 .. MaxEpoch
Owner == [epoch : Epochs, pid : Workers \cup {NoPid}]
NoOwner == [epoch |-> 0, pid |-> NoPid]
Lease == [epoch : Epochs, pid : Workers \cup {NoPid}, task : Tasks \cup {NoTask}]
NoLease == [epoch |-> 0, pid |-> NoPid, task |-> NoTask]
\* What has happened by the time a reader begins to read, and who held the lease
\* in the middle of its call.
Asked == [ended : SUBSET Tasks, released : SUBSET Tasks, epoch : Epochs,
          holder : Tasks \cup {NoTask}]
NotAsked == [ended |-> {}, released |-> {}, epoch |-> 0, holder |-> NoTask]
Steps == {"down", "boot", "idle", "register", "publish", "reread", "setTask",
          "setOwner", "turn", "release", "check", "delStray", "delTask",
          "delOwner", "clearRead", "clearDel",
          "getOwner", "getWorker", "verdict", "answered"}

TypeOK ==
    /\ epochs \in Epochs
    /\ workerOwner \in Owner
    /\ runTask \in Tasks \cup {NoTask}
    /\ runOwner \in Lease
    /\ beat \in Workers \cup {NoPid}
    /\ pc \in [Actors -> Steps]
    /\ saw \in [Actors -> Lease]
    /\ turn \in [Workers -> Tasks \cup {NoTask}]
    /\ inTry \in SUBSET Workers
    /\ begun \in SUBSET Tasks
    /\ ended \in SUBSET Tasks
    /\ released \in SUBSET Tasks
    /\ asked \in [Readers -> Asked]
    /\ answer \in [Readers -> Tasks \cup {NoTask}]

Init ==
    /\ epochs = 0
    /\ workerOwner = NoOwner
    /\ runTask = NoTask
    /\ runOwner = NoLease
    /\ beat = NoPid
    /\ pc = [a \in Actors |-> IF a \in Workers THEN "down" ELSE "idle"]
    /\ saw = [a \in Actors |-> NoLease]
    /\ turn = [p \in Workers |-> NoTask]
    /\ inTry = {}
    /\ begun = {}
    /\ ended = {}
    /\ released = {}
    /\ asked = [r \in Readers |-> NotAsked]
    /\ answer = [r \in Readers |-> NoTask]

Up(p) == pc[p] # "down"
Goto(a, step) == pc' = [pc EXCEPT ![a] = step]

-----------------------------------------------------------------------------
(* Worker processes: start, claim, exit and crash.                          *)

\* TaskWorker.start: a new process binds leases to itself with publish_owner.
Start(p) ==
    /\ pc[p] = "down"
    /\ Overlap \/ \A q \in Workers : ~Up(q)
    /\ epochs < MaxEpoch
    /\ epochs' = epochs + 1
    /\ workerOwner' = [epoch |-> epochs + 1, pid |-> p]
    /\ Goto(p, "boot")
    /\ UNCHANGED <<runTask, runOwner, beat, saw, turn, inTry, ghosts>>

\* Startup recovery abandons the session of every task it finds running ...
Abandon(p) ==
    /\ pc[p] = "boot"
    /\ Goto(p, "delTask")
    /\ UNCHANGED <<epochs, redis, saw, turn, inTry, ghosts>>

\* ... and leaves the other sessions alone.
Boot(p) ==
    /\ pc[p] = "boot"
    /\ Goto(p, "idle")
    /\ UNCHANGED <<epochs, redis, saw, turn, inTry, ghosts>>

\* run_heartbeat, once the process has started up.
Beat(p) ==
    /\ pc[p] \notin {"down", "boot"}
    /\ beat' = p
    /\ UNCHANGED <<epochs, workerOwner, runTask, runOwner,
                   pc, saw, turn, inTry, ghosts>>

\* A dead process's heartbeat passes HEARTBEAT_MAX_AGE_SECONDS.
BeatExpires ==
    /\ beat # NoPid
    /\ ~Up(beat)
    /\ beat' = NoPid
    /\ UNCHANGED <<epochs, workerOwner, runTask, runOwner,
                   pc, saw, turn, inTry, ghosts>>

\* _claim_task; every task is claimed once.
Claim(p, t) ==
    /\ pc[p] = "idle"
    /\ t \notin begun
    /\ begun' = begun \cup {t}
    /\ turn' = [turn EXCEPT ![p] = t]
    /\ Goto(p, "register")
    /\ UNCHANGED <<epochs, redis, saw, inTry, ended, released, asked, answer>>

\* The process is gone: killed, crashed, or (idle) returned from its loop.
Crash(p) ==
    /\ Up(p)
    /\ pc' = [a \in Actors |->
                IF a = p THEN "down"
                ELSE IF a \in Handlers /\ Pid[a] = p THEN "idle" ELSE pc[a]]
    /\ saw' = [a \in Actors |->
                IF a \in Workers \cup Handlers /\ Pid[a] = p THEN NoLease ELSE saw[a]]
    /\ turn' = [turn EXCEPT ![p] = NoTask]
    /\ inTry' = inTry \ {p}
    /\ UNCHANGED <<epochs, redis, ghosts>>

-----------------------------------------------------------------------------
(* register_running_task, at the claim and again at every agent start.      *)

\* The lease is made of the owner's epoch and this process's own pid.
NewLease(p) == [epoch |-> workerOwner.epoch, pid |-> p, task |-> turn[p]]

RegisterRead(p) ==
    /\ pc[p] = "register"
    /\ IF workerOwner.pid = p
         THEN /\ saw' = [saw EXCEPT ![p] = NewLease(p)]
              /\ Goto(p, "setTask")
         ELSE /\ UNCHANGED saw
              /\ Goto(p, "publish")
    /\ UNCHANGED <<epochs, redis, turn, inTry, ghosts>>

RegisterPublish(p) ==
    /\ pc[p] = "publish"
    /\ epochs < MaxEpoch
    /\ epochs' = epochs + 1
    /\ workerOwner' = [epoch |-> epochs + 1, pid |-> p]
    /\ Goto(p, "reread")
    /\ UNCHANGED <<runTask, runOwner, beat, saw, turn, inTry, ghosts>>

RegisterReread(p) ==
    /\ pc[p] = "reread"
    /\ IF workerOwner = NoOwner
         THEN /\ UNCHANGED saw
              /\ Goto(p, "turn")
         ELSE /\ saw' = [saw EXCEPT ![p] = NewLease(p)]
              /\ Goto(p, "setTask")
    /\ UNCHANGED <<epochs, redis, turn, inTry, ghosts>>

RegisterTask(p) ==
    /\ pc[p] = "setTask"
    /\ runTask' = turn[p]
    /\ Goto(p, "setOwner")
    /\ UNCHANGED <<epochs, workerOwner, runOwner, beat, saw, turn, inTry, ghosts>>

\* Mutant: the lease is the owner record, without the task.
RegisterOwnerMutant(p) ==
    /\ pc[p] = "setOwner"
    /\ runOwner' = workerOwner
    /\ saw' = [saw EXCEPT ![p] = NoLease]
    /\ Goto(p, "turn")
    /\ UNCHANGED <<epochs, workerOwner, runTask, beat, turn, inTry, ghosts>>

RegisterOwner(p) ==
    /\ pc[p] = "setOwner"
    /\ runOwner' = saw[p]
    /\ saw' = [saw EXCEPT ![p] = NoLease]
    /\ Goto(p, "turn")
    /\ UNCHANGED <<epochs, workerOwner, runTask, beat, turn, inTry, ghosts>>

\* The turn reaches the try of _run_agent_prompt.
Enter(p) ==
    /\ pc[p] = "turn"
    /\ p \notin inTry
    /\ inTry' = inTry \cup {p}
    /\ UNCHANGED <<epochs, redis, pc, saw, turn, ghosts>>

\* The turn ends before that try: nobody is logged in to Cursor, or something
\* raised on the way.  The finally that releases the lease is not run.
LeaveEarly(p) ==
    /\ pc[p] = "turn"
    /\ p \notin inTry
    /\ Goto(p, "idle")
    /\ turn' = [turn EXCEPT ![p] = NoTask]
    /\ ended' = ended \cup ({turn[p]} \ {NoTask})
    /\ UNCHANGED <<epochs, redis, saw, inTry, begun, released, asked, answer>>

\* on_process_start registers the same task again.
Reregister(p) ==
    /\ pc[p] = "turn"
    /\ p \in inTry
    /\ Goto(p, "register")
    /\ UNCHANGED <<epochs, redis, saw, turn, inTry, ghosts>>

\* The finally of _run_agent_prompt.
EndTurn(p) ==
    /\ pc[p] = "turn"
    /\ p \in inTry
    /\ Goto(p, "release")
    /\ UNCHANGED <<epochs, redis, saw, turn, inTry, ghosts>>

-----------------------------------------------------------------------------
(* release_if_owner and _delete_lease_if_unchanged.  A worker calls them    *)
(* when its turn ends, its SIGTERM handler at any moment, and a reader when *)
(* it finds a lease that is not live.                                       *)

\* The call returns.  For a worker the turn is over.
Return(a) ==
    /\ saw' = [saw EXCEPT ![a] = NoLease]
    /\ IF a \in Workers
         THEN /\ Goto(a, "idle")
              /\ ended' = ended \cup ({turn[a]} \ {NoTask})
              /\ released' = released \cup ({turn[a]} \ {NoTask})
              /\ turn' = [turn EXCEPT ![a] = NoTask]
              /\ inTry' = inTry \ {a}
              /\ UNCHANGED <<begun, asked, answer>>
         ELSE /\ Goto(a, IF a \in Handlers THEN "clearRead" ELSE "answered")
              /\ UNCHANGED <<turn, inTry, ghosts>>

\* release_if_owner: no lease, or another process's, is left alone.
ReleaseRead(a) ==
    /\ pc[a] = "release"
    /\ IF runOwner.pid = Pid[a]
         THEN /\ saw' = [saw EXCEPT ![a] = runOwner]
              /\ Goto(a, "check")
              /\ UNCHANGED <<turn, inTry, ghosts>>
         ELSE Return(a)
    /\ UNCHANGED <<epochs, redis>>

\* Mutant: a lease counts as changed when the task key beside it is gone.
UnchangedMutant(a) ==
    runOwner = saw[a] /\ runTask = saw[a].task

\* _delete_lease_if_unchanged compares the epoch and the pid, not the task.
Unchanged(a) ==
    /\ runOwner # NoLease
    /\ runOwner.epoch = saw[a].epoch
    /\ runOwner.pid = saw[a].pid

CheckDrops(a) ==
    /\ pc[a] = "check"
    /\ \/ saw[a] = NoLease /\ runOwner = NoLease /\ Goto(a, "delStray")
       \/ saw[a] # NoLease /\ Unchanged(a) /\ Goto(a, "delTask")
    /\ UNCHANGED <<epochs, redis, saw, turn, inTry, ghosts>>

CheckKeeps(a) ==
    /\ pc[a] = "check"
    /\ IF saw[a] = NoLease THEN runOwner # NoLease ELSE ~Unchanged(a)
    /\ Return(a)
    /\ UNCHANGED <<epochs, redis>>

\* A task id with no lease beside it.
DeleteStray(a) ==
    /\ pc[a] = "delStray"
    /\ runTask' = NoTask
    /\ Return(a)
    /\ UNCHANGED <<epochs, workerOwner, runOwner, beat>>

\* clear_running_task, two DELETEs.
DeleteTask(a) ==
    /\ pc[a] = "delTask"
    /\ runTask' = NoTask
    /\ Goto(a, "delOwner")
    /\ UNCHANGED <<epochs, workerOwner, runOwner, beat, saw, turn, inTry, ghosts>>

DeleteOwner(a) ==
    /\ pc[a] = "delOwner"
    /\ runOwner' = NoLease
    /\ Return(a)
    /\ UNCHANGED <<epochs, workerOwner, runTask, beat>>

-----------------------------------------------------------------------------
(* SIGTERM: _begin_shutdown releases the session and clears the owner while *)
(* the turn itself is still unwinding.                                      *)

Signal(h) ==
    /\ pc[h] = "idle"
    /\ Up(Pid[h])
    /\ Goto(h, IF turn[Pid[h]] = NoTask THEN "clearRead" ELSE "release")
    /\ UNCHANGED <<epochs, redis, saw, turn, inTry, ghosts>>

ClearOwnerRead(h) ==
    /\ pc[h] = "clearRead"
    /\ Goto(h, IF workerOwner.pid = Pid[h] THEN "clearDel" ELSE "answered")
    /\ UNCHANGED <<epochs, redis, saw, turn, inTry, ghosts>>

ClearOwnerDelete(h) ==
    /\ pc[h] = "clearDel"
    /\ workerOwner' = NoOwner
    /\ Goto(h, "answered")
    /\ UNCHANGED <<epochs, runTask, runOwner, beat, saw, turn, inTry, ghosts>>

-----------------------------------------------------------------------------
(* get_running_task_id: the bot asks whether the session has a live turn.   *)

GetTask(r) ==
    /\ pc[r] = "idle"
    /\ asked' = [asked EXCEPT ![r] = [ended |-> ended, released |-> released,
                                       epoch |-> epochs, holder |-> NoTask]]
    /\ saw' = [saw EXCEPT ![r] = [NoLease EXCEPT !.task = runTask]]
    /\ Goto(r, IF runTask = NoTask THEN "answered" ELSE "getOwner")
    /\ UNCHANGED <<epochs, redis, turn, inTry, begun, ended, released, answer>>

\* What the history keeps of this moment: the turn whose lease is the current
\* worker's, by the comparison _lease_is_live makes, if there is one.
Holder == IF /\ workerOwner # NoOwner
             /\ runOwner.epoch = workerOwner.epoch /\ runOwner.pid = workerOwner.pid
            THEN runOwner.task ELSE NoTask

\* The lease must name the task id read before it.
GetOwner(r) ==
    /\ pc[r] = "getOwner"
    /\ saw' = [saw EXCEPT ![r] = runOwner]
    /\ asked' = [asked EXCEPT ![r].holder = Holder]
    /\ Goto(r, IF runOwner # NoLease /\ runOwner.task = saw[r].task
                 THEN "getWorker" ELSE "check")
    /\ UNCHANGED <<epochs, redis, turn, inTry, begun, ended, released, answer>>

\* Mutant: the pid alone names the owner.
CurrentMutant(r) == workerOwner.pid = saw[r].pid
Current(r) == /\ workerOwner # NoOwner
              /\ workerOwner.epoch = saw[r].epoch
              /\ workerOwner.pid = saw[r].pid

\* ... and its epoch and pid must be the current worker's.
GetWorker(r) ==
    /\ pc[r] = "getWorker"
    /\ Goto(r, IF Current(r) THEN "verdict" ELSE "check")
    /\ UNCHANGED <<epochs, redis, saw, turn, inTry, ghosts>>

\* The process is seen in /proc, or its heartbeat is fresh.  The bot's
\* container may not see a host process that is up.
SeenAlive(p) == Up(p) \/ beat = p
MaybeUnseen(p) == beat # p

Answer(r) ==
    /\ pc[r] = "verdict"
    /\ \/ /\ SeenAlive(saw[r].pid)
          /\ answer' = [answer EXCEPT ![r] = saw[r].task]
          /\ Goto(r, "answered")
       \/ /\ MaybeUnseen(saw[r].pid)
          /\ UNCHANGED answer
          /\ Goto(r, "check")
    /\ UNCHANGED <<epochs, redis, saw, turn, inTry, begun, ended, released, asked>>

\* _queue_agent_work has its answer.
Finish(r) ==
    /\ pc[r] = "answered"
    /\ saw' = [saw EXCEPT ![r] = NoLease]
    /\ asked' = [asked EXCEPT ![r] = NotAsked]
    /\ answer' = [answer EXCEPT ![r] = NoTask]
    /\ Goto(r, "idle")
    /\ UNCHANGED <<epochs, redis, turn, inTry, begun, ended, released>>

-----------------------------------------------------------------------------
WorkerStep(p) ==
    \/ Start(p) \/ Abandon(p) \/ Boot(p) \/ Beat(p) \/ Crash(p)
    \/ \E t \in Tasks : Claim(p, t)
    \/ RegisterRead(p) \/ RegisterPublish(p) \/ RegisterReread(p)
    \/ RegisterTask(p) \/ RegisterOwner(p)
    \/ Enter(p) \/ LeaveEarly(p) \/ Reregister(p) \/ EndTurn(p)

ReleaseStep(a) == ReleaseRead(a)

DropStep(a) ==
    \/ CheckDrops(a) \/ CheckKeeps(a)
    \/ DeleteStray(a) \/ DeleteTask(a) \/ DeleteOwner(a)

HandlerStep(h) == Signal(h) \/ ClearOwnerRead(h) \/ ClearOwnerDelete(h)

ReaderStep(r) ==
    GetTask(r) \/ GetOwner(r) \/ GetWorker(r) \/ Answer(r) \/ Finish(r)

Next ==
    \/ BeatExpires
    \/ \E p \in Workers : WorkerStep(p)
    \/ \E a \in Workers \cup Handlers : ReleaseStep(a)
    \/ \E a \in Actors : DropStep(a)
    \/ \E h \in Handlers : HandlerStep(h)
    \/ \E r \in Readers : ReaderStep(r)

Spec == Init /\ [][Next]_vars

-----------------------------------------------------------------------------
(* Properties *)

\* Once a worker has released the lease of its turn that lease is gone for
\* good, whatever readers, SIGTERM handlers and other workers did to the keys
\* while it was being released (release_if_owner, clear_running_task).
LeaseEndsWithRelease == runOwner # NoLease => runOwner.task \notin released

\* A message handler is never told that a turn is live when that turn had
\* already released its lease, or its worker had already been replaced, before
\* the handler asked (get_running_task_id).
NoStaleAnswer ==
    \A r \in Readers :
        (pc[r] = "answered" /\ answer[r] # NoTask) =>
            /\ answer[r] \notin asked[r].released
            /\ saw[r].epoch >= asked[r].epoch

\* Three round trips answer like one: the turn a message handler is told of held
\* the lease, and its worker was the current one, at one moment of the call,
\* however workers start, claim and release meanwhile (get_running_task_id).
AnswerHeldLease ==
    \A r \in Readers :
        (pc[r] = "answered" /\ answer[r] # NoTask) => answer[r] = asked[r].holder

\* The module's promise, of which NoStaleAnswer is the part that holds: "A
\* session is running only while the worker process that claimed it is still
\* alive.  A bare task id left behind by SIGTERM is not a reason to redirect:
\* that path has no consumer and drops the user's message."  A turn that has
\* returned, released or not, consumes nothing either.
NoEndedAnswer ==
    \A r \in Readers :
        (pc[r] = "answered" /\ answer[r] # NoTask) =>
            answer[r] \notin asked[r].ended

\* What is left of it: a turn a handler is told of after it returned is one that
\* returned without releasing its lease, before the try of _run_agent_prompt.
EndedAnswerLeftEarly ==
    \A r \in Readers :
        (pc[r] = "answered" /\ answer[r] \in asked[r].ended) =>
            answer[r] \in ended \ released

\* release_if_owner: "A dying worker must not delete the lease a replacement
\* worker already registered for the same session."
ReleaseLeavesReplacement ==
    [][\A a \in Workers \cup Handlers :
         (DeleteOwner(a) /\ turn[Pid[a]] # NoTask) =>
             runOwner.pid \in {NoPid, Pid[a]}]_vars

-----------------------------------------------------------------------------
(* The inductive strengthening of LeaseEndsWithRelease and NoStaleAnswer.      *)

InTurn == {"register", "publish", "reread", "setTask", "setOwner",
           "turn", "release"}

\* A process works on one task at a time, of its own, and on none twice.
TurnsApart ==
    /\ released \subseteq ended /\ ended \subseteq begun
    /\ \A p \in Workers : turn[p] # NoTask => turn[p] \in begun \ ended
    /\ \A p, q \in Workers : turn[p] = turn[q] /\ turn[p] # NoTask => p = q
    /\ \A p \in Workers : pc[p] \in InTurn => turn[p] # NoTask

\* A lease being written names its writer and its writer's turn.
LeaseInHand ==
    \A p \in Workers : pc[p] \in {"setTask", "setOwner"} =>
        saw[p].pid = p /\ saw[p].task = turn[p]

\* Nobody but the worker of a turn writes a lease for it, so that what the
\* worker read when it began to release is what it deletes.
LeaseIsOwn ==
    /\ runOwner # NoLease => runOwner.task \in begun \ released
    /\ \A p \in Workers :
         (turn[p] # NoTask /\ runOwner.task = turn[p]) =>
             /\ runOwner.pid = p
             /\ pc[p] = "check" => runOwner = saw[p]
             /\ pc[p] # "delStray"

\* What a reader has established so far in its call.
ReaderKnows ==
    \A r \in Readers :
        /\ asked[r].released \subseteq released
        /\ asked[r].epoch <= epochs
        /\ pc[r] \in {"getWorker", "verdict"} => saw[r].task \notin asked[r].released
        /\ pc[r] = "verdict" => saw[r].epoch >= asked[r].epoch
        /\ pc[r] # "answered" => answer[r] = NoTask

OwnerIsLatest == workerOwner # NoOwner => workerOwner.epoch = epochs

\* Every epoch in the keys and in hand has been drawn.
EpochsDrawn ==
    /\ workerOwner.epoch <= epochs /\ runOwner.epoch <= epochs
    /\ \A a \in Actors : saw[a].epoch <= epochs

\* An owner that is still current when the reader looks was current when it read
\* the lease: the owner key never goes back to an epoch.
HolderKnown ==
    \A r \in Readers :
        /\ pc[r] = "getWorker" /\ Current(r) => asked[r].holder = saw[r].task
        /\ pc[r] = "verdict" => asked[r].holder = saw[r].task

\* A turn that has returned without a release never releases.
EndedUnreleased ==
    \A r \in Readers : /\ asked[r].ended \subseteq ended
                       /\ asked[r].ended \ asked[r].released \subseteq ended \ released

ReadInv == EpochsDrawn /\ HolderKnown /\ EndedUnreleased /\ AnswerHeldLease

\* Without overlapping processes: one is up, its handlers are the only ones at
\* work, and what it is about to delete is a lease of its own.
OneUp == \A p, q \in Workers : Up(p) /\ Up(q) => p = q
HandlersUp == \A h \in Handlers : pc[h] # "idle" => Up(Pid[h])
ChecksOwn == \A a \in Workers \cup Handlers : pc[a] = "check" => saw[a].pid = Pid[a]
DeletesOwn ==
    \A a \in Workers \cup Handlers :
        (pc[a] \in {"delTask", "delOwner"} /\ (a \in Workers => turn[a] # NoTask)) =>
            runOwner.pid \in {NoPid, Pid[a]}

RestsWithoutTurn == \A p \in Workers : pc[p] \in {"down", "boot", "idle"} => turn[p] = NoTask

AloneInv == OneUp /\ HandlersUp /\ ChecksOwn /\ DeletesOwn /\ RestsWithoutTurn

LeaseInv ==
    /\ TurnsApart
    /\ LeaseInHand
    /\ LeaseIsOwn
    /\ ReaderKnows
    /\ OwnerIsLatest
    /\ NoStaleAnswer
=============================================================================
