------------------------ MODULE TurnProtocol_proofs ------------------------
(* What holds of TurnProtocol for any messages, cancels, tasks and faults. *)
EXTENDS TurnProtocol, TLAPS

(* Writes in hand: a handler's partial functions. *)

LEMMA BufferedType ==
  ASSUME NEW S, NEW buf \in [Handlers -> Partial(S)], NEW h \in Handlers,
         NEW ts \in SUBSET Tasks, NEW v \in S
  PROVE  Buffered(buf, h, ts, v) \in [Handlers -> Partial(S)]
<1>1. PICK D \in SUBSET Tasks : buf[h] \in [D -> S]
  BY DEF Partial
<1>2. [t \in DOMAIN buf[h] \cup ts |-> IF t \in ts THEN v ELSE buf[h][t]]
        \in [D \cup ts -> S]
  BY <1>1
<1>3. D \cup ts \in SUBSET Tasks
  BY <1>1
<1> QED
  BY <1>2, <1>3 DEF Buffered, Partial

LEMMA BufferedStatus ==
  ASSUME HandlerType, NEW h \in Handlers, NEW ts \in SUBSET Tasks,
         NEW v \in Over \cup {"pending"}
  PROVE  Buffered(bufStatus, h, ts, v)
           \in [Handlers -> Partial(Over \cup {"pending"})]
  BY BufferedType DEF HandlerType

LEMMA BufferedPrompt ==
  ASSUME HandlerType, NEW h \in Handlers, NEW ts \in SUBSET Tasks,
         NEW m \in Msgs
  PROVE  Buffered(bufPrompt, h, ts, m) \in [Handlers -> Partial(Msgs)]
  BY BufferedType DEF HandlerType

LEMMA NoRowsType == ASSUME NEW S PROVE NoRows \in Partial(S)
<1>1. NoRows \in [{} -> S]
  BY DEF NoRows
<1> QED
  BY <1>1 DEF Partial

LEMMA OverlayType ==
  ASSUME NEW S, NEW f \in [Tasks -> S], NEW b \in Partial(S)
  PROVE  Overlay(f, b) \in [Tasks -> S]
<1>1. PICK D \in SUBSET Tasks : b \in [D -> S]
  BY DEF Partial
<1> QED
  BY <1>1 DEF Overlay

LEMMA TypeMessageStep ==
  ASSUME TypeOK, TaskInHand, NEW m \in Msgs, MessageStep(m)
  PROVE  TypeOK' /\ TaskInHand'
<1>0. /\ RowsType /\ RedisType /\ HandlerType
      /\ WorkerType /\ PromoteType /\ HistoryType
      /\ 0 \in 0 .. MaxReview
  BY ParamAssumption DEF TypeOK
<1> USE ParamAssumption, <1>0
    DEF Handlers, Tasks, NoTask, Prompts, Over, Statuses, NoPayload, NoNotes,
        NoneSeen, Rows, Texts, HGoto, See, Set, Fault, db, signals, redis,
        handlers, turn, worker, promote, history, RowsType, RedisType,
        HandlerType, WorkerType, PromoteType, HistoryType
<1>1. CASE ListRunning(m)
  <2>1. RowsType' /\ RedisType' /\ WorkerType' /\ PromoteType' /\ HistoryType'
    BY <1>1, SMTT(60) DEF ListRunning
  <2>2. HandlerType'
    BY <1>1 DEF ListRunning
  <2>3. TaskInHand'
    BY <1>1 DEF ListRunning, TaskInHand
  <2> QED
    BY <2>1, <2>2, <2>3 DEF TypeOK
<1>2. CASE ReadLease(m)
  <2>1. RowsType' /\ WorkerType' /\ PromoteType' /\ HistoryType'
    BY <1>2, SMTT(60) DEF ReadLease
  <2>2. RedisType'
    BY <1>2 DEF ReadLease
  <2>3. HandlerType'
    <3>1. \/ \E t \in Tasks : target' = [target EXCEPT ![m] = t]
          \/ UNCHANGED target
      <4>1. LeaseLive => lease \in Tasks
        BY DEF LeaseLive
      <4>2. seen[m] \in SUBSET Tasks
        OBVIOUS
      <4> QED
        BY <4>1, <4>2, <1>2 DEF ReadLease
    <3>2. target' \in [Msgs -> Tasks \cup {NoTask}]
      BY <3>1, SMTT(60)
    <3> QED
      BY <3>2, <1>2, ZenonT(60) DEF ReadLease
  <2>4. TaskInHand'
    <3>1. ASSUME NEW x \in Msgs, hpc'[x] = "note"
          PROVE  target'[x] \in Tasks
      <4>1. CASE x # m
        BY <3>1, <4>1, <1>2 DEF ReadLease, TaskInHand
      <4>2. CASE x = m
        <5>1. /\ seen[m] \in SUBSET Tasks
              /\ target \in [Msgs -> Tasks \cup {NoTask}]
          OBVIOUS
        <5>2. \/ LeaseLive /\ target' = [target EXCEPT ![m] = lease]
              \/ \E t \in seen[m] : target' = [target EXCEPT ![m] = t]
          BY <3>1, <4>2, <1>2, SMTT(60) DEF ReadLease
        <5> QED
          BY <5>1, <5>2, <4>2 DEF LeaseLive
      <4> QED
        BY <4>1, <4>2
    <3> QED
      BY <3>1, <1>2 DEF ReadLease, TaskInHand
  <2> QED
    BY <2>1, <2>2, <2>3, <2>4 DEF TypeOK
<1>3. CASE FailStale(m)
  <2>1. RowsType' /\ RedisType' /\ WorkerType' /\ PromoteType' /\ HistoryType'
    BY <1>3, SMTT(60) DEF FailStale
  <2>2. HandlerType'
    <3>1. m \in Handlers /\ seen[m] \in SUBSET Tasks
      BY <1>3 DEF FailStale
    <3>2. bufStatus' \in [Handlers -> Partial(Over \cup {"pending"})]
      BY <3>1, <1>3, BufferedStatus DEF FailStale
    <3> QED
      BY <3>2, <1>3 DEF FailStale
  <2>3. TaskInHand'
    BY <1>3 DEF FailStale, TaskInHand
  <2> QED
    BY <2>1, <2>2, <2>3 DEF TypeOK
<1>4. CASE ListPending(m)
  <2>1. RowsType' /\ RedisType' /\ WorkerType' /\ PromoteType' /\ HistoryType'
    BY <1>4, SMTT(60) DEF ListPending
  <2>2. HandlerType'
    BY <1>4 DEF ListPending
  <2>3. TaskInHand'
    BY <1>4 DEF ListPending, TaskInHand
  <2> QED
    BY <2>1, <2>2, <2>3 DEF TypeOK
<1>5. CASE Coalesce(m)
  <2>1. RowsType' /\ RedisType' /\ WorkerType' /\ PromoteType' /\ HistoryType'
    BY <1>5, SMTT(60) DEF Coalesce
  <2>2. HandlerType'
    <3>1. PICK primary \in Tasks :
             /\ bufStatus' =
                  Buffered(bufStatus, m, seen[m] \ {primary}, "cancelled")
             /\ bufPrompt' = Buffered(bufPrompt, m, {primary}, m)
      BY <1>5 DEF Coalesce
    <3>2. m \in Handlers /\ seen[m] \ {primary} \in SUBSET Tasks
      BY <1>5 DEF Coalesce
    <3>3. bufStatus' \in [Handlers -> Partial(Over \cup {"pending"})]
      BY <3>1, <3>2, BufferedStatus
    <3>4. bufPrompt' \in [Handlers -> Partial(Msgs)]
      BY <3>1, <3>2, BufferedPrompt, ZenonT(60)
    <3> QED
      BY <3>3, <3>4, <1>5 DEF Coalesce
  <2>3. TaskInHand'
    BY <1>5 DEF Coalesce, TaskInHand
  <2> QED
    BY <2>1, <2>2, <2>3 DEF TypeOK
<1>6. CASE Create(m)
  <2>1. WorkerType' /\ PromoteType' /\ HistoryType'
    BY <1>6, SMTT(60) DEF Create
  <2>2. RowsType'
    BY <1>6 DEF Create
  <2>3. RedisType'
    BY <1>6, SMTT(60) DEF Create
  <2>4. HandlerType'
    <3>1. m \in Handlers /\ {made + 1} \in SUBSET Tasks
      BY <1>6 DEF Create
    <3>2. bufStatus' \in [Handlers -> Partial(Over \cup {"pending"})]
      BY <3>1, <1>6, BufferedStatus DEF Create
    <3>3. bufPrompt' \in [Handlers -> Partial(Msgs)]
      BY <3>1, <1>6, BufferedPrompt DEF Create
    <3> QED
      BY <3>2, <3>3, <1>6 DEF Create
  <2>5. TaskInHand'
    BY <1>6 DEF Create, TaskInHand
  <2> QED
    BY <2>1, <2>2, <2>3, <2>4, <2>5 DEF TypeOK
<1>7. CASE NoteRead(m)
  <2>1. RowsType' /\ RedisType' /\ WorkerType' /\ PromoteType' /\ HistoryType'
    BY <1>7, SMTT(60) DEF NoteRead
  <2>2. HandlerType'
    <3>1. target[m] \in Tasks
      BY <1>7 DEF NoteRead, TaskInHand
    <3>2. notes.said \cup {m} \in SUBSET Msgs /\ prompt[target[m]] \in Prompts
      BY <3>1
    <3>3. noted' \in [Msgs -> [orig : Prompts, said : SUBSET Msgs]]
      BY <3>2, <1>7 DEF NoteRead
    <3> QED
      BY <3>3, <1>7 DEF NoteRead
  <2>3. TaskInHand'
    BY <1>7 DEF NoteRead, TaskInHand
  <2> QED
    BY <2>1, <2>2, <2>3 DEF TypeOK
<1>8. CASE NoteWrite(m)
  BY <1>8, SMTT(60) DEF NoteWrite, TypeOK, TaskInHand
<1>9. CASE Store(m)
  BY <1>9, SMTT(60) DEF Store, TypeOK, TaskInHand
<1>10. CASE Announce(m)
  BY <1>10, SMTT(60) DEF Announce, TypeOK, TaskInHand
<1> QED
  BY <1>1, <1>2, <1>3, <1>4, <1>5, <1>6, <1>7, <1>8, <1>9, <1>10 DEF MessageStep

LEMMA TypeCancelStep ==
  ASSUME TypeOK, TaskInHand, NEW c \in Cancels, CancelStep(c)
  PROVE  TypeOK' /\ TaskInHand'
<1>0. /\ RowsType /\ RedisType /\ HandlerType
      /\ WorkerType /\ PromoteType /\ HistoryType
      /\ 0 \in 0 .. MaxReview
  BY ParamAssumption DEF TypeOK
<1> USE ParamAssumption, <1>0
    DEF Handlers, Tasks, NoTask, Prompts, Over, Statuses, NoPayload, NoNotes,
        NoneSeen, Rows, Texts, HGoto, See, Set, Fault, db, signals, redis,
        handlers, turn, worker, promote, history, RowsType, RedisType,
        HandlerType, WorkerType, PromoteType, HistoryType
<1>1. CASE ListForCancel(c)
  <2>1. RowsType' /\ RedisType' /\ WorkerType' /\ PromoteType' /\ HistoryType'
    <3>1. UNCHANGED <<db, redis, worker, promote, spent, history>>
      BY <1>1 DEF ListForCancel
    <3> QED
      BY <3>1, SMTT(60)
  <2>2. HandlerType'
    BY <1>1 DEF ListForCancel
  <2>3. TaskInHand'
    BY <1>1 DEF ListForCancel, TaskInHand
  <2> QED
    BY <2>1, <2>2, <2>3 DEF TypeOK
<1>2. CASE DropPending(c)
  BY <1>2, SMTT(60) DEF DropPending, TypeOK, TaskInHand
<1>3. CASE PublishCancel(c)
  <2>1. RowsType' /\ WorkerType' /\ PromoteType'
    BY <1>3, SMTT(60) DEF PublishCancel, Covered
  <2>2. RedisType'
    BY <1>3 DEF PublishCancel, Covered
  <2>3. HandlerType'
    BY <1>3 DEF PublishCancel, Covered
  <2>4. HistoryType'
    BY <1>3, SMTT(60) DEF PublishCancel, Covered
  <2>5. TaskInHand'
    BY <1>3 DEF PublishCancel, Covered, TaskInHand
  <2> QED
    BY <2>1, <2>2, <2>3, <2>4, <2>5 DEF TypeOK
<1>4. CASE MarkCancelled(c)
  <2>1. RowsType' /\ RedisType' /\ WorkerType' /\ PromoteType' /\ HistoryType'
    BY <1>4, SMTT(60) DEF MarkCancelled
  <2>2. HandlerType'
    <3>1. c \in Handlers /\ seen[c] \in SUBSET Tasks
      BY <1>4 DEF MarkCancelled
    <3>2. bufStatus' \in [Handlers -> Partial(Over \cup {"pending"})]
      BY <3>1, <1>4, BufferedStatus DEF MarkCancelled
    <3> QED
      BY <3>2, <1>4 DEF MarkCancelled
  <2>3. TaskInHand'
    BY <1>4 DEF MarkCancelled, TaskInHand
  <2> QED
    BY <2>1, <2>2, <2>3 DEF TypeOK
<1> QED
  BY <1>1, <1>2, <1>3, <1>4 DEF CancelStep

LEMMA TypeCommit ==
  ASSUME TypeOK, TaskInHand, NEW h \in Handlers, Commit(h)
  PROVE  TypeOK' /\ TaskInHand'
<1>0. /\ RowsType /\ RedisType /\ HandlerType
      /\ WorkerType /\ PromoteType /\ HistoryType
      /\ 0 \in 0 .. MaxReview
  BY ParamAssumption DEF TypeOK
<1> USE ParamAssumption, <1>0
    DEF Handlers, Tasks, NoTask, Prompts, Over, Statuses, NoPayload, NoNotes,
        NoneSeen, Rows, Texts, HGoto, See, Set, Fault, db, signals, redis,
        handlers, turn, worker, promote, history, RowsType, RedisType,
        HandlerType, WorkerType, PromoteType, HistoryType
<1>1. CASE Commit(h)
  <2>1. RedisType' /\ WorkerType' /\ PromoteType'
    BY <1>1, SMTT(60) DEF Commit
  <2>2. RowsType'
    <3>1. /\ bufStatus[h] \in Partial(Statuses)
          /\ bufPrompt[h] \in Partial(Prompts)
      BY SMTT(60) DEF Partial
    <3>2. Overlay(status, bufStatus[h]) \in [Tasks -> Statuses]
      BY <3>1, OverlayType
    <3>3. Overlay(prompt, bufPrompt[h]) \in [Tasks -> Prompts]
      BY <3>1, OverlayType
    <3> QED
      BY <3>2, <3>3, <1>1 DEF Commit
  <2>3. HandlerType'
    <3>1. /\ NoRows \in Partial(Over \cup {"pending"})
          /\ NoRows \in Partial(Msgs)
      BY NoRowsType
    <3> QED
      BY <3>1, <1>1 DEF Commit
  <2>4. HistoryType'
    <3>1. {t \in seen[h] \cap Rows("running") : ~(task = t /\ Deciding)}
            \in SUBSET Tasks
      OBVIOUS
    <3>2. halted' \in SUBSET Tasks
      BY <3>1, <1>1 DEF Commit
    <3> QED
      BY <3>2, <1>1, SMTT(60) DEF Commit
  <2>5. TaskInHand'
    BY <1>1 DEF Commit, TaskInHand
  <2> QED
    BY <2>1, <2>2, <2>3, <2>4, <2>5 DEF TypeOK
<1> QED
  BY <1>1

LEMMA TypeStartStep ==
  ASSUME TypeOK, TaskInHand, StartStep
  PROVE  TypeOK' /\ TaskInHand'
<1>0. /\ RowsType /\ RedisType /\ HandlerType
      /\ WorkerType /\ PromoteType /\ HistoryType
      /\ 0 \in 0 .. MaxReview
  BY ParamAssumption DEF TypeOK
<1> USE ParamAssumption, <1>0
    DEF Handlers, Tasks, NoTask, Prompts, Over, Statuses, NoPayload, NoNotes,
        NoneSeen, Rows, Texts, HGoto, See, Set, Fault, db, signals, redis,
        handlers, turn, worker, promote, history, RowsType, RedisType,
        HandlerType, WorkerType, PromoteType, HistoryType
<1>1. CASE Start
  <2>1. RowsType' /\ HandlerType' /\ PromoteType' /\ HistoryType'
    BY <1>1 DEF Start
  <2>2. RedisType'
    BY <1>1 DEF Start
  <2>3. WorkerType'
    BY <1>1 DEF Start
  <2>4. TaskInHand'
    BY <1>1 DEF Start, TaskInHand
  <2> QED
    BY <2>1, <2>2, <2>3, <2>4 DEF TypeOK
<1>2. CASE RecoverRead
  <2>1. RowsType' /\ RedisType' /\ HandlerType' /\ PromoteType' /\ HistoryType'
    BY <1>2, SMTT(60) DEF RecoverRead, Interrupted
  <2>2. WorkerType'
    BY <1>2 DEF RecoverRead, Interrupted
  <2>3. TaskInHand'
    BY <1>2 DEF RecoverRead, Interrupted, TaskInHand
  <2> QED
    BY <2>1, <2>2, <2>3 DEF TypeOK
<1>3. CASE RecoverWrite
  <2>1. RedisType' /\ HandlerType' /\ PromoteType' /\ HistoryType'
    BY <1>3, SMTT(60) DEF RecoverWrite
  <2>2. RowsType'
    BY <1>3 DEF RecoverWrite
  <2>3. WorkerType'
    BY <1>3 DEF RecoverWrite
  <2>4. TaskInHand'
    BY <1>3 DEF RecoverWrite, TaskInHand
  <2> QED
    BY <2>1, <2>2, <2>3, <2>4 DEF TypeOK
<1>4. CASE QueueResume
  <2>1. RedisType' /\ HandlerType' /\ PromoteType' /\ HistoryType'
    BY <1>4, SMTT(60) DEF QueueResume
  <2>2. RowsType'
    BY <1>4 DEF QueueResume
  <2>3. WorkerType'
    BY <1>4 DEF QueueResume
  <2>4. TaskInHand'
    BY <1>4 DEF QueueResume, TaskInHand
  <2> QED
    BY <2>1, <2>2, <2>3, <2>4 DEF TypeOK
<1>5. CASE EnqueueResume
  <2>1. RowsType' /\ HandlerType' /\ PromoteType' /\ HistoryType'
    BY <1>5 DEF EnqueueResume
  <2>2. RedisType'
    BY <1>5 DEF EnqueueResume
  <2>3. WorkerType'
    BY <1>5 DEF EnqueueResume
  <2>4. TaskInHand'
    BY <1>5 DEF EnqueueResume, TaskInHand
  <2> QED
    BY <2>1, <2>2, <2>3, <2>4 DEF TypeOK
<1>6. CASE Drain
  <2>1. RowsType' /\ RedisType' /\ HandlerType' /\ HistoryType'
    BY <1>6 DEF Drain
  <2>2. WorkerType'
    BY <1>6 DEF Drain
  <2>3. PromoteType'
    BY <1>6 DEF Drain
  <2>4. TaskInHand'
    BY <1>6 DEF Drain, TaskInHand
  <2> QED
    BY <2>1, <2>2, <2>3, <2>4 DEF TypeOK
<1>7. CASE Serve
  <2>1. RowsType' /\ HandlerType' /\ PromoteType' /\ HistoryType'
    BY <1>7 DEF Serve
  <2>2. RedisType'
    BY <1>7 DEF Serve
  <2>3. WorkerType'
    BY <1>7 DEF Serve
  <2>4. TaskInHand'
    BY <1>7 DEF Serve, TaskInHand
  <2> QED
    BY <2>1, <2>2, <2>3, <2>4 DEF TypeOK
<1> QED
  BY <1>1, <1>2, <1>3, <1>4, <1>5, <1>6, <1>7 DEF StartStep

LEMMA TypeLoopStep ==
  ASSUME TypeOK, TaskInHand, LoopStep
  PROVE  TypeOK' /\ TaskInHand'
<1>0. /\ RowsType /\ RedisType /\ HandlerType
      /\ WorkerType /\ PromoteType /\ HistoryType
      /\ 0 \in 0 .. MaxReview
  BY ParamAssumption DEF TypeOK
<1> USE ParamAssumption, <1>0
    DEF Handlers, Tasks, NoTask, Prompts, Over, Statuses, NoPayload, NoNotes,
        NoneSeen, Rows, Texts, HGoto, See, Set, Fault, db, signals, redis,
        handlers, turn, worker, promote, history, RowsType, RedisType,
        HandlerType, WorkerType, PromoteType, HistoryType
<1>1. CASE Exit
  BY <1>1, ZenonT(60) DEF Exit, GoDown, TypeOK, TaskInHand
<1>2. CASE Dequeue
  <2>1. RowsType' /\ HandlerType' /\ PromoteType' /\ HistoryType'
    BY <1>2 DEF Dequeue
  <2>2. RedisType'
    BY <1>2, SMTT(60) DEF Dequeue
  <2>3. WorkerType'
    BY <1>2, SMTT(60) DEF Dequeue
  <2>4. TaskInHand'
    BY <1>2, SMTT(60) DEF Dequeue, TaskInHand
  <2> QED
    BY <2>1, <2>2, <2>3, <2>4 DEF TypeOK
<1>3. CASE Scan
  BY <1>3, SMTT(60) DEF Scan, Waiting, TypeOK, TaskInHand
<1>4. CASE ScanNext
  BY <1>4, SMTT(60) DEF ScanNext, TypeOK, TaskInHand
<1>5. CASE Watchdog
  <2>1. RedisType' /\ HandlerType' /\ PromoteType'
    BY <1>5, SMTT(60) DEF Watchdog, Stuck
  <2>2. RowsType'
    BY <1>5 DEF Watchdog, Stuck
  <2>3. WorkerType'
    BY <1>5 DEF Watchdog, Stuck
  <2>4. HistoryType'
    BY <1>5 DEF Watchdog, Stuck
  <2>5. TaskInHand'
    BY <1>5 DEF Watchdog, Stuck, TaskInHand
  <2> QED
    BY <2>1, <2>2, <2>3, <2>4, <2>5 DEF TypeOK
<1>6. CASE ScanEnds
  <2>1. RowsType' /\ RedisType' /\ HandlerType' /\ PromoteType' /\ HistoryType'
    BY <1>6, SMTT(60) DEF ScanEnds
  <2>2. WorkerType'
    BY <1>6 DEF ScanEnds
  <2>3. TaskInHand'
    BY <1>6 DEF ScanEnds, TaskInHand
  <2> QED
    BY <2>1, <2>2, <2>3 DEF TypeOK
<1>7. CASE ClaimRead
  <2>1. RowsType' /\ RedisType' /\ HandlerType' /\ PromoteType' /\ HistoryType'
    BY <1>7, ZenonT(60) DEF ClaimRead, Claimable
  <2>2. WorkerType'
    <3>1. task \in Tasks
      BY <1>7 DEF ClaimRead, TaskInHand
    <3>2. job' \in SUBSET Msgs
      BY <3>1, <1>7 DEF ClaimRead
    <3> QED
      BY <3>2, <1>7 DEF ClaimRead
  <2>3. TaskInHand'
    BY <1>7 DEF ClaimRead, Claimable, TaskInHand
  <2> QED
    BY <2>1, <2>2, <2>3 DEF TypeOK
<1>8. CASE Missed
  <2>1. RowsType' /\ HandlerType' /\ PromoteType' /\ HistoryType'
    BY <1>8 DEF Missed, AfterTask
  <2>2. RedisType'
    <3>1. task \in Tasks
      BY <1>8 DEF Missed, TaskInHand
    <3>2. Append(queue, task) \in Seq(Tasks)
      BY <3>1
    <3>3. queue' \in {queue, Append(queue, task)}
      BY <1>8 DEF Missed
    <3>4. queue' \in Seq(Tasks)
      BY <3>2, <3>3
    <3> QED
      BY <3>4, <1>8 DEF Missed
  <2>3. WorkerType'
    BY <1>8 DEF Missed, AfterTask
  <2>4. TaskInHand'
    BY <1>8 DEF Missed, AfterTask, TaskInHand
  <2> QED
    BY <2>1, <2>2, <2>3, <2>4 DEF TypeOK
<1>9. CASE Mark
  <2>1. RedisType' /\ HandlerType' /\ PromoteType'
    BY <1>9 DEF Mark
  <2>2. RowsType'
    BY <1>9 DEF Mark
  <2>3. WorkerType'
    BY <1>9 DEF Mark
  <2>4. HistoryType'
    <3>1. task \in Tasks /\ claims[task] + 1 \in Nat
      BY <1>9 DEF Mark, TaskInHand
    <3>2. claims' \in [Tasks -> Nat]
      BY <3>1, <1>9 DEF Mark
    <3> QED
      BY <3>2, <1>9 DEF Mark
  <2>5. TaskInHand'
    BY <1>9 DEF Mark, TaskInHand
  <2> QED
    BY <2>1, <2>2, <2>3, <2>4, <2>5 DEF TypeOK
<1>10. CASE Begin
  BY <1>10, SMTT(60) DEF Begin, TypeOK, TaskInHand
<1>11. CASE Register
  BY <1>11, SMTT(60) DEF Register, TypeOK, TaskInHand
<1> QED
  BY <1>1, <1>2, <1>3, <1>4, <1>5, <1>6, <1>7, <1>8, <1>9, <1>10, <1>11
    DEF LoopStep

LEMMA TypeTurnStep ==
  ASSUME TypeOK, TaskInHand, TurnStep
  PROVE  TypeOK' /\ TaskInHand'
<1>0. /\ RowsType /\ RedisType /\ HandlerType
      /\ WorkerType /\ PromoteType /\ HistoryType
      /\ 0 \in 0 .. MaxReview
  BY ParamAssumption DEF TypeOK
<1> USE ParamAssumption, <1>0
    DEF Handlers, Tasks, NoTask, Prompts, Over, Statuses, NoPayload, NoNotes,
        NoneSeen, Rows, Texts, HGoto, See, Set, Fault, db, signals, redis,
        handlers, turn, worker, promote, history, RowsType, RedisType,
        HandlerType, WorkerType, PromoteType, HistoryType
<1>1. CASE LeaveEarly
  BY <1>1, SMTT(60) DEF LeaveEarly, TypeOK, TaskInHand
<1>2. CASE Turn
  BY <1>2, SMTT(60) DEF Turn, TypeOK, TaskInHand
<1>3. CASE Spawn
  BY <1>3, SMTT(60) DEF Spawn, Kill, TypeOK, TaskInHand
<1>4. CASE AgentEnds
  BY <1>4, SMTT(60) DEF AgentEnds, TypeOK, TaskInHand
<1>5. CASE KillByPoll
  <2>1. RowsType' /\ RedisType' /\ HandlerType' /\ PromoteType' /\ HistoryType'
    BY <1>5, ZenonT(60) DEF KillByPoll, Kill
  <2>2. WorkerType'
    BY <1>5 DEF KillByPoll, Kill
  <2>3. TaskInHand'
    BY <1>5 DEF KillByPoll, Kill, TaskInHand
  <2> QED
    BY <2>1, <2>2, <2>3 DEF TypeOK
<1>6. CASE Consume
  BY <1>6, SMTT(60) DEF Consume, TypeOK, TaskInHand
<1>7. CASE NothingToConsume
  <2>1. RowsType' /\ RedisType' /\ HandlerType' /\ PromoteType' /\ HistoryType'
    BY <1>7, SMTT(60) DEF NothingToConsume, MayReview
  <2>2. WorkerType'
    BY <1>7, SMTT(60) DEF NothingToConsume, MayReview
  <2>3. TaskInHand'
    BY <1>7 DEF NothingToConsume, MayReview, TaskInHand
  <2> QED
    BY <2>1, <2>2, <2>3 DEF TypeOK
<1>8. CASE Release
  BY <1>8, SMTT(60) DEF Release, TypeOK, TaskInHand
<1>9. CASE PersistRead
  <2>1. RowsType' /\ RedisType' /\ HandlerType' /\ PromoteType' /\ HistoryType'
    BY <1>9, SMTT(60) DEF PersistRead, Ended, Unless, Stopped
  <2>2. WorkerType'
    BY <1>9 DEF PersistRead, Ended, Unless, Stopped
  <2>3. TaskInHand'
    BY <1>9 DEF PersistRead, Ended, Unless, Stopped, TaskInHand
  <2> QED
    BY <2>1, <2>2, <2>3 DEF TypeOK
<1>10. CASE PersistWrite
  <2>1. RedisType' /\ HandlerType' /\ PromoteType' /\ HistoryType'
    BY <1>10, SMTT(60) DEF PersistWrite
  <2>2. RowsType'
    BY <1>10, SMTT(60) DEF PersistWrite
  <2>3. WorkerType'
    BY <1>10 DEF PersistWrite
  <2>4. TaskInHand'
    BY <1>10 DEF PersistWrite, TaskInHand
  <2> QED
    BY <2>1, <2>2, <2>3, <2>4 DEF TypeOK
<1>11. CASE Settle
  BY <1>11, SMTT(60) DEF Settle, TypeOK, TaskInHand
<1>12. CASE Deliver
  <2>1. RowsType' /\ RedisType' /\ HandlerType' /\ PromoteType'
    BY <1>12, SMTT(60) DEF Deliver, AfterTask
  <2>2. WorkerType'
    BY <1>12 DEF Deliver, AfterTask
  <2>3. HistoryType'
    <3>1. task \in Tasks
      BY <1>12 DEF Deliver, TaskInHand
    <3>2. PICK said \in SUBSET {task} :
             /\ told' = told \cup said
             /\ answered' = IF outcome = "ok" THEN answered \cup said
                                              ELSE answered
      BY <1>12 DEF Deliver
    <3>3. told' \in SUBSET Tasks /\ answered' \in SUBSET told'
      BY <3>1, <3>2
    <3> QED
      BY <3>3, <1>12 DEF Deliver
  <2>4. TaskInHand'
    BY <1>12 DEF Deliver, AfterTask, TaskInHand
  <2> QED
    BY <2>1, <2>2, <2>3, <2>4 DEF TypeOK
<1> QED
  BY <1>1, <1>2, <1>3, <1>4, <1>5, <1>6, <1>7, <1>8, <1>9, <1>10, <1>11, <1>12
    DEF TurnStep

LEMMA TypePromoteStep ==
  ASSUME TypeOK, TaskInHand, PromoteStep
  PROVE  TypeOK' /\ TaskInHand'
<1>0. /\ RowsType /\ RedisType /\ HandlerType
      /\ WorkerType /\ PromoteType /\ HistoryType
      /\ 0 \in 0 .. MaxReview
  BY ParamAssumption DEF TypeOK
<1> USE ParamAssumption, <1>0
    DEF Handlers, Tasks, NoTask, Prompts, Over, Statuses, NoPayload, NoNotes,
        NoneSeen, Rows, Texts, HGoto, See, Set, Fault, db, signals, redis,
        handlers, turn, worker, promote, history, RowsType, RedisType,
        HandlerType, WorkerType, PromoteType, HistoryType
<1>1. CASE PromoteCheck
  <2>1. RowsType' /\ RedisType' /\ HandlerType' /\ WorkerType' /\ HistoryType'
    BY <1>1, SMTT(60) DEF PromoteCheck
  <2>2. PromoteType'
    BY <1>1 DEF PromoteCheck
  <2>3. TaskInHand'
    BY <1>1 DEF PromoteCheck, TaskInHand
  <2> QED
    BY <2>1, <2>2, <2>3 DEF TypeOK
<1>2. CASE PromoteTake
  <2>1. RowsType' /\ HandlerType' /\ WorkerType' /\ HistoryType'
    <3>1. UNCHANGED <<db, handlers, worker, spent, history>>
      BY <1>2 DEF PromoteTake
    <3> QED
      BY <3>1, SMTT(60)
  <2>2. RedisType'
    BY <1>2 DEF PromoteTake
  <2>3. PromoteType'
    BY <1>2 DEF PromoteTake
  <2>4. TaskInHand'
    BY <1>2 DEF PromoteTake, TaskInHand
  <2> QED
    BY <2>1, <2>2, <2>3, <2>4 DEF TypeOK
<1>3. CASE PromoteRead
  BY <1>3, SMTT(60) DEF PromoteRead, TypeOK, TaskInHand
<1>4. CASE PromoteWrite
  <2>1. RedisType' /\ HandlerType' /\ WorkerType'
    BY <1>4, SMTT(60) DEF PromoteWrite, Promoted
  <2>2. RowsType'
    BY <1>4, SMTT(60) DEF PromoteWrite, Promoted
  <2>3. PromoteType'
    BY <1>4 DEF PromoteWrite, Promoted
  <2>4. HistoryType'
    BY <1>4 DEF PromoteWrite, Promoted
  <2>5. TaskInHand'
    BY <1>4 DEF PromoteWrite, Promoted, TaskInHand
  <2> QED
    BY <2>1, <2>2, <2>3, <2>4, <2>5 DEF TypeOK
<1>5. CASE PromoteEnqueue
  <2>1. RowsType' /\ HandlerType' /\ WorkerType' /\ HistoryType'
    BY <1>5, SMTT(60) DEF PromoteEnqueue
  <2>2. RedisType'
    <3>1. heldTask \in Tasks
      BY <1>5 DEF PromoteEnqueue, TaskInHand
    <3>2. queue' \in Seq(Tasks)
      BY <3>1, <1>5 DEF PromoteEnqueue
    <3> QED
      BY <3>2, <1>5 DEF PromoteEnqueue
  <2>3. PromoteType'
    BY <1>5 DEF PromoteEnqueue
  <2>4. TaskInHand'
    BY <1>5 DEF PromoteEnqueue, TaskInHand
  <2> QED
    BY <2>1, <2>2, <2>3, <2>4 DEF TypeOK
<1> QED
  BY <1>1, <1>2, <1>3, <1>4, <1>5 DEF PromoteStep

LEMMA TypeListeners ==
  ASSUME TypeOK, TaskInHand,
         (\E t \in Tasks : HearCancel(t)) \/ HearRedirect \/ HeartbeatExpires
  PROVE  TypeOK' /\ TaskInHand'
<1>0. /\ RowsType /\ RedisType /\ HandlerType
      /\ WorkerType /\ PromoteType /\ HistoryType
      /\ 0 \in 0 .. MaxReview
  BY ParamAssumption DEF TypeOK
<1> USE ParamAssumption, <1>0
    DEF Handlers, Tasks, NoTask, Prompts, Over, Statuses, NoPayload, NoNotes,
        NoneSeen, Rows, Texts, HGoto, See, Set, Fault, db, signals, redis,
        handlers, turn, worker, promote, history, RowsType, RedisType,
        HandlerType, WorkerType, PromoteType, HistoryType
<1>1. ASSUME NEW t \in Tasks, HearCancel(t)
      PROVE  TypeOK' /\ TaskInHand'
  <2>1. RowsType' /\ HandlerType' /\ PromoteType' /\ HistoryType'
    BY <1>1 DEF HearCancel, Kill
  <2>2. RedisType'
    BY <1>1 DEF HearCancel, Kill
  <2>3. WorkerType'
    BY <1>1, SMTT(60) DEF HearCancel, Kill
  <2>4. TaskInHand'
    BY <1>1 DEF HearCancel, Kill, TaskInHand
  <2> QED
    BY <2>1, <2>2, <2>3, <2>4 DEF TypeOK
<1>2. CASE HearRedirect
  <2>1. RowsType' /\ HandlerType' /\ HistoryType'
    BY <1>2 DEF HearRedirect, Kill
  <2>2. RedisType'
    BY <1>2 DEF HearRedirect, Kill
  <2>3. WorkerType'
    BY <1>2 DEF HearRedirect, Kill
  <2>4. PromoteType'
    BY <1>2 DEF HearRedirect, Kill
  <2>5. TaskInHand'
    BY <1>2 DEF HearRedirect, Kill, TaskInHand
  <2> QED
    BY <2>1, <2>2, <2>3, <2>4, <2>5 DEF TypeOK
<1>3. CASE HeartbeatExpires
  <2>1. RowsType' /\ HandlerType' /\ WorkerType' /\ PromoteType' /\ HistoryType'
    <3>1. UNCHANGED <<db, handlers, worker, promote, spent, history>>
      BY <1>3 DEF HeartbeatExpires
    <3>2. RowsType' /\ HandlerType'
      BY <3>1
    <3>3. WorkerType' /\ PromoteType'
      BY <3>1
    <3>4. HistoryType'
      BY <3>1
    <3> QED
      BY <3>2, <3>3, <3>4
  <2>2. RedisType'
    BY <1>3 DEF HeartbeatExpires
  <2>3. TaskInHand'
    BY <1>3 DEF HeartbeatExpires, TaskInHand
  <2> QED
    BY <2>1, <2>2, <2>3 DEF TypeOK
<1> QED
  BY <1>1, <1>2, <1>3

LEMMA TypeFaultStep ==
  ASSUME TypeOK, TaskInHand, FaultStep
  PROVE  TypeOK' /\ TaskInHand'
<1>0. /\ RowsType /\ RedisType /\ HandlerType
      /\ WorkerType /\ PromoteType /\ HistoryType
      /\ 0 \in 0 .. MaxReview
  BY ParamAssumption DEF TypeOK
<1> USE ParamAssumption, <1>0
    DEF Handlers, Tasks, NoTask, Prompts, Over, Statuses, NoPayload, NoNotes,
        NoneSeen, Rows, Texts, HGoto, See, Set, Fault, db, signals, redis,
        handlers, turn, worker, promote, history, RowsType, RedisType,
        HandlerType, WorkerType, PromoteType, HistoryType
<1>1. CASE Crash
  BY <1>1, ZenonT(60) DEF Crash, GoDown, TypeOK, TaskInHand
<1>2. CASE Term
  <2>1. RowsType' /\ HandlerType' /\ PromoteType'
    BY <1>2 DEF Term, Kill
  <2>2. RedisType'
    BY <1>2 DEF Term, Kill
  <2>3. WorkerType'
    BY <1>2, SMTT(60) DEF Term, Kill
  <2>4. HistoryType'
    BY <1>2 DEF Term, Kill
  <2>5. TaskInHand'
    BY <1>2 DEF Term, Kill, TaskInHand
  <2> QED
    BY <2>1, <2>2, <2>3, <2>4, <2>5 DEF TypeOK
<1>3. CASE Reload
  <2>1. RowsType' /\ HandlerType'
    BY <1>3 DEF Reload, GoDown
  <2>2. RedisType'
    <3>1. CASE queue = <<>>
      BY <3>1, <1>3 DEF Reload, GoDown
    <3>2. CASE queue # <<>>
      <4>1. Append(Tail(queue), Head(queue)) \in Seq(Tasks)
        BY <3>2
      <4>2. queue' \in Seq(Tasks)
        BY <3>2, <4>1, <1>3 DEF Reload
      <4> QED
        BY <4>2, <1>3 DEF Reload, GoDown
    <3> QED
      BY <3>1, <3>2
  <2>3. WorkerType'
    BY <1>3 DEF Reload, GoDown
  <2>4. PromoteType'
    BY <1>3 DEF Reload, GoDown
  <2>5. HistoryType'
    BY <1>3 DEF Reload, GoDown
  <2>6. TaskInHand'
    BY <1>3 DEF Reload, GoDown, TaskInHand
  <2> QED
    BY <2>1, <2>2, <2>3, <2>4, <2>5, <2>6 DEF TypeOK
<1>4. CASE RecoverFails
  <2>1. RowsType' /\ RedisType' /\ HandlerType' /\ PromoteType'
    BY <1>4, SMTT(60) DEF RecoverFails
  <2>2. WorkerType'
    BY <1>4 DEF RecoverFails
  <2>3. HistoryType'
    BY <1>4 DEF RecoverFails
  <2>4. TaskInHand'
    BY <1>4 DEF RecoverFails, TaskInHand
  <2> QED
    BY <2>1, <2>2, <2>3, <2>4 DEF TypeOK
<1>5. CASE MarkFails
  BY <1>5, SMTT(60) DEF MarkFails, TypeOK, TaskInHand
<1>6. CASE RegisterFails
  BY <1>6, SMTT(60) DEF RegisterFails, TypeOK, TaskInHand
<1>7. CASE PersistLost
  BY <1>7, SMTT(60) DEF PersistLost, Ended, TypeOK, TaskInHand
<1>8. CASE EndFails
  BY <1>8, SMTT(60) DEF EndFails, TypeOK, TaskInHand
<1>9. CASE PromoteFails
  BY <1>9, SMTT(60) DEF PromoteFails, TypeOK, TaskInHand
<1>10. ASSUME NEW h \in Handlers, Rollback(h)
      PROVE  TypeOK' /\ TaskInHand'
  <2>1. RowsType' /\ RedisType' /\ WorkerType' /\ PromoteType'
    BY <1>10, SMTT(60) DEF Rollback
  <2>2. HandlerType'
    <3>1. /\ NoRows \in Partial(Over \cup {"pending"})
          /\ NoRows \in Partial(Msgs)
      BY NoRowsType
    <3> QED
      BY <3>1, <1>10 DEF Rollback
  <2>3. HistoryType'
    BY <1>10 DEF Rollback
  <2>4. TaskInHand'
    BY <1>10 DEF Rollback, TaskInHand
  <2> QED
    BY <2>1, <2>2, <2>3, <2>4 DEF TypeOK
<1>11. ASSUME NEW h \in Handlers, HandlerFails(h)
      PROVE  TypeOK' /\ TaskInHand'
  BY <1>11, SMTT(60) DEF HandlerFails, TypeOK, TaskInHand
<1>12. ASSUME NEW m \in Msgs, CreateUnqueued(m)
      PROVE  TypeOK' /\ TaskInHand'
  <2>1. RedisType' /\ WorkerType' /\ PromoteType'
    BY <1>12, SMTT(60) DEF CreateUnqueued
  <2>2. RowsType'
    BY <1>12 DEF CreateUnqueued
  <2>3. HandlerType'
    <3>1. m \in Handlers /\ {made + 1} \in SUBSET Tasks
      BY <1>12 DEF CreateUnqueued
    <3>2. bufStatus' \in [Handlers -> Partial(Over \cup {"pending"})]
      BY <3>1, <1>12, BufferedStatus DEF CreateUnqueued
    <3>3. bufPrompt' \in [Handlers -> Partial(Msgs)]
      BY <3>1, <1>12, BufferedPrompt DEF CreateUnqueued
    <3> QED
      BY <3>2, <3>3, <1>12 DEF CreateUnqueued
  <2>4. HistoryType'
    BY <1>12 DEF CreateUnqueued
  <2>5. TaskInHand'
    BY <1>12 DEF CreateUnqueued, TaskInHand
  <2> QED
    BY <2>1, <2>2, <2>3, <2>4, <2>5 DEF TypeOK
<1> QED
  BY <1>1, <1>2, <1>3, <1>4, <1>5, <1>6, <1>7, <1>8, <1>9, <1>10, <1>11, <1>12
    DEF FaultStep

LEMMA TypeInit == Init => TypeOK /\ TaskInHand
<1> SUFFICES ASSUME Init PROVE TypeOK /\ TaskInHand
  OBVIOUS
<1> USE ParamAssumption
    DEF Init, Handlers, Tasks, NoTask, Prompts, Over, Statuses, NoPayload,
        NoNotes, NoneSeen
<1>1. RowsType
  BY DEF RowsType
<1>2. RedisType
  <2>1. queue \in Seq(Tasks) /\ lease \in Tasks \cup {NoTask}
    OBVIOUS
  <2>2. payload \in [head : Prompts, all : SUBSET Msgs]
    OBVIOUS
  <2>3. notes \in [orig : Prompts, said : SUBSET Msgs]
    OBVIOUS
  <2> QED
    BY <2>1, <2>2, <2>3 DEF RedisType
<1>3. HandlerType
  <2>1. NoRows \in Partial(Over \cup {"pending"}) /\ NoRows \in Partial(Msgs)
    BY NoRowsType
  <2> QED
    BY <2>1 DEF HandlerType
<1>4. WorkerType
  <2>1. reviews \in 0 .. MaxReview
    OBVIOUS
  <2>2. wpc = "down" /\ outcome = "none" /\ fate = "kept"
    OBVIOUS
  <2>3. task = 0 /\ cur = 0 /\ ~again /\ ~tell /\ ~stop
    OBVIOUS
  <2>4. job = {} /\ todo = {} /\ cancelReq = {}
    OBVIOUS
  <2> QED
    BY <2>1, <2>2, <2>3, <2>4 DEF WorkerType, NoTask
<1>5. PromoteType
  BY DEF PromoteType
<1>6. HistoryType
  BY DEF HistoryType
<1>7. TaskInHand
  BY DEF TaskInHand
<1> QED
  BY <1>1, <1>2, <1>3, <1>4, <1>5, <1>6, <1>7 DEF TypeOK

LEMMA TypeStutter ==
  ASSUME TypeOK, TaskInHand, UNCHANGED vars PROVE TypeOK' /\ TaskInHand'
<1>1. UNCHANGED <<db, redis, handlers, worker, promote, spent, history>>
  BY DEF vars
<1> USE <1>1 DEF db, signals, redis, handlers, turn, worker, promote, history
<1>2. RowsType' /\ RedisType'
  BY DEF TypeOK, RowsType, RedisType
<1>3. HandlerType'
  BY DEF TypeOK, HandlerType
<1>4. WorkerType'
  BY DEF TypeOK, WorkerType
<1>5. PromoteType' /\ HistoryType' /\ TaskInHand'
  BY DEF TypeOK, PromoteType, HistoryType, TaskInHand
<1> QED
  BY <1>2, <1>3, <1>4, <1>5 DEF TypeOK

LEMMA TypeNext == TypeOK /\ TaskInHand /\ [Next]_vars => TypeOK' /\ TaskInHand'
<1> SUFFICES ASSUME TypeOK, TaskInHand, [Next]_vars PROVE TypeOK' /\ TaskInHand'
  OBVIOUS
<1>1. ASSUME NEW h \in Handlers, HandlerStep(h) PROVE TypeOK' /\ TaskInHand'
  BY <1>1, TypeMessageStep, TypeCancelStep, TypeCommit DEF HandlerStep
<1>2. CASE MainStep
  BY <1>2, TypeStartStep, TypeLoopStep, TypeTurnStep DEF MainStep
<1>3. CASE (\E t \in Tasks : HearCancel(t)) \/ HearRedirect \/ HeartbeatExpires
  BY <1>3, TypeListeners
<1>4. CASE PromoteStep
  BY <1>4, TypePromoteStep
<1>5. CASE FaultStep
  BY <1>5, TypeFaultStep
<1>6. CASE UNCHANGED vars
  BY <1>6, TypeStutter
<1> QED
  BY <1>1, <1>2, <1>3, <1>4, <1>5, <1>6 DEF Next

LEMMA TypeInvariance == Spec => [](TypeOK /\ TaskInHand)
<1>1. TypeOK /\ TaskInHand /\ [Next]_vars => (TypeOK /\ TaskInHand)'
  BY TypeNext
<1> QED
  BY TypeInit, <1>1, PTL DEF Spec

\* Every variable keeps its type, and who is about to use a task id has one:
\* the rows, the Redis keys, the handlers and the worker of one session.
THEOREM TypeCorrect == Spec => []TypeOK
<1> QED
  BY TypeInvariance, PTL

(* One turn per task. *)

\* Most steps create, claim and write no pending row.
NothingNew ==
    /\ UNCHANGED <<made, claims>>
    /\ \A t \in Tasks : status'[t] = "pending" => status[t] = "pending"
    /\ \A h \in Handlers : \A t \in DOMAIN bufStatus'[h] :
         bufStatus'[h][t] = "pending" =>
           t \in DOMAIN bufStatus[h] /\ bufStatus[h][t] = "pending"
    /\ wpc' = "mark" => wpc = "mark" /\ task' = task

LEMMA ClaimsKept == ASSUME TypeOK, Claims, NothingNew PROVE Claims'
<1> USE DEF Claims, NothingNew
<1>1. PendingUnclaimed' /\ NotCreatedUnclaimed' /\ OneTurnPerTask'
  BY DEF PendingUnclaimed, NotCreatedUnclaimed, OneTurnPerTask
<1>2. MarkUnclaimed'
  BY DEF MarkUnclaimed
<1>3. CommitsUnclaimed'
  <2>1. \A g \in Handlers : DOMAIN bufStatus[g] \subseteq Tasks
    BY DEF TypeOK, HandlerType, Partial
  <2>2. \A g \in Handlers : \A t \in DOMAIN bufStatus'[g] :
          bufStatus'[g][t] = "pending" =>
            /\ t \in Tasks /\ t \in DOMAIN bufStatus[g]
            /\ bufStatus[g][t] = "pending" /\ status'[t] # "pending"
    BY <2>1 DEF CommitsUnclaimed
  <2> QED
    BY <2>2 DEF CommitsUnclaimed
<1> QED
  BY <1>1, <1>2, <1>3

LEMMA BufferedKept ==
  ASSUME HandlerType, NEW h \in Handlers, NEW ts \in SUBSET Tasks, NEW v,
         v # "pending", bufStatus' = Buffered(bufStatus, h, ts, v)
  PROVE  \A g \in Handlers : \A t \in DOMAIN bufStatus'[g] :
           bufStatus'[g][t] = "pending" =>
             t \in DOMAIN bufStatus[g] /\ bufStatus[g][t] = "pending"
  BY DEF HandlerType, Buffered

\* A row that is created when nobody has claimed it.
LEMMA ClaimsCreate ==
  ASSUME TypeOK, Claims, NEW m \in Msgs, made < MaxTask, made' = made + 1,
         bufStatus' = Buffered(bufStatus, m, {made + 1}, "pending"),
         UNCHANGED <<status, claims, wpc, task>>
  PROVE  Claims'
<1> USE DEF Claims
<1>1. made \in Nat /\ made + 1 \in Tasks /\ m \in Handlers
  BY ParamAssumption DEF TypeOK, RowsType, Tasks, Handlers
<1>2. \A t \in Tasks : t \in Nat
  BY DEF Tasks
<1>3. PendingUnclaimed' /\ OneTurnPerTask'
  BY <1>1, <1>2 DEF PendingUnclaimed, OneTurnPerTask
<1>4. NotCreatedUnclaimed'
  BY <1>1, <1>2 DEF NotCreatedUnclaimed
<1>5. MarkUnclaimed'
  <2>1. wpc = "mark" => task <= made /\ task \in Nat
    BY DEF MarkUnclaimed, TypeOK, WorkerType, Tasks, NoTask
  <2> QED
    BY <1>1, <2>1 DEF MarkUnclaimed
<1>6. \A g \in Handlers : \A t \in DOMAIN bufStatus'[g] :
        bufStatus'[g][t] = "pending" =>
          \/ g = m /\ t = made + 1
          \/ t \in DOMAIN bufStatus[g] /\ bufStatus[g][t] = "pending"
  BY <1>1 DEF Buffered, TypeOK, HandlerType
<1>7. \A g \in Handlers : \A t \in DOMAIN bufStatus[g] :
        bufStatus[g][t] = "pending" => t \in Nat /\ t <= made
  <2>1. \A g \in Handlers : DOMAIN bufStatus[g] \subseteq Tasks
    BY DEF TypeOK, HandlerType, Partial
  <2> QED
    BY <2>1, <1>2 DEF CommitsUnclaimed
<1>8. /\ claims[made + 1] = 0 /\ status[made + 1] # "pending"
      /\ ~(wpc = "mark" /\ task = made + 1)
  <2>1. wpc = "mark" => task <= made
    BY DEF MarkUnclaimed
  <2> QED
    BY <1>1, <2>1 DEF NotCreatedUnclaimed, PendingUnclaimed
<1>9. CommitsUnclaimed'
  <2> SUFFICES ASSUME NEW g \in Handlers, NEW t \in DOMAIN bufStatus'[g],
                      bufStatus'[g][t] = "pending"
               PROVE  /\ t <= made' /\ claims'[t] = 0 /\ status'[t] # "pending"
                      /\ ~(wpc' = "mark" /\ task' = t)
                      /\ \A f \in Handlers \ {g} :
                           t \in DOMAIN bufStatus'[f] =>
                             bufStatus'[f][t] # "pending"
    BY DEF CommitsUnclaimed
  <2>1. CASE g = m /\ t = made + 1
    BY <2>1, <1>1, <1>6, <1>7, <1>8, SMTT(60)
  <2>2. CASE t \in DOMAIN bufStatus[g] /\ bufStatus[g][t] = "pending"
    <3>1. t \in Nat /\ t <= made
      BY <2>2, <1>7
    <3>2. /\ t <= made' /\ claims'[t] = 0 /\ status'[t] # "pending"
          /\ ~(wpc' = "mark" /\ task' = t)
      BY <2>2, <3>1, <1>1 DEF CommitsUnclaimed
    <3>3. ASSUME NEW f \in Handlers \ {g}, t \in DOMAIN bufStatus'[f],
                 bufStatus'[f][t] = "pending"
          PROVE  FALSE
      <4>1. t # made + 1
        BY <3>1, <1>1
      <4>2. t \in DOMAIN bufStatus[f] /\ bufStatus[f][t] = "pending"
        BY <3>3, <4>1, <1>6
      <4> QED
        BY <2>2, <4>2 DEF CommitsUnclaimed
    <3> QED
      BY <3>2, <3>3
  <2> QED
    BY <2>1, <2>2, <1>6
<1> QED
  BY <1>3, <1>4, <1>5, <1>9

\* A handler's commit makes its new row pending; nobody else writes that row.
LEMMA ClaimsCommit ==
  ASSUME TypeOK, Claims, NEW h \in Handlers, Commit(h) PROVE Claims'
<1> USE DEF Claims
<1>1. /\ status' = Overlay(status, bufStatus[h])
      /\ bufStatus' = [bufStatus EXCEPT ![h] = NoRows]
      /\ UNCHANGED <<made, claims, wpc, task>>
  BY DEF Commit, worker, turn
<1>2. \A t \in Tasks : status'[t] = "pending" =>
        \/ status[t] = "pending"
        \/ t \in DOMAIN bufStatus[h] /\ bufStatus[h][t] = "pending"
  BY <1>1 DEF Overlay
<1>3. PendingUnclaimed'
  BY <1>1, <1>2 DEF PendingUnclaimed, CommitsUnclaimed
<1>4. NotCreatedUnclaimed' /\ OneTurnPerTask' /\ MarkUnclaimed'
  BY <1>1 DEF NotCreatedUnclaimed, OneTurnPerTask, MarkUnclaimed
<1>5. \A g \in Handlers : \A t \in DOMAIN bufStatus'[g] :
        g # h /\ t \in DOMAIN bufStatus[g] /\ bufStatus'[g][t] = bufStatus[g][t]
        /\ t \in Tasks
  <2>1. bufStatus \in [Handlers -> Partial(Over \cup {"pending"})]
    BY DEF TypeOK, HandlerType
  <2>2. \A g \in Handlers : DOMAIN bufStatus[g] \subseteq Tasks
    BY <2>1 DEF Partial
  <2> QED
    BY <1>1, <2>1, <2>2 DEF NoRows
<1>6. CommitsUnclaimed'
  BY <1>1, <1>2, <1>5 DEF CommitsUnclaimed
<1> QED
  BY <1>3, <1>4, <1>6

\* The worker's own transactions commit a new pending row at once.
LEMMA ClaimsInsert ==
  ASSUME TypeOK, Claims, made < MaxTask, made' = made + 1,
         \A t \in Tasks : status'[t] = "pending" =>
                            status[t] = "pending" \/ t = made + 1,
         UNCHANGED <<claims, bufStatus>>,
         wpc' = "mark" => wpc = "mark" /\ task' = task
  PROVE  Claims'
<1> USE DEF Claims
<1>1. made \in Nat /\ made + 1 \in Tasks
  BY ParamAssumption DEF TypeOK, RowsType, Tasks
<1>2. \A t \in Tasks : t \in Nat
  BY DEF Tasks
<1>3. PendingUnclaimed' /\ NotCreatedUnclaimed' /\ OneTurnPerTask'
  BY <1>1, <1>2 DEF PendingUnclaimed, NotCreatedUnclaimed, OneTurnPerTask
<1>4. MarkUnclaimed'
  <2>1. task \in Nat
    BY <1>2 DEF TypeOK, WorkerType, NoTask
  <2> QED
    BY <1>1, <2>1 DEF MarkUnclaimed
<1>5. CommitsUnclaimed'
  <2>1. \A g \in Handlers : \A t \in DOMAIN bufStatus[g] : t \in Tasks
    BY DEF TypeOK, HandlerType, Partial
  <2> QED
    BY <1>1, <1>2, <2>1 DEF CommitsUnclaimed
<1> QED
  BY <1>3, <1>4, <1>5

LEMMA ClaimsClaimRead ==
  ASSUME TypeOK, TaskInHand, Claims, ClaimRead PROVE Claims'
<1> USE DEF Claims
<1>1. /\ UNCHANGED <<status, made, claims, bufStatus, task>>
      /\ wpc' = "mark" => status[task] = "pending" /\ task \in Tasks
  BY DEF ClaimRead, Claimable, db, handlers, history, TaskInHand
<1>2. PendingUnclaimed' /\ NotCreatedUnclaimed' /\ OneTurnPerTask'
  BY <1>1 DEF PendingUnclaimed, NotCreatedUnclaimed, OneTurnPerTask
<1>3. MarkUnclaimed'
  BY <1>1 DEF MarkUnclaimed, PendingUnclaimed
<1>4. CommitsUnclaimed'
  BY <1>1 DEF CommitsUnclaimed
<1> QED
  BY <1>2, <1>3, <1>4

\* The claim itself: no other row's count changes.
LEMMA ClaimsMark ==
  ASSUME TypeOK, TaskInHand, Claims, Mark PROVE Claims'
<1> USE DEF Claims
<1>1. /\ task \in Tasks /\ claims[task] = 0 /\ task <= made
      /\ status' = [status EXCEPT ![task] = "running"]
      /\ claims' = [claims EXCEPT ![task] = @ + 1]
      /\ wpc = "mark" /\ wpc' = "begin"
      /\ UNCHANGED <<made, bufStatus, task>>
  BY DEF Mark, handlers, turn, TaskInHand, MarkUnclaimed
<1>2. /\ claims'[task] = 1 /\ status'[task] = "running"
      /\ \A t \in Tasks \ {task} :
           claims'[t] = claims[t] /\ status'[t] = status[t]
  BY <1>1 DEF TypeOK, RowsType, HistoryType
<1>3. PendingUnclaimed' /\ OneTurnPerTask' /\ MarkUnclaimed'
  BY <1>1, <1>2 DEF PendingUnclaimed, OneTurnPerTask, MarkUnclaimed
<1>4. NotCreatedUnclaimed'
  <2>1. made \in Nat /\ task \in Nat
    BY <1>1 DEF TypeOK, RowsType, Tasks
  <2> QED
    BY <1>1, <1>2, <2>1 DEF NotCreatedUnclaimed
<1>5. CommitsUnclaimed'
  <2>1. \A g \in Handlers : \A t \in DOMAIN bufStatus[g] : t \in Tasks
    BY DEF TypeOK, HandlerType, Partial
  <2> QED
    BY <1>1, <1>2, <2>1 DEF CommitsUnclaimed
<1> QED
  BY <1>3, <1>4, <1>5

LEMMA ClaimsMessage ==
  ASSUME TypeOK, Claims, NEW m \in Msgs, MessageStep(m) PROVE Claims'
<1>1. m \in Handlers
  BY DEF Handlers
<1>2. CASE FailStale(m)
  <2>1. /\ seen[m] \in SUBSET Tasks
        /\ bufStatus' = Buffered(bufStatus, m, seen[m], "failed")
    BY <1>1, <1>2 DEF FailStale, TypeOK, HandlerType
  <2>2. NothingNew
    BY <1>1, <1>2, <2>1, BufferedKept
    DEF FailStale, NothingNew, TypeOK, db, worker, turn, history
  <2> QED
    BY <2>2, ClaimsKept
<1>3. CASE Coalesce(m)
  <2>1. PICK primary \in Tasks :
          bufStatus' = Buffered(bufStatus, m, seen[m] \ {primary}, "cancelled")
    BY <1>3 DEF Coalesce
  <2>2. seen[m] \ {primary} \in SUBSET Tasks
    BY <1>1 DEF TypeOK, HandlerType
  <2>3. NothingNew
    BY <1>1, <1>3, <2>1, <2>2, BufferedKept
    DEF Coalesce, NothingNew, TypeOK, db, worker, turn, history
  <2> QED
    BY <2>3, ClaimsKept
<1>4. CASE Create(m)
  BY <1>4, ClaimsCreate DEF Create, worker, turn, history
<1>5. CASE ListRunning(m) \/ ReadLease(m) \/ ListPending(m)
           \/ NoteRead(m) \/ NoteWrite(m) \/ Store(m) \/ Announce(m)
  <2>1. NothingNew
    BY <1>5 DEF NothingNew, ListRunning, ReadLease, ListPending, NoteRead,
                NoteWrite, Store, Announce, db, worker, turn, history
  <2> QED
    BY <2>1, ClaimsKept
<1> QED
  BY <1>2, <1>3, <1>4, <1>5 DEF MessageStep

LEMMA ClaimsCancel ==
  ASSUME TypeOK, Claims, NEW c \in Cancels, CancelStep(c) PROVE Claims'
<1>1. c \in Handlers
  BY DEF Handlers
<1>2. CASE MarkCancelled(c)
  <2>1. /\ seen[c] \in SUBSET Tasks
        /\ bufStatus' = Buffered(bufStatus, c, seen[c], "cancelled")
    BY <1>1, <1>2 DEF MarkCancelled, TypeOK, HandlerType
  <2>2. NothingNew
    BY <1>1, <1>2, <2>1, BufferedKept
    DEF MarkCancelled, NothingNew, TypeOK, db, worker, turn, history
  <2> QED
    BY <2>2, ClaimsKept
<1>3. CASE ListForCancel(c) \/ DropPending(c) \/ PublishCancel(c)
  <2>1. NothingNew
    BY <1>3 DEF NothingNew, ListForCancel, DropPending, PublishCancel,
                db, worker, turn, history
  <2> QED
    BY <2>1, ClaimsKept
<1> QED
  BY <1>2, <1>3 DEF CancelStep

LEMMA ClaimsStart == ASSUME TypeOK, Claims, StartStep PROVE Claims'
<1>1. CASE QueueResume
  <2>1. \A t \in Tasks : status'[t] = "pending" =>
                           status[t] = "pending" \/ t = made + 1
    BY <1>1 DEF QueueResume, Set
  <2> QED
    BY <1>1, <2>1, ClaimsInsert DEF QueueResume, handlers, history
<1>2. CASE RecoverWrite
  <2>1. \A t \in Tasks : status'[t] = "pending" => status[t] = "pending"
    BY <1>2 DEF RecoverWrite, Set
  <2>2. NothingNew
    BY <1>2, <2>1 DEF RecoverWrite, NothingNew, handlers, history
  <2> QED
    BY <2>2, ClaimsKept
<1>3. CASE Start \/ RecoverRead \/ EnqueueResume \/ Drain \/ Serve
  <2>1. NothingNew
    BY <1>3 DEF NothingNew, Start, RecoverRead, EnqueueResume, Drain, Serve,
                db, handlers, turn, history
  <2> QED
    BY <2>1, ClaimsKept
<1> QED
  BY <1>1, <1>2, <1>3 DEF StartStep

LEMMA ClaimsLoop == ASSUME TypeOK, TaskInHand, Claims, LoopStep PROVE Claims'
<1>1. CASE ClaimRead
  BY <1>1, ClaimsClaimRead
<1>2. CASE Mark
  BY <1>2, ClaimsMark
<1>3. CASE Watchdog
  <2>1. \A t \in Tasks : status'[t] = "pending" => status[t] = "pending"
    BY <1>3 DEF Watchdog, Set
  <2>2. NothingNew
    BY <1>3, <2>1 DEF Watchdog, NothingNew, handlers
  <2> QED
    BY <2>2, ClaimsKept
<1>4. CASE Exit \/ Dequeue \/ Scan \/ ScanNext \/ ScanEnds \/ Missed \/ Begin
           \/ Register
  <2>1. NothingNew
    BY <1>4 DEF NothingNew, Exit, GoDown, Dequeue, Scan, ScanNext, ScanEnds,
                Missed, AfterTask, Begin, Register, db, handlers, turn, history
  <2> QED
    BY <2>1, ClaimsKept
<1> QED
  BY <1>1, <1>2, <1>3, <1>4 DEF LoopStep

LEMMA ClaimsTurn == ASSUME TypeOK, Claims, TurnStep PROVE Claims'
<1>1. CASE PersistWrite
  <2>1. fate # "pending"
    BY DEF TypeOK, WorkerType, Over
  <2>2. \A t \in Tasks : status'[t] = "pending" => status[t] = "pending"
    BY <1>1, <2>1 DEF PersistWrite, TypeOK, RowsType
  <2>3. NothingNew
    BY <1>1, <2>2 DEF PersistWrite, NothingNew, handlers, history
  <2> QED
    BY <2>3, ClaimsKept
<1>2. CASE LeaveEarly \/ Turn \/ Spawn \/ AgentEnds \/ KillByPoll \/ Consume
  <2>1. NothingNew
    BY <1>2 DEF NothingNew, LeaveEarly, Turn, Spawn, AgentEnds, KillByPoll,
                Kill, Consume, db, handlers, turn, history
  <2> QED
    BY <2>1, ClaimsKept
<1>3. CASE NothingToConsume \/ Release \/ PersistRead \/ Settle \/ Deliver
  <2>1. NothingNew
    BY <1>3 DEF NothingNew, NothingToConsume, Release, PersistRead, Settle,
                Deliver, AfterTask, db, handlers, turn, history
  <2> QED
    BY <2>1, ClaimsKept
<1> QED
  BY <1>1, <1>2, <1>3 DEF TurnStep

LEMMA ClaimsPromote == ASSUME TypeOK, Claims, PromoteStep PROVE Claims'
<1>1. CASE PromoteWrite
  <2>1. PICK t \in Tasks :
          /\ IF lseen.pending # {}
               THEN UNCHANGED made
               ELSE t = made + 1 /\ made' = made + 1
          /\ status' = [Set(Set(status, lseen.stale, "failed"),
                            lseen.pending \ {t}, "cancelled")
                         EXCEPT ![t] = Promoted(t)]
    BY <1>1 DEF PromoteWrite
  <2>2. UNCHANGED <<claims, bufStatus, wpc, task>>
    BY <1>1 DEF PromoteWrite, handlers, worker, turn
  <2>3. CASE lseen.pending # {}
    <3>1. \A u \in Tasks : status'[u] = "pending" => status[u] = "pending"
      BY <2>1, <2>3 DEF Set, Promoted
    <3>2. NothingNew
      BY <2>1, <2>2, <2>3, <3>1 DEF NothingNew
    <3> QED
      BY <3>2, ClaimsKept
  <2>4. CASE lseen.pending = {}
    <3>1. \A u \in Tasks : status'[u] = "pending" =>
                             status[u] = "pending" \/ u = made + 1
      BY <2>1, <2>4 DEF Set
    <3>2. made < MaxTask
      BY <2>1, <2>4, ParamAssumption DEF TypeOK, RowsType, Tasks
    <3> QED
      BY <2>1, <2>2, <2>4, <3>1, <3>2, ClaimsInsert
  <2> QED
    BY <2>3, <2>4
<1>2. CASE PromoteCheck \/ PromoteTake \/ PromoteRead \/ PromoteEnqueue
  <2>1. NothingNew
    BY <1>2 DEF NothingNew, PromoteCheck, PromoteTake, PromoteRead,
                PromoteEnqueue, db, handlers, worker, turn, history
  <2> QED
    BY <2>1, ClaimsKept
<1> QED
  BY <1>1, <1>2 DEF PromoteStep

LEMMA ClaimsListeners ==
  ASSUME TypeOK, Claims,
         (\E t \in Tasks : HearCancel(t)) \/ HearRedirect \/ HeartbeatExpires
  PROVE  Claims'
<1>1. NothingNew
  BY DEF NothingNew, HearCancel, HearRedirect, HeartbeatExpires, Kill,
         db, handlers, worker, turn, history
<1> QED
  BY <1>1, ClaimsKept

LEMMA ClaimsFault == ASSUME TypeOK, Claims, FaultStep PROVE Claims'
<1>1. ASSUME NEW m \in Msgs, CreateUnqueued(m) PROVE Claims'
  BY <1>1, ClaimsCreate DEF CreateUnqueued, worker, turn, history
<1>2. ASSUME NEW h \in Handlers, Rollback(h) PROVE Claims'
  <2>1. \A g \in Handlers : \A t \in DOMAIN bufStatus'[g] :
          g # h /\ bufStatus'[g] = bufStatus[g]
    BY <1>2 DEF Rollback, NoRows, TypeOK, HandlerType
  <2>2. NothingNew
    BY <1>2, <2>1 DEF Rollback, NothingNew, db, worker, turn, history
  <2> QED
    BY <2>2, ClaimsKept
<1>3. ASSUME NEW h \in Handlers, HandlerFails(h) PROVE Claims'
  <2>1. NothingNew
    BY <1>3 DEF HandlerFails, NothingNew, db, worker, turn, history
  <2> QED
    BY <2>1, ClaimsKept
<1>4. CASE Crash \/ Term \/ Reload \/ RecoverFails \/ MarkFails
           \/ RegisterFails \/ PersistLost \/ EndFails \/ PromoteFails
  <2>1. NothingNew
    BY <1>4 DEF NothingNew, Crash, GoDown, Term, Kill, Reload, RecoverFails,
                MarkFails, RegisterFails, PersistLost, EndFails, PromoteFails,
                db, handlers, worker, turn, history
  <2> QED
    BY <2>1, ClaimsKept
<1> QED
  BY <1>1, <1>2, <1>3, <1>4 DEF FaultStep

LEMMA ClaimsInit == Init => Claims
<1> SUFFICES ASSUME Init PROVE Claims
  OBVIOUS
<1>1. \A h \in Handlers : DOMAIN bufStatus[h] = {}
  BY DEF Init, NoRows
<1>2. CommitsUnclaimed
  BY <1>1 DEF CommitsUnclaimed
<1>3. PendingUnclaimed /\ NotCreatedUnclaimed /\ MarkUnclaimed /\ OneTurnPerTask
  BY DEF Init, PendingUnclaimed, NotCreatedUnclaimed, MarkUnclaimed,
         OneTurnPerTask
<1> QED
  BY <1>2, <1>3 DEF Claims

LEMMA ClaimsNext == TypeOK /\ TaskInHand /\ Claims /\ [Next]_vars => Claims'
<1> SUFFICES ASSUME TypeOK, TaskInHand, Claims, [Next]_vars PROVE Claims'
  OBVIOUS
<1>1. ASSUME NEW h \in Handlers, HandlerStep(h) PROVE Claims'
  BY <1>1, ClaimsMessage, ClaimsCancel, ClaimsCommit DEF HandlerStep
<1>2. CASE MainStep
  BY <1>2, ClaimsStart, ClaimsLoop, ClaimsTurn DEF MainStep
<1>3. CASE (\E t \in Tasks : HearCancel(t)) \/ HearRedirect \/ HeartbeatExpires
  BY <1>3, ClaimsListeners
<1>4. CASE PromoteStep
  BY <1>4, ClaimsPromote
<1>5. CASE FaultStep
  BY <1>5, ClaimsFault
<1>6. CASE UNCHANGED vars
  <2>1. NothingNew
    BY <1>6 DEF NothingNew, vars, db, handlers, worker, turn, history
  <2> QED
    BY <2>1, ClaimsKept
<1> QED
  BY <1>1, <1>2, <1>3, <1>4, <1>5, <1>6 DEF Next

\* _claim_task claims a task at most once, however often its id is on the queue
\* and whatever commits, restarts, promotions and faults come in between.
THEOREM OneTurn == Spec => []OneTurnPerTask
<1>1. Init => Claims
  BY ClaimsInit
<1>2. TypeOK /\ TaskInHand /\ Claims /\ [Next]_vars => Claims'
  BY ClaimsNext
<1>3. Claims => OneTurnPerTask
  BY DEF Claims
<1> QED
  BY TypeInvariance, <1>1, <1>2, <1>3, PTL DEF Spec

(* Who writes what.  First what whole groups of steps leave alone ...         *)

LEMMA MessageFrame ==
  ASSUME NEW m \in Msgs, MessageStep(m)
  PROVE  UNCHANGED <<status, prompt, fresh, worker, promote, spent, history>>
  BY DEF MessageStep, ListRunning, ReadLease, FailStale, ListPending, Coalesce,
         Create, NoteRead, NoteWrite, Store, Announce, db, redis

LEMMA CancelFrame ==
  ASSUME NEW c \in Cancels, CancelStep(c)
  PROVE  UNCHANGED <<db, fresh, worker, promote, spent, claims, told, answered,
                     halted, overruled>>
  BY DEF CancelStep, ListForCancel, DropPending, PublishCancel, MarkCancelled,
         redis, history

LEMMA CommitFrame ==
  ASSUME NEW h \in Handlers, Commit(h)
  PROVE  UNCHANGED <<made, redis, seen, worker, promote, spent, claims, told,
                     answered>>
  BY DEF Commit

LEMMA StartFrame ==
  ASSUME StartStep PROVE UNCHANGED <<handlers, spent, history>>
  BY DEF StartStep, Start, RecoverRead, RecoverWrite, QueueResume, EnqueueResume,
         Drain, Serve

LEMMA LoopFrame ==
  ASSUME LoopStep PROVE UNCHANGED <<handlers, made, spent, answered, halted, overruled>>
  BY DEF LoopStep, Exit, Dequeue, Scan, ScanNext, Watchdog, ScanEnds, ClaimRead,
         Missed, Mark, Begin, Register, db, history

LEMMA TurnFrame ==
  ASSUME TurnStep
  PROVE  /\ UNCHANGED <<handlers, made, fresh, todo, promote, claims, halted,
                         overruled>>
         /\ spent \subseteq spent'
  BY DEF TurnStep, LeaveEarly, Turn, Spawn, AgentEnds, KillByPoll, Consume,
         NothingToConsume, Release, PersistRead, PersistWrite, Settle, Deliver,
         Fault, db, redis, history

LEMMA PromoteFrame ==
  ASSUME PromoteStep
  PROVE  UNCHANGED <<handlers, fresh, worker, spent, claims, told, answered>>
  BY DEF PromoteStep, PromoteCheck, PromoteTake, PromoteRead, PromoteWrite,
         PromoteEnqueue, redis, history

LEMMA ListenFrame ==
  ASSUME (\E t \in Tasks : HearCancel(t)) \/ HearRedirect \/ HeartbeatExpires
  PROVE  UNCHANGED <<db, handlers, task, fate, tell, todo, lseen, spent, history>>
  BY DEF HearCancel, HearRedirect, HeartbeatExpires, worker, turn, promote

LEMMA FaultFrame ==
  ASSUME FaultStep
  PROVE  /\ UNCHANGED <<status, seen, history>>
         /\ spent \subseteq spent'
         /\ made' \in {made, made + 1}
  BY DEF FaultStep, Crash, Term, Reload, RecoverFails, MarkFails, RegisterFails,
         PersistLost, EndFails, PromoteFails, Rollback, HandlerFails,
         CreateUnqueued, Fault, db, handlers

(* ... then, for a variable, the few steps that write it.                     *)

\* The steps that write rows or claim one.
RowWriter ==
    \/ \E h \in Handlers : Commit(h)
    \/ QueueResume \/ RecoverWrite \/ Watchdog \/ Mark \/ PersistWrite \/ PromoteWrite

LEMMA RowWriters ==
  ASSUME [Next]_vars PROVE RowWriter \/ UNCHANGED <<status, claims>>
<1> USE DEF RowWriter, db, worker, turn, promote, history
<1>1. ASSUME NEW m \in Msgs, MessageStep(m) PROVE UNCHANGED <<status, claims>>
  BY <1>1, MessageFrame
<1>2. ASSUME NEW c \in Cancels, CancelStep(c) PROVE UNCHANGED <<status, claims>>
  BY <1>2, CancelFrame
<1>3. ASSUME StartStep, ~RowWriter PROVE UNCHANGED <<status, claims>>
  BY <1>3 DEF StartStep, Start, RecoverRead, EnqueueResume, Drain, Serve
<1>4. ASSUME LoopStep, ~RowWriter PROVE UNCHANGED <<status, claims>>
  BY <1>4 DEF LoopStep, Exit, Dequeue, Scan, ScanNext, ScanEnds, ClaimRead,
              Missed, Begin, Register
<1>5. ASSUME TurnStep, ~RowWriter PROVE UNCHANGED <<status, claims>>
  BY <1>5 DEF TurnStep, LeaveEarly, Turn, Spawn, AgentEnds, KillByPoll, Consume,
              NothingToConsume, Release, PersistRead, Settle, Deliver
<1>6. ASSUME PromoteStep, ~RowWriter PROVE UNCHANGED <<status, claims>>
  BY <1>6 DEF PromoteStep, PromoteCheck, PromoteTake, PromoteRead,
              PromoteEnqueue
<1>7. ASSUME FaultStep PROVE UNCHANGED <<status, claims>>
  BY <1>7, FaultFrame
<1>8. ASSUME (\E t \in Tasks : HearCancel(t)) \/ HearRedirect \/ HeartbeatExpires
      PROVE  UNCHANGED <<status, claims>>
  BY <1>8, ListenFrame
<1>9. CASE UNCHANGED vars
  BY <1>9 DEF vars
<1> QED
  BY <1>1, <1>2, <1>3, <1>4, <1>5, <1>6, <1>7, <1>8, <1>9
  DEF Next, HandlerStep, MainStep

\* The steps that write what a handler has in hand.
BufferWriter(h) ==
    \/ h \in Msgs /\ (FailStale(h) \/ Coalesce(h) \/ Create(h) \/ CreateUnqueued(h))
    \/ h \in Cancels /\ MarkCancelled(h)
    \/ Commit(h) \/ Rollback(h)

LEMMA BufferWriters ==
  ASSUME [Next]_vars
  PROVE  (\E h \in Handlers : BufferWriter(h)) \/ UNCHANGED bufStatus
<1> USE DEF Handlers, BufferWriter, handlers
<1>1. ASSUME NEW m \in Msgs, MessageStep(m), ~BufferWriter(m)
      PROVE  UNCHANGED bufStatus
  BY <1>1 DEF MessageStep, ListRunning, ReadLease, ListPending,
              NoteRead, NoteWrite, Store, Announce
<1>2. ASSUME NEW c \in Cancels, CancelStep(c), ~BufferWriter(c)
      PROVE  UNCHANGED bufStatus
  BY <1>2 DEF CancelStep, ListForCancel, DropPending, PublishCancel
<1>3. ASSUME StartStep PROVE UNCHANGED bufStatus
  BY <1>3, StartFrame
<1>4. ASSUME LoopStep PROVE UNCHANGED bufStatus
  BY <1>4, LoopFrame
<1>5. ASSUME TurnStep PROVE UNCHANGED bufStatus
  BY <1>5, TurnFrame
<1>6. ASSUME PromoteStep PROVE UNCHANGED bufStatus
  BY <1>6, PromoteFrame
<1>7. ASSUME FaultStep, \A h \in Handlers : ~BufferWriter(h)
      PROVE  UNCHANGED bufStatus
  BY <1>7 DEF FaultStep, Crash, Term, Reload, RecoverFails, MarkFails,
              RegisterFails, PersistLost, EndFails, PromoteFails, HandlerFails
<1>8. ASSUME (\E t \in Tasks : HearCancel(t)) \/ HearRedirect \/ HeartbeatExpires
      PROVE  UNCHANGED bufStatus
  BY <1>8, ListenFrame
<1>9. CASE UNCHANGED vars
  BY <1>9 DEF vars
<1>10. ASSUME NEW h \in Handlers, HandlerStep(h)
       PROVE  (\E g \in Handlers : BufferWriter(g)) \/ UNCHANGED bufStatus
  <2>1. CASE h \in Msgs /\ MessageStep(h)
    BY <2>1, <1>1
  <2>2. CASE h \in Cancels /\ CancelStep(h)
    BY <2>2, <1>2
  <2> QED
    BY <2>1, <2>2, <1>10 DEF HandlerStep
<1> QED
  BY <1>3, <1>4, <1>5, <1>6, <1>7, <1>8, <1>9, <1>10 DEF Next, MainStep

\* What a handler has seen are rows of one reading.
SeenStep ==
    \/ UNCHANGED seen
    \/ /\ UNCHANGED status
       /\ \E h \in Handlers : \E v \in {"running", "pending"} :
            seen' = [seen EXCEPT ![h] = Rows(v)]

LEMMA SeenSteps == ASSUME [Next]_vars PROVE SeenStep
<1> USE DEF Handlers, SeenStep, handlers, See, db
<1>1. ASSUME NEW m \in Msgs, MessageStep(m) PROVE SeenStep
  BY <1>1 DEF MessageStep, ListRunning, ReadLease, FailStale, ListPending,
         Coalesce, Create, NoteRead, NoteWrite, Store, Announce, db, redis
<1>2. ASSUME NEW c \in Cancels, CancelStep(c) PROVE SeenStep
  BY <1>2 DEF CancelStep, ListForCancel, DropPending, PublishCancel,
         MarkCancelled, redis, history
<1>3. ASSUME NEW h \in Handlers, Commit(h) PROVE UNCHANGED seen
  BY <1>3, CommitFrame
<1>4. ASSUME StartStep PROVE UNCHANGED seen
  BY <1>4, StartFrame
<1>5. ASSUME LoopStep PROVE UNCHANGED seen
  BY <1>5, LoopFrame
<1>6. ASSUME TurnStep PROVE UNCHANGED seen
  BY <1>6, TurnFrame
<1>7. ASSUME PromoteStep PROVE UNCHANGED seen
  BY <1>7, PromoteFrame
<1>8. ASSUME FaultStep PROVE UNCHANGED seen
  BY <1>8, FaultFrame
<1>9. ASSUME (\E t \in Tasks : HearCancel(t)) \/ HearRedirect \/ HeartbeatExpires
      PROVE  UNCHANGED seen
  BY <1>9, ListenFrame
<1>10. CASE UNCHANGED vars
  BY <1>10 DEF vars
<1> QED
  BY <1>1, <1>2, <1>3, <1>4, <1>5, <1>6, <1>7, <1>8, <1>9, <1>10
  DEF Next, HandlerStep, MainStep

\* What the worker's startup, its scan and a promotion hold are rows of one
\* reading too.
WorkerSeenStep ==
    /\ \/ todo' \subseteq todo
       \/ UNCHANGED status /\ todo' \in {Rows("running"), Rows("pending")}
    /\ \/ UNCHANGED lseen
       \/ lseen' = NoneSeen
       \/ /\ PromoteRead
          /\ UNCHANGED <<status, wpc, task>>

LEMMA WorkerSeenSteps == ASSUME [Next]_vars PROVE WorkerSeenStep
<1> USE DEF WorkerSeenStep, worker, turn, promote, db
<1>1. ASSUME NEW m \in Msgs, MessageStep(m) PROVE UNCHANGED <<todo, lseen>>
  BY <1>1, MessageFrame
<1>2. ASSUME NEW c \in Cancels, CancelStep(c) PROVE UNCHANGED <<todo, lseen>>
  BY <1>2, CancelFrame
<1>3. ASSUME NEW h \in Handlers, Commit(h) PROVE UNCHANGED <<todo, lseen>>
  BY <1>3, CommitFrame
<1>4. ASSUME StartStep PROVE WorkerSeenStep
  BY <1>4 DEF StartStep, Start, RecoverRead, Interrupted, RecoverWrite,
              QueueResume, EnqueueResume, Drain, Serve
<1>5. ASSUME LoopStep PROVE WorkerSeenStep
  BY <1>5 DEF LoopStep, Exit, GoDown, Dequeue, Scan, Waiting, ScanNext, Watchdog,
              ScanEnds, ClaimRead, Missed, Mark, Begin, Register
<1>6. ASSUME TurnStep PROVE UNCHANGED <<todo, lseen>>
  BY <1>6, TurnFrame
<1>7. ASSUME PromoteStep PROVE WorkerSeenStep
  BY <1>7 DEF PromoteStep, PromoteCheck, PromoteTake, PromoteRead,
         PromoteWrite, PromoteEnqueue, redis, history
<1>8. ASSUME FaultStep PROVE WorkerSeenStep
  BY <1>8 DEF FaultStep, Crash, GoDown, Term, Reload, RecoverFails, MarkFails,
              RegisterFails, PersistLost, EndFails, PromoteFails, Rollback,
              HandlerFails, CreateUnqueued
<1>9. ASSUME (\E t \in Tasks : HearCancel(t)) \/ HearRedirect \/ HeartbeatExpires
      PROVE  UNCHANGED <<todo, lseen>>
  BY <1>9, ListenFrame
<1>10. CASE UNCHANGED vars
  BY <1>10 DEF vars
<1> QED
  BY <1>1, <1>2, <1>3, <1>4, <1>5, <1>6, <1>7, <1>8, <1>9, <1>10
  DEF Next, HandlerStep, MainStep

\* The main loop from the claim to the end of the turn.
TurnStates == {"begin", "register", "turn", "spawn", "agent", "consume",
               "release", "persist", "write", "settle", "deliver"}

\* Only a claim begins a turn, and a turn keeps its task; only a row found
\* pending is about to be claimed.
TurnPlace ==
    /\ wpc' \in TurnStates =>
         \/ Mark
         \/ wpc \in TurnStates /\ task' = task
    /\ wpc' = "mark" =>
         \/ wpc = "mark" /\ task' = task
         \/ ClaimRead

LEMMA TurnPlaces == ASSUME [Next]_vars PROVE TurnPlace
<1> USE DEF TurnPlace, TurnStates, worker, turn
<1>1. ASSUME NEW m \in Msgs, MessageStep(m) PROVE UNCHANGED <<wpc, task>>
  BY <1>1, MessageFrame
<1>2. ASSUME NEW c \in Cancels, CancelStep(c) PROVE UNCHANGED <<wpc, task>>
  BY <1>2, CancelFrame
<1>3. ASSUME NEW h \in Handlers, Commit(h) PROVE UNCHANGED <<wpc, task>>
  BY <1>3, CommitFrame
<1>4. ASSUME StartStep PROVE wpc' \notin TurnStates \cup {"mark"}
  BY <1>4 DEF StartStep, Start, RecoverRead, RecoverWrite, QueueResume,
         EnqueueResume, Drain, Serve
<1>5. ASSUME LoopStep PROVE TurnPlace
  <2>1. CASE Mark
    BY <2>1 DEF Mark
  <2>2. CASE ClaimRead
    BY <2>2 DEF ClaimRead
  <2>3. CASE Exit \/ Dequeue \/ Scan \/ ScanNext \/ Watchdog
    BY <2>3 DEF Exit, GoDown, Dequeue, Scan, ScanNext, Watchdog
  <2>4. CASE ScanEnds \/ Missed \/ Begin \/ Register
    BY <2>4 DEF ScanEnds, Missed, AfterTask, Begin, Register
  <2> QED
    BY <2>1, <2>2, <2>3, <2>4, <1>5 DEF LoopStep
<1>6. ASSUME TurnStep PROVE TurnPlace
  BY <1>6 DEF TurnStep, LeaveEarly, Turn, Spawn, AgentEnds, KillByPoll, Kill,
              Consume, NothingToConsume, Release, PersistRead, PersistWrite,
              Settle, Deliver, AfterTask
<1>7. ASSUME PromoteStep PROVE UNCHANGED <<wpc, task>>
  BY <1>7, PromoteFrame
<1>8. ASSUME FaultStep PROVE TurnPlace
  BY <1>8 DEF FaultStep, Crash, GoDown, Term, Kill, Reload, RecoverFails,
              MarkFails, RegisterFails, PersistLost, EndFails, PromoteFails,
              Rollback, HandlerFails, CreateUnqueued
<1>9. ASSUME (\E t \in Tasks : HearCancel(t)) \/ HearRedirect \/ HeartbeatExpires
      PROVE  TurnPlace
  BY <1>9 DEF HearCancel, HearRedirect, HeartbeatExpires, Kill
<1>10. CASE UNCHANGED vars
  BY <1>10 DEF vars
<1> QED
  BY <1>1, <1>2, <1>3, <1>4, <1>5, <1>6, <1>7, <1>8, <1>9, <1>10
  DEF Next, HandlerStep, MainStep

(* A row's life: from nothing to pending, to running by its one claim, to its *)
(* end.                                                                       *)

\* A claimed row runs or is over, and a row that runs was claimed ...
ClaimedBegun ==
    \A t \in Tasks : /\ claims[t] > 0 => status[t] \in Over \cup {"running"}
                     /\ status[t] = "running" => claims[t] > 0
TurnClaimed == wpc \in TurnStates => claims[task] > 0

\* ... a row is nothing until it is created, and its creation is the only write
\* anybody has in hand for a row that is nothing yet ...
NotCreated == \A t \in Tasks : t > made => status[t] = "none"
WritesExist ==
    \A h \in Handlers : \A t \in DOMAIN bufStatus[h] :
        bufStatus[h][t] = "pending" <=> status[t] = "none"

\* ... and what anybody has read of rows are rows that exist.
SeenExist == \A h \in Handlers : \A t \in seen[h] : status[t] # "none"
WorkerSeenExist ==
    /\ \A t \in todo \cup lseen.stale \cup lseen.pending : status[t] # "none"
    /\ wpc = "mark" => status[task] # "none"

Lives ==
    /\ ClaimedBegun /\ TurnClaimed /\ NotCreated /\ WritesExist
    /\ SeenExist /\ WorkerSeenExist

\* What a step may do to a row.
RowMove(t) ==
    \/ status'[t] = status[t] /\ claims'[t] = claims[t]
    \/ /\ status[t] = "none" /\ status'[t] = "pending"
       /\ claims[t] = 0 /\ claims'[t] = 0
       /\ t <= made'
       /\ \/ t = made + 1
          \/ \E h \in Handlers : /\ Commit(h) /\ t \in DOMAIN bufStatus[h]
                                 /\ bufStatus[h][t] = "pending"
    \/ Mark /\ task = t
    \/ status[t] # "none" /\ status'[t] \in Over /\ claims'[t] = claims[t]

LEMMA BufStatusType ==
  ASSUME TypeOK, NEW h \in Handlers
  PROVE  /\ DOMAIN bufStatus[h] \subseteq Tasks
         /\ \A t \in DOMAIN bufStatus[h] :
              bufStatus[h][t] \in Over \cup {"pending"}
  BY DEF TypeOK, HandlerType, Partial

\* The row a worker's transaction creates: nothing, and claimed by nobody.
LEMMA NextRow ==
  ASSUME TypeOK, Claims, Lives, made + 1 \in Tasks
  PROVE  status[made + 1] = "none" /\ claims[made + 1] = 0
<1>1. made + 1 > made
  BY DEF TypeOK, RowsType
<1> QED
  BY <1>1 DEF Claims, NotCreatedUnclaimed, Lives, NotCreated

\* Whoever writes it and whenever, a row goes one step of its life.
LEMMA RowMoves ==
  ASSUME TypeOK, TaskInHand, Claims, Lives, [Next]_vars, NEW t \in Tasks
  PROVE  RowMove(t)
<1> USE DEF RowMove
<1>0. status \in [Tasks -> Statuses] /\ made \in Nat /\ Over \subseteq Statuses
  BY DEF TypeOK, RowsType, Statuses
<1>1. ASSUME NEW h \in Handlers, Commit(h) PROVE RowMove(t)
  <2>1. /\ status' = Overlay(status, bufStatus[h])
        /\ UNCHANGED <<claims, made>>
    BY <1>1 DEF Commit
  <2>2. CASE t \notin DOMAIN bufStatus[h]
    BY <2>1, <2>2 DEF Overlay
  <2>3. CASE t \in DOMAIN bufStatus[h]
    <3>1. status'[t] = bufStatus[h][t]
      BY <2>1, <2>3 DEF Overlay
    <3>2. CASE bufStatus[h][t] = "pending"
      BY <1>1, <2>1, <2>3, <3>1, <3>2
      DEF Claims, CommitsUnclaimed, Lives, WritesExist
    <3>3. CASE bufStatus[h][t] # "pending"
      BY <2>1, <2>3, <3>1, <3>3, BufStatusType DEF Lives, WritesExist
    <3> QED
      BY <3>2, <3>3
  <2> QED
    BY <2>2, <2>3
<1>2. CASE QueueResume
  <2>1. /\ made + 1 \in Tasks /\ made' = made + 1
        /\ status' = Set(status, {made + 1}, "pending") /\ UNCHANGED claims
    BY <1>2, <1>0, ParamAssumption DEF QueueResume, Tasks, history
  <2>2. CASE t = made + 1
    BY <2>1, <2>2, <1>0, NextRow DEF Set
  <2>3. CASE t # made + 1
    BY <2>1, <2>3 DEF Set
  <2> QED
    BY <2>2, <2>3
<1>3. CASE RecoverWrite
  BY <1>3 DEF RecoverWrite, Set, Lives, WorkerSeenExist, Over, history
<1>4. CASE Watchdog
  BY <1>4 DEF Watchdog, Stuck, Rows, Set, Over
<1>5. CASE Mark
  <2>1. UNCHANGED <<claims, status>> \/ task # t \/ RowMove(t)
    BY <1>5
  <2>2. CASE task # t
    BY <1>5, <2>2, <1>0 DEF Mark, TypeOK, HistoryType
  <2> QED
    BY <1>5, <2>2
<1>6. CASE PersistWrite
  <2>1. task \in Tasks /\ status[task] # "none" /\ UNCHANGED claims
    BY <1>6 DEF PersistWrite, TaskInHand, Lives, TurnClaimed, TurnStates,
                ClaimedBegun, Over, history
  <2>2. fate # "kept" => fate \in Over
    BY DEF TypeOK, WorkerType
  <2> QED
    BY <1>6, <2>1, <2>2, <1>0 DEF PersistWrite
<1>7. CASE PromoteWrite
  <2>1. PICK u \in Tasks :
          /\ IF lseen.pending # {}
               THEN Oldest(u, lseen.pending) /\ UNCHANGED made
               ELSE u = made + 1 /\ made' = made + 1
          /\ status' = [Set(Set(status, lseen.stale, "failed"),
                            lseen.pending \ {u}, "cancelled")
                         EXCEPT ![u] = Promoted(u)]
    BY <1>7 DEF PromoteWrite
  <2>2. UNCHANGED claims
    BY <1>7 DEF PromoteWrite
  <2>3. CASE t # u
    BY <2>1, <2>2, <2>3 DEF Set, Lives, WorkerSeenExist, Over
  <2>4. CASE t = u
    <3>1. status'[t] = Promoted(t)
      BY <2>1, <2>4 DEF Set
    <3>2. CASE lseen.pending # {}
      BY <3>1, <3>2, <2>2 DEF Promoted
    <3>3. CASE lseen.pending = {}
      BY <3>1, <3>3, <2>1, <2>2, <2>4, <1>0, NextRow DEF Promoted
    <3> QED
      BY <3>2, <3>3
  <2> QED
    BY <2>3, <2>4
<1> QED
  BY <1>1, <1>2, <1>3, <1>4, <1>5, <1>6, <1>7, RowWriters DEF RowWriter

\* What is in hand for a row after a step: what was before, or a write to a row
\* that was read or is created now.
LEMMA BufferMoves ==
  ASSUME TypeOK, [Next]_vars, NEW h \in Handlers, NEW t \in DOMAIN bufStatus'[h]
  PROVE  /\ t \in Tasks
         /\ \/ /\ t \in DOMAIN bufStatus[h] /\ bufStatus'[h][t] = bufStatus[h][t]
               /\ ~Commit(h)
            \/ /\ t \in seen[h] /\ UNCHANGED status
               /\ \/ bufStatus'[h][t] = "cancelled"
                  \/ h \in Msgs /\ hpc[h] = "stale" /\ bufStatus'[h][t] = "failed"
            \/ /\ h \in Msgs /\ t = made + 1 /\ made' = made + 1 /\ UNCHANGED status
               /\ bufStatus'[h][t] = "pending"
<1> DEFINE Goal ==
      /\ t \in Tasks
      /\ \/ /\ t \in DOMAIN bufStatus[h] /\ bufStatus'[h][t] = bufStatus[h][t]
            /\ ~Commit(h)
         \/ /\ t \in seen[h] /\ UNCHANGED status
            /\ \/ bufStatus'[h][t] = "cancelled"
               \/ h \in Msgs /\ hpc[h] = "stale" /\ bufStatus'[h][t] = "failed"
         \/ /\ h \in Msgs /\ t = made + 1 /\ made' = made + 1 /\ UNCHANGED status
            /\ bufStatus'[h][t] = "pending"
<1>0. /\ DOMAIN bufStatus[h] \subseteq Tasks /\ seen[h] \subseteq Tasks
      /\ bufStatus \in [Handlers -> Partial(Over \cup {"pending"})]
      /\ made \in Nat
  <2>1. DOMAIN bufStatus[h] \subseteq Tasks
    BY BufStatusType
  <2>2. seen[h] \subseteq Tasks
    BY DEF TypeOK, HandlerType
  <2>3. made \in Nat
    BY DEF TypeOK, RowsType
  <2>4. bufStatus \in [Handlers -> Partial(Over \cup {"pending"})]
    BY DEF TypeOK, HandlerType
  <2> QED
    BY <2>1, <2>2, <2>3, <2>4
<1>1. CASE UNCHANGED bufStatus
  <2>1. ~Commit(h)
    <3>1. SUFFICES ASSUME Commit(h) PROVE FALSE
      OBVIOUS
    <3>2. bufStatus'[h] = NoRows
      BY <3>1, <1>0 DEF Commit
    <3> QED
      BY <3>2 DEF NoRows
  <2> QED
    BY <1>1, <2>1, <1>0
<1>2. ASSUME NEW g \in Handlers, BufferWriter(g) PROVE Goal
  <2>1. CASE Commit(g) \/ Rollback(g)
    <3>1. bufStatus' = [bufStatus EXCEPT ![g] = NoRows]
      BY <2>1 DEF Commit, Rollback
    <3>2. g # h
      BY <3>1, <1>0 DEF NoRows
    <3>3. ~Commit(h)
      BY <3>1, <3>2, <1>0 DEF Commit, NoRows
    <3> QED
      BY <3>1, <3>2, <3>3, <1>0
  <2>0. ASSUME hpc[g] # "commit", NEW s, HGoto(g, s), s # "done" PROVE ~Commit(h)
    BY <2>0 DEF Commit, HGoto, TypeOK, HandlerType
  <2>2. ASSUME NEW ts \in SUBSET Tasks, NEW v,
               bufStatus' = Buffered(bufStatus, g, ts, v), ~Commit(h)
        PROVE  /\ t \in Tasks
               /\ \/ /\ t \in DOMAIN bufStatus[h]
                     /\ bufStatus'[h][t] = bufStatus[h][t] /\ ~Commit(h)
                  \/ g = h /\ t \in ts /\ bufStatus'[h][t] = v
    BY <2>2, <1>0 DEF Buffered
  <2>3. ASSUME g \in Msgs, FailStale(g) PROVE Goal
    <3>1. /\ bufStatus' = Buffered(bufStatus, g, seen[g], "failed")
          /\ hpc[g] = "stale" /\ UNCHANGED status /\ seen[g] \in SUBSET Tasks
          /\ ~Commit(h)
      BY <2>0, <2>3 DEF FailStale, db, TypeOK, HandlerType
    <3> QED
      BY <3>1, <2>2, <2>3
  <2>4. ASSUME g \in Msgs, Coalesce(g) PROVE Goal
    <3>1. PICK p \in Tasks :
            bufStatus' = Buffered(bufStatus, g, seen[g] \ {p}, "cancelled")
      BY <2>4 DEF Coalesce
    <3>2. UNCHANGED status /\ seen[g] \in SUBSET Tasks /\ ~Commit(h)
      BY <2>0, <2>4 DEF Coalesce, db, TypeOK, HandlerType
    <3> QED
      BY <3>1, <3>2, <2>2
  <2>5. ASSUME g \in Msgs, Create(g) \/ CreateUnqueued(g) PROVE Goal
    <3>1. /\ bufStatus' = Buffered(bufStatus, g, {made + 1}, "pending")
          /\ made < MaxTask /\ made' = made + 1 /\ UNCHANGED status /\ ~Commit(h)
      BY <2>0, <2>5 DEF Create, CreateUnqueued
    <3>2. {made + 1} \in SUBSET Tasks
      BY <3>1, <1>0, ParamAssumption DEF Tasks
    <3> QED
      BY <3>1, <3>2, <2>2, <2>5
  <2>6. ASSUME MarkCancelled(g) PROVE Goal
    <3>1. /\ bufStatus' = Buffered(bufStatus, g, seen[g], "cancelled")
          /\ UNCHANGED status /\ seen[g] \in SUBSET Tasks /\ ~Commit(h)
      <4>1. ~Commit(h)
        BY <2>6 DEF MarkCancelled, Commit, HGoto, TypeOK, HandlerType
      <4> QED
        BY <4>1, <2>6 DEF MarkCancelled, db, TypeOK, HandlerType
    <3> QED
      BY <3>1, <2>2
  <2> QED
    BY <1>2, <2>1, <2>3, <2>4, <2>5, <2>6 DEF BufferWriter
<1> QED
  BY <1>1, <1>2, BufferWriters

LEMMA MadeGrows == ASSUME TypeOK, [Next]_vars PROVE made' \in {made, made + 1}
<1> USE DEF db
<1>1. ASSUME NEW m \in Msgs, MessageStep(m) PROVE made' \in {made, made + 1}
  BY <1>1 DEF MessageStep, ListRunning, ReadLease, FailStale, ListPending,
         Coalesce, Create, NoteRead, NoteWrite, Store, Announce, db, redis
<1>2. ASSUME NEW c \in Cancels, CancelStep(c) PROVE UNCHANGED made
  BY <1>2, CancelFrame
<1>3. ASSUME NEW h \in Handlers, Commit(h) PROVE UNCHANGED made
  BY <1>3, CommitFrame
<1>4. ASSUME StartStep PROVE made' \in {made, made + 1}
  BY <1>4 DEF StartStep, Start, RecoverRead, RecoverWrite, QueueResume,
         EnqueueResume, Drain, Serve
<1>5. ASSUME LoopStep PROVE UNCHANGED made
  BY <1>5, LoopFrame
<1>6. ASSUME TurnStep PROVE UNCHANGED made
  BY <1>6, TurnFrame
<1>7. ASSUME PromoteStep PROVE made' \in {made, made + 1}
  BY <1>7 DEF PromoteStep, PromoteCheck, PromoteTake, PromoteRead,
         PromoteWrite, PromoteEnqueue, redis, history
<1>8. ASSUME FaultStep PROVE made' \in {made, made + 1}
  BY <1>8, FaultFrame
<1>9. ASSUME (\E t \in Tasks : HearCancel(t)) \/ HearRedirect \/ HeartbeatExpires
      PROVE  UNCHANGED made
  BY <1>9, ListenFrame
<1>10. CASE UNCHANGED vars
  BY <1>10 DEF vars
<1> QED
  BY <1>1, <1>2, <1>3, <1>4, <1>5, <1>6, <1>7, <1>8, <1>9, <1>10
  DEF Next, HandlerStep, MainStep

LEMMA MarkRuns ==
  ASSUME TypeOK, TaskInHand, Mark
  PROVE  /\ task \in Tasks /\ wpc = "mark" /\ task' = task /\ UNCHANGED made
         /\ status'[task] = "running" /\ claims'[task] = claims[task] + 1
         /\ \A t \in Tasks \ {task} :
              status'[t] = status[t] /\ claims'[t] = claims[t]
  BY DEF Mark, TypeOK, RowsType, HistoryType, TaskInHand, turn

\* A row that exists never ceases to, and a claim is never undone.
LEMMA RowsStay ==
  ASSUME TypeOK, TaskInHand, Claims, Lives, [Next]_vars, NEW t \in Tasks
  PROVE  /\ status[t] # "none" => status'[t] # "none"
         /\ claims[t] > 0 => claims'[t] > 0
<1>0. claims[t] \in Nat /\ RowMove(t)
  BY RowMoves DEF TypeOK, HistoryType
<1>1. CASE Mark /\ task = t
  BY <1>0, <1>1, MarkRuns
<1> QED
  BY <1>0, <1>1 DEF RowMove, Over

LEMMA ClaimedBegunKept ==
  ASSUME TypeOK, TaskInHand, Claims, Lives, [Next]_vars
  PROVE  ClaimedBegun' /\ TurnClaimed'
<1>1. ASSUME NEW t \in Tasks
      PROVE  /\ claims'[t] > 0 => status'[t] \in Over \cup {"running"}
             /\ status'[t] = "running" => claims'[t] > 0
  <2>1. CASE Mark /\ task = t
    <3>1. claims[t] \in Nat
      BY DEF TypeOK, HistoryType
    <3> QED
      BY <2>1, <3>1, MarkRuns
  <2>2. CASE ~(Mark /\ task = t)
    BY <2>2, RowMoves DEF RowMove, Lives, ClaimedBegun, Over
  <2> QED
    BY <2>1, <2>2
<1>2. TurnClaimed'
  <2>1. CASE Mark
    <3>1. claims[task] \in Nat
      BY <2>1, MarkRuns DEF TypeOK, HistoryType
    <3> QED
      BY <2>1, <3>1, MarkRuns DEF TurnClaimed
  <2>2. CASE wpc \in TurnStates /\ task' = task
    <3>1. task \in Tasks
      BY <2>2 DEF TaskInHand, TurnStates
    <3> QED
      BY <2>2, <3>1, RowsStay DEF Lives, TurnClaimed
  <2> QED
    BY <2>1, <2>2, TurnPlaces DEF TurnPlace, TurnClaimed
<1> QED
  BY <1>1, <1>2 DEF ClaimedBegun

LEMMA NotCreatedKept ==
  ASSUME TypeOK, TaskInHand, Claims, Lives, [Next]_vars PROVE NotCreated'
<1> SUFFICES ASSUME NEW t \in Tasks, status'[t] # "none" PROVE t <= made'
  <2>1. made \in Nat /\ made' \in {made, made + 1} /\ Tasks \subseteq Nat
    BY MadeGrows DEF TypeOK, RowsType, Tasks
  <2> QED
    BY <2>1 DEF NotCreated
<1>0. made \in Nat /\ made' \in {made, made + 1} /\ t \in Nat
  BY MadeGrows DEF TypeOK, RowsType, Tasks
<1>1. CASE status[t] # "none"
  BY <1>0, <1>1 DEF Lives, NotCreated
<1>2. CASE Mark /\ task = t
  BY <1>0, <1>2, MarkRuns DEF Claims, MarkUnclaimed
<1>3. CASE status[t] = "none" /\ ~(Mark /\ task = t)
  BY <1>3, RowMoves DEF RowMove
<1> QED
  BY <1>1, <1>2, <1>3

LEMMA WritesExistKept ==
  ASSUME TypeOK, TaskInHand, Claims, Lives, [Next]_vars PROVE WritesExist'
<1> SUFFICES ASSUME NEW h \in Handlers, NEW t \in DOMAIN bufStatus'[h]
             PROVE  bufStatus'[h][t] = "pending" <=> status'[t] = "none"
  BY DEF WritesExist
<1>0. t \in Tasks
  BY BufferMoves
<1>1. CASE /\ t \in DOMAIN bufStatus[h] /\ bufStatus'[h][t] = bufStatus[h][t]
           /\ ~Commit(h)
  <2>1. bufStatus[h][t] = "pending" <=> status[t] = "none"
    BY <1>1 DEF Lives, WritesExist
  <2>2. CASE status[t] # "none"
    BY <1>0, <1>1, <2>1, <2>2, RowsStay
  <2>3. CASE status[t] = "none"
    <3>1. /\ t <= made /\ ~(wpc = "mark" /\ task = t)
          /\ \A g \in Handlers \ {h} :
               t \in DOMAIN bufStatus[g] => bufStatus[g][t] # "pending"
      BY <1>1, <2>1, <2>3 DEF Claims, CommitsUnclaimed
    <3>2. t # made + 1 /\ ~(Mark /\ task = t)
      <4>1. made \in Nat /\ t \in Nat
        BY <1>0 DEF TypeOK, RowsType, Tasks
      <4> QED
        BY <3>1, <4>1 DEF Mark
    <3>3. \A g \in Handlers : ~(/\ Commit(g) /\ t \in DOMAIN bufStatus[g]
                                /\ bufStatus[g][t] = "pending")
      BY <1>1, <3>1
    <3>4. RowMove(t)
      BY <1>0, RowMoves
    <3>5. status'[t] = status[t]
      BY <2>3, <3>2, <3>3, <3>4 DEF RowMove
    <3> QED
      BY <1>1, <2>1, <3>5
  <2> QED
    BY <2>2, <2>3
<1>2. CASE /\ t \in seen[h] /\ UNCHANGED status
           /\ bufStatus'[h][t] \in {"cancelled", "failed"}
  BY <1>2 DEF Lives, SeenExist
<1>3. CASE t = made + 1 /\ UNCHANGED status /\ bufStatus'[h][t] = "pending"
  BY <1>0, <1>3, NextRow
<1> QED
  BY <1>1, <1>2, <1>3, BufferMoves

LEMMA SeenExistKept ==
  ASSUME TypeOK, TaskInHand, Claims, Lives, [Next]_vars
  PROVE  SeenExist' /\ WorkerSeenExist'
<1>1. SeenExist'
  <2> SUFFICES ASSUME NEW h \in Handlers, NEW t \in seen'[h]
               PROVE  status'[t] # "none"
    BY DEF SeenExist
  <2>0. seen \in [Handlers -> SUBSET Tasks]
    BY DEF TypeOK, HandlerType
  <2>1. CASE t \in seen[h]
    BY <2>0, <2>1, RowsStay DEF Lives, SeenExist
  <2>2. CASE t \notin seen[h]
    BY <2>0, <2>2, SeenSteps DEF SeenStep, Rows
  <2> QED
    BY <2>1, <2>2
<1>2. ASSUME NEW t \in todo' \cup lseen'.stale \cup lseen'.pending
      PROVE  status'[t] # "none"
  <2>0. todo \subseteq Tasks /\ lseen.stale \subseteq Tasks /\ lseen.pending \subseteq Tasks
    BY DEF TypeOK, WorkerType, PromoteType
  <2>1. CASE t \in todo \cup lseen.stale \cup lseen.pending
    BY <2>0, <2>1, RowsStay DEF Lives, WorkerSeenExist
  <2>2. CASE t \in todo' /\ t \notin todo
    BY <2>2, WorkerSeenSteps DEF WorkerSeenStep, Rows
  <2>3. CASE t \in lseen'.stale \cup lseen'.pending /\ ~UNCHANGED lseen
    BY <2>3, WorkerSeenSteps DEF WorkerSeenStep, PromoteRead, Rows, NoneSeen
  <2> QED
    BY <1>2, <2>1, <2>2, <2>3
<1>3. ASSUME wpc' = "mark" PROVE status'[task'] # "none"
  <2>1. CASE wpc = "mark" /\ task' = task
    <3>1. task \in Tasks
      BY <2>1 DEF TaskInHand
    <3> QED
      BY <2>1, <3>1, RowsStay DEF Lives, WorkerSeenExist
  <2>2. CASE ClaimRead
    BY <2>2, <1>3 DEF ClaimRead, Claimable, db
  <2> QED
    BY <2>1, <2>2, <1>3, TurnPlaces DEF TurnPlace
<1> QED
  BY <1>1, <1>2, <1>3 DEF WorkerSeenExist

LEMMA LivesNext ==
  TypeOK /\ TaskInHand /\ Claims /\ Lives /\ [Next]_vars => Lives'
  BY ClaimedBegunKept, NotCreatedKept, WritesExistKept, SeenExistKept DEF Lives

LEMMA LivesInit == Init => Lives
<1> SUFFICES ASSUME Init PROVE Lives
  OBVIOUS
<1>1. WritesExist
  <2>1. \A h \in Handlers : DOMAIN bufStatus[h] = {}
    BY DEF Init, NoRows
  <2> QED
    BY <2>1 DEF WritesExist
<1>2. /\ wpc = "down" /\ todo = {} /\ lseen = NoneSeen
      /\ status = [t \in Tasks |-> "none"] /\ claims = [t \in Tasks |-> 0]
      /\ seen = [h \in Handlers |-> {}]
  BY DEF Init
<1> QED
  BY <1>1, <1>2 DEF Lives, ClaimedBegun, TurnClaimed, TurnStates, NotCreated,
                    SeenExist, WorkerSeenExist, NoneSeen

LifeInv == TypeOK /\ TaskInHand /\ Claims /\ Lives

LEMMA LifeInvariance == Spec => []LifeInv
<1>1. Init => Claims /\ Lives
  BY ClaimsInit, LivesInit
<1>2. TypeOK /\ TaskInHand /\ Claims /\ Lives /\ [Next]_vars
        => Claims' /\ Lives'
  BY ClaimsNext, LivesNext
<1>3. LifeInv <=> TypeOK /\ TaskInHand /\ Claims /\ Lives
  BY DEF LifeInv
<1> QED
  BY TypeInvariance, <1>1, <1>2, <1>3, PTL DEF Spec

(* Rows that say running.                                                     *)

\* No operation on the database or on Redis has failed so far.
NoOutage == spent \cap {"db", "redis"} = {}

LEMMA SpentGrows == ASSUME [Next]_vars PROVE spent \subseteq spent'
<1> USE DEF Fault, history
<1>1. ASSUME NEW m \in Msgs, MessageStep(m) PROVE UNCHANGED spent
  BY <1>1, MessageFrame
<1>2. ASSUME NEW c \in Cancels, CancelStep(c) PROVE UNCHANGED spent
  BY <1>2, CancelFrame
<1>3. ASSUME NEW h \in Handlers, Commit(h) PROVE UNCHANGED spent
  BY <1>3, CommitFrame
<1>4. ASSUME StartStep PROVE UNCHANGED spent
  BY <1>4, StartFrame
<1>5. ASSUME LoopStep PROVE UNCHANGED spent
  BY <1>5, LoopFrame
<1>6. ASSUME TurnStep PROVE spent \subseteq spent'
  BY <1>6, TurnFrame
<1>7. ASSUME PromoteStep PROVE UNCHANGED spent
  BY <1>7, PromoteFrame
<1>8. ASSUME FaultStep PROVE spent \subseteq spent'
  BY <1>8, FaultFrame
<1>9. ASSUME (\E t \in Tasks : HearCancel(t)) \/ HearRedirect \/ HeartbeatExpires
      PROVE  UNCHANGED spent
  BY <1>9, ListenFrame
<1>10. CASE UNCHANGED vars
  BY <1>10 DEF vars
<1> QED
  BY <1>1, <1>2, <1>3, <1>4, <1>5, <1>6, <1>7, <1>8, <1>9, <1>10
  DEF Next, HandlerStep, MainStep

\* Who will end a row that says running: the next start, the recovery that has
\* listed it, or the turn it is in, which has not written its end yet.
HasTurn(t) ==
    \/ wpc \in {"down", "recover"}
    \/ wpc = "fail" /\ t \in todo
    \/ /\ task = t /\ wpc \in TurnStates \ {"settle", "deliver"}
       /\ wpc = "write" => fate # "kept"

\* At most one row says running, and somebody will end it.
RunningInv ==
    NoOutage => /\ \A t \in Rows("running") : HasTurn(t)
                /\ \A t, u \in Rows("running") : t = u

\* Without an outage nobody drops a row that runs.
LEMMA HasTurnKept ==
  ASSUME TypeOK, [Next]_vars, NoOutage', ~Mark, NEW t \in Tasks, HasTurn(t),
         status[t] = "running", status'[t] = "running"
  PROVE  HasTurn(t)'
<1> USE DEF HasTurn, TurnStates, worker, turn
<1>1. ASSUME NEW m \in Msgs, MessageStep(m)
      PROVE  UNCHANGED <<wpc, task, todo, fate>>
  BY <1>1, MessageFrame
<1>2. ASSUME NEW c \in Cancels, CancelStep(c)
      PROVE  UNCHANGED <<wpc, task, todo, fate>>
  BY <1>2, CancelFrame
<1>3. ASSUME NEW h \in Handlers, Commit(h)
      PROVE  UNCHANGED <<wpc, task, todo, fate>>
  BY <1>3, CommitFrame
<1>4. CASE StartStep
  <2>1. CASE RecoverWrite
    BY <2>1 DEF RecoverWrite, Set
  <2>2. CASE ~RecoverWrite
    BY <1>4, <2>2 DEF StartStep, Start, RecoverRead, Interrupted, Rows,
                      QueueResume, EnqueueResume, Drain, Serve
  <2> QED
    BY <2>1, <2>2
<1>5. CASE LoopStep
  <2>1. CASE Exit \/ Dequeue \/ Scan \/ ScanNext \/ Watchdog \/ ScanEnds
    BY <2>1 DEF Exit, GoDown, Dequeue, Scan, ScanNext, Watchdog, ScanEnds
  <2>2. CASE ClaimRead \/ Missed \/ Begin \/ Register
    BY <2>2 DEF ClaimRead, Missed, Begin, Register
  <2> QED
    BY <2>1, <2>2, <1>5 DEF LoopStep
<1>6. CASE TurnStep
  <2>1. CASE PersistRead
    BY <2>1 DEF PersistRead, Unless
  <2>2. CASE PersistWrite
    <3>1. fate # "running" /\ status \in [Tasks -> Statuses]
      BY DEF TypeOK, WorkerType, RowsType, Over
    <3> QED
      BY <2>2, <3>1 DEF PersistWrite
  <2>3. CASE Deliver \/ Settle
    BY <2>3 DEF Deliver, Settle
  <2>4. CASE LeaveEarly \/ Turn \/ Spawn \/ AgentEnds \/ KillByPoll
    BY <2>4 DEF LeaveEarly, Turn, Spawn, AgentEnds, KillByPoll, Kill
  <2>5. CASE Consume \/ NothingToConsume \/ Release
    BY <2>5 DEF Consume, NothingToConsume, Release
  <2> QED
    BY <2>1, <2>2, <2>3, <2>4, <2>5, <1>6 DEF TurnStep
<1>7. CASE PromoteStep
  BY <1>7, PromoteFrame
<1>8. CASE FaultStep
  <2>1. ~RecoverFails /\ ~RegisterFails /\ ~PersistLost /\ ~EndFails
    BY DEF NoOutage, Fault, RecoverFails, RegisterFails, PersistLost, EndFails
  <2> QED
    BY <1>8, <2>1 DEF FaultStep, Crash, GoDown, Term, Kill, Reload, MarkFails,
                      PromoteFails, Rollback, HandlerFails, CreateUnqueued
<1>9. CASE (\E u \in Tasks : HearCancel(u)) \/ HearRedirect \/ HeartbeatExpires
  BY <1>9 DEF HearCancel, HearRedirect, HeartbeatExpires, Kill
<1>10. CASE UNCHANGED vars
  BY <1>10 DEF vars
<1> QED
  BY <1>1, <1>2, <1>3, <1>4, <1>5, <1>6, <1>7, <1>8, <1>9, <1>10
  DEF Next, HandlerStep, MainStep

LEMMA RunningNext ==
  LifeInv /\ RunningInv /\ [Next]_vars => RunningInv'
<1> SUFFICES ASSUME LifeInv, RunningInv, [Next]_vars, NoOutage'
             PROVE  /\ \A t \in Rows("running")' : HasTurn(t)'
                    /\ \A t, u \in Rows("running")' : t = u
  BY DEF RunningInv
<1>0. /\ TypeOK /\ TaskInHand /\ Claims /\ Lives /\ NoOutage
      /\ \A t \in Rows("running") : HasTurn(t)
      /\ \A t, u \in Rows("running") : t = u
  BY SpentGrows DEF LifeInv, RunningInv, NoOutage
<1>1. CASE Mark
  <2>1. Rows("running") = {}
    BY <1>0, <1>1, MarkRuns DEF HasTurn, TurnStates
  <2>2. \A t \in Rows("running")' : t = task
    BY <1>0, <1>1, <2>1, MarkRuns DEF Rows
  <2>3. wpc' = "begin" /\ task' = task
    BY <1>1 DEF Mark, turn
  <2> QED
    BY <2>2, <2>3 DEF HasTurn, TurnStates
<1>2. CASE ~Mark
  <2>1. \A t \in Rows("running")' : t \in Tasks /\ t \in Rows("running")
    BY <1>0, <1>2, RowMoves DEF RowMove, Rows, Over
  <2> QED
    BY <1>0, <1>2, <2>1, HasTurnKept DEF Rows
<1> QED
  BY <1>1, <1>2

LEMMA RunningInvariance == Spec => []RunningInv
<1>1. Init => RunningInv
  BY DEF Init, RunningInv, Rows
<1>2. LifeInv /\ RunningInv /\ [Next]_vars => RunningInv'
  BY RunningNext
<1> QED
  BY LifeInvariance, <1>1, <1>2, PTL DEF Spec

\* As long as no operation on the database or on Redis has failed, a row that
\* says running is in the worker's turn, or the worker is down or recovering:
\* restarts, terminations, reloads, rollbacks, cancels and failing agents leave
\* none behind.
THEOREM RunningRows == Spec => [](NoOutage => RunningHasTurn)
<1>1. RunningInv => (NoOutage => RunningHasTurn)
  BY DEF RunningInv, RunningHasTurn, HasTurn, Rows
<1> QED
  BY RunningInvariance, <1>1, PTL

(* What the user was told of.                                                 *)

\* No database operation has failed so far.
DatabaseUp == "db" \notin spent

\* The user is told of claimed tasks that are over, and the end of a turn is in
\* the database before the turn comes to telling.
BackedInv ==
    /\ \A t \in told : claims[t] > 0
    /\ DatabaseUp =>
         /\ \A t \in told : status[t] \in Over
         /\ wpc = "write" /\ fate = "kept" => status[task] \in Over
         /\ wpc \in {"settle", "deliver"} => status[task] \in Over

\* What is over after a claim stays over.
LEMMA OverStays ==
  ASSUME LifeInv, [Next]_vars, NEW t \in Tasks, claims[t] > 0, status[t] \in Over
  PROVE  status'[t] \in Over
<1>1. ~(Mark /\ task = t)
  BY DEF LifeInv, Claims, MarkUnclaimed, Mark
<1>2. RowMove(t) /\ status[t] # "none"
  BY RowMoves DEF LifeInv, Over
<1> QED
  BY <1>1, <1>2 DEF RowMove

\* Who tells.
LEMMA ToldWriters ==
  ASSUME [Next]_vars
  PROVE  UNCHANGED <<told, answered>> \/ Watchdog \/ Deliver
<1> USE DEF history
<1>1. ASSUME NEW m \in Msgs, MessageStep(m) PROVE UNCHANGED <<told, answered>>
  BY <1>1, MessageFrame
<1>2. ASSUME NEW c \in Cancels, CancelStep(c) PROVE UNCHANGED <<told, answered>>
  BY <1>2, CancelFrame
<1>3. ASSUME NEW h \in Handlers, Commit(h) PROVE UNCHANGED <<told, answered>>
  BY <1>3, CommitFrame
<1>4. ASSUME StartStep PROVE UNCHANGED <<told, answered>>
  BY <1>4, StartFrame
<1>5. ASSUME LoopStep, ~Watchdog PROVE UNCHANGED <<told, answered>>
  BY <1>5 DEF LoopStep, Exit, Dequeue, Scan, ScanNext, ScanEnds,
              ClaimRead, Missed, Mark, Begin, Register
<1>6. ASSUME TurnStep, ~Deliver PROVE UNCHANGED <<told, answered>>
  BY <1>6 DEF TurnStep, LeaveEarly, Turn, Spawn, AgentEnds, KillByPoll, Consume,
              NothingToConsume, Release, PersistRead, PersistWrite, Settle
<1>7. ASSUME PromoteStep PROVE UNCHANGED <<told, answered>>
  BY <1>7, PromoteFrame
<1>8. ASSUME FaultStep PROVE UNCHANGED <<told, answered>>
  BY <1>8, FaultFrame
<1>9. ASSUME (\E t \in Tasks : HearCancel(t)) \/ HearRedirect \/ HeartbeatExpires
      PROVE  UNCHANGED <<told, answered>>
  BY <1>9, ListenFrame
<1>10. CASE UNCHANGED vars
  BY <1>10 DEF vars
<1> QED
  BY <1>1, <1>2, <1>3, <1>4, <1>5, <1>6, <1>7, <1>8, <1>9, <1>10
  DEF Next, HandlerStep, MainStep

\* Who decides how a turn ends.
LEMMA EndPlaces ==
  ASSUME [Next]_vars, wpc' \in {"write", "settle", "deliver"}
  PROVE  \/ wpc' = wpc /\ task' = task /\ UNCHANGED <<fate, tell, outcome>>
         \/ PersistRead \/ PersistWrite \/ PersistLost \/ Settle
<1> USE DEF worker, turn
<1>1. ASSUME NEW m \in Msgs, MessageStep(m) PROVE UNCHANGED worker
  BY <1>1, MessageFrame
<1>2. ASSUME NEW c \in Cancels, CancelStep(c) PROVE UNCHANGED worker
  BY <1>2, CancelFrame
<1>3. ASSUME NEW h \in Handlers, Commit(h) PROVE UNCHANGED worker
  BY <1>3, CommitFrame
<1>4. ASSUME StartStep PROVE FALSE
  BY <1>4 DEF StartStep, Start, RecoverRead, RecoverWrite, QueueResume,
         EnqueueResume, Drain, Serve
<1>5. ASSUME LoopStep PROVE FALSE
  <2>1. CASE Exit \/ Dequeue \/ Scan \/ ScanNext \/ Watchdog \/ ScanEnds
    BY <2>1 DEF Exit, GoDown, Dequeue, Scan, ScanNext, Watchdog, ScanEnds
  <2>2. CASE ClaimRead \/ Missed \/ Mark \/ Begin \/ Register
    BY <2>2 DEF ClaimRead, Missed, AfterTask, Mark, Begin, Register
  <2> QED
    BY <2>1, <2>2, <1>5 DEF LoopStep
<1>6. ASSUME TurnStep PROVE PersistRead \/ PersistWrite \/ Settle
  BY <1>6 DEF TurnStep, LeaveEarly, Turn, Spawn, AgentEnds, KillByPoll, Kill,
              Consume, NothingToConsume, Release, Deliver, AfterTask
<1>7. ASSUME PromoteStep PROVE UNCHANGED worker
  BY <1>7, PromoteFrame
<1>8. ASSUME FaultStep
      PROVE  PersistLost \/ UNCHANGED <<wpc, task, fate, tell, outcome>>
  BY <1>8 DEF FaultStep, Crash, GoDown, Term, Kill, Reload, RecoverFails,
              MarkFails, RegisterFails, EndFails, PromoteFails, Rollback,
              HandlerFails, CreateUnqueued
<1>9. ASSUME (\E t \in Tasks : HearCancel(t)) \/ HearRedirect \/ HeartbeatExpires
      PROVE  UNCHANGED <<wpc, task, fate, tell, outcome>>
  BY <1>9 DEF HearCancel, HearRedirect, HeartbeatExpires, Kill
<1>10. CASE UNCHANGED vars
  BY <1>10 DEF vars
<1> QED
  BY <1>1, <1>2, <1>3, <1>4, <1>5, <1>6, <1>7, <1>8, <1>9, <1>10
  DEF Next, HandlerStep, MainStep

LEMMA BackedNext ==
  LifeInv /\ BackedInv /\ [Next]_vars => BackedInv'
<1> SUFFICES ASSUME LifeInv, BackedInv, [Next]_vars PROVE BackedInv'
  OBVIOUS
<1>0. /\ TypeOK /\ TaskInHand /\ Claims /\ Lives
      /\ told \subseteq Tasks /\ task \in Tasks \cup {NoTask}
      /\ wpc \in TurnStates => task \in Tasks /\ claims[task] > 0
  BY DEF LifeInv, TypeOK, HistoryType, WorkerType, TaskInHand, TurnStates,
         Lives, TurnClaimed
<1>1. \A t \in told' : claims'[t] > 0
  <2>1. \A t \in Tasks : claims[t] > 0 => claims'[t] > 0
    BY <1>0, RowsStay
  <2>2. CASE Watchdog
    <3>1. \A t \in Stuck : t \in Tasks /\ claims[t] > 0
      BY <1>0 DEF Stuck, Rows, Lives, ClaimedBegun
    <3> QED
      BY <1>0, <2>1, <2>2, <3>1 DEF Watchdog, BackedInv
  <2>3. CASE Deliver
    BY <1>0, <2>1, <2>3 DEF Deliver, TurnStates, BackedInv
  <2> QED
    BY <1>0, <2>1, <2>2, <2>3, ToldWriters DEF BackedInv
<1>2. ASSUME DatabaseUp' PROVE \A t \in told' : status'[t] \in Over
  <2>0. DatabaseUp
    BY <1>2, SpentGrows DEF DatabaseUp
  <2>1. \A t \in told : status'[t] \in Over
    BY <1>0, <2>0, OverStays DEF BackedInv
  <2>2. CASE Watchdog
    BY <2>1, <2>2 DEF Watchdog, Stuck, Rows, Set, Over
  <2>3. CASE Deliver
    <3>1. status[task] \in Over /\ status' = status
      BY <2>0, <2>3 DEF Deliver, BackedInv, db
    <3> QED
      BY <2>1, <2>3, <3>1 DEF Deliver
  <2> QED
    BY <2>1, <2>2, <2>3, ToldWriters
<1>3. ASSUME DatabaseUp'
      PROVE  /\ wpc' = "write" /\ fate' = "kept" => status'[task'] \in Over
             /\ wpc' \in {"settle", "deliver"} => status'[task'] \in Over
  <2>0. DatabaseUp
    BY <1>3, SpentGrows DEF DatabaseUp
  <2>1. CASE PersistRead
    <3>1. /\ task \in Tasks /\ claims[task] > 0 /\ UNCHANGED <<status, task>>
          /\ wpc' = "write"
          /\ fate' = "kept" => status[task] \notin {"running", "pending"}
      BY <1>0, <2>1 DEF PersistRead, Unless, TurnStates, db
    <3> QED
      BY <1>0, <3>1 DEF Lives, ClaimedBegun
  <2>2. CASE PersistWrite
    <3>1. /\ task \in Tasks /\ task' = task /\ wpc = "write" /\ wpc' = "settle"
          /\ fate \in Over \cup {"kept"} /\ status \in [Tasks -> Statuses]
      BY <1>0, <2>2
      DEF PersistWrite, TurnStates, TypeOK, WorkerType, RowsType, turn
    <3>2. CASE fate = "kept"
      BY <2>0, <2>2, <3>1, <3>2 DEF PersistWrite, BackedInv
    <3>3. CASE fate # "kept"
      BY <2>2, <3>1, <3>3 DEF PersistWrite
    <3> QED
      BY <3>1, <3>2, <3>3
  <2>3. ~PersistLost
    BY <1>3 DEF PersistLost, Fault, DatabaseUp
  <2>4. CASE Settle
    BY <2>0, <2>4 DEF Settle, BackedInv, db, turn
  <2>5. CASE wpc' = wpc /\ task' = task /\ UNCHANGED <<fate, tell>>
    BY <1>0, <2>0, <2>5, OverStays DEF BackedInv, TurnStates
  <2> QED
    BY <2>1, <2>2, <2>3, <2>4, <2>5, EndPlaces
<1> QED
  BY <1>1, <1>2, <1>3 DEF BackedInv

LEMMA BackedInvariance == Spec => []BackedInv
<1>1. Init => BackedInv
  BY DEF Init, BackedInv
<1>2. LifeInv /\ BackedInv /\ [Next]_vars => BackedInv'
  BY BackedNext
<1> QED
  BY LifeInvariance, <1>1, <1>2, PTL DEF Spec

\* As long as no database operation has failed, a task the user has been told
\* of is over in the database, and stays so: no restart resumes it, no commit,
\* promotion or watchdog reopens it, whatever happens to Redis and the agents.
THEOREM ToldIsOver == Spec => [](DatabaseUp => AnswerBacked)
<1>1. BackedInv => (DatabaseUp => AnswerBacked)
  BY DEF BackedInv, AnswerBacked
<1> QED
  BY BackedInvariance, <1>1, PTL

(* The task life.                                                             *)

\* Without an outage the user is told of a turn's task when it ends, not before.
TurnUntold == NoOutage => (wpc \in TurnStates => task \notin told)

LEMMA TurnUntoldNext ==
  LifeInv /\ RunningInv /\ BackedInv /\ TurnUntold /\ [Next]_vars => TurnUntold'
<1> SUFFICES ASSUME LifeInv, RunningInv, BackedInv, TurnUntold, [Next]_vars,
                    NoOutage', wpc' \in TurnStates
             PROVE  task' \notin told'
  BY DEF TurnUntold
<1>0. TypeOK /\ TaskInHand /\ Claims /\ NoOutage
  BY SpentGrows DEF LifeInv, NoOutage
<1>1. ~Watchdog /\ ~Deliver
  BY DEF Watchdog, Deliver, AfterTask, TurnStates
<1>2. UNCHANGED told
  BY <1>1, ToldWriters
<1>3. CASE Mark
  <2>1. claims[task] = 0 /\ task' = task
    BY <1>0, <1>3, MarkRuns DEF Claims, MarkUnclaimed
  <2> QED
    BY <1>2, <2>1 DEF BackedInv
<1>4. CASE wpc \in TurnStates /\ task' = task
  BY <1>0, <1>2, <1>4 DEF TurnUntold
<1> QED
  BY <1>3, <1>4, TurnPlaces DEF TurnPlace

\* LifeOf, case by case.
LEMMA LifeOfCases ==
  ASSUME NEW t \in Tasks
  PROVE  /\ status[t] = "none" => LifeOf(t) = "absent"
         /\ status[t] = "pending" => LifeOf(t) = "waiting"
         /\ status[t] = "running" => LifeOf(t) = "active"
         /\ status[t] \in Over /\ claims[t] = 0 => LifeOf(t) = "merged"
         /\ status[t] \in Over /\ claims[t] # 0 => LifeOf(t) = "over"
  BY DEF LifeOf, Over

LEMMA LifeOfCasesNext ==
  ASSUME NEW t \in Tasks
  PROVE  /\ status'[t] = "none" => LifeOf(t)' = "absent"
         /\ status'[t] = "pending" => LifeOf(t)' = "waiting"
         /\ status'[t] = "running" => LifeOf(t)' = "active"
         /\ status'[t] \in Over /\ claims'[t] = 0 => LifeOf(t)' = "merged"
         /\ status'[t] \in Over /\ claims'[t] # 0 => LifeOf(t)' = "over"
  BY DEF LifeOf, Over

LEMMA LifeMoves ==
  ASSUME LifeInv, [Next]_vars, NEW t \in Tasks
  PROVE  /\ LifeOf(t)' \in Life!Lives
         /\ LifeOf(t)' # LifeOf(t) => <<LifeOf(t), LifeOf(t)'>> \in Life!Moves
<1>0. /\ TypeOK /\ TaskInHand /\ Claims /\ Lives /\ RowMove(t)
      /\ status[t] \in Statuses /\ claims[t] \in Nat
  BY RowMoves DEF LifeInv, TypeOK, RowsType, HistoryType
<1> USE LifeOfCases, LifeOfCasesNext DEF Life!Moves, Life!Lives
<1>1. CASE status'[t] = status[t] /\ claims'[t] = claims[t]
  BY <1>0, <1>1 DEF Statuses
<1>2. CASE status[t] = "none" /\ status'[t] = "pending"
  BY <1>2
<1>3. CASE Mark /\ task = t
  <2>1. /\ status'[t] = "running" /\ claims[t] = 0
        /\ status[t] \in {"pending"} \cup Over
    BY <1>0, <1>3, MarkRuns
    DEF Claims, MarkUnclaimed, Lives, ClaimedBegun, WorkerSeenExist, Statuses
  <2> QED
    BY <2>1
<1>4. CASE status[t] # "none" /\ status'[t] \in Over /\ claims'[t] = claims[t]
  <2>1. CASE status[t] = "pending"
    BY <1>0, <1>4, <2>1 DEF Claims, PendingUnclaimed
  <2>2. CASE status[t] = "running"
    BY <1>0, <1>4, <2>2 DEF Lives, ClaimedBegun
  <2>3. CASE status[t] \in Over
    BY <1>0, <1>4, <2>3
  <2> QED
    BY <1>0, <1>4, <2>1, <2>2, <2>3 DEF Statuses
<1> QED
  BY <1>0, <1>1, <1>2, <1>3, <1>4 DEF RowMove

LEMMA LifeNext ==
  ASSUME LifeInv, RunningInv, RunningInv', BackedInv, TurnUntold, NoOutage,
         NoOutage', [Next]_vars
  PROVE  [Life!Next]_Life!vars
<1>0. /\ TypeOK /\ TaskInHand /\ status \in [Tasks -> Statuses]
      /\ task \in Tasks \cup {NoTask}
  BY DEF LifeInv, TypeOK, RowsType, WorkerType
<1>1. CASE UNCHANGED told
  <2>1. [t \in Tasks |-> LifeOf(t)]' \in [Tasks -> Life!Lives]
    BY LifeMoves
  <2>2. \A t \in Tasks : [u \in Tasks |-> LifeOf(u)]'[t] # [u \in Tasks |-> LifeOf(u)][t]
          => <<[u \in Tasks |-> LifeOf(u)][t], [u \in Tasks |-> LifeOf(u)]'[t]>>
               \in Life!Moves
    BY LifeMoves
  <2>3. \A t \in Tasks : LifeOf(t)' = "active" => status'[t] = "running"
    BY DEF LifeOf
  <2>4. Life!OneTurnAtATime([t \in Tasks |-> LifeOf(t)]')
    BY <2>3 DEF Life!OneTurnAtATime, RunningInv, Rows
  <2> QED
    BY <1>1, <2>1, <2>2, <2>4 DEF Life!Next, Life!Move
<1>2. CASE Watchdog
  <2>1. wpc = "scan" /\ Stuck # {}
    BY <1>2 DEF Watchdog
  <2> QED
    BY <2>1 DEF Stuck, RunningInv, HasTurn, TurnStates
<1>3. CASE Deliver
  <2>1. /\ task \in Tasks /\ task \notin told /\ status[task] \in Over
        /\ claims[task] > 0 /\ UNCHANGED <<status, claims>>
    BY <1>0, <1>3
    DEF Deliver, TaskInHand, TurnUntold, TurnStates, BackedInv, DatabaseUp,
        NoOutage, LifeInv, Lives, TurnClaimed, db
  <2>2. LifeOf(task) = "over"
    BY <2>1, LifeOfCases DEF LifeInv, TypeOK, HistoryType
  <2>3. [t \in Tasks |-> LifeOf(t)]' = [t \in Tasks |-> LifeOf(t)]
    BY <2>1 DEF LifeOf
  <2>4. told' = told \/ told' = told \cup {task}
    BY <1>3 DEF Deliver
  <2> QED
    BY <2>1, <2>2, <2>3, <2>4 DEF Life!Next, Life!Tell, Life!vars
<1> QED
  BY <1>1, <1>2, <1>3, ToldWriters

LEMMA LifeInit == Init => Life!Init
  BY DEF Init, Life!Init, LifeOf

\* In every behaviour in which no operation on the database or on Redis fails,
\* the rows go through the life TaskLife promises, one turn at a time and each
\* end told once: through crashes, terminations, reloads, rollbacks, cancels,
\* redirects, review passes and agents that fail, for any number of each.
THEOREM TaskLifeImplemented == Spec /\ []NoOutage => ImplementsTaskLife
<1>1. Init => TurnUntold
  BY DEF Init, TurnUntold, TurnStates
<1>2. LifeInv /\ RunningInv /\ BackedInv /\ TurnUntold /\ [Next]_vars
        => TurnUntold'
  BY TurnUntoldNext
<1>3. Spec => []TurnUntold
  BY LifeInvariance, RunningInvariance, BackedInvariance, <1>1, <1>2, PTL
  DEF Spec
<1>4. LifeInv /\ RunningInv /\ RunningInv' /\ BackedInv /\ TurnUntold
        /\ NoOutage /\ NoOutage' /\ [Next]_vars => [Life!Next]_Life!vars
  BY LifeNext
<1> QED
  BY LifeInvariance, RunningInvariance, BackedInvariance, <1>3, <1>4, LifeInit,
     PTL DEF Spec, ImplementsTaskLife, Life!Spec

(* Cancelled tasks.                                                           *)

\* The worker is in this task's turn; the task had its turn.
InTurn(t) == task = t /\ wpc \in TurnStates
Past(t) == claims[t] > 0 /\ ~InTurn(t)

LEMMA PastStays ==
  ASSUME LifeInv, [Next]_vars, NEW t \in Tasks, Past(t) PROVE Past(t)'
<1>0. TypeOK /\ TaskInHand /\ Claims /\ Lives
  BY DEF LifeInv
<1>1. claims'[t] > 0
  BY <1>0, RowsStay DEF Past
<1>2. CASE Mark
  <2>1. task # t /\ task' = task
    BY <1>0, <1>2, MarkRuns DEF Past, Claims, MarkUnclaimed
  <2> QED
    BY <1>1, <2>1 DEF Past, InTurn
<1> QED
  BY <1>1, <1>2, TurnPlaces DEF TurnPlace, Past, InTurn

\* While the worker serves, its heartbeat is fresh.
FreshInv == Serving => fresh

LEMMA FreshNext == TypeOK /\ FreshInv /\ [Next]_vars => FreshInv'
<1> SUFFICES ASSUME TypeOK, FreshInv, [Next]_vars PROVE FreshInv'
  OBVIOUS
<1> USE DEF FreshInv, Serving, redis, worker, turn
<1>1. ASSUME NEW m \in Msgs, MessageStep(m) PROVE UNCHANGED <<wpc, fresh>>
  BY <1>1, MessageFrame
<1>2. ASSUME NEW c \in Cancels, CancelStep(c) PROVE UNCHANGED <<wpc, fresh>>
  BY <1>2, CancelFrame
<1>3. ASSUME NEW h \in Handlers, Commit(h) PROVE UNCHANGED <<wpc, fresh>>
  BY <1>3, CommitFrame
<1>4. CASE StartStep
  BY <1>4 DEF StartStep, Start, RecoverRead, RecoverWrite, QueueResume,
         EnqueueResume, Drain, Serve
<1>5. CASE LoopStep
  <2>1. CASE Exit \/ Dequeue \/ Scan \/ ScanNext \/ Watchdog \/ ScanEnds
    BY <2>1 DEF Exit, GoDown, Dequeue, Scan, ScanNext, Watchdog, ScanEnds
  <2>2. CASE ClaimRead \/ Missed \/ Mark \/ Begin \/ Register
    BY <2>2 DEF ClaimRead, Missed, Mark, Begin, Register
  <2> QED
    BY <2>1, <2>2, <1>5 DEF LoopStep
<1>6. CASE TurnStep
  BY <1>6 DEF TurnStep, LeaveEarly, Turn, Spawn, AgentEnds, KillByPoll,
         Consume, NothingToConsume, Release, PersistRead, PersistWrite,
         Settle, Deliver, Fault, db, redis, history
<1>7. ASSUME PromoteStep PROVE UNCHANGED <<wpc, fresh>>
  BY <1>7, PromoteFrame
<1>8. CASE FaultStep
  <2>1. CASE Crash \/ Term \/ Reload \/ RecoverFails
    BY <2>1 DEF Crash, GoDown, Term, Kill, Reload, RecoverFails
  <2>2. CASE MarkFails \/ RegisterFails \/ PersistLost \/ EndFails
             \/ PromoteFails
    BY <2>2 DEF MarkFails, RegisterFails, PersistLost, EndFails, PromoteFails
  <2>3. CASE (\E h \in Handlers : Rollback(h) \/ HandlerFails(h))
             \/ \E m \in Msgs : CreateUnqueued(m)
    BY <2>3 DEF Rollback, HandlerFails, CreateUnqueued
  <2> QED
    BY <2>1, <2>2, <2>3, <1>8 DEF FaultStep
<1>9. CASE (\E u \in Tasks : HearCancel(u)) \/ HearRedirect \/ HeartbeatExpires
  BY <1>9 DEF HearCancel, HearRedirect, HeartbeatExpires, Kill
<1>10. CASE UNCHANGED vars
  BY <1>10 DEF vars
<1> QED
  BY <1>1, <1>2, <1>3, <1>4, <1>5, <1>6, <1>7, <1>8, <1>9, <1>10
  DEF Next, HandlerStep, MainStep

\* How a message comes to fail stale rows.
LEMMA StalePlaces ==
  ASSUME TypeOK, [Next]_vars, NEW m \in Msgs, hpc'[m] \in {"lease", "stale"}
  PROVE  \/ hpc'[m] = hpc[m] /\ seen'[m] = seen[m]
         \/ ListRunning(m) \/ ReadLease(m)
<1> USE DEF handlers, HGoto, See
<1>0. /\ m \in Handlers /\ hpc = [h \in Handlers |-> hpc[h]]
      /\ seen = [h \in Handlers |-> seen[h]]
  BY DEF TypeOK, HandlerType, Handlers
<1>1. ASSUME NEW n \in Msgs, MessageStep(n), ~ListRunning(m), ~ReadLease(m)
      PROVE  hpc'[m] = hpc[m] /\ seen'[m] = seen[m]
  BY <1>0, <1>1 DEF MessageStep, ListRunning, ReadLease, FailStale, ListPending,
              Coalesce, Create, NoteRead, NoteWrite, Store, Announce
<1>2. ASSUME NEW c \in Cancels, CancelStep(c)
      PROVE  hpc'[m] = hpc[m] /\ seen'[m] = seen[m]
  <2>1. c # m
    BY ParamAssumption
  <2> QED
    BY <1>0, <1>2, <2>1 DEF CancelStep, ListForCancel, DropPending,
                            PublishCancel, MarkCancelled
<1>3. ASSUME NEW h \in Handlers, Commit(h)
      PROVE  hpc'[m] = hpc[m] /\ seen'[m] = seen[m]
  BY <1>0, <1>3 DEF Commit
<1>4. ASSUME StartStep PROVE UNCHANGED <<hpc, seen>>
  BY <1>4, StartFrame
<1>5. ASSUME LoopStep PROVE UNCHANGED <<hpc, seen>>
  BY <1>5, LoopFrame
<1>6. ASSUME TurnStep PROVE UNCHANGED <<hpc, seen>>
  BY <1>6, TurnFrame
<1>7. ASSUME PromoteStep PROVE UNCHANGED <<hpc, seen>>
  BY <1>7, PromoteFrame
<1>8. ASSUME FaultStep PROVE hpc'[m] = hpc[m] /\ seen'[m] = seen[m]
  <2>1. ASSUME NEW h \in Handlers, Rollback(h) \/ HandlerFails(h)
        PROVE  hpc'[m] = hpc[m] /\ seen'[m] = seen[m]
    BY <1>0, <2>1 DEF Rollback, HandlerFails
  <2>2. ASSUME NEW n \in Msgs, CreateUnqueued(n)
        PROVE  hpc'[m] = hpc[m] /\ seen'[m] = seen[m]
    BY <1>0, <2>2 DEF CreateUnqueued
  <2>3. CASE Crash \/ Term \/ Reload \/ RecoverFails \/ MarkFails
             \/ RegisterFails \/ PersistLost \/ EndFails \/ PromoteFails
    BY <2>3 DEF Crash, Term, Reload, RecoverFails, MarkFails, RegisterFails,
                PersistLost, EndFails, PromoteFails
  <2> QED
    BY <2>1, <2>2, <2>3, <1>8 DEF FaultStep
<1>9. ASSUME (\E t \in Tasks : HearCancel(t)) \/ HearRedirect \/ HeartbeatExpires
      PROVE  UNCHANGED <<hpc, seen>>
  BY <1>9, ListenFrame
<1>10. CASE UNCHANGED vars
  BY <1>10 DEF vars
<1> QED
  BY <1>1, <1>2, <1>3, <1>4, <1>5, <1>6, <1>7, <1>8, <1>9, <1>10
  DEF Next, HandlerStep, MainStep

\* Rows taken for stale had their turn: there was neither a lease nor a
\* heartbeat when the message looked.  And so had rows about to be failed.
StaleInv ==
    \A m \in Msgs : \A t \in seen[m] :
        /\ hpc[m] = "lease" => claims[t] > 0
        /\ hpc[m] = "stale" => Past(t)

FailedWritesPast ==
    \A h \in Handlers : \A t \in DOMAIN bufStatus[h] :
        /\ bufStatus[h][t] \in {"pending", "cancelled", "failed"}
        /\ bufStatus[h][t] = "failed" => Past(t)

StaleAreDead == FreshInv /\ StaleInv /\ FailedWritesPast

LEMMA StaleNext == LifeInv /\ StaleAreDead /\ [Next]_vars => StaleAreDead'
<1> SUFFICES ASSUME LifeInv, StaleAreDead, [Next]_vars PROVE StaleAreDead'
  OBVIOUS
<1>0. /\ TypeOK /\ TaskInHand /\ Claims /\ Lives
      /\ seen \in [Handlers -> SUBSET Tasks]
  BY DEF LifeInv, TypeOK, HandlerType
<1>1. FreshInv'
  BY <1>0, FreshNext DEF StaleAreDead
<1>2. StaleInv'
  <2> SUFFICES ASSUME NEW m \in Msgs, NEW t \in seen'[m]
               PROVE  /\ hpc'[m] = "lease" => claims'[t] > 0
                      /\ hpc'[m] = "stale" => Past(t)'
    BY DEF StaleInv
  <2>0. m \in Handlers /\ \A u \in Tasks : claims[u] > 0 => claims'[u] > 0
    BY <1>0, RowsStay DEF Handlers
  <2>1. CASE hpc'[m] = hpc[m] /\ seen'[m] = seen[m]
    BY <1>0, <2>0, <2>1, PastStays DEF StaleAreDead, StaleInv
  <2>2. CASE ListRunning(m)
    <3>1. hpc'[m] = "lease" /\ seen'[m] = Rows("running") /\ UNCHANGED claims
      BY <1>0, <2>0, <2>2
      DEF ListRunning, HGoto, See, history, TypeOK, HandlerType
    <3> QED
      BY <1>0, <3>1 DEF Rows, Lives, ClaimedBegun
  <2>3. CASE ReadLease(m)
    <3>1. /\ hpc[m] = "lease" /\ hpc'[m] # "lease" /\ seen' = seen
          /\ UNCHANGED <<claims, task, wpc>>
          /\ hpc'[m] = "stale" => ~fresh
      BY <1>0, <2>0, <2>3
      DEF ReadLease, HGoto, history, worker, turn, TypeOK, HandlerType
    <3>2. t \in Tasks /\ claims[t] > 0
      BY <1>0, <2>0, <3>1 DEF StaleAreDead, StaleInv
    <3>3. hpc'[m] = "stale" => wpc \notin TurnStates
      BY <3>1 DEF StaleAreDead, FreshInv, Serving, TurnStates
    <3> QED
      BY <3>1, <3>2, <3>3 DEF Past, InTurn
  <2>4. CASE hpc'[m] \notin {"lease", "stale"}
    BY <2>4
  <2> QED
    BY <1>0, <2>1, <2>2, <2>3, <2>4, StalePlaces
<1>3. FailedWritesPast'
  <2> SUFFICES ASSUME NEW h \in Handlers, NEW t \in DOMAIN bufStatus'[h]
               PROVE  /\ bufStatus'[h][t] \in {"pending", "cancelled", "failed"}
                      /\ bufStatus'[h][t] = "failed" => Past(t)'
    BY DEF FailedWritesPast
  <2>0. t \in Tasks
    BY <1>0, BufferMoves
  <2>1. CASE t \in DOMAIN bufStatus[h] /\ bufStatus'[h][t] = bufStatus[h][t]
    BY <2>0, <2>1, PastStays DEF StaleAreDead, FailedWritesPast
  <2>2. CASE bufStatus'[h][t] \in {"cancelled", "pending"}
    BY <2>2
  <2>3. CASE /\ t \in seen[h] /\ h \in Msgs /\ hpc[h] = "stale"
             /\ bufStatus'[h][t] = "failed"
    <3>1. Past(t)
      BY <2>3 DEF StaleAreDead, StaleInv
    <3> QED
      BY <2>0, <2>3, <3>1, PastStays
  <2> QED
    BY <1>0, <2>1, <2>2, <2>3, BufferMoves
<1> QED
  BY <1>1, <1>2, <1>3 DEF StaleAreDead

LEMMA StaleInvariance == Spec => []StaleAreDead
<1>1. Init => StaleAreDead
  <2> SUFFICES ASSUME Init PROVE StaleAreDead
    OBVIOUS
  <2>1. FreshInv /\ StaleInv
    BY DEF Init, FreshInv, Serving, StaleInv, Handlers
  <2>2. \A h \in Handlers : DOMAIN bufStatus[h] = {}
    BY DEF Init, NoRows
  <2> QED
    BY <2>1, <2>2 DEF StaleAreDead, FailedWritesPast
<1>2. LifeInv /\ StaleAreDead /\ [Next]_vars => StaleAreDead'
  BY StaleNext
<1> QED
  BY LifeInvariance, <1>1, <1>2, PTL DEF Spec

\* The cancels no promotion has written over.
Standing == halted \ overruled

\* Where they come from, and what a promotion does to them.
LEMMA HaltedMoves ==
  ASSUME [Next]_vars, NEW t \in Standing'
  PROVE  \/ t \in Standing /\ (PromoteWrite => t \notin lseen.stale)
         \/ \E h \in Cancels :
              /\ Commit(h) /\ t \in DOMAIN bufStatus[h]
              /\ t \in Rows("running") /\ ~(task = t /\ Deciding)
<1> DEFINE Goal ==
      \/ t \in Standing /\ (PromoteWrite => t \notin lseen.stale)
      \/ \E h \in Cancels :
           /\ Commit(h) /\ t \in DOMAIN bufStatus[h]
           /\ t \in Rows("running") /\ ~(task = t /\ Deciding)
<1> USE DEF history, Standing
<1>0. PromoteWrite => Goal
  BY DEF PromoteWrite
<1>1. ASSUME NEW m \in Msgs, MessageStep(m) PROVE UNCHANGED Standing
  BY <1>1, MessageFrame
<1>2. ASSUME NEW c \in Cancels, CancelStep(c) PROVE UNCHANGED Standing
  BY <1>2, CancelFrame
<1>3. ASSUME NEW h \in Handlers, Commit(h), ~PromoteWrite PROVE Goal
  BY <1>3 DEF Commit
<1>4. ASSUME StartStep PROVE UNCHANGED Standing
  BY <1>4, StartFrame
<1>5. ASSUME LoopStep PROVE UNCHANGED Standing
  BY <1>5, LoopFrame
<1>6. ASSUME TurnStep PROVE UNCHANGED Standing
  BY <1>6, TurnFrame
<1>7. ASSUME PromoteStep, ~PromoteWrite PROVE UNCHANGED Standing
  BY <1>7 DEF PromoteStep, PromoteCheck, PromoteTake, PromoteRead,
              PromoteEnqueue
<1>8. ASSUME FaultStep PROVE UNCHANGED Standing
  BY <1>8, FaultFrame
<1>9. ASSUME (\E u \in Tasks : HearCancel(u)) \/ HearRedirect \/ HeartbeatExpires
      PROVE  UNCHANGED Standing
  BY <1>9, ListenFrame
<1>10. ASSUME UNCHANGED vars PROVE UNCHANGED Standing
  BY <1>10 DEF vars
<1> HIDE DEF Goal
<1>11. PromoteWrite \/ Goal \/ UNCHANGED Standing
  BY <1>1, <1>2, <1>3, <1>4, <1>5, <1>6, <1>7, <1>8, <1>9, <1>10
  DEF Next, HandlerStep, MainStep
<1>12. UNCHANGED Standing /\ ~PromoteWrite => Goal
  BY DEF Goal
<1> QED
  BY <1>0, <1>11, <1>12 DEF Goal

\* A task cancelled before its end was decided still says so while its turn
\* goes on, its turn ends as cancelled or writes nothing, and is not answered.
HaltInv ==
    DatabaseUp =>
        /\ \A t \in Standing : /\ claims[t] > 0
                               /\ InTurn(t) => status[t] = "cancelled"
        /\ wpc = "write" /\ task \in Standing => fate \in {"kept", "cancelled"}
        /\ Deciding /\ task \in Standing => ~(tell /\ outcome = "ok")
        /\ NoAnswerAfterCancel

\* Nobody writes over a cancelled row in its turn, but the turn.
LEMMA CancelledStays ==
  ASSUME LifeInv, StaleAreDead, HaltInv, DatabaseUp, [Next]_vars,
         NEW t \in Tasks, t \in Standing, t \in Standing', InTurn(t)
  PROVE  status'[t] = "cancelled"
<1>0. /\ TypeOK /\ Claims /\ Lives /\ status \in [Tasks -> Statuses]
      /\ status[t] = "cancelled" /\ claims[t] > 0
      /\ task = t /\ wpc \in TurnStates
  <2>1. TypeOK /\ Claims /\ Lives
    BY DEF LifeInv
  <2>2. status \in [Tasks -> Statuses]
    BY <2>1 DEF TypeOK, RowsType
  <2>3. status[t] = "cancelled" /\ claims[t] > 0
    BY DEF HaltInv
  <2>4. task = t /\ wpc \in TurnStates
    BY DEF InTurn
  <2> QED
    BY <2>1, <2>2, <2>3, <2>4
<1>1. ASSUME NEW h \in Handlers, Commit(h) PROVE status'[t] = "cancelled"
  <2>1. status'[t] = IF t \in DOMAIN bufStatus[h] THEN bufStatus[h][t]
                                                  ELSE status[t]
    BY <1>1 DEF Commit, Overlay
  <2>2. t \in DOMAIN bufStatus[h] => bufStatus[h][t] = "cancelled"
    BY <1>0 DEF Claims, CommitsUnclaimed, StaleAreDead, FailedWritesPast,
                Past, InTurn
  <2> QED
    BY <1>0, <2>1, <2>2
<1>2. CASE QueueResume
  BY <1>0, <1>2 DEF QueueResume, TurnStates
<1>3. CASE RecoverWrite
  BY <1>0, <1>3 DEF RecoverWrite, TurnStates
<1>4. CASE Watchdog
  BY <1>0, <1>4 DEF Watchdog, TurnStates
<1>5. CASE Mark
  BY <1>0, <1>5 DEF Mark, TurnStates
<1>6. CASE PersistWrite
  BY <1>0, <1>6 DEF PersistWrite, HaltInv
<1>7. CASE PromoteWrite
  <2>1. PICK u \in Tasks :
          /\ IF lseen.pending # {}
               THEN Oldest(u, lseen.pending) /\ UNCHANGED made
               ELSE u = made + 1 /\ made' = made + 1
          /\ status' = [Set(Set(status, lseen.stale, "failed"),
                            lseen.pending \ {u}, "cancelled")
                         EXCEPT ![u] = Promoted(u)]
    BY <1>7 DEF PromoteWrite
  <2>2. t \notin lseen.stale
    BY <1>7 DEF PromoteWrite, Standing
  <2>3. CASE t # u
    BY <1>0, <2>1, <2>2, <2>3 DEF Set
  <2>4. CASE t = u
    <3>1. status'[t] = Promoted(t)
      BY <2>1, <2>4 DEF Set
    <3>2. lseen.pending # {}
      BY <1>0, <2>1, <2>4, NextRow
    <3> QED
      BY <1>0, <3>1, <3>2 DEF Promoted
  <2> QED
    BY <2>3, <2>4
<1> QED
  BY <1>0, <1>1, <1>2, <1>3, <1>4, <1>5, <1>6, <1>7, RowWriters DEF RowWriter

\* A turn that ends on a row that says cancelled ends as cancelled, or keeps the
\* row and answers nobody.
LEMMA CancelledEnds ==
  ASSUME PersistRead, status[task] = "cancelled"
  PROVE  /\ fate' \in {"kept", "cancelled"}
         /\ ~(tell' /\ outcome' = "ok")
<1>1. Stopped /\ Unless("completed") = "kept" /\ Unless("failed") = "kept"
  BY DEF Stopped, Unless
<1>2. fate' \in {"kept", "cancelled"}
  BY <1>1 DEF PersistRead
<1>3. outcome' = "ok" => ~tell'
  BY <1>1 DEF PersistRead
<1> QED
  BY <1>2, <1>3

LEMMA HaltNext ==
  LifeInv /\ BackedInv /\ StaleAreDead /\ HaltInv /\ [Next]_vars => HaltInv'
<1> SUFFICES ASSUME LifeInv, BackedInv, StaleAreDead, HaltInv, [Next]_vars,
                    DatabaseUp'
             PROVE  /\ \A t \in Standing' :
                         /\ claims'[t] > 0
                         /\ InTurn(t)' => status'[t] = "cancelled"
                    /\ wpc' = "write" /\ task' \in Standing'
                         => fate' \in {"kept", "cancelled"}
                    /\ Deciding' /\ task' \in Standing'
                         => ~(tell' /\ outcome' = "ok")
                    /\ NoAnswerAfterCancel'
  BY DEF HaltInv
<1>0. /\ TypeOK /\ TaskInHand /\ Claims /\ Lives /\ DatabaseUp
      /\ Standing \subseteq Tasks /\ answered \subseteq told
      /\ \A t \in Standing : claims[t] > 0
  <2>1. TypeOK /\ TaskInHand /\ Claims /\ Lives
    BY DEF LifeInv
  <2>2. DatabaseUp
    BY SpentGrows DEF DatabaseUp
  <2>3. Standing \subseteq Tasks /\ answered \subseteq told
    BY <2>1 DEF TypeOK, HistoryType, Standing
  <2>4. \A t \in Standing : claims[t] > 0
    BY <2>2 DEF HaltInv
  <2> QED
    BY <2>1, <2>2, <2>3, <2>4
<1>1. ASSUME NEW t \in Standing'
      PROVE  t \in Tasks /\ claims[t] > 0 /\ claims'[t] > 0
  <2>1. t \in Tasks /\ claims[t] > 0
    BY <1>0, HaltedMoves DEF Rows, Lives, ClaimedBegun
  <2> QED
    BY <1>0, <2>1, RowsStay
<1>2. ASSUME NEW t \in Standing', InTurn(t)' PROVE status'[t] = "cancelled"
  <2>1. InTurn(t)
    <3>1. ~(Mark /\ task = t)
      BY <1>0, <1>1 DEF Mark, Claims, MarkUnclaimed
    <3>2. Mark => task' = task
      BY DEF Mark, turn
    <3> QED
      BY <1>2, <3>1, <3>2, TurnPlaces DEF TurnPlace, InTurn
  <2>2. CASE t \in Standing
    BY <1>0, <1>1, <2>1, <2>2, CancelledStays
  <2>3. ASSUME NEW h \in Cancels, Commit(h), t \in DOMAIN bufStatus[h]
        PROVE  status'[t] = "cancelled"
    <3>1. h \in Handlers /\ status'[t] = bufStatus[h][t]
      BY <1>1, <2>3 DEF Handlers, Commit, Overlay
    <3> QED
      BY <1>0, <1>1, <2>1, <2>3, <3>1
      DEF Claims, CommitsUnclaimed, StaleAreDead, FailedWritesPast, Past
  <2> QED
    BY <2>2, <2>3, HaltedMoves
<1>3. ASSUME Deciding', task' \in Standing'
      PROVE  /\ wpc' = "write" => fate' \in {"kept", "cancelled"}
             /\ ~(tell' /\ outcome' = "ok")
  <2>1. CASE PersistRead
    <3>1. task' = task /\ task \in Standing /\ InTurn(task)
      BY <1>3, <2>1 DEF PersistRead, InTurn, TurnStates, history, Standing
    <3>2. status[task] = "cancelled"
      BY <1>0, <3>1 DEF HaltInv
    <3> QED
      BY <2>1, <3>2, CancelledEnds
  <2>2. CASE PersistWrite
    BY <1>0, <1>3, <2>2 DEF PersistWrite, HaltInv, Deciding, turn, history, Standing
  <2>3. CASE Settle
    BY <1>0, <1>3, <2>3 DEF Settle, HaltInv, Deciding, turn, history, Standing
  <2>4. ~PersistLost
    BY <1>0 DEF PersistLost, Fault, DatabaseUp
  <2>5. CASE wpc' = wpc /\ task' = task /\ UNCHANGED <<fate, tell, outcome>>
    <3>1. Deciding
      BY <1>3, <2>5 DEF Deciding
    <3>2. task \in Standing
      BY <1>3, <2>5, <3>1, HaltedMoves
    <3> QED
      BY <1>0, <2>5, <3>1, <3>2 DEF HaltInv
  <2> QED
    BY <1>3, <2>1, <2>2, <2>3, <2>4, <2>5, EndPlaces DEF Deciding
<1>4. NoAnswerAfterCancel'
  <2> SUFFICES ASSUME NEW t \in answered', t \in Standing' PROVE FALSE
    BY DEF NoAnswerAfterCancel, Standing
  <2>1. CASE t \in answered
    <3>1. status[t] \in Over /\ t \notin Standing
      BY <1>0, <2>1 DEF BackedInv, HaltInv, NoAnswerAfterCancel, Standing
    <3> QED
      BY <3>1, HaltedMoves DEF Rows, Over
  <2>2. CASE t \notin answered
    <3>1. Deliver
      BY <2>2, ToldWriters DEF Watchdog
    <3>2. t = task /\ tell /\ outcome = "ok" /\ Standing' = Standing
      BY <2>2, <3>1 DEF Deliver, Standing
    <3> QED
      BY <1>0, <3>1, <3>2 DEF Deliver, HaltInv, Deciding
  <2> QED
    BY <2>1, <2>2
<1> QED
  BY <1>1, <1>2, <1>3, <1>4 DEF Deciding

LEMMA HaltInvariance == Spec => []HaltInv
<1>1. Init => HaltInv
  BY DEF Init, HaltInv, NoAnswerAfterCancel, Standing
<1>2. LifeInv /\ BackedInv /\ StaleAreDead /\ HaltInv /\ [Next]_vars => HaltInv'
  BY HaltNext
<1> QED
  BY LifeInvariance, BackedInvariance, StaleInvariance, <1>1, <1>2, PTL DEF Spec

\* As long as no database operation has failed, a task whose cancel was
\* committed before the worker read the row to end it is not answered: whether
\* the cancel message is heard or not, through redirects and review passes,
\* crashes, terminations, commits in any order and failing Redis operations -
\* unless a promotion that took the row for stale has failed it over the cancel.
THEOREM CancelledUnanswered == Spec => [](DatabaseUp => NoAnswerAfterCancel)
<1>1. HaltInv => (DatabaseUp => NoAnswerAfterCancel)
  BY DEF HaltInv
<1> QED
  BY HaltInvariance, <1>1, PTL

\* Where the database and Redis do not fail at all, nothing more is needed.
THEOREM WithoutOutages ==
  ASSUME FaultKinds \cap {"db", "redis"} = {}
  PROVE  Spec => /\ [](RunningHasTurn /\ AnswerBacked /\ NoAnswerAfterCancel)
                 /\ ImplementsTaskLife
<1>1. TypeOK => NoOutage /\ DatabaseUp
  BY DEF TypeOK, HistoryType, NoOutage, DatabaseUp
<1> QED
  BY TypeCorrect, RunningRows, ToldIsOver, CancelledUnanswered,
     TaskLifeImplemented, <1>1, PTL

(* Locks.                                                                     *)

\* How a handler comes to where it stands, and with which rows in hand.
HandlerPlace(h) ==
    \/ /\ hpc'[h] = hpc[h] /\ seen'[h] = seen[h]
       /\ bufStatus'[h] = bufStatus[h] /\ bufPrompt'[h] = bufPrompt[h]
    \/ hpc'[h] \in {"commit", "done", "lost"}
    \/ h \in Msgs /\ \/ ListRunning(h) \/ ReadLease(h) \/ FailStale(h)
                     \/ ListPending(h) \/ NoteRead(h) \/ NoteWrite(h) \/ Store(h)
    \/ h \in Cancels /\ (ListForCancel(h) \/ DropPending(h) \/ PublishCancel(h))

LEMMA HandlerPlaces ==
  ASSUME TypeOK, [Next]_vars, NEW h \in Handlers PROVE HandlerPlace(h)
<1> USE DEF HandlerPlace, handlers, HGoto
<1>0. /\ hpc = [g \in Handlers |-> hpc[g]]
      /\ seen = [g \in Handlers |-> seen[g]]
      /\ bufStatus = [g \in Handlers |-> bufStatus[g]]
      /\ bufPrompt = [g \in Handlers |-> bufPrompt[g]]
  BY DEF TypeOK, HandlerType
<1>1. ASSUME NEW m \in Msgs, MessageStep(m) PROVE HandlerPlace(h)
  <2>0. m \in Handlers
    BY DEF Handlers
  <2>1. CASE m = h
    BY <1>0, <1>1, <2>1, SMTT(60) DEF MessageStep, Coalesce, Create, Announce
  <2>2. CASE m # h
    BY <1>0, <1>1, <2>2 DEF MessageStep, ListRunning, ReadLease, FailStale,
       ListPending, Coalesce, Create, NoteRead, NoteWrite, Store, Announce, See,
       Buffered
  <2> QED
    BY <2>1, <2>2
<1>2. ASSUME NEW c \in Cancels, CancelStep(c) PROVE HandlerPlace(h)
  <2>1. CASE c = h
    BY <1>0, <1>2, <2>1 DEF CancelStep, MarkCancelled
  <2>2. CASE c # h
    BY <1>0, <1>2, <2>2 DEF CancelStep, ListForCancel, DropPending, PublishCancel,
       MarkCancelled, See, Buffered
  <2> QED
    BY <2>1, <2>2
<1>3. ASSUME NEW g \in Handlers, Commit(g) PROVE HandlerPlace(h)
  BY <1>0, <1>3 DEF Commit
<1>4. ASSUME StartStep PROVE UNCHANGED handlers
  BY <1>4, StartFrame
<1>5. ASSUME LoopStep PROVE UNCHANGED handlers
  BY <1>5, LoopFrame
<1>6. ASSUME TurnStep PROVE UNCHANGED handlers
  BY <1>6, TurnFrame
<1>7. ASSUME PromoteStep PROVE UNCHANGED handlers
  BY <1>7, PromoteFrame
<1>8. ASSUME FaultStep PROVE HandlerPlace(h)
  <2>1. ASSUME NEW g \in Handlers, Rollback(g) \/ HandlerFails(g)
        PROVE  HandlerPlace(h)
    BY <1>0, <2>1 DEF Rollback, HandlerFails
  <2>2. ASSUME NEW m \in Msgs, CreateUnqueued(m) PROVE HandlerPlace(h)
    BY <1>0, <2>2 DEF CreateUnqueued, Buffered
  <2>3. CASE Crash \/ Term \/ Reload \/ RecoverFails \/ MarkFails
             \/ RegisterFails \/ PersistLost \/ EndFails \/ PromoteFails
    BY <2>3 DEF Crash, Term, Reload, RecoverFails, MarkFails, RegisterFails,
                PersistLost, EndFails, PromoteFails
  <2> QED
    BY <2>1, <2>2, <2>3, <1>8 DEF FaultStep
<1>9. ASSUME (\E t \in Tasks : HearCancel(t)) \/ HearRedirect \/ HeartbeatExpires
      PROVE  UNCHANGED handlers
  BY <1>9, ListenFrame
<1>10. CASE UNCHANGED vars
  BY <1>10 DEF vars
<1> QED
  BY <1>1, <1>2, <1>3, <1>4, <1>5, <1>6, <1>7, <1>8, <1>9, <1>10
  DEF Next, HandlerStep, MainStep

\* A handler locks nothing before its first write, so one that waits to fail
\* stale rows or to mark cancelled ones holds nothing others could wait for ...
EmptyHanded ==
    \A h \in Handlers :
        hpc[h] \in {"new", "lease", "stale", "note", "keep", "store", "announce",
                    "drop", "publish", "mark"} => Locks(h) = {}

\* ... and a message that goes on to the pending rows holds only stale ones,
\* which had their turn ...
HoldsClaimed ==
    \A h \in Handlers : hpc[h] \in {"list", "coalesce", "create"} =>
                            \A t \in Locks(h) : claims[t] > 0

\* ... so the last message that has come to take over a pending row waits for
\* none of those before it: no row that was pending then had had its turn.
Coalescers == {h \in Handlers : hpc[h] = "coalesce"}
SomeoneFree ==
    \A H \in SUBSET Coalescers :
        H # {} => \E h \in H : \A g \in H \ {h} : seen[h] \cap Locks(g) = {}

LockInv == EmptyHanded /\ HoldsClaimed /\ SomeoneFree

LEMMA EmptyHandedNext ==
  ASSUME TypeOK, EmptyHanded, [Next]_vars PROVE EmptyHanded'
<1> SUFFICES ASSUME NEW h \in Handlers,
                    hpc'[h] \in {"new", "lease", "stale", "note", "keep", "store",
                                 "announce", "drop", "publish", "mark"}
             PROVE  Locks(h)' = {}
  BY DEF EmptyHanded
<1>0. hpc \in [Handlers -> {hpc[g] : g \in Handlers}]
  BY DEF TypeOK, HandlerType
<1>1. CASE /\ hpc'[h] = hpc[h] /\ seen'[h] = seen[h]
           /\ bufStatus'[h] = bufStatus[h] /\ bufPrompt'[h] = bufPrompt[h]
  BY <1>1 DEF EmptyHanded, Locks
<1>2. CASE h \in Msgs /\ (ListRunning(h) \/ ReadLease(h) \/ NoteRead(h)
                          \/ NoteWrite(h) \/ Store(h))
  <2>1. /\ hpc[h] \in {"new", "lease", "note", "keep", "store"}
        /\ bufStatus' = bufStatus /\ bufPrompt' = bufPrompt
    BY <1>2 DEF ListRunning, ReadLease, NoteRead, NoteWrite, Store
  <2> QED
    BY <2>1 DEF EmptyHanded, Locks
<1>3. CASE h \in Msgs /\ (FailStale(h) \/ ListPending(h))
  BY <1>0, <1>3 DEF FailStale, ListPending, HGoto
<1>4. CASE h \in Cancels /\ (ListForCancel(h) \/ DropPending(h) \/ PublishCancel(h))
  <2>1. /\ hpc[h] \in {"new", "drop", "publish"}
        /\ bufStatus' = bufStatus /\ bufPrompt' = bufPrompt
    BY <1>4 DEF ListForCancel, DropPending, PublishCancel
  <2> QED
    BY <2>1 DEF EmptyHanded, Locks
<1> QED
  BY <1>1, <1>2, <1>3, <1>4, HandlerPlaces DEF HandlerPlace

LEMMA HoldsClaimedNext ==
  ASSUME LifeInv, StaleAreDead, EmptyHanded, HoldsClaimed, [Next]_vars
  PROVE  HoldsClaimed'
<1> SUFFICES ASSUME NEW m \in Handlers,
                    hpc'[m] \in {"list", "coalesce", "create"},
                    NEW t \in Locks(m)'
             PROVE  claims'[t] > 0
  BY DEF HoldsClaimed
<1>0. /\ TypeOK /\ TaskInHand /\ Claims /\ Lives
      /\ hpc \in [Handlers -> {hpc[g] : g \in Handlers}]
      /\ seen[m] \subseteq Tasks /\ Locks(m) \subseteq Tasks
  BY DEF LifeInv, TypeOK, HandlerType, Partial, Handlers, Locks
<1>1. ASSUME t \in Tasks, claims[t] > 0 PROVE claims'[t] > 0
  BY <1>0, <1>1, RowsStay
<1>2. CASE /\ hpc'[m] = hpc[m] /\ seen'[m] = seen[m]
           /\ bufStatus'[m] = bufStatus[m] /\ bufPrompt'[m] = bufPrompt[m]
  BY <1>0, <1>1, <1>2 DEF HoldsClaimed, Locks
<1>3. CASE ListPending(m)
  <2>1. hpc[m] = "list" /\ bufStatus' = bufStatus /\ bufPrompt' = bufPrompt
    BY <1>3 DEF ListPending
  <2> QED
    BY <1>0, <1>1, <2>1 DEF HoldsClaimed, Locks
<1>4. CASE m \in Msgs /\ FailStale(m)
  <2>1. /\ hpc[m] = "stale" /\ bufPrompt' = bufPrompt
        /\ bufStatus' = Buffered(bufStatus, m, seen[m], "failed")
    BY <1>4 DEF FailStale
  <2>2. Locks(m) = {}
    BY <1>0, <2>1 DEF EmptyHanded
  <2>3. DOMAIN bufStatus'[m] = DOMAIN bufStatus[m] \cup seen[m]
    BY <1>0, <2>1 DEF Buffered, TypeOK, HandlerType
  <2>4. t \in seen[m]
    BY <2>1, <2>2, <2>3 DEF Locks
  <2>5. claims[t] > 0
    BY <1>4, <2>1, <2>4 DEF StaleAreDead, StaleInv, Past
  <2> QED
    BY <1>0, <1>1, <2>4, <2>5
<1>5. CASE ReadLease(m)
  <2>1. hpc[m] = "lease" /\ bufStatus' = bufStatus /\ bufPrompt' = bufPrompt
    BY <1>5 DEF ReadLease
  <2> QED
    BY <1>0, <2>1 DEF EmptyHanded, Locks
<1>6. CASE ListRunning(m) \/ NoteRead(m) \/ NoteWrite(m) \/ Store(m)
  BY <1>0, <1>6 DEF ListRunning, NoteRead, NoteWrite, Store, HGoto
<1>7. CASE ListForCancel(m) \/ DropPending(m) \/ PublishCancel(m)
  BY <1>0, <1>7 DEF ListForCancel, DropPending, PublishCancel, HGoto
<1> QED
  BY <1>0, <1>2, <1>3, <1>4, <1>5, <1>6, <1>7, HandlerPlaces DEF HandlerPlace

\* Who waits to take over a pending row did so before with the same rows in
\* hand, or has just read the pending rows.
LEMMA CoalescerPlaces ==
  ASSUME TypeOK, [Next]_vars, NEW m \in Coalescers'
  PROVE  /\ m \in Handlers
         /\ Locks(m)' = Locks(m)
         /\ \/ m \in Coalescers /\ seen'[m] = seen[m]
            \/ ListPending(m) /\ hpc[m] = "list" /\ seen'[m] = Rows("pending")
<1>0. /\ m \in Handlers /\ hpc'[m] = "coalesce"
      /\ hpc \in [Handlers -> {hpc[g] : g \in Handlers}]
      /\ seen \in [Handlers -> SUBSET Tasks]
  BY DEF Coalescers, Handlers, TypeOK, HandlerType
<1>1. CASE /\ hpc'[m] = hpc[m] /\ seen'[m] = seen[m]
           /\ bufStatus'[m] = bufStatus[m] /\ bufPrompt'[m] = bufPrompt[m]
  BY <1>0, <1>1 DEF Coalescers, Locks
<1>2. CASE ListPending(m)
  BY <1>0, <1>2 DEF ListPending, See, Locks
<1>3. CASE ListRunning(m) \/ ReadLease(m) \/ FailStale(m) \/ NoteRead(m)
           \/ NoteWrite(m) \/ Store(m)
  BY <1>0, <1>3 DEF ListRunning, ReadLease, FailStale, NoteRead, NoteWrite,
                    Store, HGoto
<1>4. CASE ListForCancel(m) \/ DropPending(m) \/ PublishCancel(m)
  BY <1>0, <1>4 DEF ListForCancel, DropPending, PublishCancel, HGoto
<1> QED
  BY <1>0, <1>1, <1>2, <1>3, <1>4, HandlerPlaces DEF HandlerPlace

LEMMA SomeoneFreeNext ==
  ASSUME LifeInv, HoldsClaimed, SomeoneFree, [Next]_vars
  PROVE  SomeoneFree'
<1> SUFFICES ASSUME NEW H \in SUBSET Coalescers', H # {}
             PROVE  \E h \in H : \A g \in H \ {h} :
                       seen'[h] \cap Locks(g)' = {}
  BY DEF SomeoneFree
<1>0. TypeOK /\ Claims
  BY DEF LifeInv
<1>1. CASE H \subseteq Coalescers /\ \A h \in H : seen'[h] = seen[h]
  <2>1. PICK h \in H : \A g \in H \ {h} : seen[h] \cap Locks(g) = {}
    BY <1>1 DEF SomeoneFree
  <2>2. \A g \in H : Locks(g)' = Locks(g)
    BY <1>0, CoalescerPlaces
  <2> QED
    BY <1>1, <2>1, <2>2
<1>2. ASSUME NEW h \in H, ~(h \in Coalescers /\ seen'[h] = seen[h])
      PROVE  \A g \in H \ {h} : seen'[h] \cap Locks(g)' = {}
  <2>1. ListPending(h) /\ seen'[h] = Rows("pending") /\ h \in Handlers
    BY <1>0, <1>2, CoalescerPlaces
  <2> SUFFICES ASSUME NEW g \in H \ {h}, NEW t \in seen'[h], t \in Locks(g)'
               PROVE  FALSE
    OBVIOUS
  <2>2. g \in Handlers /\ t \in Locks(g) /\ hpc'[g] = "coalesce"
    BY <1>0, CoalescerPlaces DEF Coalescers
  <2>3. hpc[g] = "coalesce"
    BY <1>0, <2>1, <2>2 DEF ListPending, HGoto, TypeOK, HandlerType
  <2>4. claims[t] > 0
    BY <2>2, <2>3 DEF HoldsClaimed
  <2>5. t \in Tasks /\ status[t] = "pending"
    BY <2>1 DEF Rows
  <2> QED
    BY <1>0, <2>4, <2>5 DEF Claims, PendingUnclaimed
<1> QED
  BY <1>1, <1>2

LEMMA LockInvariance == Spec => []LockInv
<1>1. Init => LockInv
  <2> SUFFICES ASSUME Init PROVE LockInv
    OBVIOUS
  <2>1. \A h \in Handlers : Locks(h) = {} /\ hpc[h] = "new"
    BY DEF Init, NoRows, Locks
  <2> QED
    BY <2>1 DEF LockInv, EmptyHanded, HoldsClaimed, SomeoneFree, Coalescers,
                Handlers
<1>2. LifeInv /\ StaleAreDead /\ LockInv /\ [Next]_vars => LockInv'
  <2> SUFFICES ASSUME LifeInv, StaleAreDead, LockInv, [Next]_vars PROVE LockInv'
    OBVIOUS
  <2>1. TypeOK
    BY DEF LifeInv
  <2> QED
    BY <2>1, EmptyHandedNext, HoldsClaimedNext, SomeoneFreeNext DEF LockInv
<1> QED
  BY LifeInvariance, StaleInvariance, <1>1, <1>2, PTL DEF Spec

\* Handlers of messages and cancels never wait for one another's rows in a
\* circle, however many there are and whatever the worker writes or fails to
\* write meanwhile (the worker's own transactions lock rows they write at once).
THEOREM LocksFree == Spec => []NoLockCycle
<1>1. LockInv => NoLockCycle
  <2> SUFFICES ASSUME LockInv, NEW H \in SUBSET Handlers, H # {}
               PROVE  \E h \in H : \A g \in H \ {h} : Waits(h) \cap Locks(g) = {}
    BY DEF NoLockCycle
  <2>1. CASE \E h \in H : Waits(h) = {}
    BY <2>1
  <2>2. CASE \A h \in H : Waits(h) # {}
    <3>1. \A h \in H : hpc[h] \in {"stale", "coalesce", "mark"} /\ Waits(h) = seen[h]
      BY <2>2 DEF Waits
    <3>2. ASSUME NEW g \in H, g \notin Coalescers PROVE Locks(g) = {}
      BY <3>1, <3>2 DEF LockInv, EmptyHanded, Coalescers
    <3>3. CASE H \cap Coalescers = {}
      BY <2>2, <3>2, <3>3
    <3>4. CASE H \cap Coalescers # {}
      <4>1. PICK h \in H \cap Coalescers :
              \A g \in (H \cap Coalescers) \ {h} : seen[h] \cap Locks(g) = {}
        BY <3>4 DEF LockInv, SomeoneFree
      <4> QED
        BY <3>1, <3>2, <4>1
    <3> QED
      BY <3>3, <3>4
  <2> QED
    BY <2>1, <2>2
<1> QED
  BY LockInvariance, <1>1, PTL

(* The lease and the task in hand.                                            *)

\* The turn that registers its lease is the one the worker has begun.
LeaseInv == (wpc = "register" => cur = task) /\ LeaseIsTurn

LEMMA LeaseNext == TypeOK /\ LeaseInv /\ [Next]_vars => LeaseInv'
<1> SUFFICES ASSUME TypeOK, LeaseInv, [Next]_vars PROVE LeaseInv'
  OBVIOUS
<1> USE DEF LeaseInv, LeaseIsTurn, worker, turn, redis, NoTask
<1>1. ASSUME NEW m \in Msgs, MessageStep(m) PROVE LeaseInv'
  <2>1. lease' \in {lease, NoTask}
    BY <1>1 DEF MessageStep, ListRunning, ReadLease, FailStale, ListPending,
                Coalesce, Create, NoteRead, NoteWrite, Store, Announce
  <2> QED
    BY <1>1, <2>1, MessageFrame
<1>2. ASSUME NEW c \in Cancels, CancelStep(c) PROVE LeaseInv'
  <2>1. lease' = lease
    BY <1>2 DEF CancelStep, ListForCancel, DropPending, PublishCancel,
                MarkCancelled
  <2> QED
    BY <1>2, <2>1, CancelFrame
<1>3. ASSUME NEW h \in Handlers, Commit(h) PROVE LeaseInv'
  BY <1>3, CommitFrame
<1>4. CASE StartStep
  BY <1>4 DEF StartStep, Start, RecoverRead, RecoverWrite, QueueResume,
              EnqueueResume, Drain, Serve
<1>5. CASE LoopStep
  <2>1. CASE Exit \/ Dequeue \/ Scan \/ ScanNext \/ Watchdog \/ ScanEnds
    BY <2>1 DEF Exit, GoDown, Dequeue, Scan, ScanNext, Watchdog, ScanEnds
  <2>2. CASE ClaimRead \/ Missed \/ Mark \/ Begin \/ Register
    BY <2>2 DEF ClaimRead, Missed, AfterTask, Mark, Begin, Register
  <2> QED
    BY <2>1, <2>2, <1>5 DEF LoopStep
<1>6. CASE TurnStep
  <2>1. CASE LeaveEarly \/ Turn \/ Spawn \/ AgentEnds \/ KillByPoll \/ Consume
    BY <2>1 DEF LeaveEarly, Turn, Spawn, AgentEnds, KillByPoll, Kill, Consume,
                Fault, history
  <2>2. CASE NothingToConsume \/ Release \/ PersistRead \/ PersistWrite
             \/ Settle \/ Deliver
    BY <2>2 DEF NothingToConsume, Release, PersistRead, PersistWrite, Settle,
                Deliver, AfterTask
  <2> QED
    BY <2>1, <2>2, <1>6 DEF TurnStep
<1>7. CASE PromoteStep
  <2>1. lease' = lease
    BY <1>7 DEF PromoteStep, PromoteCheck, PromoteTake, PromoteRead,
                PromoteWrite, PromoteEnqueue
  <2> QED
    BY <1>7, <2>1, PromoteFrame
<1>8. CASE FaultStep
  <2>1. CASE Crash \/ Term \/ Reload \/ RecoverFails
    BY <2>1 DEF Crash, GoDown, Term, Kill, Reload, RecoverFails, Fault
  <2>2. CASE MarkFails \/ RegisterFails \/ PersistLost \/ EndFails
             \/ PromoteFails
    BY <2>2 DEF MarkFails, RegisterFails, PersistLost, EndFails, PromoteFails,
                Fault
  <2>3. CASE (\E h \in Handlers : Rollback(h) \/ HandlerFails(h))
             \/ \E m \in Msgs : CreateUnqueued(m)
    BY <2>3 DEF Rollback, HandlerFails, CreateUnqueued, Fault
  <2> QED
    BY <2>1, <2>2, <2>3, <1>8 DEF FaultStep
<1>9. CASE (\E u \in Tasks : HearCancel(u)) \/ HearRedirect \/ HeartbeatExpires
  BY <1>9 DEF HearCancel, HearRedirect, HeartbeatExpires, Kill
<1>10. CASE UNCHANGED vars
  BY <1>10 DEF vars
<1> QED
  BY <1>1, <1>2, <1>3, <1>4, <1>5, <1>6, <1>7, <1>8, <1>9, <1>10
  DEF Next, HandlerStep, MainStep

\* Whoever reads the lease of a live worker is sent to the turn under way,
\* unless a turn has left before its try or a call of Redis has failed: through
\* redirects, review passes, kills, terminations, reloads and lost commits.
THEOREM LeaseNamesTurn == Spec => []LeaseIsTurn
<1>1. Init => LeaseInv
  BY DEF Init, LeaseInv, LeaseIsTurn
<1>2. LeaseInv => LeaseIsTurn
  BY DEF LeaseInv
<1> QED
  BY TypeCorrect, LeaseNext, <1>1, <1>2, PTL DEF Spec

\* The worker has a task in hand while it is in the task's turn; only a failed
\* call of Redis leaves one behind.
CurIsTurn ==
    cur # NoTask =>
        (cur = task /\ wpc \in TurnStates) \/ "redis" \in spent

LEMMA CurNext == TypeOK /\ CurIsTurn /\ [Next]_vars => CurIsTurn'
<1> SUFFICES ASSUME TypeOK, CurIsTurn, [Next]_vars PROVE CurIsTurn'
  OBVIOUS
<1> USE DEF CurIsTurn, TurnStates, worker, turn, NoTask
<1>1. ASSUME NEW m \in Msgs, MessageStep(m) PROVE CurIsTurn'
  BY <1>1, MessageFrame
<1>2. ASSUME NEW c \in Cancels, CancelStep(c) PROVE CurIsTurn'
  BY <1>2, CancelFrame
<1>3. ASSUME NEW h \in Handlers, Commit(h) PROVE CurIsTurn'
  BY <1>3, CommitFrame
<1>4. CASE StartStep
  BY <1>4 DEF StartStep, Start, RecoverRead, RecoverWrite, QueueResume,
              EnqueueResume, Drain, Serve
<1>5. CASE LoopStep
  <2>1. CASE Exit \/ Dequeue \/ Scan \/ ScanNext \/ Watchdog \/ ScanEnds
    BY <2>1 DEF Exit, GoDown, Dequeue, Scan, ScanNext, Watchdog, ScanEnds
  <2>2. CASE ClaimRead \/ Missed \/ Mark \/ Begin \/ Register
    BY <2>2 DEF ClaimRead, Missed, AfterTask, Mark, Begin, Register
  <2> QED
    BY <2>1, <2>2, <1>5 DEF LoopStep
<1>6. CASE TurnStep
  <2>1. CASE LeaveEarly \/ Turn \/ Spawn \/ AgentEnds \/ KillByPoll \/ Consume
    BY <2>1 DEF LeaveEarly, Turn, Spawn, AgentEnds, KillByPoll, Kill, Consume,
                Fault, history
  <2>2. CASE NothingToConsume \/ Release \/ PersistRead \/ PersistWrite
             \/ Settle \/ Deliver
    BY <2>2 DEF NothingToConsume, Release, PersistRead, PersistWrite, Settle,
                Deliver, AfterTask
  <2> QED
    BY <2>1, <2>2, <1>6 DEF TurnStep
<1>7. CASE PromoteStep
  BY <1>7, PromoteFrame
<1>8. CASE FaultStep
  <2>1. CASE Crash \/ Term \/ Reload \/ RecoverFails
    BY <2>1 DEF Crash, GoDown, Term, Kill, Reload, RecoverFails, Fault
  <2>2. CASE MarkFails \/ RegisterFails \/ PersistLost \/ EndFails
             \/ PromoteFails
    BY <2>2 DEF MarkFails, RegisterFails, PersistLost, EndFails, PromoteFails,
                Fault
  <2>3. CASE (\E h \in Handlers : Rollback(h) \/ HandlerFails(h))
             \/ \E m \in Msgs : CreateUnqueued(m)
    BY <2>3 DEF Rollback, HandlerFails, CreateUnqueued, Fault
  <2> QED
    BY <2>1, <2>2, <2>3, <1>8 DEF FaultStep
<1>9. CASE (\E u \in Tasks : HearCancel(u)) \/ HearRedirect \/ HeartbeatExpires
  BY <1>9 DEF HearCancel, HearRedirect, HeartbeatExpires, Kill
<1>10. CASE UNCHANGED vars
  BY <1>10 DEF vars
<1> QED
  BY <1>1, <1>2, <1>3, <1>4, <1>5, <1>6, <1>7, <1>8, <1>9, <1>10
  DEF Next, HandlerStep, MainStep

\* What is left of "every running task ends" where Redis does fail is the one
\* row of the turn that never began: until then the watchdog passes over none.
THEOREM WatchdogSeesAll == Spec => []NothingSkipped
<1>1. Init => CurIsTurn
  BY DEF Init, CurIsTurn
<1>2. CurIsTurn => NothingSkipped
  BY DEF CurIsTurn, NothingSkipped, TurnStates, Stuck, Rows, Tasks, NoTask
<1> QED
  BY TypeCorrect, CurNext, <1>1, <1>2, PTL DEF Spec

====
