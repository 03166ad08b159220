------------------------ MODULE SessionLease_proofs ------------------------
(* Proofs about SessionLease for every set of processes, readers and tasks. *)
EXTENDS SessionLease, TLAPS

(* Type correctness. *)

LEMMA Types == NoLease \in Lease /\ NoOwner \in Owner
  BY BoundAssumption DEF NoLease, NoOwner, Lease, Owner, Epochs

LEMMA TypeInit == Init => TypeOK
  BY Types, ActorsAssumption, BoundAssumption
  DEF Init, TypeOK, Epochs, Actors, Steps, Asked, NotAsked

LEMMA TypeNext == TypeOK /\ [Next]_vars => TypeOK'
<1> SUFFICES ASSUME TypeOK, [Next]_vars PROVE TypeOK'
  OBVIOUS
<1> USE Types, BoundAssumption, ActorsAssumption, PidAssumption
<1> USE DEF TypeOK, Goto, Actors, Steps, redis, ghosts, Asked, NotAsked
<1>1. CASE UNCHANGED vars
  BY <1>1 DEF vars
<1>2. CASE BeatExpires
  BY <1>2 DEF BeatExpires
<1>3. ASSUME NEW p \in Workers, WorkerStep(p) PROVE TypeOK'
  <2>1. CASE Start(p)
    BY <2>1 DEF Start, Owner, Epochs
  <2>2. CASE Abandon(p) \/ Boot(p) \/ Beat(p)
    BY <2>2 DEF Abandon, Boot, Beat
  <2>3. CASE Crash(p)
    BY <2>3 DEF Crash
  <2>4. ASSUME NEW t \in Tasks, Claim(p, t) PROVE TypeOK'
    BY <2>4 DEF Claim
  <2>5. CASE RegisterRead(p) \/ RegisterReread(p)
    <3>1. NewLease(p) \in Lease
      BY DEF NewLease, Lease, Owner
    <3> QED
      BY <2>5, <3>1 DEF RegisterRead, RegisterReread
  <2>6. CASE RegisterPublish(p)
    BY <2>6 DEF RegisterPublish, Owner, Epochs
  <2>7. CASE RegisterTask(p) \/ RegisterOwner(p) \/ Reregister(p) \/ EndTurn(p)
    BY <2>7, SMTT(60) DEF RegisterTask, RegisterOwner, Reregister, EndTurn
  <2>8. CASE Enter(p)
    BY <2>8 DEF Enter
  <2>9. CASE LeaveEarly(p)
    BY <2>9 DEF LeaveEarly
  <2> QED
    BY <1>3, <2>1, <2>2, <2>3, <2>4, <2>5, <2>6, <2>7, <2>8, <2>9 DEF WorkerStep
<1>4. ASSUME NEW a \in Workers \cup Handlers, ReleaseStep(a) PROVE TypeOK'
  BY <1>4 DEF ReleaseStep, ReleaseRead, Return
<1>5. ASSUME NEW a \in Actors, DropStep(a) PROVE TypeOK'
  <2>1. CASE CheckDrops(a)
    BY <2>1 DEF CheckDrops
  <2>2. CASE CheckKeeps(a)
    BY <2>2 DEF CheckKeeps, Return
  <2>3. CASE DeleteStray(a)
    BY <2>3, SMTT(60) DEF DeleteStray, Return
  <2>4. CASE DeleteTask(a)
    BY <2>4 DEF DeleteTask
  <2>5. CASE DeleteOwner(a)
    BY <2>5 DEF DeleteOwner, Return
  <2> QED
    BY <1>5, <2>1, <2>2, <2>3, <2>4, <2>5 DEF DropStep
<1>6. ASSUME NEW h \in Handlers, HandlerStep(h) PROVE TypeOK'
  BY <1>6 DEF HandlerStep, Signal, ClearOwnerRead, ClearOwnerDelete
<1>7. ASSUME NEW r \in Readers, ReaderStep(r) PROVE TypeOK'
  <2>1. CASE GetTask(r)
    BY <2>1 DEF GetTask, Lease, NoLease
  <2>2. CASE GetOwner(r)
    <3>1. Holder \in Tasks \cup {NoTask}
      BY DEF Holder, Lease
    <3>2. asked' \in [Readers -> Asked]
      <4>1. asked' = [asked EXCEPT ![r] = [asked[r] EXCEPT !.holder = Holder]]
        BY <2>2 DEF GetOwner
      <4>2. [asked[r] EXCEPT !.holder = Holder] \in Asked
        BY <3>1, SMTT(60)
      <4> QED
        BY <4>1, <4>2
    <3> QED
      BY <2>2, <3>2 DEF GetOwner
  <2>3. CASE GetWorker(r)
    BY <2>3 DEF GetWorker
  <2>4. CASE Answer(r)
    BY <2>4, ZenonT(60) DEF Answer, Lease
  <2>5. CASE Finish(r)
    BY <2>5 DEF Finish, Epochs
  <2> QED
    BY <1>7, <2>1, <2>2, <2>3, <2>4, <2>5 DEF ReaderStep
<1> QED
  BY <1>1, <1>2, <1>3, <1>4, <1>5, <1>6, <1>7 DEF Next

\* Every variable keeps its type, for any number of processes, bot handlers and
\* tasks (the Redis values of session_execution.py).
THEOREM TypeCorrect == Spec => []TypeOK
<1>1. Init => TypeOK
  BY TypeInit
<1>2. TypeOK /\ [Next]_vars => TypeOK'
  BY TypeNext
<1> QED
  BY <1>1, <1>2, PTL DEF Spec

(* The lease protocol.                                                      *)

LEMMA LeaseInvInit == Init => LeaseInv
  BY NamesAssumption, ActorsAssumption
  DEF Init, LeaseInv, TurnsApart, LeaseInHand, LeaseIsOwn, ReaderKnows,
      OwnerIsLatest, NoStaleAnswer, InTurn, Actors, NoLease, NoOwner, NotAsked

\* A call that returns leaves every other process's turn as it was.
LEMMA ReturnTurns ==
    ASSUME TypeOK, TurnsApart, NEW a \in Actors, Return(a)
    PROVE  TurnsApart'
<1> USE DEF TypeOK, TurnsApart, Return, Goto, Actors, ghosts, InTurn
<1>1. CASE a \in Workers
  <2>1. /\ released' = released \cup ({turn[a]} \ {NoTask})
        /\ ended' = ended \cup ({turn[a]} \ {NoTask})
        /\ begun' = begun
        /\ turn'[a] = NoTask
        /\ pc'[a] = "idle"
        /\ \A p \in Workers \ {a} : turn'[p] = turn[p] /\ pc'[p] = pc[p]
    BY <1>1
  <2>2. \A p \in Workers \ {a} : turn[p] # NoTask => turn[p] # turn[a]
    BY <1>1
  <2> QED
    BY <1>1, <2>1, <2>2
<1>2. CASE a \notin Workers
  <2>1. /\ UNCHANGED <<turn, begun, ended, released>>
        /\ \A p \in Workers : pc'[p] = pc[p]
    BY <1>2
  <2> QED
    BY <2>1
<1> QED
  BY <1>1, <1>2

LEMMA LeaseInvNext == TypeOK /\ LeaseInv /\ [Next]_vars => LeaseInv'
<1> SUFFICES ASSUME TypeOK, LeaseInv, [Next]_vars PROVE LeaseInv'
  OBVIOUS
<1> USE NamesAssumption, ActorsAssumption, PidAssumption, BoundAssumption
<1> USE DEF TypeOK, Goto, Actors, redis, ghosts, LeaseInv, NoLease, NoOwner,
            Lease, Owner, Epochs, InTurn, Asked, NotAsked
<1>1. CASE UNCHANGED vars
  <2>1. TurnsApart'
    BY <1>1 DEF vars, TurnsApart
  <2>2. LeaseInHand'
    BY <1>1 DEF vars, LeaseInHand
  <2>3. LeaseIsOwn'
    BY <1>1 DEF vars, LeaseIsOwn
  <2>4. ReaderKnows'
    BY <1>1 DEF vars, ReaderKnows
  <2>5. OwnerIsLatest'
    BY <1>1 DEF vars, OwnerIsLatest
  <2>6. NoStaleAnswer'
    BY <1>1 DEF vars, NoStaleAnswer, ReaderKnows
  <2> QED
    BY <2>1, <2>2, <2>3, <2>4, <2>5, <2>6 DEF LeaseInv
<1>2. CASE BeatExpires
  <2>1. TurnsApart'
    BY <1>2 DEF BeatExpires, TurnsApart
  <2>2. LeaseInHand'
    BY <1>2 DEF BeatExpires, LeaseInHand
  <2>3. LeaseIsOwn'
    BY <1>2 DEF BeatExpires, LeaseIsOwn
  <2>4. ReaderKnows'
    BY <1>2 DEF BeatExpires, ReaderKnows
  <2>5. OwnerIsLatest'
    BY <1>2 DEF BeatExpires, OwnerIsLatest
  <2>6. NoStaleAnswer'
    BY <1>2 DEF BeatExpires, NoStaleAnswer, ReaderKnows
  <2> QED
    BY <2>1, <2>2, <2>3, <2>4, <2>5, <2>6 DEF LeaseInv
<1>3. ASSUME NEW p \in Workers, WorkerStep(p) PROVE LeaseInv'
  <2>1. CASE Start(p)
    <3>1. TurnsApart'
      BY <2>1 DEF Start, TurnsApart
    <3>2. LeaseInHand'
      BY <2>1 DEF Start, LeaseInHand
    <3>3. LeaseIsOwn'
      BY <2>1 DEF Start, LeaseIsOwn
    <3>4. ReaderKnows'
      BY <2>1 DEF Start, ReaderKnows
    <3>5. OwnerIsLatest'
      BY <2>1 DEF Start, OwnerIsLatest
    <3>6. NoStaleAnswer'
      BY <2>1 DEF Start, NoStaleAnswer, ReaderKnows
    <3> QED
      BY <3>1, <3>2, <3>3, <3>4, <3>5, <3>6 DEF LeaseInv
  <2>2. CASE Abandon(p) \/ Boot(p) \/ Beat(p)
    <3>1. TurnsApart'
      BY <2>2 DEF Abandon, Boot, Beat, TurnsApart
    <3>2. LeaseInHand'
      BY <2>2 DEF Abandon, Boot, Beat, LeaseInHand
    <3>3. LeaseIsOwn'
      BY <2>2 DEF Abandon, Boot, Beat, LeaseIsOwn
    <3>4. ReaderKnows'
      BY <2>2 DEF Abandon, Boot, Beat, ReaderKnows
    <3>5. OwnerIsLatest'
      BY <2>2 DEF Abandon, Boot, Beat, OwnerIsLatest
    <3>6. NoStaleAnswer'
      BY <2>2 DEF Abandon, Boot, Beat, NoStaleAnswer, ReaderKnows
    <3> QED
      BY <3>1, <3>2, <3>3, <3>4, <3>5, <3>6 DEF LeaseInv
  <2>3. CASE Crash(p)
    <3>1. TurnsApart'
      BY <2>3 DEF Crash, TurnsApart
    <3>2. LeaseInHand'
      BY <2>3 DEF Crash, LeaseInHand
    <3>3. LeaseIsOwn'
      BY <2>3 DEF Crash, LeaseIsOwn
    <3>4. ReaderKnows'
      BY <2>3 DEF Crash, ReaderKnows
    <3>5. OwnerIsLatest'
      BY <2>3 DEF Crash, OwnerIsLatest
    <3>6. NoStaleAnswer'
      BY <2>3 DEF Crash, NoStaleAnswer, ReaderKnows
    <3> QED
      BY <3>1, <3>2, <3>3, <3>4, <3>5, <3>6 DEF LeaseInv
  <2>4. ASSUME NEW t \in Tasks, Claim(p, t) PROVE LeaseInv'
    <3>1. TurnsApart'
      BY <2>4 DEF Claim, TurnsApart
    <3>2. LeaseInHand'
      BY <2>4 DEF Claim, LeaseInHand
    <3>3. LeaseIsOwn'
      BY <2>4 DEF Claim, LeaseIsOwn
    <3>4. ReaderKnows'
      BY <2>4 DEF Claim, ReaderKnows
    <3>5. OwnerIsLatest'
      BY <2>4 DEF Claim, OwnerIsLatest
    <3>6. NoStaleAnswer'
      BY <2>4 DEF Claim, NoStaleAnswer, ReaderKnows
    <3> QED
      BY <3>1, <3>2, <3>3, <3>4, <3>5, <3>6 DEF LeaseInv
  <2>5. CASE RegisterRead(p) \/ RegisterReread(p)
    <3>1. TurnsApart'
      BY <2>5 DEF RegisterRead, RegisterReread, NewLease, TurnsApart
    <3>2. LeaseInHand'
      BY <2>5 DEF RegisterRead, RegisterReread, NewLease, LeaseInHand
    <3>3. LeaseIsOwn'
      BY <2>5 DEF RegisterRead, RegisterReread, NewLease, LeaseIsOwn
    <3>4. ReaderKnows'
      BY <2>5 DEF RegisterRead, RegisterReread, NewLease, ReaderKnows
    <3>5. OwnerIsLatest'
      BY <2>5 DEF RegisterRead, RegisterReread, NewLease, OwnerIsLatest
    <3>6. NoStaleAnswer'
      <4>1. UNCHANGED <<asked, answer>>
        BY <2>5 DEF RegisterRead, RegisterReread
      <4>2. \A r \in Readers : saw'[r] = saw[r] /\ pc'[r] = pc[r]
        BY <2>5, SMTT(60) DEF RegisterRead, RegisterReread
      <4> QED
        BY <4>1, <4>2 DEF NoStaleAnswer
    <3> QED
      BY <3>1, <3>2, <3>3, <3>4, <3>5, <3>6 DEF LeaseInv
  <2>6. CASE RegisterPublish(p)
    <3>1. TurnsApart'
      BY <2>6 DEF RegisterPublish, TurnsApart
    <3>2. LeaseInHand'
      BY <2>6 DEF RegisterPublish, LeaseInHand
    <3>3. LeaseIsOwn'
      BY <2>6 DEF RegisterPublish, LeaseIsOwn
    <3>4. ReaderKnows'
      BY <2>6 DEF RegisterPublish, ReaderKnows
    <3>5. OwnerIsLatest'
      BY <2>6 DEF RegisterPublish, OwnerIsLatest
    <3>6. NoStaleAnswer'
      BY <2>6 DEF RegisterPublish, NoStaleAnswer, ReaderKnows
    <3> QED
      BY <3>1, <3>2, <3>3, <3>4, <3>5, <3>6 DEF LeaseInv
  <2>7. CASE RegisterTask(p)
    <3>1. TurnsApart'
      BY <2>7 DEF RegisterTask, TurnsApart
    <3>2. LeaseInHand'
      BY <2>7 DEF RegisterTask, LeaseInHand
    <3>3. LeaseIsOwn'
      BY <2>7 DEF RegisterTask, LeaseIsOwn
    <3>4. ReaderKnows'
      BY <2>7 DEF RegisterTask, ReaderKnows
    <3>5. OwnerIsLatest'
      BY <2>7 DEF RegisterTask, OwnerIsLatest
    <3>6. NoStaleAnswer'
      BY <2>7 DEF RegisterTask, NoStaleAnswer, ReaderKnows
    <3> QED
      BY <3>1, <3>2, <3>3, <3>4, <3>5, <3>6 DEF LeaseInv
  <2>8. CASE RegisterOwner(p)
    <3>1. TurnsApart'
      BY <2>8 DEF RegisterOwner, TurnsApart
    <3>2. LeaseInHand'
      BY <2>8 DEF RegisterOwner, LeaseInHand
    <3>3. LeaseIsOwn'
      BY <2>8 DEF RegisterOwner, LeaseIsOwn, LeaseInHand, TurnsApart
    <3>4. ReaderKnows'
      BY <2>8 DEF RegisterOwner, ReaderKnows
    <3>5. OwnerIsLatest'
      BY <2>8 DEF RegisterOwner, OwnerIsLatest
    <3>6. NoStaleAnswer'
      BY <2>8 DEF RegisterOwner, NoStaleAnswer, ReaderKnows
    <3> QED
      BY <3>1, <3>2, <3>3, <3>4, <3>5, <3>6 DEF LeaseInv
  <2>9. CASE Reregister(p) \/ EndTurn(p)
    <3>1. TurnsApart'
      BY <2>9 DEF Reregister, EndTurn, TurnsApart
    <3>2. LeaseInHand'
      BY <2>9 DEF Reregister, EndTurn, LeaseInHand
    <3>3. LeaseIsOwn'
      BY <2>9 DEF Reregister, EndTurn, LeaseIsOwn
    <3>4. ReaderKnows'
      BY <2>9 DEF Reregister, EndTurn, ReaderKnows
    <3>5. OwnerIsLatest'
      BY <2>9 DEF Reregister, EndTurn, OwnerIsLatest
    <3>6. NoStaleAnswer'
      BY <2>9 DEF Reregister, EndTurn, NoStaleAnswer, ReaderKnows
    <3> QED
      BY <3>1, <3>2, <3>3, <3>4, <3>5, <3>6 DEF LeaseInv
  <2>10. CASE Enter(p)
    <3>1. TurnsApart'
      BY <2>10 DEF Enter, TurnsApart
    <3>2. LeaseInHand'
      BY <2>10 DEF Enter, LeaseInHand
    <3>3. LeaseIsOwn'
      BY <2>10 DEF Enter, LeaseIsOwn
    <3>4. ReaderKnows'
      BY <2>10 DEF Enter, ReaderKnows
    <3>5. OwnerIsLatest'
      BY <2>10 DEF Enter, OwnerIsLatest
    <3>6. NoStaleAnswer'
      BY <2>10 DEF Enter, NoStaleAnswer, ReaderKnows
    <3> QED
      BY <3>1, <3>2, <3>3, <3>4, <3>5, <3>6 DEF LeaseInv
  <2>11. CASE LeaveEarly(p)
    <3>1. TurnsApart'
      BY <2>11 DEF LeaveEarly, TurnsApart
    <3>2. LeaseInHand'
      BY <2>11 DEF LeaveEarly, LeaseInHand
    <3>3. LeaseIsOwn'
      BY <2>11 DEF LeaveEarly, LeaseIsOwn
    <3>4. ReaderKnows'
      BY <2>11 DEF LeaveEarly, ReaderKnows
    <3>5. OwnerIsLatest'
      BY <2>11 DEF LeaveEarly, OwnerIsLatest
    <3>6. NoStaleAnswer'
      BY <2>11 DEF LeaveEarly, NoStaleAnswer, ReaderKnows
    <3> QED
      BY <3>1, <3>2, <3>3, <3>4, <3>5, <3>6 DEF LeaseInv
  <2> QED
    BY <1>3, <2>1, <2>2, <2>3, <2>4, <2>5, <2>6, <2>7, <2>8, <2>9, <2>10, <2>11
    DEF WorkerStep
<1>4. ASSUME NEW a \in Workers \cup Handlers, ReleaseStep(a) PROVE LeaseInv'
  <2>1. TurnsApart'
    BY <1>4, ReturnTurns DEF ReleaseStep, ReleaseRead, TurnsApart
  <2>2. LeaseInHand'
    BY <1>4 DEF ReleaseStep, ReleaseRead, Return, LeaseInHand
  <2>3. LeaseIsOwn'
    BY <1>4, SMTT(60) DEF ReleaseStep, ReleaseRead, Return, LeaseIsOwn
  <2>4. ReaderKnows'
    BY <1>4 DEF ReleaseStep, ReleaseRead, Return, ReaderKnows
  <2>5. OwnerIsLatest'
    BY <1>4 DEF ReleaseStep, ReleaseRead, Return, OwnerIsLatest
  <2>6. NoStaleAnswer'
    <3>1. UNCHANGED <<asked, answer>>
      BY <1>4 DEF ReleaseStep, ReleaseRead, Return
    <3>2. \A r \in Readers : pc'[r] = pc[r] /\ saw'[r] = saw[r]
      BY <1>4 DEF ReleaseStep, ReleaseRead, Return
    <3> QED
      BY <3>1, <3>2 DEF NoStaleAnswer
  <2> QED
    BY <2>1, <2>2, <2>3, <2>4, <2>5, <2>6 DEF LeaseInv
<1>5. ASSUME NEW a \in Actors, DropStep(a) PROVE LeaseInv'
  <2>1. CASE CheckDrops(a)
    <3>1. TurnsApart'
      BY <2>1 DEF CheckDrops, Unchanged, TurnsApart
    <3>2. LeaseInHand'
      BY <2>1 DEF CheckDrops, Unchanged, LeaseInHand
    <3>3. LeaseIsOwn'
      BY <2>1 DEF CheckDrops, Unchanged, LeaseIsOwn
    <3>4. ReaderKnows'
      BY <2>1 DEF CheckDrops, Unchanged, ReaderKnows
    <3>5. OwnerIsLatest'
      BY <2>1 DEF CheckDrops, Unchanged, OwnerIsLatest
    <3>6. NoStaleAnswer'
      BY <2>1 DEF CheckDrops, Unchanged, NoStaleAnswer, ReaderKnows
    <3> QED
      BY <3>1, <3>2, <3>3, <3>4, <3>5, <3>6 DEF LeaseInv
  <2>2. CASE CheckKeeps(a)
    <3>1. TurnsApart'
      BY <2>2, ReturnTurns DEF CheckKeeps, Unchanged, TurnsApart
    <3>2. LeaseInHand'
      BY <2>2 DEF CheckKeeps, Unchanged, Return, LeaseInHand
    <3>3. LeaseIsOwn'
      BY <2>2 DEF CheckKeeps, Unchanged, Return, LeaseIsOwn
    <3>4. ReaderKnows'
      BY <2>2 DEF CheckKeeps, Unchanged, Return, ReaderKnows
    <3>5. OwnerIsLatest'
      BY <2>2 DEF CheckKeeps, Unchanged, Return, OwnerIsLatest
    <3>6. NoStaleAnswer'
      BY <2>2 DEF CheckKeeps, Unchanged, Return, NoStaleAnswer, ReaderKnows
    <3> QED
      BY <3>1, <3>2, <3>3, <3>4, <3>5, <3>6 DEF LeaseInv
  <2>3. CASE DeleteStray(a)
    <3>1. TurnsApart'
      BY <2>3, ReturnTurns DEF DeleteStray, TurnsApart
    <3>2. LeaseInHand'
      BY <2>3 DEF DeleteStray, Return, LeaseInHand
    <3>3. LeaseIsOwn'
      BY <2>3 DEF DeleteStray, Return, LeaseIsOwn
    <3>4. ReaderKnows'
      BY <2>3 DEF DeleteStray, Return, ReaderKnows
    <3>5. OwnerIsLatest'
      BY <2>3 DEF DeleteStray, Return, OwnerIsLatest
    <3>6. NoStaleAnswer'
      BY <2>3 DEF DeleteStray, Return, NoStaleAnswer, ReaderKnows
    <3> QED
      BY <3>1, <3>2, <3>3, <3>4, <3>5, <3>6 DEF LeaseInv
  <2>4. CASE DeleteTask(a)
    <3>1. TurnsApart'
      BY <2>4 DEF DeleteTask, TurnsApart
    <3>2. LeaseInHand'
      BY <2>4 DEF DeleteTask, LeaseInHand
    <3>3. LeaseIsOwn'
      BY <2>4 DEF DeleteTask, LeaseIsOwn
    <3>4. ReaderKnows'
      BY <2>4 DEF DeleteTask, ReaderKnows
    <3>5. OwnerIsLatest'
      BY <2>4 DEF DeleteTask, OwnerIsLatest
    <3>6. NoStaleAnswer'
      BY <2>4 DEF DeleteTask, NoStaleAnswer, ReaderKnows
    <3> QED
      BY <3>1, <3>2, <3>3, <3>4, <3>5, <3>6 DEF LeaseInv
  <2>5. CASE DeleteOwner(a)
    <3>1. TurnsApart'
      BY <2>5, ReturnTurns DEF DeleteOwner, TurnsApart
    <3>2. LeaseInHand'
      BY <2>5 DEF DeleteOwner, Return, LeaseInHand
    <3>3. LeaseIsOwn'
      BY <2>5 DEF DeleteOwner, Return, LeaseIsOwn
    <3>4. ReaderKnows'
      BY <2>5 DEF DeleteOwner, Return, ReaderKnows
    <3>5. OwnerIsLatest'
      BY <2>5 DEF DeleteOwner, Return, OwnerIsLatest
    <3>6. NoStaleAnswer'
      BY <2>5 DEF DeleteOwner, Return, NoStaleAnswer, ReaderKnows
    <3> QED
      BY <3>1, <3>2, <3>3, <3>4, <3>5, <3>6 DEF LeaseInv
  <2> QED
    BY <1>5, <2>1, <2>2, <2>3, <2>4, <2>5 DEF DropStep
<1>6. ASSUME NEW h \in Handlers, HandlerStep(h) PROVE LeaseInv'
  <2>1. TurnsApart'
    BY <1>6 DEF HandlerStep, Signal, ClearOwnerRead, ClearOwnerDelete, TurnsApart
  <2>2. LeaseInHand'
    BY <1>6 DEF HandlerStep, Signal, ClearOwnerRead, ClearOwnerDelete, LeaseInHand
  <2>3. LeaseIsOwn'
    BY <1>6 DEF HandlerStep, Signal, ClearOwnerRead, ClearOwnerDelete, LeaseIsOwn
  <2>4. ReaderKnows'
    BY <1>6 DEF HandlerStep, Signal, ClearOwnerRead, ClearOwnerDelete, ReaderKnows
  <2>5. OwnerIsLatest'
    BY <1>6 DEF HandlerStep, Signal, ClearOwnerRead, ClearOwnerDelete, OwnerIsLatest
  <2>6. NoStaleAnswer'
    BY <1>6 DEF HandlerStep, Signal, ClearOwnerRead, ClearOwnerDelete, NoStaleAnswer, ReaderKnows
  <2> QED
    BY <2>1, <2>2, <2>3, <2>4, <2>5, <2>6 DEF LeaseInv
<1>7. ASSUME NEW r \in Readers, ReaderStep(r) PROVE LeaseInv'
  <2>1. CASE GetTask(r)
    <3>1. TurnsApart'
      BY <2>1 DEF GetTask, TurnsApart
    <3>2. LeaseInHand'
      BY <2>1 DEF GetTask, LeaseInHand
    <3>3. LeaseIsOwn'
      BY <2>1 DEF GetTask, LeaseIsOwn
    <3>4. ReaderKnows'
      BY <2>1 DEF GetTask, ReaderKnows
    <3>5. OwnerIsLatest'
      BY <2>1 DEF GetTask, OwnerIsLatest
    <3>6. NoStaleAnswer'
      BY <2>1 DEF GetTask, NoStaleAnswer, ReaderKnows
    <3> QED
      BY <3>1, <3>2, <3>3, <3>4, <3>5, <3>6 DEF LeaseInv
  <2>2. CASE GetOwner(r)
    <3>1. TurnsApart'
      BY <2>2 DEF GetOwner, TurnsApart
    <3>2. LeaseInHand'
      BY <2>2 DEF GetOwner, LeaseInHand
    <3>3. LeaseIsOwn'
      BY <2>2 DEF GetOwner, LeaseIsOwn
    <3>4. ReaderKnows'
      BY <2>2 DEF GetOwner, ReaderKnows, LeaseIsOwn
    <3>5. OwnerIsLatest'
      BY <2>2 DEF GetOwner, OwnerIsLatest
    <3>6. NoStaleAnswer'
      BY <2>2 DEF GetOwner, NoStaleAnswer, ReaderKnows
    <3> QED
      BY <3>1, <3>2, <3>3, <3>4, <3>5, <3>6 DEF LeaseInv
  <2>3. CASE GetWorker(r)
    <3>1. TurnsApart'
      BY <2>3 DEF GetWorker, Current, TurnsApart
    <3>2. LeaseInHand'
      BY <2>3 DEF GetWorker, Current, LeaseInHand
    <3>3. LeaseIsOwn'
      BY <2>3 DEF GetWorker, Current, LeaseIsOwn
    <3>4. ReaderKnows'
      BY <2>3 DEF GetWorker, Current, ReaderKnows, OwnerIsLatest
    <3>5. OwnerIsLatest'
      BY <2>3 DEF GetWorker, Current, OwnerIsLatest
    <3>6. NoStaleAnswer'
      BY <2>3 DEF GetWorker, Current, NoStaleAnswer, ReaderKnows
    <3> QED
      BY <3>1, <3>2, <3>3, <3>4, <3>5, <3>6 DEF LeaseInv
  <2>4. CASE Answer(r)
    <3>1. TurnsApart'
      BY <2>4 DEF Answer, TurnsApart
    <3>2. LeaseInHand'
      BY <2>4 DEF Answer, LeaseInHand
    <3>3. LeaseIsOwn'
      BY <2>4 DEF Answer, LeaseIsOwn
    <3>4. ReaderKnows'
      BY <2>4 DEF Answer, ReaderKnows
    <3>5. OwnerIsLatest'
      BY <2>4 DEF Answer, OwnerIsLatest
    <3>6. NoStaleAnswer'
      BY <2>4 DEF Answer, NoStaleAnswer, ReaderKnows
    <3> QED
      BY <3>1, <3>2, <3>3, <3>4, <3>5, <3>6 DEF LeaseInv
  <2>5. CASE Finish(r)
    <3>1. TurnsApart'
      BY <2>5 DEF Finish, TurnsApart
    <3>2. LeaseInHand'
      BY <2>5 DEF Finish, LeaseInHand
    <3>3. LeaseIsOwn'
      BY <2>5 DEF Finish, LeaseIsOwn
    <3>4. ReaderKnows'
      BY <2>5 DEF Finish, ReaderKnows
    <3>5. OwnerIsLatest'
      BY <2>5 DEF Finish, OwnerIsLatest
    <3>6. NoStaleAnswer'
      BY <2>5 DEF Finish, NoStaleAnswer, ReaderKnows
    <3> QED
      BY <3>1, <3>2, <3>3, <3>4, <3>5, <3>6 DEF LeaseInv
  <2> QED
    BY <1>7, <2>1, <2>2, <2>3, <2>4, <2>5 DEF ReaderStep
<1> QED
  BY <1>1, <1>2, <1>3, <1>4, <1>5, <1>6, <1>7 DEF Next

LEMMA LeaseInvariance == Spec => []LeaseInv
<1>1. Init => TypeOK /\ LeaseInv
  BY TypeInit, LeaseInvInit
<1>2. (TypeOK /\ LeaseInv) /\ [Next]_vars => (TypeOK /\ LeaseInv)'
  BY TypeNext, LeaseInvNext
<1> QED
  BY <1>1, <1>2, PTL DEF Spec

\* release_if_owner and clear_running_task leave no lease behind a finished
\* turn, however their round trips interleave with readers and other workers.
THEOREM LeaseReleased == Spec => []LeaseEndsWithRelease
<1>1. LeaseInv => LeaseEndsWithRelease
  BY DEF LeaseInv, LeaseIsOwn, LeaseEndsWithRelease
<1> QED
  BY <1>1, LeaseInvariance, PTL

\* get_running_task_id never answers with a turn that had released its lease,
\* or whose worker had been replaced, before the call began.
THEOREM AnswerIsCurrent == Spec => []NoStaleAnswer
<1>1. LeaseInv => NoStaleAnswer
  BY DEF LeaseInv
<1> QED
  BY <1>1, LeaseInvariance, PTL

(* What a reader is told.                                                   *)

\* A step that is not a reader's leaves the reader's call as it was.
LEMMA ReaderFrame ==
    ASSUME TypeOK, [Next]_vars, NEW r \in Readers
    PROVE  \/ pc'[r] = pc[r] /\ saw'[r] = saw[r] /\ asked'[r] = asked[r] /\ answer'[r] = answer[r]
           \/ ReaderStep(r) \/ DropStep(r)
<1> USE ActorsAssumption
<1> USE DEF TypeOK, Goto, Actors, redis, ghosts
<1>1. CASE UNCHANGED vars
  BY <1>1 DEF vars
<1>2. CASE BeatExpires
  BY <1>2 DEF BeatExpires
<1>3. ASSUME NEW p \in Workers, WorkerStep(p)
      PROVE  pc'[r] = pc[r] /\ saw'[r] = saw[r] /\ UNCHANGED <<asked, answer>>
  <2>1. CASE Start(p) \/ Abandon(p) \/ Boot(p) \/ Beat(p) \/ Crash(p) \/ \E t \in Tasks : Claim(p, t)
    BY <2>1 DEF Start, Abandon, Boot, Beat, Crash, Claim
  <2>2. CASE \/ RegisterRead(p) \/ RegisterPublish(p) \/ RegisterReread(p)
             \/ RegisterTask(p) \/ RegisterOwner(p)
    BY <2>2 DEF RegisterRead, RegisterPublish, RegisterReread, RegisterTask, RegisterOwner
  <2>3. CASE Enter(p) \/ LeaveEarly(p) \/ Reregister(p) \/ EndTurn(p)
    BY <2>3 DEF Enter, LeaveEarly, Reregister, EndTurn
  <2> QED
    BY <1>3, <2>1, <2>2, <2>3 DEF WorkerStep
<1>4. ASSUME NEW a \in Workers \cup Handlers, ReleaseStep(a)
      PROVE  pc'[r] = pc[r] /\ saw'[r] = saw[r] /\ UNCHANGED <<asked, answer>>
  BY <1>4 DEF ReleaseStep, ReleaseRead, Return
<1>5. ASSUME NEW a \in Actors \ {r}, DropStep(a)
      PROVE  pc'[r] = pc[r] /\ saw'[r] = saw[r] /\ UNCHANGED <<asked, answer>>
  BY <1>5 DEF DropStep, CheckDrops, CheckKeeps, DeleteStray, DeleteTask, DeleteOwner, Return
<1>6. ASSUME NEW h \in Handlers, HandlerStep(h)
      PROVE  pc'[r] = pc[r] /\ saw'[r] = saw[r] /\ UNCHANGED <<asked, answer>>
  BY <1>6 DEF HandlerStep, Signal, ClearOwnerRead, ClearOwnerDelete
<1>7. ASSUME NEW q \in Readers \ {r}, ReaderStep(q)
      PROVE  pc'[r] = pc[r] /\ saw'[r] = saw[r] /\ asked'[r] = asked[r] /\ answer'[r] = answer[r]
  BY <1>7 DEF ReaderStep, GetTask, GetOwner, GetWorker, Answer, Finish
<1> QED
  BY <1>1, <1>2, <1>3, <1>4, <1>5, <1>6, <1>7 DEF Next

\* The owner key is left alone, cleared, or given the next epoch.
OwnerMove ==
    \/ UNCHANGED <<workerOwner, epochs>>
    \/ workerOwner' = NoOwner /\ epochs' = epochs
    \/ workerOwner'.epoch = epochs + 1 /\ epochs' = epochs + 1

LEMMA OwnerMoves == ASSUME [Next]_vars PROVE OwnerMove
<1> USE DEF OwnerMove, redis
<1>1. CASE UNCHANGED vars \/ BeatExpires
  BY <1>1 DEF vars, BeatExpires
<1>2. ASSUME NEW p \in Workers, WorkerStep(p) PROVE OwnerMove
  <2>1. CASE Start(p) \/ RegisterPublish(p)
    BY <2>1 DEF Start, RegisterPublish
  <2>2. CASE Abandon(p) \/ Boot(p) \/ Beat(p) \/ Crash(p) \/ \E t \in Tasks : Claim(p, t)
    BY <2>2 DEF Abandon, Boot, Beat, Crash, Claim
  <2>3. CASE RegisterRead(p) \/ RegisterReread(p) \/ RegisterTask(p) \/ RegisterOwner(p)
    BY <2>3 DEF RegisterRead, RegisterReread, RegisterTask, RegisterOwner
  <2>4. CASE Enter(p) \/ LeaveEarly(p) \/ Reregister(p) \/ EndTurn(p)
    BY <2>4 DEF Enter, LeaveEarly, Reregister, EndTurn
  <2> QED
    BY <1>2, <2>1, <2>2, <2>3, <2>4 DEF WorkerStep
<1>3. ASSUME NEW a \in Actors, ReleaseStep(a) \/ DropStep(a) PROVE OwnerMove
  BY <1>3 DEF ReleaseStep, ReleaseRead, DropStep, CheckDrops, CheckKeeps, DeleteStray, DeleteTask,
              DeleteOwner
<1>4. ASSUME NEW h \in Handlers, HandlerStep(h) PROVE OwnerMove
  BY <1>4 DEF HandlerStep, Signal, ClearOwnerRead, ClearOwnerDelete
<1>5. ASSUME NEW r \in Readers, ReaderStep(r) PROVE OwnerMove
  BY <1>5 DEF ReaderStep, GetTask, GetOwner, GetWorker, Answer, Finish
<1> QED
  BY <1>1, <1>2, <1>3, <1>4, <1>5 DEF Next, Actors

LEMMA EpochsDrawnNext ==
    ASSUME TypeOK, EpochsDrawn, [Next]_vars
    PROVE  EpochsDrawn'
<1> USE BoundAssumption, ActorsAssumption
<1> USE DEF TypeOK, Actors, redis, ghosts, Epochs, Owner, Lease
<1>1. epochs' \in {epochs, epochs + 1} /\ workerOwner'.epoch <= epochs'
  BY OwnerMoves DEF OwnerMove, NoOwner, EpochsDrawn
<1>2. ASSUME NEW p \in Workers PROVE NewLease(p).epoch <= epochs
  BY DEF NewLease, EpochsDrawn
<1>3. NoLease.epoch = 0
  BY DEF NoLease
<1>4. CASE UNCHANGED <<runOwner, saw>>
  BY <1>1, <1>4 DEF EpochsDrawn
<1>5. ASSUME NEW a \in Actors, UNCHANGED runOwner, NEW l \in Lease, l.epoch <= epochs,
             saw' = [saw EXCEPT ![a] = l]
      PROVE  EpochsDrawn'
  BY <1>1, <1>5 DEF EpochsDrawn
<1>6. ASSUME NEW p \in Workers, WorkerStep(p) PROVE EpochsDrawn'
  <2>1. CASE RegisterRead(p) \/ RegisterReread(p)
    <3>1. NewLease(p) \in Lease
      BY DEF NewLease
    <3>2. UNCHANGED runOwner /\ (UNCHANGED saw \/ saw' = [saw EXCEPT ![p] = NewLease(p)])
      BY <2>1 DEF RegisterRead, RegisterReread
    <3> QED
      BY <1>2, <1>4, <1>5, <3>1, <3>2
  <2>2. CASE RegisterOwner(p)
    <3>1. runOwner' = saw[p] /\ saw' = [saw EXCEPT ![p] = NoLease]
      BY <2>2 DEF RegisterOwner
    <3> QED
      BY <1>1, <1>3, <3>1 DEF EpochsDrawn
  <2>3. CASE Crash(p)
    <3>1. UNCHANGED runOwner /\ \A a \in Actors : saw'[a] \in {saw[a], NoLease}
      BY <2>3 DEF Crash
    <3> QED
      BY <1>1, <1>3, <3>1 DEF EpochsDrawn
  <2>4. CASE Start(p) \/ Abandon(p) \/ Boot(p) \/ Beat(p) \/ \E t \in Tasks : Claim(p, t)
    BY <1>4, <2>4 DEF Start, Abandon, Boot, Beat, Claim
  <2>5. CASE RegisterPublish(p) \/ RegisterTask(p)
    BY <1>4, <2>5 DEF RegisterPublish, RegisterTask
  <2>6. CASE Enter(p) \/ LeaveEarly(p) \/ Reregister(p) \/ EndTurn(p)
    BY <1>4, <2>6 DEF Enter, LeaveEarly, Reregister, EndTurn
  <2> QED
    BY <1>6, <2>1, <2>2, <2>3, <2>4, <2>5, <2>6 DEF WorkerStep
<1>7. ASSUME NEW a \in Actors, Return(a) PROVE saw' = [saw EXCEPT ![a] = NoLease]
  BY <1>7 DEF Return
<1>8. ASSUME NEW a \in Actors, ReleaseStep(a) \/ DropStep(a) PROVE EpochsDrawn'
  <2>1. \/ runOwner' = runOwner \/ runOwner' = NoLease
    BY <1>8 DEF ReleaseStep, ReleaseRead, DropStep, CheckDrops, CheckKeeps, DeleteStray, DeleteTask,
                DeleteOwner
  <2>2. saw' = saw \/ saw' = [saw EXCEPT ![a] = NoLease] \/ saw' = [saw EXCEPT ![a] = runOwner]
    BY <1>7, <1>8 DEF ReleaseStep, ReleaseRead, DropStep, CheckDrops, CheckKeeps, DeleteStray, DeleteTask,
                      DeleteOwner
  <2> QED
    BY <1>1, <1>3, <2>1, <2>2, SMTT(60) DEF EpochsDrawn
<1>9. ASSUME NEW h \in Handlers, HandlerStep(h) PROVE EpochsDrawn'
  BY <1>4, <1>9 DEF HandlerStep, Signal, ClearOwnerRead, ClearOwnerDelete
<1>10. ASSUME NEW r \in Readers, ReaderStep(r) PROVE EpochsDrawn'
  <2>1. UNCHANGED <<runOwner, epochs>>
    BY <1>10 DEF ReaderStep, GetTask, GetOwner, GetWorker, Answer, Finish
  <2>2. \A a \in Actors : saw'[a].epoch <= epochs
    BY <1>3, <1>10 DEF ReaderStep, GetTask, GetOwner, GetWorker, Answer, Finish, EpochsDrawn, NoLease
  <2> QED
    BY <1>1, <2>1, <2>2 DEF EpochsDrawn
<1>11. CASE UNCHANGED vars \/ BeatExpires
  BY <1>4, <1>11 DEF vars, BeatExpires
<1> QED
  BY <1>6, <1>8, <1>9, <1>10, <1>11 DEF Next

\* A turn that has ended without a release stays one.
LEMMA EndedStays ==
    ASSUME TypeOK, TurnsApart, [Next]_vars
    PROVE  ended \subseteq ended' /\ ended \ released \subseteq ended' \ released'
<1> USE DEF TypeOK, redis, ghosts
<1>1. ASSUME NEW a \in Actors, Return(a)
      PROVE  ended \subseteq ended' /\ ended \ released \subseteq ended' \ released'
  <2>1. CASE a \in Workers
    <3>1. turn[a] \notin ended
      BY <2>1, NamesAssumption DEF TurnsApart
    <3>2. /\ ended' = ended \cup ({turn[a]} \ {NoTask})
          /\ released' = released \cup ({turn[a]} \ {NoTask})
      BY <1>1, <2>1 DEF Return
    <3> QED
      BY <3>1, <3>2
  <2>2. CASE a \notin Workers
    BY <1>1, <2>2 DEF Return
  <2> QED
    BY <2>1, <2>2
<1>2. CASE UNCHANGED vars \/ BeatExpires
  BY <1>2 DEF vars, BeatExpires
<1>3. ASSUME NEW p \in Workers, WorkerStep(p)
      PROVE  ended \subseteq ended' /\ released' = released
  BY <1>3 DEF WorkerStep, Start, Abandon, Boot, Beat, Crash, Claim, RegisterRead, RegisterPublish,
              RegisterReread, RegisterTask, RegisterOwner, Enter, LeaveEarly, Reregister, EndTurn
<1>4. ASSUME NEW a \in Actors, ReleaseStep(a) \/ DropStep(a)
      PROVE  UNCHANGED <<ended, released>> \/ Return(a)
  BY <1>4 DEF ReleaseStep, ReleaseRead, DropStep, CheckDrops, CheckKeeps, DeleteStray, DeleteTask,
              DeleteOwner
<1>5. ASSUME NEW h \in Handlers, HandlerStep(h) PROVE UNCHANGED <<ended, released>>
  BY <1>5 DEF HandlerStep, Signal, ClearOwnerRead, ClearOwnerDelete
<1>6. ASSUME NEW r \in Readers, ReaderStep(r) PROVE UNCHANGED <<ended, released>>
  BY <1>6 DEF ReaderStep, GetTask, GetOwner, GetWorker, Answer, Finish
<1> QED
  BY <1>1, <1>2, <1>3, <1>4, <1>5, <1>6 DEF Next, Actors

LEMMA ReadInvNext ==
    ASSUME TypeOK, LeaseInv, ReadInv, [Next]_vars
    PROVE  ReadInv'
<1> USE BoundAssumption, ActorsAssumption, NamesAssumption
<1>1. EpochsDrawn'
  BY EpochsDrawnNext DEF ReadInv
<1>2. OwnerMove
  BY OwnerMoves
<1>3. ended \subseteq ended' /\ ended \ released \subseteq ended' \ released'
  BY EndedStays DEF LeaseInv
<1>4. SUFFICES ASSUME NEW r \in Readers
               PROVE  /\ (pc[r] = "getWorker" /\ Current(r) => asked[r].holder = saw[r].task)'
                      /\ (pc[r] = "verdict" => asked[r].holder = saw[r].task)'
                      /\ (asked[r].ended \subseteq ended)'
                      /\ (asked[r].ended \ asked[r].released \subseteq ended \ released)'
                      /\ ((pc[r] = "answered" /\ answer[r] # NoTask) => answer[r] = asked[r].holder)'
  BY <1>1 DEF ReadInv, HolderKnown, EndedUnreleased, AnswerHeldLease
<1>r. /\ pc[r] = "getWorker" /\ Current(r) => asked[r].holder = saw[r].task
      /\ pc[r] = "verdict" => asked[r].holder = saw[r].task
      /\ asked[r].ended \subseteq ended
      /\ asked[r].ended \ asked[r].released \subseteq ended \ released
      /\ (pc[r] = "answered" /\ answer[r] # NoTask) => answer[r] = asked[r].holder
      /\ pc[r] # "answered" => answer[r] = NoTask
      /\ saw[r].epoch <= epochs
  BY DEF ReadInv, HolderKnown, EndedUnreleased, AnswerHeldLease, EpochsDrawn, LeaseInv, ReaderKnows,
         Actors
<1>t. /\ pc \in [Actors -> Steps] /\ saw \in [Actors -> Lease] /\ r \in Actors /\ r \notin Workers
      /\ r \notin Handlers /\ asked \in [Readers -> Asked] /\ answer \in [Readers -> Tasks \cup {NoTask}]
      /\ epochs \in Nat /\ saw[r] \in Lease /\ saw[r].epoch \in Nat
  BY DEF TypeOK, Actors, Epochs, Lease
<1>5. CASE pc'[r] = pc[r] /\ saw'[r] = saw[r] /\ asked'[r] = asked[r] /\ answer'[r] = answer[r]
  <2>1. Current(r)' => Current(r)
    BY <1>2, <1>5, <1>r, <1>t DEF OwnerMove, Current
  <2> QED
    BY <1>3, <1>5, <1>r, <2>1
<1>6. CASE DropStep(r)
  <2>1. pc[r] # "answered" /\ pc'[r] \notin {"getWorker", "verdict"}
    BY <1>6, <1>t DEF DropStep, CheckDrops, CheckKeeps, DeleteStray, DeleteTask, DeleteOwner, Return, Goto
  <2>2. UNCHANGED <<asked, answer>>
    BY <1>6, <1>t DEF DropStep, CheckDrops, CheckKeeps, DeleteStray, DeleteTask, DeleteOwner, Return, ghosts
  <2> QED
    BY <1>3, <1>r, <2>1, <2>2
<1>7. CASE GetTask(r)
  <2>1. pc'[r] \in {"answered", "getOwner"} /\ pc[r] = "idle" /\ answer' = answer
    BY <1>7, <1>t DEF GetTask, Goto
  <2>2. asked'[r].ended = ended /\ asked'[r].released = released /\ UNCHANGED <<ended, released>>
    BY <1>7, <1>t DEF GetTask
  <2> QED
    BY <1>r, <2>1, <2>2
<1>8. CASE GetOwner(r)
  <2>1. pc'[r] \in {"getWorker", "check"} /\ pc[r] = "getOwner" /\ answer' = answer
    BY <1>8, <1>t DEF GetOwner, Goto
  <2>2. /\ saw'[r] = runOwner /\ asked'[r].holder = Holder /\ workerOwner' = workerOwner
        /\ asked'[r].ended = asked[r].ended /\ asked'[r].released = asked[r].released
    BY <1>8, <1>t DEF GetOwner, Asked, redis
  <2>3. Current(r)' => Holder = runOwner.task
    BY <2>2 DEF Current, Holder
  <2> QED
    BY <1>3, <1>r, <2>1, <2>2, <2>3
<1>9. CASE GetWorker(r)
  <2>1. /\ pc[r] = "getWorker" /\ pc'[r] \in {"verdict", "check"}
        /\ pc'[r] = "verdict" => Current(r)
    BY <1>9, <1>t DEF GetWorker, Goto
  <2>2. UNCHANGED <<saw, asked, answer>>
    BY <1>9 DEF GetWorker, ghosts
  <2> QED
    BY <1>3, <1>r, <2>1, <2>2
<1>10. CASE Answer(r)
  <2>1. /\ pc[r] = "verdict" /\ pc'[r] \in {"answered", "check"}
        /\ UNCHANGED <<saw, asked>>
    BY <1>10, <1>t DEF Answer, Goto
  <2>2. answer'[r] \in {answer[r], saw[r].task}
    BY <1>10, <1>t DEF Answer
  <2> QED
    BY <1>3, <1>r, <2>1, <2>2
<1>11. CASE Finish(r)
  <2>1. pc'[r] = "idle" /\ asked'[r] = NotAsked
    BY <1>11, <1>t DEF Finish, Goto
  <2> QED
    BY <2>1 DEF NotAsked
<1> QED
  BY <1>5, <1>6, <1>7, <1>8, <1>9, <1>10, <1>11, ReaderFrame DEF ReaderStep

LEMMA ReadInvariance == Spec => []ReadInv
<1>1. Init => TypeOK /\ LeaseInv /\ ReadInv
  <2>1. Init => ReadInv
    BY ActorsAssumption
    DEF Init, ReadInv, EpochsDrawn, HolderKnown, EndedUnreleased, AnswerHeldLease, NoOwner, NoLease,
        NotAsked, Actors
  <2> QED
    BY <2>1, TypeInit, LeaseInvInit
<1>2. (TypeOK /\ LeaseInv /\ ReadInv) /\ [Next]_vars => (TypeOK /\ LeaseInv /\ ReadInv)'
  BY TypeNext, LeaseInvNext, ReadInvNext
<1> QED
  BY <1>1, <1>2, PTL DEF Spec

\* The three round trips of get_running_task_id answer like one: whoever is told
\* of a turn is told of one whose lease was the current worker's at one moment of
\* the call, with any number of processes, overlapping or not.
THEOREM AnswerIsOfOneMoment == Spec => []AnswerHeldLease
<1>1. ReadInv => AnswerHeldLease
  BY DEF ReadInv
<1> QED
  BY <1>1, ReadInvariance, PTL

\* The only turns that get_running_task_id reports after they have returned are
\* those that returned before the try whose finally releases the lease.
THEOREM EndedAnswersLeftEarly == Spec => []EndedAnswerLeftEarly
<1>1. LeaseInv /\ ReadInv /\ TypeOK => EndedAnswerLeftEarly
  BY NamesAssumption
  DEF LeaseInv, ReadInv, NoStaleAnswer, EndedUnreleased, EndedAnswerLeftEarly, TypeOK, Asked
<1> QED
  BY <1>1, LeaseInvariance, ReadInvariance, TypeCorrect, PTL

(* One process at a time.                                                   *)


LEMMA AloneInit == Init => AloneInv
  BY ActorsAssumption, PidAssumption
  DEF Init, AloneInv, OneUp, HandlersUp, ChecksOwn, DeletesOwn, RestsWithoutTurn, Up, Actors

LEMMA AloneWorker ==
    ASSUME TypeOK, LeaseInHand, AloneInv, ~Overlap, NEW p \in Workers, WorkerStep(p)
    PROVE  AloneInv'
<1> USE ActorsAssumption, PidAssumption, NamesAssumption
<1> USE DEF TypeOK, Actors, AloneInv, Up
<1>1. CASE Start(p)
  <2>1. /\ pc' = [pc EXCEPT ![p] = "boot"] /\ UNCHANGED <<saw, runOwner, turn>>
        /\ pc[p] = "down" /\ \A q \in Workers : ~Up(q)
    BY <1>1 DEF Start, Goto
  <2>2. \A h \in Handlers : pc[h] = "idle"
    BY <2>1 DEF HandlersUp
  <2>3. OneUp' /\ HandlersUp' /\ RestsWithoutTurn'
    BY <2>1, <2>2 DEF OneUp, HandlersUp, RestsWithoutTurn
  <2>4. ChecksOwn' /\ DeletesOwn'
    BY <2>1, <2>2 DEF ChecksOwn, DeletesOwn
  <2> QED
    BY <2>3, <2>4
<1>2. CASE Crash(p)
  <2>1. /\ \A q \in Workers : pc'[q] = IF q = p THEN "down" ELSE pc[q]
        /\ \A h \in Handlers : pc'[h] = IF Pid[h] = p THEN "idle" ELSE pc[h]
        /\ \A a \in Workers \cup Handlers : Pid[a] # p => saw'[a] = saw[a]
        /\ turn' = [turn EXCEPT ![p] = NoTask]
        /\ runOwner' = runOwner
    BY <1>2 DEF Crash, redis
  <2>2. OneUp' /\ HandlersUp' /\ RestsWithoutTurn'
    BY <2>1 DEF OneUp, HandlersUp, RestsWithoutTurn
  <2>3. ChecksOwn'
    BY <2>1 DEF ChecksOwn
  <2>4. DeletesOwn'
    BY <2>1 DEF DeletesOwn
  <2> QED
    BY <2>2, <2>3, <2>4
<1>3. CASE RegisterOwner(p)
  <2>1. /\ pc[p] = "setOwner" /\ pc' = [pc EXCEPT ![p] = "turn"] /\ saw' = [saw EXCEPT ![p] = NoLease]
        /\ runOwner' = saw[p] /\ turn' = turn
    BY <1>3 DEF RegisterOwner, Goto
  <2>2. saw[p].pid = p
    BY <2>1 DEF LeaseInHand
  <2>3. \A a \in Workers \cup Handlers : pc'[a] \in {"delTask", "delOwner"} => Pid[a] = p
    BY <2>1 DEF OneUp, HandlersUp
  <2>4. OneUp' /\ HandlersUp' /\ RestsWithoutTurn'
    BY <2>1 DEF OneUp, HandlersUp, RestsWithoutTurn
  <2>5. ChecksOwn' /\ DeletesOwn'
    BY <2>1, <2>2, <2>3 DEF ChecksOwn, DeletesOwn
  <2> QED
    BY <2>4, <2>5
\* The other steps start no process, write no lease and check nothing.
<1>4. ASSUME NEW step \in Steps \ {"down", "check"}, pc[p] # "down",
             pc' = [pc EXCEPT ![p] = step],
             turn' = turn \/ \E t \in Tasks \cup {NoTask} : turn' = [turn EXCEPT ![p] = t],
             step \in {"delTask", "delOwner", "boot", "idle"} => turn'[p] = NoTask,
             saw' = saw \/ \E l \in Lease : saw' = [saw EXCEPT ![p] = l],
             runOwner' = runOwner
      PROVE  AloneInv'
  <2>1. \A a \in (Workers \cup Handlers) \ {p} : pc'[a] = pc[a] /\ saw'[a] = saw[a]
    BY <1>4
  <2>2. \A q \in Workers \ {p} : turn'[q] = turn[q]
    BY <1>4
  <2>3. pc'[p] = step /\ (p \in Handlers => FALSE)
    BY <1>4
  <2>4. OneUp' /\ HandlersUp' /\ RestsWithoutTurn'
    BY <1>4, <2>1, <2>2, <2>3 DEF OneUp, HandlersUp, RestsWithoutTurn
  <2>5. ChecksOwn'
    BY <1>4, <2>1, <2>3 DEF ChecksOwn
  <2>6. DeletesOwn'
    BY <1>4, <2>1, <2>2, <2>3 DEF DeletesOwn
  <2> QED
    BY <2>4, <2>5, <2>6
<1>5. CASE Beat(p)
  <2>1. UNCHANGED <<pc, saw, turn, runOwner>>
    BY <1>5 DEF Beat
  <2> QED
    BY <2>1 DEF OneUp, HandlersUp, ChecksOwn, DeletesOwn, RestsWithoutTurn
<1>6. CASE Enter(p)
  <2>1. UNCHANGED <<pc, saw, turn, runOwner>>
    BY <1>6 DEF Enter, redis
  <2> QED
    BY <2>1 DEF OneUp, HandlersUp, ChecksOwn, DeletesOwn, RestsWithoutTurn
<1>7. CASE Abandon(p) \/ Boot(p)
  <2>1. turn[p] = NoTask
    BY <1>7 DEF Abandon, Boot, RestsWithoutTurn
  <2> QED
    BY <1>4, <1>7, <2>1 DEF Abandon, Boot, Goto, redis, Steps
<1>8. ASSUME NEW t \in Tasks, Claim(p, t) PROVE AloneInv'
  BY <1>4, <1>8 DEF Claim, Goto, redis, Steps
<1>9. CASE RegisterRead(p) \/ RegisterPublish(p) \/ RegisterReread(p) \/ RegisterTask(p)
  <2>1. NewLease(p) \in Lease
    BY DEF NewLease, Lease, Owner
  <2>2. runOwner' = runOwner /\ turn' = turn /\ (saw' = saw \/ saw' = [saw EXCEPT ![p] = NewLease(p)])
    BY <1>9 DEF RegisterRead, RegisterPublish, RegisterReread, RegisterTask, redis
  <2>3. \E step \in {"publish", "setTask", "reread", "turn", "setOwner"} : pc' = [pc EXCEPT ![p] = step]
    BY <1>9 DEF RegisterRead, RegisterPublish, RegisterReread, RegisterTask, Goto
  <2>4. pc[p] # "down"
    BY <1>9 DEF RegisterRead, RegisterPublish, RegisterReread, RegisterTask
  <2> QED
    BY <1>4, <2>1, <2>2, <2>3, <2>4 DEF Steps
<1>10. CASE LeaveEarly(p)
  BY <1>4, <1>10 DEF LeaveEarly, Goto, redis, Steps
<1>11. CASE Reregister(p) \/ EndTurn(p)
  BY <1>4, <1>11 DEF Reregister, EndTurn, Goto, redis, Steps
<1> QED
  BY <1>1, <1>2, <1>3, <1>5, <1>6, <1>7, <1>8, <1>9, <1>10, <1>11 DEF WorkerStep

\* Nor do the steps of a release, of a handler and of a reader: they delete a
\* lease or none.
CallStep(a, step) ==
    /\ pc' = [pc EXCEPT ![a] = step]
    /\ a \in Workers => pc[a] # "down" /\ step # "boot"
    /\ a \in Handlers => Up(Pid[a])
    /\ \/ turn' = turn /\ (a \in Workers => step # "idle")
       \/ a \in Workers /\ turn' = [turn EXCEPT ![a] = NoTask] /\ step = "idle"
    /\ \A b \in Actors \ {a} : saw'[b] = saw[b]
    /\ (a \in Workers \cup Handlers /\ step = "check") => saw'[a].pid = Pid[a]
    /\ runOwner' \in {runOwner, NoLease}
    /\ (a \in Workers \cup Handlers /\ step \in {"delTask", "delOwner"}) =>
           pc[a] \in {"delTask", "delOwner"} \/ runOwner.pid = Pid[a]

LEMMA AloneCall ==
    ASSUME TypeOK, AloneInv, NEW a \in Actors, NEW step \in Steps \ {"down"}, CallStep(a, step)
    PROVE  AloneInv'
<1> USE ActorsAssumption, PidAssumption, NamesAssumption
<1> USE DEF TypeOK, Actors, AloneInv, Up, CallStep
<1>1. pc'[a] = step /\ \A b \in Actors \ {a} : pc'[b] = pc[b]
  OBVIOUS
<1>2. \A q \in Workers \ {a} : turn'[q] = turn[q]
  OBVIOUS
<1>3. \A q \in Workers : pc'[q] # "down" <=> pc[q] # "down"
  BY <1>1
<1>4. OneUp' /\ HandlersUp'
  BY <1>1, <1>3 DEF OneUp, HandlersUp
<1>5. RestsWithoutTurn'
  BY <1>1, <1>2 DEF RestsWithoutTurn
<1>6. ChecksOwn'
  BY <1>1 DEF ChecksOwn
<1>7. runOwner'.pid \in {runOwner.pid, NoPid}
  BY DEF NoLease
<1>8. DeletesOwn'
  BY <1>1, <1>2, <1>7 DEF DeletesOwn
<1> QED
  BY <1>4, <1>5, <1>6, <1>8

LEMMA AloneNext ==
    ASSUME TypeOK, LeaseInHand, AloneInv, ~Overlap, [Next]_vars
    PROVE  AloneInv'
<1> USE ActorsAssumption, PidAssumption, NamesAssumption
<1> USE DEF Actors, Goto, redis, ghosts
<1>t. pc \in [Actors -> Steps] /\ saw \in [Actors -> Lease] /\ turn \in [Workers -> Tasks \cup {NoTask}]
  BY DEF TypeOK
<1>1. CASE UNCHANGED vars \/ BeatExpires
  <2>1. UNCHANGED <<pc, saw, turn, runOwner>>
    BY <1>1 DEF vars, BeatExpires
  <2> QED
    BY <2>1 DEF AloneInv, OneUp, HandlersUp, ChecksOwn, DeletesOwn, RestsWithoutTurn, Up
<1>2. ASSUME NEW p \in Workers, WorkerStep(p) PROVE AloneInv'
  BY <1>2, AloneWorker
<1>3. \A h \in Handlers : pc[h] # "idle" => Up(Pid[h])
  BY DEF AloneInv, HandlersUp
<1>4. ASSUME NEW a \in Actors, Return(a), runOwner' \in {runOwner, NoLease},
             pc[a] \in {"release", "check", "delStray", "delTask", "delOwner"}
      PROVE  AloneInv'
  <2>1. saw' = [saw EXCEPT ![a] = NoLease]
    BY <1>4 DEF Return
  <2>2. CASE a \in Workers
    <3>1. pc' = [pc EXCEPT ![a] = "idle"] /\ turn' = [turn EXCEPT ![a] = NoTask]
      BY <1>4, <2>2 DEF Return
    <3>2. CallStep(a, "idle")
      BY <1>4, <1>t, <2>1, <2>2, <3>1 DEF CallStep
    <3> QED
      BY <3>2, AloneCall DEF Steps
  <2>3. CASE a \in Handlers
    <3>1. pc' = [pc EXCEPT ![a] = "clearRead"] /\ turn' = turn
      BY <1>4, <2>3 DEF Return
    <3>2. CallStep(a, "clearRead")
      BY <1>3, <1>4, <1>t, <2>1, <2>3, <3>1 DEF CallStep
    <3> QED
      BY <3>2, AloneCall DEF Steps
  <2>4. CASE a \in Readers
    <3>1. pc' = [pc EXCEPT ![a] = "answered"] /\ turn' = turn
      BY <1>4, <2>4 DEF Return
    <3>2. CallStep(a, "answered")
      BY <1>4, <1>t, <2>1, <2>4, <3>1 DEF CallStep
    <3> QED
      BY <3>2, AloneCall DEF Steps
  <2> QED
    BY <2>2, <2>3, <2>4
<1>5. ASSUME NEW a \in Workers \cup Handlers, ReleaseStep(a) PROVE AloneInv'
  <2>1. pc[a] = "release" /\ runOwner' = runOwner
    BY <1>5 DEF ReleaseStep, ReleaseRead
  <2>2. CASE Return(a)
    BY <1>4, <2>1, <2>2
  <2>3. CASE ~Return(a)
    <3>1. /\ runOwner.pid = Pid[a] /\ saw' = [saw EXCEPT ![a] = runOwner]
          /\ pc' = [pc EXCEPT ![a] = "check"] /\ turn' = turn
      BY <1>5, <2>3 DEF ReleaseStep, ReleaseRead
    <3>2. CallStep(a, "check")
      BY <1>3, <1>t, <2>1, <3>1 DEF CallStep
    <3> QED
      BY <3>2, AloneCall DEF Steps
  <2> QED
    BY <2>2, <2>3
<1>6. ASSUME NEW a \in Actors, DropStep(a) PROVE AloneInv'
  <2>1. CASE CheckDrops(a)
    <3>1. pc[a] = "check" /\ UNCHANGED <<saw, turn, runOwner>>
      BY <2>1 DEF CheckDrops
    <3>2. a \in Workers \cup Handlers => saw[a].pid = Pid[a] /\ saw[a] # NoLease
      BY <3>1 DEF AloneInv, ChecksOwn, NoLease
    <3>3. CASE pc' = [pc EXCEPT ![a] = "delStray"]
      <4>1. CallStep(a, "delStray")
        BY <1>3, <1>t, <3>1, <3>3 DEF CallStep
      <4> QED
        BY <4>1, AloneCall DEF Steps
    <3>4. CASE pc' = [pc EXCEPT ![a] = "delTask"] /\ runOwner.pid = saw[a].pid
      <4>1. CallStep(a, "delTask")
        BY <1>3, <1>t, <3>1, <3>2, <3>4 DEF CallStep
      <4> QED
        BY <4>1, AloneCall DEF Steps
    <3> QED
      BY <2>1, <3>3, <3>4 DEF CheckDrops, Unchanged
  <2>2. CASE CheckKeeps(a)
    BY <1>4, <2>2 DEF CheckKeeps
  <2>3. CASE DeleteStray(a)
    BY <1>4, <2>3 DEF DeleteStray
  <2>4. CASE DeleteTask(a)
    <3>1. /\ pc[a] = "delTask" /\ UNCHANGED <<saw, turn, runOwner>>
          /\ pc' = [pc EXCEPT ![a] = "delOwner"]
      BY <2>4 DEF DeleteTask
    <3>2. CallStep(a, "delOwner")
      BY <1>3, <1>t, <3>1 DEF CallStep
    <3> QED
      BY <3>2, AloneCall DEF Steps
  <2>5. CASE DeleteOwner(a)
    BY <1>4, <2>5 DEF DeleteOwner
  <2> QED
    BY <1>6, <2>1, <2>2, <2>3, <2>4, <2>5 DEF DropStep
<1>7. ASSUME NEW h \in Handlers, HandlerStep(h) PROVE AloneInv'
  <2>1. PICK step \in {"clearRead", "release", "clearDel", "answered"} : pc' = [pc EXCEPT ![h] = step]
    BY <1>7 DEF HandlerStep, Signal, ClearOwnerRead, ClearOwnerDelete
  <2>2. UNCHANGED <<saw, turn, runOwner>> /\ Up(Pid[h])
    BY <1>3, <1>7 DEF HandlerStep, Signal, ClearOwnerRead, ClearOwnerDelete
  <2>3. CallStep(h, step)
    BY <2>1, <2>2 DEF CallStep
  <2> QED
    BY <2>3, AloneCall DEF Steps
<1>8. ASSUME NEW r \in Readers, ReaderStep(r) PROVE AloneInv'
  <2>1. PICK step \in Steps \ {"down"} : pc' = [pc EXCEPT ![r] = step]
    BY <1>8 DEF ReaderStep, GetTask, GetOwner, GetWorker, Answer, Finish, Steps
  <2>2. UNCHANGED <<turn, runOwner>> /\ \A b \in Actors \ {r} : saw'[b] = saw[b]
    BY <1>8, <1>t DEF ReaderStep, GetTask, GetOwner, GetWorker, Answer, Finish
  <2>3. CallStep(r, step)
    BY <2>1, <2>2 DEF CallStep
  <2> QED
    BY <2>3, AloneCall
<1> QED
  BY <1>1, <1>2, <1>5, <1>6, <1>7, <1>8 DEF Next

\* "A dying worker must not delete the lease a replacement worker already
\* registered for the same session": release_if_owner keeps this promise when a
\* replacement starts only after the dying process has gone, as systemd does it.
\* The run lease_clobber shows that it does not when they overlap.
THEOREM ReplacementKept == ASSUME ~Overlap PROVE Spec => ReleaseLeavesReplacement
<1>1. Init => TypeOK /\ LeaseInv /\ AloneInv
  BY TypeInit, LeaseInvInit, AloneInit
<1>2. (TypeOK /\ LeaseInv /\ AloneInv) /\ [Next]_vars => (TypeOK /\ LeaseInv /\ AloneInv)'
  <2>1. LeaseInv => LeaseInHand
    BY DEF LeaseInv
  <2> QED
    BY <2>1, TypeNext, LeaseInvNext, AloneNext
<1>3. AloneInv => \A a \in Workers \cup Handlers :
                     (DeleteOwner(a) /\ turn[Pid[a]] # NoTask) => runOwner.pid \in {NoPid, Pid[a]}
  <2> SUFFICES ASSUME AloneInv, NEW a \in Workers \cup Handlers, DeleteOwner(a), turn[Pid[a]] # NoTask
               PROVE  runOwner.pid \in {NoPid, Pid[a]}
    OBVIOUS
  <2> QED
    BY PidAssumption DEF DeleteOwner, AloneInv, DeletesOwn
<1>4. AloneInv => [\A a \in Workers \cup Handlers :
                     (DeleteOwner(a) /\ turn[Pid[a]] # NoTask) => runOwner.pid \in {NoPid, Pid[a]}]_vars
  BY <1>3
<1> QED
  BY <1>1, <1>2, <1>4, PTL DEF Spec, ReleaseLeavesReplacement
=============================================================================
