---- MODULE AgentSessions_proofs ----
(* Proofs about AgentSessions for any number of updates, sessions and chats. *)
EXTENDS AgentSessions, NumberLemmas

(* The latest session. *)

\* Some session is the latest of a set, unless the set is empty.
LEMMA LatestIsOne ==
  ASSUME SessionsTypeOK, NEW S \in SUBSET Sessions
  PROVE  /\ S = {} => Latest(S) = NoSession
         /\ S # {} => Latest(S) \in S
<1>1. CASE S = {}
  BY <1>1 DEF Latest
<1>2. CASE S # {}
  <2> DEFINE T == {recent[s] : s \in S}
  <2>1. T \in SUBSET Nat /\ T # {}
    BY <1>2, SessionsAssumption DEF SessionsTypeOK
  <2>2. \E x \in T : \A y \in T : x <= y
    <3> HIDE DEF T
    <3> QED
      BY <2>1, LeastNumber
  <2>3. \E s \in S : \A t \in S : recent[s] <= recent[t]
    BY <2>2
  <2> QED
    BY <1>2, <2>3 DEF Latest
<1> QED
  BY <1>1, <1>2

LEMMA SessionIsSome == NoSession \notin Sessions
  BY SessionsAssumption DEF Sessions, NoSession

LEMMA ActiveIsOne ==
  ASSUME SessionsTypeOK
  PROVE  /\ Active = NoSession <=> ActiveRows = {}
         /\ Active # NoSession => Active \in ActiveRows
         /\ ActiveRows \subseteq Sessions
  BY LatestIsOne, SessionIsSome DEF Active, ActiveRows

LEMMA MatchTypes ==
  ASSUME SessionsTypeOK, NEW e \in Engines
  PROVE  Match(e) \in Sessions \cup {NoSession}
  BY LatestIsOne DEF Match

LEMMA CarryTypes ==
  ASSUME SessionsTypeOK, NEW e \in Engines
  PROVE  /\ Carry(e) \in [from: Sessions \cup {NoSession}, chat: 0..MaxChat, into: BOOLEAN]
         /\ \/ Carry(e) = NoCarry
            \/ /\ Carry(e).from = Active /\ Active \in Sessions
               /\ Carry(e).chat = sessChat[Active] /\ Carry(e).chat # NoChat
<1>1. NoCarry \in [from: Sessions \cup {NoSession}, chat: 0..MaxChat, into: BOOLEAN]
  BY SessionsAssumption DEF NoCarry, NoChat
<1>2. Active # NoSession => Active \in Sessions
  BY ActiveIsOne
<1> QED
  BY <1>1, <1>2, MatchTypes DEF Carry, SessionsTypeOK

LEMMA TouchedTypes ==
  ASSUME SessionsTypeOK, NEW s \in Sessions
  PROVE  Touched(s) \in [Sessions -> 0..MaxSession]
  BY SessionsAssumption, SMTT(60) DEF Touched, SessionsTypeOK
----
(* How an update starts. *)

Busy(u) == updAt[u] # "idle"

Begin(u) == New(u) \/ Resume(u) \/ Delete(u) \/ Prompt(u) \/ PickModel(u)

\* What every start of an update has in common ...
Begins(u, op, s, e, L, c) ==
    /\ Starts(u, op, s, e, L)
    /\ updAt' = [updAt EXCEPT ![u] = updAt'[u]] /\ updAt'[u] \in {"list", "flush", "commit"}
    /\ updCarry' = [updCarry EXCEPT ![u] = c] /\ c \in {NoCarry, Carry(e)}
    /\ model' \in Engines
    /\ UNCHANGED <<columns, updListed, writes, workerSide>>

\* ... and what the kinds of starts differ in.
BeginKinds(u, op, s, e) ==
    /\ updAt'[u] = "flush" => op = "delete" \/ (op = "prompt" /\ s = NoSession /\ ActiveRows = {})
    /\ updAt'[u] = "commit" => s = Active /\ s \in Sessions /\ sessEngine[s] = e
    /\ op = "prompt" => e = model
    /\ op # "align" => model' = model
    /\ op \in {"resume", "delete"} => s \in Listable

\* An update at rest holds nothing, and only one that commits has written.
AtRest ==
    /\ \A u \in Updates : ~Busy(u) => updListed[u] = {} /\ updCarry[u] = NoCarry
    /\ \A u \in Updates : updAt[u] # "commit" => writes[u] = NoWrites
    /\ \A u \in Updates : updAt[u] = "commit" => updTarget[u] \in Sessions
    /\ turn # NoTurn => turn.session \in Sessions

SessionsTyped == SessionsTypeOK /\ AtRest

LEMMA BeginSteps ==
  ASSUME SessionsTyped, NEW u \in Updates, Begin(u)
  PROVE  \E op \in {"new", "resume", "delete", "prompt", "align"},
            s \in Sessions \cup {NoSession}, e \in Engines, L \in SUBSET Sessions :
         \E c \in [from: Sessions \cup {NoSession}, chat: 0..MaxChat, into: BOOLEAN] :
            Begins(u, op, s, e, L, c) /\ BeginKinds(u, op, s, e)
<1> USE DEF SessionsTyped, Begins, BeginKinds
<1>1. /\ NoCarry \in [from: Sessions \cup {NoSession}, chat: 0..MaxChat, into: BOOLEAN]
      /\ Listable \subseteq Sessions /\ model \in Engines
  BY SessionsAssumption DEF NoCarry, NoChat, Listable, SessionsTypeOK
<1>2. ASSUME UNCHANGED updCarry, ~Busy(u) PROVE updCarry' = [updCarry EXCEPT ![u] = NoCarry]
  BY <1>2 DEF AtRest, SessionsTypeOK
<1>3. ASSUME NEW pc, UpdTo(u, pc) PROVE updAt' = [updAt EXCEPT ![u] = updAt'[u]] /\ updAt'[u] = pc
  BY <1>3 DEF UpdTo, SessionsTypeOK
<1>4. ASSUME NEW op \in {"prompt", "align"}, NEW e \in Engines, Aligns(u, op, e)
      PROVE  /\ Starts(u, op, Match(e), e, Listable) /\ Match(e) \in Sessions \cup {NoSession}
             /\ updCarry' = [updCarry EXCEPT ![u] = Carry(e)]
             /\ Carry(e) \in [from: Sessions \cup {NoSession}, chat: 0..MaxChat, into: BOOLEAN]
             /\ updAt' = [updAt EXCEPT ![u] = updAt'[u]] /\ updAt'[u] = "list"
  BY <1>3, <1>4, MatchTypes, CarryTypes DEF Aligns
<1>5. ASSUME NEW op, NEW s, NEW e, NEW L, Starts(u, op, s, e, L) PROVE ~Busy(u)
  BY <1>5 DEF Starts, Busy
<1>6. CASE New(u)
  <2>1. Starts(u, "new", NoSession, model, {}) /\ UpdTo(u, "list")
        /\ UNCHANGED <<columns, model, updListed, updCarry, writes, workerSide>>
    BY <1>6 DEF New
  <2> QED
    BY <1>1, <1>2, <1>3, <1>5, <2>1, SMTT(60)
<1>7. CASE Resume(u)
  <2>1. PICK s \in Listable : Starts(u, "resume", s, sessEngine[s], {s})
    BY <1>7 DEF Resume
  <2>2. s \in Sessions /\ sessEngine[s] \in Engines
    BY <1>1 DEF SessionsTypeOK
  <2>3. UpdTo(u, "list") /\ UNCHANGED <<columns, model, updListed, updCarry, writes, workerSide>>
    BY <1>7 DEF Resume
  <2> QED
    BY <1>1, <1>2, <1>3, <1>5, <2>1, <2>2, <2>3
<1>8. CASE Delete(u)
  <2>1. PICK s \in Listable : Starts(u, "delete", s, sessEngine[s], {s})
    BY <1>8, SMTT(60) DEF Delete
  <2>2. s \in Sessions /\ sessEngine[s] \in Engines
    BY <1>1 DEF SessionsTypeOK
  <2>3. UpdTo(u, "flush") /\ UNCHANGED <<columns, model, updListed, updCarry, writes, workerSide>>
    BY <1>8 DEF Delete
  <2> QED
    BY <1>1, <1>2, <1>3, <1>5, <2>1, <2>2, <2>3
<1>9. CASE Prompt(u)
  <2>1. UNCHANGED <<columns, model, updListed, writes, workerSide>>
    BY <1>9 DEF Prompt
  <2>2. CASE Fits(model) /\ Starts(u, "prompt", Active, model, {Active}) /\ UpdTo(u, "commit")
             /\ UNCHANGED updCarry
    <3>1. Active \in Sessions /\ sessEngine[Active] = model
      BY <2>2, ActiveIsOne DEF Fits
    <3> QED
      BY <1>1, <1>2, <1>3, <1>5, <2>1, <2>2, <3>1
  <2>3. CASE Aligns(u, "prompt", model)
    BY <1>1, <1>4, <2>1, <2>3, ZenonT(60)
  <2>4. CASE Active = NoSession /\ Starts(u, "prompt", NoSession, model, {}) /\ UpdTo(u, "flush")
             /\ UNCHANGED updCarry
    BY <1>1, <1>2, <1>3, <1>5, <2>1, <2>4, ActiveIsOne
  <2> QED
    BY <1>9, <2>2, <2>3, <2>4 DEF Prompt
<1>10. CASE PickModel(u)
  <2>1. PICK e \in Engines \ {model} :
            /\ model' = e
            /\ \/ /\ Fits(e) /\ Starts(u, "align", Active, e, {Active})
                  /\ UpdTo(u, "commit") /\ UNCHANGED updCarry
               \/ ~Fits(e) /\ Aligns(u, "align", e)
    BY <1>10 DEF PickModel
  <2>2. UNCHANGED <<columns, updListed, writes, workerSide>>
    BY <1>10 DEF PickModel
  <2>3. CASE Fits(e) /\ Starts(u, "align", Active, e, {Active}) /\ UpdTo(u, "commit")
             /\ UNCHANGED updCarry
    <3>1. Active \in Sessions /\ sessEngine[Active] = e
      BY <2>3, ActiveIsOne DEF Fits
    <3> QED
      BY <1>1, <1>2, <1>3, <1>5, <2>1, <2>2, <2>3, <3>1
  <2>4. CASE Aligns(u, "align", e)
    BY <1>1, <1>4, <2>1, <2>2, <2>4
  <2> QED
    BY <2>1, <2>3, <2>4
<1> QED
  BY <1>6, <1>7, <1>8, <1>9, <1>10 DEF Begin
----
(* Types. *)

CarrySet == [from: Sessions \cup {NoSession}, chat: 0..MaxChat, into: BOOLEAN]

LEMMA WrittenTypes ==
  ASSUME SessionsTypeOK, NEW u \in Updates, NEW s \in Sessions
  PROVE  Written(u, s) \in [Sessions -> Lives \cup {Unwritten}]
  BY DEF Written, Lives, Unwritten

LEMMA NothingWritten == NoWrites \in [Sessions -> Lives \cup {Unwritten}]
  BY DEF NoWrites

LEMMA TypedInit == SessionsInit => SessionsTyped
<1> SUFFICES ASSUME SessionsInit PROVE SessionsTyped
  OBVIOUS
<1> USE SessionsAssumption DEF SessionsInit
<1>1. updCarry \in [Updates -> CarrySet]
  BY DEF CarrySet, NoCarry, NoChat
<1>2. writes \in [Updates -> [Sessions -> Lives \cup {Unwritten}]]
  BY NothingWritten
<1>3. /\ turn.session \in Sessions \cup {NoSession} /\ turn.engine \in Engines
      /\ turn.chat \in 0..MaxChat
  BY DEF NoTurn, NoChat, Engines
<1>4. /\ sessStatus \in [Sessions -> Lives] /\ sessEngine \in [Sessions -> Engines]
      /\ sessChat \in [Sessions -> 0..MaxChat] /\ recent \in [Sessions -> 0..MaxSession]
      /\ updEngine \in [Updates -> Engines] /\ updSaw \in [Updates -> [Sessions -> Lives]]
  BY DEF Lives, Engines, NoChat
<1>5. /\ updAt \in [Updates -> {"idle", "list", "flush", "commit"}]
      /\ updOp \in [Updates -> {"new", "resume", "delete", "prompt", "align"}]
      /\ updTarget \in [Updates -> Sessions \cup {NoSession}]
      /\ updListed \in [Updates -> SUBSET Sessions]
  OBVIOUS
<1>6. /\ model \in Engines /\ waiting \subseteq Sessions
      /\ opened \in 0..MaxChat /\ started \in 0..MaxUpdate
  OBVIOUS
<1>7. updOverlap \in BOOLEAN /\ staleTurn \in BOOLEAN
  OBVIOUS
<1>8. SessionsTypeOK
  BY <1>1, <1>2, <1>3, <1>4, <1>5, <1>6, <1>7 DEF SessionsTypeOK, CarrySet
<1>9. AtRest
  BY DEF AtRest, Busy
<1> QED
  BY <1>8, <1>9 DEF SessionsTyped

LEMMA ForgetsTypes ==
  ASSUME SessionsTyped, NEW u \in Updates, Forgets(u)
  PROVE  /\ updAt' = [updAt EXCEPT ![u] = "idle"] /\ updOp' = [updOp EXCEPT ![u] = "new"]
         /\ updTarget' = [updTarget EXCEPT ![u] = NoSession]
         /\ updEngine' \in [Updates -> Engines] /\ updSaw' \in [Updates -> [Sessions -> Lives]]
         /\ updListed' = [updListed EXCEPT ![u] = {}]
         /\ updCarry' = [updCarry EXCEPT ![u] = NoCarry] /\ updCarry' \in [Updates -> CarrySet]
         /\ writes' = [writes EXCEPT ![u] = NoWrites]
         /\ writes' \in [Updates -> [Sessions -> Lives \cup {Unwritten}]]
<1>1. NoCarry \in CarrySet
  BY SessionsAssumption DEF CarrySet, NoCarry, NoChat
<1> QED
  BY <1>1, NothingWritten
  DEF SessionsTyped, SessionsTypeOK, Forgets, UpdTo, Engines, Lives, CarrySet

LEMMA ForgetfulTypes ==
  ASSUME SessionsTyped, NEW u \in Updates, Forgets(u)
  PROVE  /\ updAt' \in [Updates -> {"idle", "list", "flush", "commit"}]
         /\ updOp' \in [Updates -> {"new", "resume", "delete", "prompt", "align"}]
         /\ updTarget' \in [Updates -> Sessions \cup {NoSession}]
         /\ updListed' \in [Updates -> SUBSET Sessions]
<1>1. /\ updAt' = [updAt EXCEPT ![u] = "idle"] /\ updOp' = [updOp EXCEPT ![u] = "new"]
      /\ updTarget' = [updTarget EXCEPT ![u] = NoSession]
      /\ updListed' = [updListed EXCEPT ![u] = {}]
  BY ForgetsTypes
<1>2. /\ updAt \in [Updates -> {"idle", "list", "flush", "commit"}]
      /\ updOp \in [Updates -> {"new", "resume", "delete", "prompt", "align"}]
      /\ updTarget \in [Updates -> Sessions \cup {NoSession}]
      /\ updListed \in [Updates -> SUBSET Sessions]
  BY DEF SessionsTyped, SessionsTypeOK
<1>3. updAt' \in [Updates -> {"idle", "list", "flush", "commit"}]
  BY <1>1, <1>2
<1>4. updOp' \in [Updates -> {"new", "resume", "delete", "prompt", "align"}]
  BY <1>1, <1>2
<1>5. updTarget' \in [Updates -> Sessions \cup {NoSession}]
  BY <1>1, <1>2
<1>6. updListed' \in [Updates -> SUBSET Sessions]
  BY <1>1, <1>2
<1> QED
  BY <1>3, <1>4, <1>5, <1>6

LEMMA ForgottenRests ==
  ASSUME SessionsTyped, NEW u \in Updates, Forgets(u), turn' = turn
  PROVE  AtRest'
<1>1. \A v \in Updates \ {u} : /\ updAt'[v] = updAt[v] /\ updListed'[v] = updListed[v]
                               /\ updCarry'[v] = updCarry[v] /\ writes'[v] = writes[v]
                               /\ updTarget'[v] = updTarget[v]
  BY ForgetsTypes DEF SessionsTyped, SessionsTypeOK
<1>2. /\ updAt'[u] = "idle" /\ updListed'[u] = {} /\ updCarry'[u] = NoCarry
      /\ writes'[u] = NoWrites
  BY ForgetsTypes DEF SessionsTyped, SessionsTypeOK
<1> QED
  BY <1>1, <1>2 DEF SessionsTyped, AtRest, Busy

LEMMA TypedNext == SessionsTyped /\ [SessionsNext]_sessionVars => SessionsTyped'
<1> SUFFICES ASSUME SessionsTyped, [SessionsNext]_sessionVars PROVE SessionsTyped'
  OBVIOUS
<1> USE SessionsAssumption DEF SessionsTyped, columns, workerSide, updLocals
<1>1. ASSUME NEW u \in Updates, Begin(u) PROVE SessionsTyped'
  <2>1. PICK op \in {"new", "resume", "delete", "prompt", "align"},
             s \in Sessions \cup {NoSession}, e \in Engines, L \in SUBSET Sessions :
        \E c \in CarrySet : Begins(u, op, s, e, L, c) /\ BeginKinds(u, op, s, e)
    BY <1>1, BeginSteps, SMTT(60) DEF CarrySet
  <2>2. PICK c \in CarrySet : Begins(u, op, s, e, L, c)
    BY <2>1
  <2>3. Starts(u, op, s, e, L) /\ BeginKinds(u, op, s, e)
    BY <2>1, <2>2 DEF Begins
  <2>4. updSaw' \in [Updates -> [Sessions -> Lives]]
    BY <2>3 DEF Starts, SessionsTypeOK, Lives
  <2>5. updOverlap' \in BOOLEAN /\ started' \in 0..MaxUpdate
    BY <2>3 DEF Starts, SessionsTypeOK
  <2>6. /\ updOp' = [updOp EXCEPT ![u] = op] /\ updTarget' = [updTarget EXCEPT ![u] = s]
        /\ updEngine' = [updEngine EXCEPT ![u] = e] /\ updAt[u] = "idle"
    BY <2>3 DEF Starts
  <2>7. SessionsTypeOK'
    <3>1. /\ updOp' \in [Updates -> {"new", "resume", "delete", "prompt", "align"}]
          /\ updTarget' \in [Updates -> Sessions \cup {NoSession}]
          /\ updEngine' \in [Updates -> Engines]
      BY <2>6 DEF SessionsTypeOK
    <3>2. updAt' \in [Updates -> {"idle", "list", "flush", "commit"}]
      BY <2>2 DEF Begins, SessionsTypeOK
    <3>3. updCarry' \in [Updates -> CarrySet] /\ model' \in Engines
      <4>1. updCarry \in [Updates -> CarrySet]
        BY DEF SessionsTypeOK, CarrySet
      <4> QED
        BY <2>2, <4>1 DEF Begins
    <3>4. UNCHANGED <<columns, updListed, writes, workerSide>>
      BY <2>2 DEF Begins
    <3> QED
      BY <2>4, <2>5, <3>1, <3>2, <3>3, <3>4 DEF SessionsTypeOK, CarrySet
  <2>8. AtRest'
    BY <2>2, <2>3, <2>6 DEF Begins, BeginKinds, AtRest, Busy, SessionsTypeOK
  <2> QED
    BY <2>7, <2>8
<1>2. ASSUME NEW u \in Updates, ListActive(u) PROVE SessionsTyped'
  <2>1. ActiveRows \in SUBSET Sessions
    BY DEF ActiveRows
  <2>2. SessionsTypeOK'
    BY <1>2, <2>1 DEF ListActive, UpdTo, SessionsTypeOK
  <2>3. AtRest'
    BY <1>2 DEF ListActive, UpdTo, SessionsTypeOK, AtRest, Busy
  <2> QED
    BY <2>2, <2>3
<1>3. ASSUME NEW u \in Updates, Flush(u) PROVE SessionsTyped'
  <2>1. PICK s \in IF updTarget[u] = NoSession THEN Unused ELSE {updTarget[u]} :
             /\ writes' = [writes EXCEPT ![u] = Written(u, s)]
             /\ updTarget' = [updTarget EXCEPT ![u] = s]
    BY <1>3 DEF Flush
  <2>2. s \in Sessions
    BY <2>1 DEF Unused, SessionsTypeOK
  <2>3. writes' \in [Updates -> [Sessions -> Lives \cup {Unwritten}]]
    BY <2>1, <2>2, WrittenTypes, SMTT(60) DEF SessionsTypeOK
  <2>4. updEngine' \in [Updates -> Engines]
    BY <1>3 DEF Flush, SessionsTypeOK
  <2>5. SessionsTypeOK'
    BY <1>3, <2>1, <2>2, <2>3, <2>4, SMTT(60) DEF Flush, UpdTo, SessionsTypeOK
  <2>6. AtRest'
    BY <1>3, <2>1, <2>2 DEF Flush, UpdTo, SessionsTypeOK, AtRest, Busy
  <2> QED
    BY <2>5, <2>6
<1>4. ASSUME NEW u \in Updates, CommitUpdate(u) PROVE SessionsTyped'
  <2>1. Forgets(u) /\ updAt[u] = "commit" /\ updTarget[u] \in Sessions
    BY <1>4 DEF CommitUpdate, AtRest
  <2>2. sessStatus' \in [Sessions -> Lives]
    BY <1>4 DEF CommitUpdate, SessionsTypeOK
  <2>3. sessEngine' \in [Sessions -> Engines]
    BY <1>4 DEF CommitUpdate, SessionsTypeOK
  <2>4. sessChat' \in [Sessions -> 0..MaxChat]
    BY <1>4 DEF CommitUpdate, ChatAfter, SessionsTypeOK, NoChat
  <2>5. recent' \in [Sessions -> 0..MaxSession]
    BY <1>4, <2>1, TouchedTypes DEF CommitUpdate, SessionsTypeOK
  <2>6. waiting' \subseteq Sessions /\ staleTurn' \in BOOLEAN
    BY <1>4, <2>1 DEF CommitUpdate, SessionsTypeOK
  <2>7. SessionsTypeOK'
    <3>1. /\ updAt' \in [Updates -> {"idle", "list", "flush", "commit"}]
          /\ updOp' \in [Updates -> {"new", "resume", "delete", "prompt", "align"}]
          /\ updTarget' \in [Updates -> Sessions \cup {NoSession}]
          /\ updListed' \in [Updates -> SUBSET Sessions]
      BY <2>1, ForgetfulTypes
    <3>2. UNCHANGED <<model, turn, opened, started, updOverlap>>
      BY <1>4 DEF CommitUpdate
    <3>3. /\ updEngine' \in [Updates -> Engines] /\ updSaw' \in [Updates -> [Sessions -> Lives]]
          /\ updCarry' \in [Updates -> CarrySet]
          /\ writes' \in [Updates -> [Sessions -> Lives \cup {Unwritten}]]
      BY <2>1, ForgetsTypes
    <3> QED
      BY <2>2, <2>3, <2>4, <2>5, <2>6, <3>1, <3>2, <3>3 DEF SessionsTypeOK, CarrySet
  <2>8. AtRest'
    BY <1>4, <2>1, ForgottenRests DEF CommitUpdate
  <2> QED
    BY <2>7, <2>8
<1>5. ASSUME NEW u \in Updates, RollbackUpdate(u) PROVE SessionsTyped'
  <2>1. Forgets(u) /\ UNCHANGED <<columns, model, workerSide, started, updOverlap>>
    BY <1>5 DEF RollbackUpdate
  <2>2. SessionsTypeOK'
    <3>1. /\ updAt' \in [Updates -> {"idle", "list", "flush", "commit"}]
          /\ updOp' \in [Updates -> {"new", "resume", "delete", "prompt", "align"}]
          /\ updTarget' \in [Updates -> Sessions \cup {NoSession}]
          /\ updListed' \in [Updates -> SUBSET Sessions]
      BY <2>1, ForgetfulTypes
    <3>2. /\ updEngine' \in [Updates -> Engines] /\ updSaw' \in [Updates -> [Sessions -> Lives]]
          /\ updCarry' \in [Updates -> CarrySet]
          /\ writes' \in [Updates -> [Sessions -> Lives \cup {Unwritten}]]
      BY <2>1, ForgetsTypes
    <3> QED
      BY <2>1, <3>1, <3>2 DEF SessionsTypeOK, CarrySet, columns, workerSide
  <2>3. AtRest'
    BY <2>1, ForgottenRests
  <2> QED
    BY <2>2, <2>3
<1>6. CASE BeginTurn
  <2>1. PICK s \in waiting :
          /\ turn' = [session |-> s, engine |-> model,
                      chat |-> IF model = "opencode" THEN sessChat[s] ELSE NoChat]
          /\ waiting' = waiting \ {s}
    BY <1>6 DEF BeginTurn
  <2>2. /\ turn'.session \in Sessions /\ turn'.engine \in Engines /\ turn'.chat \in 0..MaxChat
        /\ waiting' \subseteq Sessions
    BY <2>1 DEF SessionsTypeOK, NoChat
  <2> QED
    BY <1>6, <2>2 DEF BeginTurn, SessionsTypeOK, AtRest, Busy
<1>7. CASE SaveChat
  <2>1. turn.session \in Sessions
    BY <1>7 DEF SaveChat, AtRest
  <2>2. sessChat' \in [Sessions -> 0..MaxChat] /\ opened' \in 0..MaxChat
    <3>1. CASE turn.engine = "cursor"
      BY <1>7, <3>1 DEF SaveChat, SessionsTypeOK
    <3>2. CASE turn.engine # "cursor"
      <4>1. PICK c \in ({turn.chat} \ {NoChat}) \cup {opened + 1} :
              /\ c <= MaxChat
              /\ sessChat' = [sessChat EXCEPT ![turn.session] = c]
              /\ opened' = IF c > opened THEN c ELSE opened
        BY <1>7, <3>2 DEF SaveChat
      <4>2. c \in 0..MaxChat
        BY <4>1 DEF SessionsTypeOK
      <4> QED
        BY <4>1, <4>2 DEF SessionsTypeOK
    <3> QED
      BY <3>1, <3>2
  <2>3. recent' \in [Sessions -> 0..MaxSession]
    BY <1>7, <2>1, TouchedTypes DEF SaveChat
  <2>4. /\ turn' = NoTurn /\ turn'.session = NoSession /\ turn'.engine \in Engines
        /\ turn'.chat \in 0..MaxChat
    BY <1>7 DEF SaveChat, NoTurn, Engines, NoChat
  <2> QED
    BY <1>7, <2>2, <2>3, <2>4 DEF SaveChat, SessionsTypeOK, AtRest, Busy
<1>8. CASE TurnFails
  <2>1. /\ turn' = NoTurn /\ turn'.session = NoSession /\ turn'.engine \in Engines
        /\ turn'.chat \in 0..MaxChat
    BY <1>8 DEF TurnFails, NoTurn, Engines, NoChat
  <2> QED
    BY <1>8, <2>1, SMTT(60) DEF TurnFails, SessionsTypeOK, AtRest, Busy
<1>9. CASE UNCHANGED sessionVars
  BY <1>9 DEF sessionVars, SessionsTypeOK, AtRest, Busy
<1> QED
  BY <1>1, <1>2, <1>3, <1>4, <1>5, <1>6, <1>7, <1>8, <1>9 DEF SessionsNext, Begin

\* Every variable of the sessions keeps its type, for any number of updates.
THEOREM SessionsTypeCorrect == SessionsSpec => []SessionsTypeOK
<1>1. SessionsSpec => []SessionsTyped
  BY TypedInit, TypedNext, PTL DEF SessionsSpec
<1> QED
  BY <1>1, PTL DEF SessionsTyped
----
(* One active session.  What follows is about behaviours in which no two      *)
(* updates are handled at once.                                               *)

Solo   == \A u, v \in Updates : Busy(u) /\ Busy(v) => u = v
OneNow == \A s, t \in ActiveRows : s = t

\* The row of a session once update u has committed.
StatusAfter(u, s) == IF writes[u][s] # Unwritten THEN writes[u][s] ELSE sessStatus[s]

\* The update works on what is still so: the rows it has loaded, ...
SawTrue(u)  == Busy(u) => \A t \in Sessions : updSaw[u][t] \in {"none", sessStatus[t]}

\* ... the active ones it is going to archive, ...
ListsAll(u) == updAt[u] = "flush" /\ updOp[u] # "delete" => updListed[u] = ActiveRows

\* ... so that one is left when it commits, ...
OneAfter(u) == updAt[u] = "commit" =>
    \A s, t \in Sessions : StatusAfter(u, s) = "active" /\ StatusAfter(u, t) = "active" => s = t

\* ... which is the one of its prompt and fits the model.
PromptReady(u) ==
    Busy(u) /\ updOp[u] = "prompt" =>
        /\ updEngine[u] = model
        /\ updAt[u] = "commit" =>
             \/ writes[u][updTarget[u]] = "active"
             \/ /\ writes[u][updTarget[u]] = Unwritten
                /\ sessStatus[updTarget[u]] = "active" /\ sessEngine[updTarget[u]] = model

UpdateKnows(u) == SawTrue(u) /\ ListsAll(u) /\ OneAfter(u) /\ PromptReady(u)

SoloInv == ~updOverlap => Solo /\ OneNow /\ \A u \in Updates : UpdateKnows(u)

LEMMA IdleKnows == ASSUME NEW u \in Updates, ~Busy(u)' PROVE UpdateKnows(u)'
  BY DEF UpdateKnows, SawTrue, ListsAll, OneAfter, PromptReady, Busy

\* After the flush the update's writes leave at most its own session active.
LEMMA FlushKnows ==
  ASSUME SessionsTyped, NEW u \in Updates, Flush(u), UpdateKnows(u), OneNow
  PROVE  UpdateKnows(u)'
<1> USE DEF SessionsTyped, columns, workerSide
<1>1. PICK s \in IF updTarget[u] = NoSession THEN Unused ELSE {updTarget[u]} :
           /\ writes' = [writes EXCEPT ![u] = Written(u, s)]
           /\ updTarget' = [updTarget EXCEPT ![u] = s]
  BY DEF Flush
<1>2. s \in Sessions
  BY <1>1 DEF Unused, SessionsTypeOK
<1>3. /\ updAt[u] = "flush" /\ updAt'[u] = "commit" /\ writes'[u] = Written(u, s) /\ updTarget'[u] = s
      /\ UNCHANGED <<sessStatus, sessEngine, model, updOp, updSaw, updListed>>
  BY <1>1 DEF Flush, UpdTo, SessionsTypeOK
<1>4. updOp[u] # "prompt" \/ updEngine'[u] = updEngine[u]
  BY DEF Flush, SessionsTypeOK
<1>5. SawTrue(u)' /\ ListsAll(u)'
  BY <1>3 DEF UpdateKnows, SawTrue, ListsAll, Busy
<1>6. ASSUME updOp[u] # "delete", NEW t \in Sessions, t # s PROVE StatusAfter(u, t)' # "active"
  <2>1. updListed[u] = ActiveRows /\ updSaw[u][t] \in {"none", sessStatus[t]}
    BY <1>3, <1>6 DEF UpdateKnows, ListsAll, SawTrue, Busy
  <2>2. CASE sessStatus[t] = "active"
    <3>1. t \in Archives(u)
      BY <2>1, <2>2 DEF Archives, ActiveRows
    <3> QED
      BY <1>2, <1>3, <1>6, <3>1 DEF StatusAfter, Written, Unwritten
  <2>3. CASE sessStatus[t] # "active"
    BY <1>2, <1>3, <1>6, <2>3 DEF StatusAfter, Written, Unwritten
  <2> QED
    BY <2>2, <2>3
<1>7. OneAfter(u)'
  <2>1. CASE updOp[u] = "delete"
    <3>1. \A t \in Sessions : StatusAfter(u, t)' = "active" => t \in ActiveRows
      BY <1>2, <1>3, <2>1 DEF StatusAfter, Written, Unwritten, ActiveRows
    <3> QED
      BY <3>1 DEF OneNow, OneAfter
  <2> QED
    BY <1>6, <2>1 DEF OneAfter
<1>8. PromptReady(u)'
  <2> SUFFICES ASSUME updOp[u] = "prompt"
               PROVE  updEngine'[u] = model /\ writes'[u][s] = "active"
    BY <1>3 DEF PromptReady
  <2>1. updEngine'[u] = model
    BY <1>3, <1>4 DEF UpdateKnows, PromptReady, Busy
  <2>2. updTarget[u] = NoSession \/ Activates(u)
    <3>1. CASE updTarget[u] # NoSession
      <4>1. updTarget[u] = s
        BY <1>1, <3>1
      <4>2. updListed[u] = ActiveRows /\ updSaw[u][s] \in {"none", sessStatus[s]}
        BY <1>2, <1>3 DEF UpdateKnows, ListsAll, SawTrue, Busy
      <4> QED
        BY <1>2, <4>1, <4>2 DEF Activates, ActiveRows
    <3> QED
      BY <3>1
  <2> QED
    BY <1>2, <1>3, <2>1, <2>2 DEF Written
<1> QED
  BY <1>5, <1>7, <1>8 DEF UpdateKnows

LEMMA BeginKnows ==
  ASSUME SessionsTyped, NEW u \in Updates, Begin(u), OneNow
  PROVE  UpdateKnows(u)'
<1> USE DEF SessionsTyped, columns, workerSide
<1>1. PICK op \in {"new", "resume", "delete", "prompt", "align"},
           s \in Sessions \cup {NoSession}, e \in Engines, L \in SUBSET Sessions :
      \E c \in CarrySet : Begins(u, op, s, e, L, c) /\ BeginKinds(u, op, s, e)
  BY BeginSteps DEF CarrySet
<1>2. /\ Starts(u, op, s, e, L) /\ BeginKinds(u, op, s, e)
      /\ UNCHANGED <<columns, updListed, writes>>
  BY <1>1 DEF Begins
<1>3. /\ updAt[u] = "idle" /\ updOp'[u] = op /\ updTarget'[u] = s /\ updEngine'[u] = e
      /\ updSaw'[u] = [t \in Sessions |-> IF t \in L THEN sessStatus[t] ELSE "none"]
  BY <1>2 DEF Starts, SessionsTypeOK
<1>4. updListed[u] = {} /\ writes[u] = NoWrites
  BY <1>3 DEF AtRest, Busy
<1>5. SawTrue(u)'
  BY <1>2, <1>3 DEF SawTrue
<1>6. ListsAll(u)'
  BY <1>2, <1>3, <1>4 DEF ListsAll, BeginKinds, ActiveRows
<1>7. OneAfter(u)'
  BY <1>2, <1>4 DEF OneAfter, StatusAfter, NoWrites, OneNow, ActiveRows
<1>8. PromptReady(u)'
  <2>1. updAt'[u] = "commit" => s \in ActiveRows /\ s \in Sessions /\ sessEngine[s] = e
    BY <1>2, ActiveIsOne, SessionIsSome DEF BeginKinds
  <2> QED
    BY <1>2, <1>3, <1>4, <2>1 DEF PromptReady, BeginKinds, NoWrites, ActiveRows, Unwritten
<1> QED
  BY <1>5, <1>6, <1>7, <1>8 DEF UpdateKnows

\* An update's steps are its own.
LEMMA OthersRest ==
  ASSUME SessionsTyped, [SessionsNext]_sessionVars, ~updOverlap',
         updOverlap => FALSE, Solo,
         NEW u \in Updates,
         Begin(u) \/ ListActive(u) \/ Flush(u) \/ CommitUpdate(u) \/ RollbackUpdate(u)
  PROVE  /\ \A v \in Updates \ {u} : ~Busy(v) /\ ~Busy(v)'
         /\ ListActive(u) \/ Flush(u) \/ CommitUpdate(u) \/ RollbackUpdate(u) => Busy(u)
<1> USE DEF SessionsTyped
<1>1. CASE Begin(u)
  <2>1. PICK op \in {"new", "resume", "delete", "prompt", "align"},
             s \in Sessions \cup {NoSession}, e \in Engines, L \in SUBSET Sessions :
        \E c \in CarrySet : Begins(u, op, s, e, L, c)
    BY <1>1, BeginSteps DEF CarrySet
  <2>2. Starts(u, op, s, e, L) /\ updAt' = [updAt EXCEPT ![u] = updAt'[u]]
    BY <2>1 DEF Begins
  <2>3. \A v \in Updates : ~Busy(v)
    BY <2>2 DEF Starts, Busy
  <2> QED
    BY <2>2, <2>3 DEF Busy, SessionsTypeOK, ListActive, Flush, CommitUpdate, RollbackUpdate
<1>2. CASE ListActive(u) \/ Flush(u) \/ CommitUpdate(u) \/ RollbackUpdate(u)
  <2>1. Busy(u) /\ \E pc : updAt' = [updAt EXCEPT ![u] = pc]
    BY <1>2 DEF ListActive, Flush, CommitUpdate, RollbackUpdate, Forgets, UpdTo, Busy
  <2> QED
    BY <2>1 DEF Solo, Busy, SessionsTypeOK
<1> QED
  BY <1>1, <1>2

LEMMA SoloNext ==
  ASSUME SessionsTyped, SoloInv, [SessionsNext]_sessionVars
  PROVE  SoloInv'
<1> SUFFICES ASSUME ~updOverlap' PROVE (Solo /\ OneNow /\ \A u \in Updates : UpdateKnows(u))'
  BY DEF SoloInv
<1> USE DEF columns, workerSide, updLocals
<1>1. ~updOverlap /\ Solo /\ OneNow /\ \A u \in Updates : UpdateKnows(u)
  <2>1. updOverlap => updOverlap'
    <3>1. ASSUME NEW u \in Updates, New(u) \/ Resume(u) \/ Delete(u) \/ Prompt(u) \/ PickModel(u)
          PROVE  updOverlap => updOverlap'
      BY <3>1 DEF New, Resume, Delete, Prompt, PickModel, Aligns, Starts
    <3>2. ASSUME NEW u \in Updates, ListActive(u) \/ Flush(u) \/ CommitUpdate(u) \/ RollbackUpdate(u)
          PROVE  updOverlap => updOverlap'
      BY <3>2 DEF ListActive, Flush, CommitUpdate, RollbackUpdate
    <3>3. CASE BeginTurn \/ SaveChat \/ TurnFails \/ UNCHANGED sessionVars
      BY <3>3 DEF BeginTurn, SaveChat, TurnFails, sessionVars
    <3> QED
      BY <3>1, <3>2, <3>3 DEF SessionsNext
  <2> QED
    BY <2>1 DEF SoloInv
<1>2. ASSUME NEW u \in Updates,
             Begin(u) \/ ListActive(u) \/ Flush(u) \/ CommitUpdate(u) \/ RollbackUpdate(u),
             OneNow', UpdateKnows(u)'
      PROVE  (Solo /\ OneNow /\ \A v \in Updates : UpdateKnows(v))'
  <2>1. \A v \in Updates \ {u} : ~Busy(v)'
    BY <1>1, <1>2, OthersRest
  <2> QED
    BY <1>2, <2>1, IdleKnows DEF Solo
<1>3. ASSUME NEW u \in Updates, Begin(u)
      PROVE  (Solo /\ OneNow /\ \A v \in Updates : UpdateKnows(v))'
  <2>1. sessStatus' = sessStatus
    BY <1>3, BeginSteps DEF Begins
  <2>2. OneNow'
    BY <1>1, <2>1 DEF OneNow, ActiveRows
  <2> QED
    BY <1>1, <1>2, <1>3, <2>2, BeginKnows
<1>4. ASSUME NEW u \in Updates, ListActive(u)
      PROVE  (Solo /\ OneNow /\ \A v \in Updates : UpdateKnows(v))'
  <2>1. OneNow'
    BY <1>1, <1>4 DEF ListActive, OneNow, ActiveRows
  <2>2. /\ updAt[u] = "list" /\ updAt'[u] = "flush" /\ updListed'[u] = ActiveRows
        /\ UNCHANGED <<sessStatus, model, updOp, updSaw, updEngine>>
    BY <1>4 DEF ListActive, UpdTo, SessionsTyped, SessionsTypeOK
  <2>3. UpdateKnows(u)'
    BY <1>1, <2>2 DEF UpdateKnows, SawTrue, ListsAll, OneAfter, PromptReady, Busy, ActiveRows
  <2> QED
    BY <1>2, <1>4, <2>1, <2>3
<1>5. ASSUME NEW u \in Updates, Flush(u)
      PROVE  (Solo /\ OneNow /\ \A v \in Updates : UpdateKnows(v))'
  <2>1. OneNow'
    BY <1>1, <1>5 DEF Flush, OneNow, ActiveRows
  <2> QED
    BY <1>1, <1>2, <1>5, <2>1, FlushKnows
<1>6. ASSUME NEW u \in Updates, CommitUpdate(u) \/ RollbackUpdate(u)
      PROVE  (Solo /\ OneNow /\ \A v \in Updates : UpdateKnows(v))'
  <2>1. OneNow'
    <3>1. CASE CommitUpdate(u)
      <4>1. \A s \in Sessions : sessStatus'[s] = StatusAfter(u, s)
        BY <3>1 DEF CommitUpdate, StatusAfter
      <4>2. OneAfter(u) /\ updAt[u] = "commit"
        BY <1>1, <3>1 DEF UpdateKnows, CommitUpdate
      <4> QED
        BY <4>1, <4>2 DEF OneAfter, OneNow, ActiveRows
    <3>2. CASE RollbackUpdate(u)
      BY <1>1, <3>2 DEF RollbackUpdate, OneNow, ActiveRows
    <3> QED
      BY <1>6, <3>1, <3>2
  <2>2. ~Busy(u)'
    BY <1>6 DEF CommitUpdate, RollbackUpdate, Forgets, UpdTo, Busy, SessionsTyped, SessionsTypeOK
  <2> QED
    BY <1>2, <1>6, <2>1, <2>2, IdleKnows
<1>7. CASE BeginTurn \/ SaveChat \/ TurnFails \/ UNCHANGED sessionVars
  <2>1. UNCHANGED <<sessStatus, sessEngine, model, updLocals, writes>>
    BY <1>7 DEF BeginTurn, SaveChat, TurnFails, sessionVars
  <2>2. Solo' /\ OneNow'
    BY <1>1, <2>1 DEF Solo, OneNow, ActiveRows, Busy
  <2>3. ASSUME NEW u \in Updates PROVE UpdateKnows(u)'
    BY <1>1, <2>1 DEF UpdateKnows, SawTrue, ListsAll, OneAfter, StatusAfter, PromptReady, Busy, ActiveRows
  <2> QED
    BY <2>2, <2>3
<1> QED
  BY <1>3, <1>4, <1>5, <1>6, <1>7 DEF SessionsNext, Begin

LEMMA SessionsInvariance == SessionsSpec => [](SessionsTyped /\ SoloInv)
<1>1. SessionsInit => SoloInv
  BY DEF SessionsInit, SoloInv, Solo, OneNow, ActiveRows, UpdateKnows, SawTrue, ListsAll, OneAfter,
         PromptReady, Busy
<1> QED
  BY TypedInit, TypedNext, SoloNext, <1>1, PTL DEF SessionsSpec

\* As long as no two updates are handled at once, the user has at most one
\* active session, whatever is created, resumed, deleted, aligned or rolled back.
THEOREM ActiveIsAlone == SessionsSpec => []OneActive
<1>1. SessionsTyped /\ SoloInv => OneActive
  <2> SUFFICES ASSUME SessionsTyped, SoloInv, ~updOverlap PROVE Cardinality(ActiveRows) <= 1
    BY DEF OneActive
  <2>1. OneNow
    BY DEF SoloInv
  <2>2. CASE ActiveRows = {}
    BY <2>2, FS_EmptySet
  <2>3. CASE ActiveRows # {}
    <3>1. PICK s \in ActiveRows : ActiveRows = {s}
      BY <2>1, <2>3 DEF OneNow
    <3> QED
      BY <3>1, FS_Singleton, SMTT(60)
  <2> QED
    BY <2>2, <2>3
<1> QED
  BY SessionsInvariance, <1>1, PTL

\* A prompt that is queued is queued for the session that is active when it
\* commits, and that session is of the selected model's engine.
THEOREM PromptsFit == SessionsSpec => PromptFits
<1>1. ASSUME SessionsTyped, SoloInv, [SessionsNext]_sessionVars,
             NEW u \in Updates, updAt[u] = "commit", waiting' \ waiting # {}, ~updOverlap
      PROVE  sessStatus'[updTarget[u]] = "active" /\ sessEngine'[updTarget[u]] = model
  <2> USE DEF columns, workerSide, updLocals
  <2>1. PICK v \in Updates : CommitUpdate(v) /\ updOp[v] = "prompt"
    <3>1. ASSUME NEW v \in Updates, Begin(v) PROVE waiting' = waiting
      BY <1>1, <3>1, BeginSteps DEF Begins
    <3>2. waiting' \ waiting = {} \/ (\E v \in Updates : CommitUpdate(v) \/ Begin(v))
      BY <1>1 DEF SessionsNext, Begin, ListActive, Flush, RollbackUpdate, BeginTurn, SaveChat,
                  TurnFails, sessionVars
    <3>3. PICK v \in Updates : CommitUpdate(v)
      BY <1>1, <3>1, <3>2
    <3> QED
      BY <1>1, <3>3 DEF CommitUpdate
  <2>2. v = u
    BY <1>1, <2>1 DEF SoloInv, Solo, Busy, CommitUpdate
  <2>3. PromptReady(u) /\ updTarget[u] \in Sessions
    BY <1>1 DEF SoloInv, UpdateKnows, SessionsTyped, AtRest
  <2> QED
    BY <1>1, <2>1, <2>2, <2>3 DEF PromptReady, CommitUpdate, Busy, Unwritten
<1>2. SessionsTyped /\ SoloInv /\ [SessionsNext]_sessionVars =>
        \A u \in Updates : (updAt[u] = "commit" /\ waiting' \ waiting # {} /\ ~updOverlap) =>
             sessStatus'[updTarget[u]] = "active" /\ sessEngine'[updTarget[u]] = model
  BY <1>1
<1> QED
  BY SessionsInvariance, <1>2, PTL DEF SessionsSpec, PromptFits
----
(* One chat, one session.  This is about behaviours in which, besides, no     *)
(* chat has been carried away under a turn.                                   *)

Apart     == \A s, t \in Sessions : s # t => sessChat[s] = NoChat \/ sessChat[s] # sessChat[t]
TurnAlone == turn.chat # NoChat => /\ turn.session \in Sessions
                                   /\ \A s \in Sessions \ {turn.session} : sessChat[s] # turn.chat

\* A chat that an update is about to carry is still nobody else's.
CarryAlone(u) ==
    updCarry[u].chat # NoChat =>
        /\ updCarry[u].from \in Sessions
        /\ \A s \in Sessions \ {updCarry[u].from} : sessChat[s] # updCarry[u].chat
        /\ turn.chat = updCarry[u].chat => turn.session = updCarry[u].from

\* A chat that is known has been opened.
ChatsOpened == /\ \A s \in Sessions : sessChat[s] <= opened
               /\ turn.chat <= opened
               /\ \A u \in Updates : updCarry[u].chat <= opened

\* Only a chat is carried.
CarriesChat == \A u \in Updates : updCarry[u].into => updCarry[u].chat # NoChat

ChatInv == /\ ChatsOpened /\ CarriesChat
           /\ ~updOverlap /\ ~staleTurn =>
                Apart /\ TurnAlone /\ \A u \in Updates : CarryAlone(u)

ChatState == Apart /\ TurnAlone /\ \A u \in Updates : CarryAlone(u)

LEMMA ChatsNext ==
  ASSUME SessionsTyped, SoloInv, ChatInv, [SessionsNext]_sessionVars
  PROVE  ChatInv'
<1> USE SessionsAssumption DEF SessionsTyped, columns, workerSide, updLocals
<1>s. SoloInv'
  BY SoloNext
<1>1. ASSUME NEW u \in Updates, Begin(u) PROVE ChatInv'
  <2>1. PICK op \in {"new", "resume", "delete", "prompt", "align"},
             s \in Sessions \cup {NoSession}, e \in Engines, L \in SUBSET Sessions :
        \E c \in CarrySet : Begins(u, op, s, e, L, c)
    BY <1>1, BeginSteps DEF CarrySet
  <2>2. PICK c \in CarrySet : Begins(u, op, s, e, L, c)
    BY <2>1
  <2>3. /\ UNCHANGED <<sessChat, turn, opened, staleTurn>>
        /\ updCarry' = [updCarry EXCEPT ![u] = c] /\ c \in {NoCarry, Carry(e)}
        /\ (updOverlap => updOverlap')
    BY <2>2 DEF Begins, Starts
  <2>4. \/ c = NoCarry
        \/ c.from = Active /\ Active \in Sessions /\ c.chat = sessChat[Active] /\ c.chat # NoChat
    BY <2>3, CarryTypes
  <2>5. ChatsOpened' /\ CarriesChat'
    BY <2>3, <2>4 DEF ChatInv, ChatsOpened, CarriesChat, SessionsTypeOK, NoCarry, NoChat
  <2>6. ASSUME ~updOverlap', ~staleTurn' PROVE ChatState'
    <3>1. Apart /\ TurnAlone /\ \A v \in Updates : CarryAlone(v)
      BY <2>3, <2>6 DEF ChatInv
    <3>2. Apart' /\ TurnAlone'
      BY <2>3, <3>1 DEF Apart, TurnAlone
    <3>3. CarryAlone(u)'
      BY <2>3, <2>4, <3>1 DEF CarryAlone, Apart, TurnAlone, SessionsTypeOK, NoCarry
    <3>4. ASSUME NEW v \in Updates \ {u} PROVE CarryAlone(v)'
      BY <2>3, <3>1, <3>4 DEF CarryAlone, SessionsTypeOK
    <3> QED
      BY <3>2, <3>3, <3>4 DEF ChatState
  <2> QED
    BY <2>5, <2>6 DEF ChatInv, ChatState
<1>2. ASSUME NEW u \in Updates, ListActive(u) \/ Flush(u) PROVE ChatInv'
  <2>1. UNCHANGED <<sessChat, turn, opened, staleTurn, updCarry, updOverlap>>
    BY <1>2 DEF ListActive, Flush
  <2> QED
    BY <2>1 DEF ChatInv, ChatsOpened, CarriesChat, Apart, TurnAlone, CarryAlone
<1>3. ASSUME NEW u \in Updates, CommitUpdate(u) PROVE ChatInv'
  <2>1. /\ updAt[u] = "commit" /\ updTarget[u] \in Sessions
        /\ updCarry' = [updCarry EXCEPT ![u] = NoCarry]
        /\ UNCHANGED <<turn, opened, updOverlap>>
        /\ \A s \in Sessions : sessChat'[s] = ChatAfter(u, s)
        /\ (~staleTurn' => ~staleTurn /\ (turn.session = NoSession \/ turn.session # updCarry[u].from))
    BY <1>3 DEF CommitUpdate, Forgets, AtRest
  <2>2. ChatsOpened' /\ CarriesChat'
    <3>1. \A v \in Updates : updCarry'[v] \in {updCarry[v], NoCarry}
      BY <2>1 DEF SessionsTypeOK
    <3>2. NoCarry.chat = NoChat /\ NoCarry.into = FALSE /\ NoChat <= opened
      BY DEF NoCarry, NoChat, SessionsTypeOK
    <3>3. \A s \in Sessions : sessChat'[s] <= opened
      BY <2>1, <3>2 DEF ChatInv, ChatsOpened, ChatAfter
    <3> QED
      BY <2>1, <3>1, <3>2, <3>3 DEF ChatInv, ChatsOpened, CarriesChat
  <2>3. ASSUME ~updOverlap', ~staleTurn' PROVE ChatState'
    <3>1. Apart /\ TurnAlone /\ CarryAlone(u)
      BY <2>1, <2>3 DEF ChatInv
    <3>2. \A v \in Updates : updCarry'[v].chat = NoChat
      <4>1. \A v \in Updates : ~Busy(v)'
        <5>1. Busy(u) /\ ~Busy(u)' /\ Solo
          BY <1>3, <2>1, <2>3 DEF Busy, CommitUpdate, Forgets, UpdTo, SessionsTypeOK, SoloInv
        <5> QED
          BY <1>3, <5>1, SMTT(60) DEF Solo, Busy, CommitUpdate, Forgets, UpdTo, SessionsTypeOK
      <4>2. AtRest'
        BY TypedNext
      <4> QED
        BY <4>1, <4>2 DEF AtRest, NoCarry
    <3>3. updCarry[u].chat = NoChat => ~updCarry[u].into
      BY DEF ChatInv, CarriesChat
    <3>4. turn.chat = updCarry[u].chat => turn.chat = NoChat
      BY <2>1, <2>3, <3>1, SessionIsSome DEF CarryAlone, TurnAlone
    <3>5. Apart'
      BY <2>1, <3>1, <3>3 DEF Apart, CarryAlone, ChatAfter
    <3>6. TurnAlone'
      BY <2>1, <3>1, <3>3, <3>4 DEF TurnAlone, ChatAfter
    <3> QED
      BY <3>2, <3>5, <3>6 DEF ChatState, CarryAlone
  <2> QED
    BY <2>2, <2>3 DEF ChatInv, ChatState
<1>4. ASSUME NEW u \in Updates, RollbackUpdate(u) PROVE ChatInv'
  <2>1. /\ UNCHANGED <<sessChat, turn, opened, staleTurn, updOverlap>>
        /\ updCarry' = [updCarry EXCEPT ![u] = NoCarry]
    BY <1>4 DEF RollbackUpdate, Forgets
  <2>2. \A v \in Updates : updCarry'[v] = updCarry[v] \/ updCarry'[v] = NoCarry
    BY <2>1 DEF SessionsTypeOK
  <2>3. NoCarry.chat = NoChat /\ NoCarry.into = FALSE /\ NoChat <= opened
    BY DEF NoCarry, NoChat, SessionsTypeOK
  <2> QED
    BY <2>1, <2>2, <2>3 DEF ChatInv, ChatsOpened, CarriesChat, Apart, TurnAlone, CarryAlone
<1>5. CASE BeginTurn
  <2>1. PICK s \in waiting :
            turn' = [session |-> s, engine |-> model,
                     chat |-> IF model = "opencode" THEN sessChat[s] ELSE NoChat]
    BY <1>5 DEF BeginTurn
  <2>2. /\ turn'.session = s /\ s \in Sessions /\ turn'.chat \in {sessChat[s], NoChat}
        /\ UNCHANGED <<sessChat, opened, staleTurn, updCarry, updOverlap>>
    BY <1>5, <2>1 DEF BeginTurn, SessionsTypeOK
  <2>3. NoChat <= opened
    BY DEF NoChat, SessionsTypeOK
  <2> QED
    BY <2>2, <2>3 DEF ChatInv, ChatsOpened, CarriesChat, Apart, TurnAlone, CarryAlone
<1>6. CASE SaveChat
  <2>1. /\ turn # NoTurn /\ turn.session \in Sessions /\ turn'.chat = NoChat
        /\ UNCHANGED <<updCarry, updOverlap, staleTurn>>
    BY <1>6 DEF SaveChat, AtRest, NoTurn
  <2>2. NoChat <= opened
    BY DEF NoChat, SessionsTypeOK
  <2>3. CASE UNCHANGED <<sessChat, opened>>
    BY <2>1, <2>2, <2>3 DEF ChatInv, ChatsOpened, CarriesChat, Apart, TurnAlone, CarryAlone
  <2>4. CASE turn.engine # "cursor"
    <3>1. PICK c \in ({turn.chat} \ {NoChat}) \cup {opened + 1} :
            /\ sessChat' = [sessChat EXCEPT ![turn.session] = c]
            /\ opened' = IF c > opened THEN c ELSE opened
      BY <1>6, <2>4 DEF SaveChat
    <3>2. c \in Nat /\ opened' \in Nat /\ opened <= opened' /\ c <= opened' /\ c # NoChat
      BY <3>1 DEF SessionsTypeOK, NoChat
    <3>3. ChatsOpened' /\ CarriesChat'
      <4>1. \A n \in 0..MaxChat : n <= opened => n <= opened'
        BY <3>2 DEF SessionsTypeOK
      <4>2. \A s \in Sessions : sessChat'[s] \in {sessChat[s], c} /\ sessChat[s] \in 0..MaxChat
        BY <3>1 DEF SessionsTypeOK
      <4>3. \A v \in Updates : updCarry[v].chat \in 0..MaxChat
        BY DEF SessionsTypeOK
      <4>4. turn'.chat <= opened'
        BY <2>1, <3>2 DEF NoChat
      <4> QED
        BY <2>1, <3>2, <4>1, <4>2, <4>3, <4>4 DEF ChatInv, ChatsOpened, CarriesChat
    <3>4. ASSUME ~updOverlap', ~staleTurn' PROVE ChatState'
      <4>1. Apart /\ TurnAlone /\ \A v \in Updates : CarryAlone(v)
        BY <2>1, <3>4 DEF ChatInv
      <4>2. \A s \in Sessions \ {turn.session} : sessChat[s] # c /\ sessChat'[s] = sessChat[s]
        BY <3>1, <4>1 DEF TurnAlone, ChatInv, ChatsOpened, SessionsTypeOK
      <4>3. Apart' /\ TurnAlone'
        BY <2>1, <3>1, <4>1, <4>2 DEF Apart, TurnAlone, SessionsTypeOK
      <4>4. ASSUME NEW v \in Updates PROVE CarryAlone(v)'
        <5>1. updCarry[v].chat <= opened /\ updCarry[v].chat \in Nat
          BY DEF ChatInv, ChatsOpened, SessionsTypeOK
        <5>2. updCarry[v].chat # NoChat /\ c = updCarry[v].chat => turn.session = updCarry[v].from
          BY <3>1, <4>1, <5>1 DEF CarryAlone, SessionsTypeOK
        <5> QED
          BY <2>1, <3>1, <4>1, <4>2, <5>2 DEF CarryAlone, SessionsTypeOK
      <4> QED
        BY <4>3, <4>4 DEF ChatState
    <3> QED
      BY <3>3, <3>4 DEF ChatInv, ChatState
  <2> QED
    BY <1>6, <2>3, <2>4 DEF SaveChat
<1>7. CASE TurnFails
  <2>1. turn'.chat = NoChat /\ UNCHANGED <<sessChat, opened, staleTurn, updCarry, updOverlap>>
    BY <1>7 DEF TurnFails, NoTurn
  <2>2. NoChat <= opened
    BY DEF NoChat, SessionsTypeOK
  <2> QED
    BY <2>1, <2>2 DEF ChatInv, ChatsOpened, CarriesChat, Apart, TurnAlone, CarryAlone
<1>8. CASE UNCHANGED sessionVars
  BY <1>8 DEF sessionVars, ChatInv, ChatsOpened, CarriesChat, Apart, TurnAlone, CarryAlone
<1> QED
  BY <1>1, <1>2, <1>3, <1>4, <1>5, <1>6, <1>7, <1>8 DEF SessionsNext, Begin

\* Two sessions never continue the same chat, unless the chat was carried away
\* while a turn of its old session was running, or two updates overlapped.
THEOREM ChatsApart == SessionsSpec => []ChatInOneSession
<1>1. SessionsInit => ChatInv
  BY SessionsAssumption
  DEF SessionsInit, ChatInv, ChatsOpened, CarriesChat, Apart, TurnAlone, CarryAlone, NoTurn,
      NoCarry, NoChat
<1>2. SessionsTyped /\ SoloInv /\ ChatInv /\ [SessionsNext]_sessionVars => ChatInv'
  BY ChatsNext
<1>3. ChatInv => ChatInOneSession
  BY DEF ChatInv, Apart, ChatInOneSession
<1> QED
  BY SessionsInvariance, <1>1, <1>2, <1>3, PTL DEF SessionsSpec
====
