---- MODULE AgentSessions ----
(***************************************************************************)
(* Agent sessions: agent/sessions.py on database/repositories/session.py,  *)
(* as the commands, buttons and prompts of the bot use it, and the chat id *)
(* the worker reads before a turn and saves after it.                      *)
(*                                                                         *)
(* Every update is a coroutine with a transaction of its own.  A row it    *)
(* has loaded keeps the values it had: a later SELECT of the session does  *)
(* not refresh them, and a column that is assigned the value it is thought *)
(* to have is not written.                                                 *)
(*                                                                         *)
(* One user, one workspace.  Titles are left out, rows from before the     *)
(* engine column, and the ids of Cursor chats: they never leave the        *)
(* session of the turn that saved them, while an OpenCode chat may move.   *)
(***************************************************************************)
EXTENDS Naturals, FiniteSets

CONSTANTS Updates,       \* updates being handled, one after the other or at once
          MaxUpdate,     \* updates a behaviour may handle
          MaxSession,    \* sessions a behaviour may create
          MaxChat        \* chats the agents may open

ASSUME SessionsAssumption == /\ MaxSession \in Nat \ {0}
                            /\ MaxChat \in Nat /\ MaxUpdate \in Nat

VARIABLES sessStatus, sessEngine,  \* committed columns of each session
          sessChat,      \* committed opencode_session_id of each session
          recent,        \* their place in ORDER BY last_active_at DESC
          model,         \* the engine of the selected model (.cursor_model)
          updAt, updOp, updTarget, updEngine, updSaw, updListed, updCarry,
                         \* an update's place and locals
          writes,        \* its flushed and uncommitted writes
          waiting,       \* sessions with a prompt on the queue
          turn,          \* the worker's turn
          opened,        \* chats opened so far
          started,       \* updates handled so far
          updOverlap,    \* history: two updates were handled at once
          staleTurn      \* history: a chat was carried away under a turn

columns  == <<sessStatus, sessEngine, sessChat, recent>>
updLocals == <<updAt, updOp, updTarget, updEngine, updSaw, updListed, updCarry>>
workerSide == <<waiting, turn, opened, staleTurn>>
sessionVars == <<columns, model, updLocals, writes, workerSide, started, updOverlap>>

Sessions  == 1..MaxSession
NoSession == 0
NoChat    == 0
Engines   == {"cursor", "opencode"}
Lives     == {"none", "active", "archived", "deleted"}
Unwritten == "unwritten"
NoWrites  == [s \in Sessions |-> Unwritten]
NoCarry   == [from |-> NoSession, chat |-> NoChat, into |-> FALSE]
NoTurn    == [session |-> NoSession, engine |-> "cursor", chat |-> NoChat]

SessionsTypeOK ==
    /\ sessStatus \in [Sessions -> Lives]
    /\ sessEngine \in [Sessions -> Engines]
    /\ sessChat \in [Sessions -> 0..MaxChat]
    /\ recent \in [Sessions -> 0..MaxSession]
    /\ model \in Engines
    /\ updAt \in [Updates -> {"idle", "list", "flush", "commit"}]
    /\ updOp \in [Updates -> {"new", "resume", "delete", "prompt", "align"}]
    /\ updEngine \in [Updates -> Engines]
    /\ updCarry \in [Updates -> [from: Sessions \cup {NoSession}, chat: 0..MaxChat, into: BOOLEAN]]
    /\ updTarget \in [Updates -> Sessions \cup {NoSession}]
    /\ updSaw \in [Updates -> [Sessions -> Lives]]
    /\ updListed \in [Updates -> SUBSET Sessions]
    /\ writes \in [Updates -> [Sessions -> Lives \cup {Unwritten}]]
    /\ waiting \subseteq Sessions
    /\ turn.session \in Sessions \cup {NoSession} /\ turn.engine \in Engines
    /\ turn.chat \in 0..MaxChat
    /\ opened \in 0..MaxChat /\ started \in 0..MaxUpdate
    /\ updOverlap \in BOOLEAN /\ staleTurn \in BOOLEAN

SessionsInit ==
    /\ sessStatus = [s \in Sessions |-> "none"]
    /\ sessEngine = [s \in Sessions |-> "cursor"]
    /\ sessChat = [s \in Sessions |-> NoChat]
    /\ recent = [s \in Sessions |-> MaxSession]
    /\ model \in Engines
    /\ updAt = [u \in Updates |-> "idle"]
    /\ updOp = [u \in Updates |-> "new"]
    /\ updTarget = [u \in Updates |-> NoSession]
    /\ updSaw = [u \in Updates |-> [s \in Sessions |-> "none"]]
    /\ updEngine = [u \in Updates |-> "cursor"]
    /\ updListed = [u \in Updates |-> {}]
    /\ updCarry = [u \in Updates |-> NoCarry]
    /\ writes = [u \in Updates |-> NoWrites]
    /\ waiting = {} /\ turn = NoTurn /\ opened = 0 /\ started = 0
    /\ updOverlap = FALSE /\ staleTurn = FALSE
----
(* The repository. *)

ActiveRows == {s \in Sessions : sessStatus[s] = "active"}

\* The first of a set in the order of last_active_at, NoSession if it is empty.
Latest(S) == IF S = {} THEN NoSession
             ELSE CHOOSE s \in S : \A t \in S : recent[s] <= recent[t]

\* get_active_for_user.
Active == Latest(ActiveRows)

\* align_to_engine's match: the latest session of the engine but the active one,
\* among those that are not deleted.
Match(e) == Latest({s \in Sessions \ {Active} : /\ sessStatus[s] \in {"active", "archived"}
                                                /\ sessEngine[s] = e})

\* Mutant: any active session will do.
FitsMutant(e) == Active # NoSession

\* The active session is one of engine e.
Fits(e) == Active # NoSession /\ sessEngine[Active] = e

\* A row a transaction has written and not committed: another UPDATE waits.
RowLocked(s) == \E u \in Updates : \/ writes[u][s] # Unwritten
                                   \/ updAt[u] = "commit" /\ updCarry[u].from = s

\* Mutant: every other session falls behind, wherever s was before.
TouchedMutant(s) == [t \in Sessions |-> IF t = s THEN 0 ELSE recent[t] + 1]

\* Stamped with last_active_at = now: those that were before it fall behind.
Touched(s) == [t \in Sessions |-> IF t = s THEN 0
                                  ELSE IF recent[t] < recent[s] THEN recent[t] + 1 ELSE recent[t]]

Unused == {s \in Sessions : sessStatus[s] = "none" /\ ~RowLocked(s)}

Listable == {s \in Sessions : sessStatus[s] \in {"active", "archived"}}
----
(* An update: what it reads. *)

UpdTo(u, pc) == updAt' = [updAt EXCEPT ![u] = pc]

\* Update u starts operation op on session s for engine e, having loaded the rows of L.
Starts(u, op, s, e, L) ==
    /\ updAt[u] = "idle"
    /\ started < MaxUpdate /\ started' = started + 1
    /\ updOp' = [updOp EXCEPT ![u] = op]
    /\ updTarget' = [updTarget EXCEPT ![u] = s]
    /\ updEngine' = [updEngine EXCEPT ![u] = e]
    /\ updSaw' = [updSaw EXCEPT ![u] = [t \in Sessions |-> IF t \in L THEN sessStatus[t] ELSE "none"]]
    /\ updOverlap' = (updOverlap \/ \E v \in Updates : updAt[v] # "idle")

\* align_to_engine moves the opencode chat of an active cursor session to the
\* session it activates, if that has none.
Carry(e) ==
    IF Active # NoSession /\ e = "opencode" /\ sessChat[Active] # NoChat
    THEN [from |-> Active, chat |-> sessChat[Active],
          into |-> Match(e) = NoSession \/ sessChat[Match(e)] = NoChat]
    ELSE NoCarry

\* align_to_engine, the active session not being of engine e.
Aligns(u, op, e) ==
    /\ Starts(u, op, Match(e), e, Listable)
    /\ updCarry' = [updCarry EXCEPT ![u] = Carry(e)]
    /\ UpdTo(u, "list")

\* /new.
New(u) ==
    /\ Starts(u, "new", NoSession, model, {})
    /\ UpdTo(u, "list")
    /\ UNCHANGED <<columns, model, updListed, updCarry, writes, workerSide>>

\* /resume and its buttons, of any session not seen deleted.
Resume(u) ==
    /\ \E s \in Listable : Starts(u, "resume", s, sessEngine[s], {s})
    /\ UpdTo(u, "list")
    /\ UNCHANGED <<columns, model, updListed, updCarry, writes, workerSide>>

\* /delete and its buttons: nothing else is read.
Delete(u) ==
    /\ \E s \in Listable : Starts(u, "delete", s, sessEngine[s], {s})
    /\ UpdTo(u, "flush")
    /\ UNCHANGED <<columns, model, updListed, updCarry, writes, workerSide>>

\* A prompt: get_or_create_active.  The active session will do if it is of the
\* model's engine; without one a session is created, and nothing archived.
Prompt(u) ==
    /\ \/ /\ Fits(model)
          /\ Starts(u, "prompt", Active, model, {Active})
          /\ UpdTo(u, "commit")
          /\ UNCHANGED updCarry
       \/ /\ Active # NoSession /\ ~Fits(model)
          /\ Aligns(u, "prompt", model)
       \/ /\ Active = NoSession
          /\ Starts(u, "prompt", NoSession, model, {})
          /\ UpdTo(u, "flush")
          /\ UNCHANGED updCarry
    /\ UNCHANGED <<columns, model, updListed, writes, workerSide>>

\* A model is picked (handle_model).  The file is written; if the engine is
\* another one than before, sessions are aligned to it.
PickModel(u) ==
    /\ \E e \in Engines \ {model} :
         /\ model' = e
         /\ \/ /\ Fits(e)
               /\ Starts(u, "align", Active, e, {Active})
               /\ UpdTo(u, "commit")
               /\ UNCHANGED updCarry
            \/ /\ ~Fits(e)
               /\ Aligns(u, "align", e)
    /\ UNCHANGED <<columns, updListed, writes, workerSide>>

\* archive_all_for_user's SELECT.
ListActive(u) ==
    /\ updAt[u] = "list"
    /\ updListed' = [updListed EXCEPT ![u] = ActiveRows]
    /\ UpdTo(u, "flush")
    /\ UNCHANGED <<columns, model, updOp, updTarget, updEngine, updSaw, updCarry, writes, workerSide, started, updOverlap>>
----
(* What it writes. *)

\* Mutant: the new session does not archive the others.
ArchivesMutant(u) == {}

\* archive_all_for_user: the rows listed, but those loaded as archived before.
Archives(u) == {s \in updListed[u] : updSaw[u][s] # "archived"}

\* set_status(target, "active"): no UPDATE if the row was loaded as active and
\* is not among those just archived.
Activates(u) == updSaw[u][updTarget[u]] # "active" \/ updTarget[u] \in updListed[u]

\* The status writes of an update that ends in session s.
Written(u, s) ==
    [t \in Sessions |->
        IF updOp[u] = "delete" THEN (IF t = s THEN "deleted" ELSE Unwritten)
        ELSE IF t = s /\ (updTarget[u] = NoSession \/ Activates(u)) THEN "active"
        ELSE IF t \in Archives(u) THEN "archived" ELSE Unwritten]

\* The flushes of the update, once nobody holds one of its rows.
Flush(u) ==
    /\ updAt[u] = "flush"
    /\ \E s \in IF updTarget[u] = NoSession THEN Unused ELSE {updTarget[u]} :
         LET w == Written(u, s)
         IN  /\ \A t \in Sessions : w[t] # Unwritten \/ t = updCarry[u].from => ~RowLocked(t)
             /\ writes' = [writes EXCEPT ![u] = w]
             /\ updTarget' = [updTarget EXCEPT ![u] = s]
    /\ updEngine' = [updEngine EXCEPT ![u] = IF updOp[u] = "new" THEN model ELSE @]
    /\ UpdTo(u, "commit")
    /\ UNCHANGED <<columns, model, updOp, updSaw, updListed, updCarry, workerSide, started, updOverlap>>

Forgets(u) == /\ writes' = [writes EXCEPT ![u] = NoWrites]
              /\ updCarry' = [updCarry EXCEPT ![u] = NoCarry]
              /\ updListed' = [updListed EXCEPT ![u] = {}]
              /\ updSaw' = [updSaw EXCEPT ![u] = [s \in Sessions |-> "none"]]
              /\ updTarget' = [updTarget EXCEPT ![u] = NoSession]
              /\ updOp' = [updOp EXCEPT ![u] = "new"]
              /\ updEngine' = [updEngine EXCEPT ![u] = "cursor"]
              /\ UpdTo(u, "idle")

\* Mutant: the chat stays with the session it is carried from.
ChatAfterMutant(u, s) == IF s = updTarget[u] /\ updCarry[u].into THEN updCarry[u].chat
                   ELSE sessChat[s]

ChatAfter(u, s) == IF s = updCarry[u].from THEN NoChat
                   ELSE IF s = updTarget[u] /\ updCarry[u].into THEN updCarry[u].chat
                   ELSE sessChat[s]

\* The middleware commits.  A new session has the engine it was created for,
\* and a prompt's task is there for the worker.
CommitUpdate(u) ==
    /\ updAt[u] = "commit"
    /\ sessStatus' = [s \in Sessions |-> IF writes[u][s] # Unwritten THEN writes[u][s] ELSE sessStatus[s]]
    /\ sessEngine' = [s \in Sessions |-> IF writes[u][s] = "active" THEN updEngine[u] ELSE sessEngine[s]]
    /\ sessChat' = [s \in Sessions |-> ChatAfter(u, s)]
    /\ recent' = IF \E s \in Sessions : writes[u][s] = "active" THEN Touched(updTarget[u]) ELSE recent
    /\ waiting' = IF updOp[u] = "prompt" THEN waiting \cup {updTarget[u]} ELSE waiting
    /\ staleTurn' = (staleTurn \/ (turn.session # NoSession /\ turn.session = updCarry[u].from))
    /\ Forgets(u)
    /\ UNCHANGED <<model, turn, opened, started, updOverlap>>

\* Telegram or the database raises before that.
RollbackUpdate(u) ==
    /\ updAt[u] \in {"flush", "commit"}
    /\ Forgets(u)
    /\ UNCHANGED <<columns, model, workerSide, started, updOverlap>>
----
(* The worker. *)

\* _run_agent_prompt: the engine is that of the model selected now; an opencode
\* turn resumes the chat the session has.
BeginTurn ==
    /\ turn = NoTurn
    /\ \E s \in waiting :
         /\ turn' = [session |-> s, engine |-> model,
                     chat |-> IF model = "opencode" THEN sessChat[s] ELSE NoChat]
         /\ waiting' = waiting \ {s}
    /\ UNCHANGED <<columns, model, updLocals, writes, opened, started, updOverlap, staleTurn>>

\* The agent answers in the chat it resumed, or opens one; its id is saved in the
\* column of its kind.
SaveChat ==
    /\ turn # NoTurn /\ ~RowLocked(turn.session)
    /\ IF turn.engine = "cursor" THEN UNCHANGED <<sessChat, opened>>
       ELSE \E c \in ({turn.chat} \ {NoChat}) \cup {opened + 1} :
              /\ c <= MaxChat
              /\ sessChat' = [sessChat EXCEPT ![turn.session] = c]
              /\ opened' = IF c > opened THEN c ELSE opened
    /\ recent' = Touched(turn.session)
    /\ turn' = NoTurn
    /\ UNCHANGED <<sessStatus, sessEngine, model, updLocals, writes, waiting, started, updOverlap, staleTurn>>

\* It ends without an id.
TurnFails ==
    /\ turn # NoTurn
    /\ turn' = NoTurn
    /\ UNCHANGED <<columns, model, updLocals, writes, waiting, opened, started, updOverlap, staleTurn>>

SessionsNext ==
    \/ \E u \in Updates : \/ New(u) \/ Resume(u) \/ Delete(u) \/ Prompt(u) \/ PickModel(u)
                          \/ ListActive(u) \/ Flush(u) \/ CommitUpdate(u) \/ RollbackUpdate(u)
    \/ BeginTurn \/ SaveChat \/ TurnFails

SessionsSpec == SessionsInit /\ [][SessionsNext]_sessionVars
----
(* Properties. *)

\* The user has one active session, and never two, as long as no two updates are
\* handled at once: every way to a new one archives those there are.
OneActive == updOverlap \/ Cardinality(ActiveRows) <= 1

\* A prompt is queued for the session that is active when it commits, and that
\* session is of the selected model's engine (get_or_create_active).
PromptFits ==
    [][\A u \in Updates :
         (updAt[u] = "commit" /\ waiting' \ waiting # {} /\ ~updOverlap) =>
             sessStatus'[updTarget[u]] = "active" /\ sessEngine'[updTarget[u]] = model]_sessionVars

\* Two sessions never continue the same chat, unless the chat was carried away
\* (align_to_engine) while a turn of its old session was running.
ChatInOneSession ==
    \/ staleTurn \/ updOverlap
    \/ \A s, t \in Sessions : s # t => sessChat[s] = NoChat \/ sessChat[s] # sessChat[t]

\* Also seen.  The same without the excuse.
ChatInOneSessionAlways ==
    \A s, t \in Sessions : s # t => sessChat[s] = NoChat \/ sessChat[s] # sessChat[t]

\* Also seen.  A session deleted while its resume button is handled comes back.
DeletedStays == [][\A s \in Sessions : sessStatus[s] = "deleted" => sessStatus'[s] = "deleted"]_sessionVars

\* Also seen.  An opencode chat carried to a session that has one is lost.
ChatKept ==
    [][(turn' = turn) => (\A s \in Sessions : sessChat[s] # NoChat =>
                             \E t \in Sessions : sessChat'[t] = sessChat[s])]_sessionVars

\* Also seen.  A model picked after a prompt runs the prompt with another engine.
TurnEngine == turn # NoTurn => turn.engine = sessEngine[turn.session]
====
