---- MODULE Confirmation ----
(***************************************************************************)
(* Confirmation rows: database/repositories/confirmation.py, the service   *)
(* around it, the buttons in telegram/handlers/callbacks.py, the end of    *)
(* services/actions.py, and the dialogue of services/mcp_setup.py, which   *)
(* lives in the payload of a pending row.                                  *)
(*                                                                         *)
(* Every update of the chat is handled by a coroutine with a database      *)
(* session of its own: it reads what is committed, a flushed row is locked *)
(* until the handler commits, and an update of the row that waited for the *)
(* lock is then made without a second look.                                *)
(*                                                                         *)
(* One user.  A button of somebody else's confirmation raises before       *)
(* anything is written (confirmations.py:25), and is left out.  There is   *)
(* one MCP server to set up; the command of a row is the row.              *)
(***************************************************************************)
EXTENDS Naturals, FiniteSets

CONSTANTS Handlers,    \* updates being handled, one after the other or at once
          MaxRow,      \* confirmation rows a behaviour may create
          Keys,        \* the secrets the server's template asks for
          NoKey        \* a sentinel, not a key

ASSUME ConfirmAssumption == /\ MaxRow \in Nat
                            /\ NoKey \notin Keys

VARIABLES rowStatus,   \* committed status of each row
          rowKind,     \* what a row is about
          rowKeys,     \* committed payload of a row: the keys collected so far
          lapsed,      \* rows whose expires_at has passed
          shown,       \* rows whose buttons the user can see
          mcpConfig,   \* the server's entry: the keys it was given
          commands,    \* how many times each row's command was queued
          at, doing, row, saw, sawKeys,  \* a handler's place and locals
          bufStatus, bufKeys,            \* its flushed and uncommitted writes
          granted      \* history: rows whose approval was told and committed

rows    == <<rowStatus, rowKind, rowKeys, lapsed>>
locals  == <<at, doing, row, saw, sawKeys>>
buffers == <<bufStatus, bufKeys>>
effects == <<shown, mcpConfig, commands, granted>>
confirmVars == <<rows, locals, buffers, effects>>

Rows     == 1..MaxRow
NoRow    == 0
Nothing  == {NoKey}                               \* no entry in the MCP config; no payload written
Same     == "same"                                \* a column not written
Statuses == {"none", "pending", "approved", "rejected", "expired"}
Ops      == {"command", "approve", "reject", "add", "keys", "install", "cancel"}

ConfirmTypeOK ==
    /\ rowStatus \in [Rows -> Statuses]
    /\ rowKind   \in [Rows -> {"run_command", "mcp_setup"}]
    /\ rowKeys   \in [Rows -> SUBSET Keys]
    /\ lapsed \subseteq Rows /\ shown \subseteq Rows /\ granted \subseteq Rows
    /\ mcpConfig \in (SUBSET Keys) \cup {Nothing}
    /\ commands  \in [Rows -> Nat]
    /\ at        \in [Handlers -> {"idle", "judge", "missing", "install", "create",
                                   "execute", "answer", "commit", "done"}]
    /\ doing     \in [Handlers -> Ops]
    /\ row       \in [Handlers -> Rows \cup {NoRow}]
    /\ saw       \in [Handlers -> Statuses]
    /\ sawKeys   \in [Handlers -> SUBSET Keys]
    /\ bufStatus \in [Handlers -> [Rows -> Statuses \cup {Same}]]
    /\ bufKeys   \in [Handlers -> (SUBSET Keys) \cup {Nothing}]

ConfirmInit ==
    /\ rowStatus = [r \in Rows |-> "none"]
    /\ rowKind = [r \in Rows |-> "run_command"]
    /\ rowKeys = [r \in Rows |-> {}]
    /\ lapsed = {} /\ shown = {} /\ granted = {}
    /\ mcpConfig = Nothing
    /\ commands = [r \in Rows |-> 0]
    /\ at = [h \in Handlers |-> "idle"]
    /\ doing = [h \in Handlers |-> "command"]
    /\ row = [h \in Handlers |-> NoRow]
    /\ saw = [h \in Handlers |-> "none"]
    /\ sawKeys = [h \in Handlers |-> {}]
    /\ bufStatus = [h \in Handlers |-> [r \in Rows |-> Same]]
    /\ bufKeys = [h \in Handlers |-> Nothing]
----
(* The repository. *)

\* A row some other handler has flushed and not committed: an UPDATE waits.
Locked(h, r) == \E g \in Handlers \ {h} :
                   bufStatus[g][r] # Same \/ (row[g] = r /\ bufKeys[g] # Nothing)

\* The row the queries for a pending row return: the newest that is pending
\* and not past its time, or none.
Pending(k) == {r \in Rows : rowStatus[r] = "pending" /\ rowKind[r] = k /\ r \notin lapsed}
Newest(k, r) == IF Pending(k) = {} THEN r = NoRow
                                  ELSE r \in Pending(k) /\ \A q \in Pending(k) : q <= r

\* approve(): what it makes of a row this session sees as s.
ApproveWrites(s, r) ==
    IF s # "pending" THEN Same ELSE IF r \in lapsed THEN "expired" ELSE "approved"

\* reject(): it does not look at the time.
RejectWrites(s) == IF s # "pending" THEN Same ELSE "rejected"

\* create(): a new pending row, flushed.  Ids are never handed out twice, and the
\* buttons of every new row are sent before its handler commits.
NextRow == Cardinality(shown) + 1
Create(h, k) ==
    /\ NextRow \in Rows
    /\ bufStatus' = [bufStatus EXCEPT ![h][NextRow] = "pending"]
    /\ rowKind' = [rowKind EXCEPT ![NextRow] = k]
    /\ shown' = shown \cup {NextRow}

\* A flush of the status of the handler's row; a row already written by this
\* session is its own, a row another has flushed is waited for.
WriteStatus(h, s) ==
    /\ s = Same \/ ~Locked(h, row[h])
    /\ bufStatus' = IF s = Same THEN bufStatus ELSE [bufStatus EXCEPT ![h][row[h]] = s]
----
(* A handler. *)

Goto(h, pc) == at' = [at EXCEPT ![h] = pc]

\* The handler of update h reads row r (NoRow: there is none) and its payload.
Reads(h, op, r) ==
    /\ at[h] = "idle"
    /\ doing' = [doing EXCEPT ![h] = op]
    /\ row' = [row EXCEPT ![h] = r]
    /\ saw' = [saw EXCEPT ![h] = IF r = NoRow THEN "none" ELSE rowStatus[r]]
    /\ sawKeys' = [sawKeys EXCEPT ![h] = IF r = NoRow THEN {} ELSE rowKeys[r]]

\* "run <command>", classified sensitive: the row is created, the buttons are
\* sent, and the commit comes when the handler returns.
AskConfirmation(h) ==
    /\ at[h] = "idle"
    /\ Create(h, "run_command")
    /\ doing' = [doing EXCEPT ![h] = "command"]
    /\ Goto(h, "commit")
    /\ UNCHANGED <<rowStatus, rowKeys, lapsed, row, saw, sawKeys, bufKeys, mcpConfig, commands, granted>>

\* A press of Approve or Reject, of Install or Cancel: the row is read.
Press(h) ==
    /\ \E r \in shown :
         \E op \in IF rowKind[r] = "run_command" THEN {"approve", "reject"}
                                                 ELSE {"install", "cancel"} :
           /\ Reads(h, op, r)
           /\ Goto(h, IF op = "install" THEN "missing" ELSE "judge")
    /\ UNCHANGED <<rows, buffers, effects>>

\* handle_confirmation, the approve branch: the first approve().  Without a
\* row to approve the user is told that the confirmation has expired.
Approve(h) ==
    /\ at[h] = "judge" /\ doing[h] = "approve"
    /\ LET s == ApproveWrites(saw[h], row[h])
       IN  /\ WriteStatus(h, s)
           /\ Goto(h, IF s = "approved" THEN "execute" ELSE "commit")
    /\ UNCHANGED <<rows, doing, row, saw, sawKeys, bufKeys, effects>>

\* execute_confirmed_action approves once more, in the session that has just
\* approved, and queues the command if that approval succeeds.
OwnView(h) == IF bufStatus[h][row[h]] # Same THEN bufStatus[h][row[h]] ELSE saw[h]
ExecuteConfirmed(h) ==
    /\ at[h] = "execute"
    /\ LET s == ApproveWrites(OwnView(h), row[h])
       IN  /\ WriteStatus(h, s)
           /\ commands' = IF s = "approved" THEN [commands EXCEPT ![row[h]] = @ + 1]
                                            ELSE commands
    /\ Goto(h, "commit")
    /\ UNCHANGED <<rows, doing, row, saw, sawKeys, bufKeys, shown, mcpConfig, granted>>

\* The reject branch, and McpSetupService.cancel.
Reject(h) ==
    /\ at[h] = "judge" /\ doing[h] \in {"reject", "cancel"}
    /\ WriteStatus(h, RejectWrites(saw[h]))
    /\ Goto(h, "commit")
    /\ UNCHANGED <<rows, doing, row, saw, sawKeys, bufKeys, effects>>
----
(* The MCP dialogue. *)

\* start_add: _cancel_pending reads the newest pending dialogue ...
StartAdd(h) ==
    /\ \E r \in Rows \cup {NoRow} : Newest("mcp_setup", r) /\ Reads(h, "add", r)
    /\ Goto(h, "judge")
    /\ UNCHANGED <<rows, buffers, effects>>

\* ... rejects it, and the lock is held while the registry is searched ...
CancelPending(h) ==
    /\ at[h] = "judge" /\ doing[h] = "add"
    /\ IF row[h] = NoRow THEN UNCHANGED bufStatus ELSE WriteStatus(h, RejectWrites(saw[h]))
    /\ Goto(h, "create")
    /\ UNCHANGED <<rows, doing, row, saw, sawKeys, bufKeys, effects>>

\* ... and the dialogue is created and shown.
CreateDialogue(h) ==
    /\ at[h] = "create"
    /\ Create(h, "mcp_setup")
    /\ Goto(h, "commit")
    /\ UNCHANGED <<rowStatus, rowKeys, lapsed, doing, row, saw, sawKeys, bufKeys,
                   mcpConfig, commands, granted>>

\* try_handle_pending_message: the newest dialogue takes the keys of a text.  A
\* text without any is answered with a hint and changes nothing.
TakeKeys(h) ==
    /\ at[h] = "idle"
    /\ \E r \in Rows, typed \in SUBSET Keys \ {{}} :
         /\ Newest("mcp_setup", r)
         /\ doing' = [doing EXCEPT ![h] = "keys"]
         /\ row' = [row EXCEPT ![h] = r]
         /\ saw' = [saw EXCEPT ![h] = rowStatus[r]]
         /\ sawKeys' = [sawKeys EXCEPT ![h] = rowKeys[r] \cup typed]
    /\ Goto(h, "missing")
    /\ UNCHANGED <<rows, buffers, effects>>

\* Mutant: the row is written whole, with the status it was read with.
SaveStateMutant(h) ==
    /\ at[h] = "missing" /\ sawKeys[h] # Keys
    /\ ~Locked(h, row[h])
    /\ bufKeys' = [bufKeys EXCEPT ![h] = sawKeys[h]]
    /\ bufStatus' = [bufStatus EXCEPT ![h][row[h]] = saw[h]]
    /\ Goto(h, "commit")
    /\ UNCHANGED <<rows, doing, row, saw, sawKeys, effects>>

\* Keys are missing: what has been collected is written back to the payload.
SaveState(h) ==
    /\ at[h] = "missing" /\ sawKeys[h] # Keys
    /\ ~Locked(h, row[h])
    /\ bufKeys' = [bufKeys EXCEPT ![h] = sawKeys[h]]
    /\ Goto(h, "commit")
    /\ UNCHANGED <<rows, doing, row, saw, sawKeys, bufStatus, effects>>

\* _install: the file is written at once, whatever has become of the row ...
WriteConfig(h) ==
    /\ at[h] = "missing" /\ sawKeys[h] = Keys
    /\ mcpConfig' = sawKeys[h]
    /\ Goto(h, "install")
    /\ UNCHANGED <<rows, doing, row, saw, sawKeys, buffers, shown, commands, granted>>

\* ... and the row is approved, if the session read it pending.  The check of
\* the new server is queued for the worker, and only reports.
ApproveInstalled(h) ==
    /\ at[h] = "install"
    /\ WriteStatus(h, ApproveWrites(saw[h], row[h]))
    /\ Goto(h, "commit")
    /\ UNCHANGED <<rows, doing, row, saw, sawKeys, bufKeys, effects>>

\* menu:mcp:delok - remove_server.
RemoveServer(h) ==
    /\ at[h] = "idle" /\ mcpConfig # Nothing
    /\ mcpConfig' = Nothing
    /\ Goto(h, "done")
    /\ UNCHANGED <<rows, doing, row, saw, sawKeys, buffers, shown, commands, granted>>
----
(* The middleware, and time. *)

Forget(h) == /\ bufStatus' = [bufStatus EXCEPT ![h] = [r \in Rows |-> Same]]
             /\ bufKeys' = [bufKeys EXCEPT ![h] = Nothing]
             /\ Goto(h, "done")

\* The handler returns and its session is committed.
Commit(h) ==
    /\ at[h] = "commit"
    /\ rowStatus' = [r \in Rows |-> IF bufStatus[h][r] # Same THEN bufStatus[h][r]
                                                           ELSE rowStatus[r]]
    /\ rowKeys' = [r \in Rows |-> IF r = row[h] /\ bufKeys[h] # Nothing THEN bufKeys[h]
                                                                        ELSE rowKeys[r]]
    /\ granted' = granted \cup {r \in Rows : /\ r = row[h] /\ doing[h] = "approve"
                                            /\ bufStatus[h][r] = "approved"}
    /\ Forget(h)
    /\ UNCHANGED <<rowKind, lapsed, doing, row, saw, sawKeys, shown, mcpConfig, commands>>

\* Telegram refuses the answer, or the registry the query: the handler raises
\* and its session is rolled back.  Files and queues are not.
Rollback(h) ==
    /\ at[h] \in {"create", "commit"}
    /\ Forget(h)
    /\ UNCHANGED <<rows, doing, row, saw, sawKeys, effects>>

\* expires_at passes.
Lapse(r) ==
    /\ r \in shown \ lapsed
    /\ lapsed' = lapsed \cup {r}
    /\ UNCHANGED <<rowStatus, rowKind, rowKeys, locals, buffers, effects>>

HandlerStep(h) ==
    \/ Approve(h) \/ ExecuteConfirmed(h) \/ Reject(h)
    \/ CancelPending(h) \/ CreateDialogue(h)
    \/ SaveState(h) \/ WriteConfig(h) \/ ApproveInstalled(h)
    \/ Commit(h) \/ Rollback(h)

ConfirmNext ==
    \/ \E h \in Handlers : \/ AskConfirmation(h) \/ Press(h) \/ StartAdd(h) \/ TakeKeys(h)
                           \/ RemoveServer(h) \/ HandlerStep(h)
    \/ \E r \in Rows : Lapse(r)

ConfirmSpec == ConfirmInit /\ [][ConfirmNext]_confirmVars
----
(* Properties. *)

\* A row that has been resolved is never open again: a handler that read the
\* row while it was pending, and writes it after another resolved it, does not
\* bring it back (_save_state writes the payload alone).
NeverReopened ==
    [][\A r \in Rows : rowStatus[r] \notin {"none", "pending"} => rowStatus'[r] # "pending"]_confirmVars

\* What the user is told: "Approved", "Confirmed. Running" (actions.py:589).
ApprovedCommandRuns == \A r \in granted : commands[r] > 0

\* Also seen.  A second press may overwrite the verdict of the first.
VerdictStands ==
    [][\A r \in Rows : rowStatus[r] \notin {"none", "pending"} => rowStatus'[r] = rowStatus[r]]_confirmVars

\* Also seen.  A dialogue that was cancelled can be installed by its old button, if
\* its server needs no keys.
CancelledStaysOut ==
    [][\A h \in Handlers : WriteConfig(h) => saw[h] \notin {"rejected", "expired"}]_confirmVars

\* Also seen.  Two "mcp add" at once leave two dialogues open.
OneDialogue == Cardinality(Pending("mcp_setup")) <= 1

\* Also seen.  Of two messages with keys at once, one message's keys are lost.
KeysKept == [][\A r \in Rows : rowKeys[r] \subseteq rowKeys'[r]]_confirmVars
====
