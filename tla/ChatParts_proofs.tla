---- MODULE ChatParts_proofs ----
(* Proofs about the bot's parts, for any updates, rows, keys, sessions,       *)
(* pictures, albums, jobs and texts: the confirmation of a request            *)
(* (Confirmation), the menus that wait for a text (MenuInput), pictures and   *)
(* albums (Uploads), and the four parts side by side (MCChatParts).           *)
EXTENDS MCChatParts, AgentSessions_proofs

(***************************************************************************)
(* Confirmations and menus.                                                *)
(***************************************************************************)


(* Confirmations: types. *)

LEMMA ConfirmTypeInit == ConfirmInit => ConfirmTypeOK
  BY ConfirmAssumption DEF ConfirmInit, ConfirmTypeOK, Statuses, Ops, Same, NoRow, Nothing

LEMMA WriteTypes ==
  ASSUME ConfirmTypeOK, NEW h \in Handlers, NEW s \in Statuses \cup {Same}, WriteStatus(h, s)
  PROVE  bufStatus' \in [Handlers -> [Rows -> Statuses \cup {Same}]]
  BY DEF WriteStatus, ConfirmTypeOK

LEMMA WritesTyped ==
  ASSUME NEW s, NEW r
  PROVE  ApproveWrites(s, r) \in Statuses \cup {Same} /\ RejectWrites(s) \in Statuses \cup {Same}
  BY DEF ApproveWrites, RejectWrites, Statuses, Same

LEMMA ReadTypes ==
  ASSUME ConfirmTypeOK, NEW h \in Handlers, NEW op \in Ops, NEW r \in Rows \cup {NoRow}, Reads(h, op, r)
  PROVE  /\ doing' \in [Handlers -> Ops] /\ row' \in [Handlers -> Rows \cup {NoRow}]
         /\ saw' \in [Handlers -> Statuses] /\ sawKeys' \in [Handlers -> SUBSET Keys]
  BY DEF Reads, ConfirmTypeOK, Statuses

LEMMA CreateTypes ==
  ASSUME ConfirmTypeOK, NEW h \in Handlers, NEW k \in {"run_command", "mcp_setup"}, Create(h, k)
  PROVE  /\ bufStatus' \in [Handlers -> [Rows -> Statuses \cup {Same}]]
         /\ rowKind' \in [Rows -> {"run_command", "mcp_setup"}] /\ shown' \subseteq Rows
  BY DEF Create, ConfirmTypeOK, Statuses

LEMMA ConfirmTypeNext == ConfirmTypeOK /\ [ConfirmNext]_confirmVars => ConfirmTypeOK'
<1> SUFFICES ASSUME ConfirmTypeOK, [ConfirmNext]_confirmVars PROVE ConfirmTypeOK'
  OBVIOUS
<1> USE DEF Goto, rows, locals, buffers, effects
<1>1. CASE UNCHANGED confirmVars
  BY <1>1, SMTT(60) DEF confirmVars, ConfirmTypeOK
<1>2. ASSUME NEW h \in Handlers, AskConfirmation(h) PROVE ConfirmTypeOK'
  BY <1>2, CreateTypes, SMTT(60) DEF AskConfirmation, ConfirmTypeOK, Ops
<1>3. ASSUME NEW h \in Handlers, Press(h) PROVE ConfirmTypeOK'
  <2>1. PICK r \in shown, op \in {"approve", "reject", "install", "cancel"} :
           Reads(h, op, r) /\ Goto(h, IF op = "install" THEN "missing" ELSE "judge")
    BY <1>3, ZenonT(60) DEF Press
  <2>2. r \in Rows /\ op \in Ops
    BY DEF ConfirmTypeOK, Ops
  <2>3. UNCHANGED <<rows, buffers, effects>>
    BY <1>3 DEF Press
  <2> QED
    BY <2>1, <2>2, <2>3, ReadTypes DEF ConfirmTypeOK
<1>4. ASSUME NEW h \in Handlers, StartAdd(h) PROVE ConfirmTypeOK'
  <2>1. PICK r \in Rows \cup {NoRow} : Reads(h, "add", r)
    BY <1>4 DEF StartAdd
  <2>2. "add" \in Ops
    BY DEF Ops
  <2> QED
    BY <1>4, <2>1, <2>2, ReadTypes DEF StartAdd, ConfirmTypeOK
<1>5. ASSUME NEW h \in Handlers, TakeKeys(h) PROVE ConfirmTypeOK'
  BY <1>5 DEF TakeKeys, ConfirmTypeOK, Ops
<1>6. ASSUME NEW h \in Handlers, RemoveServer(h) PROVE ConfirmTypeOK'
  BY <1>6 DEF RemoveServer, ConfirmTypeOK
<1>7. ASSUME NEW h \in Handlers, HandlerStep(h) PROVE ConfirmTypeOK'
  <2>1. CASE Approve(h)
    BY <2>1, WriteTypes, WritesTyped, SMTT(60) DEF Approve, ConfirmTypeOK
  <2>2. CASE ExecuteConfirmed(h)
    <3>1. bufStatus' \in [Handlers -> [Rows -> Statuses \cup {Same}]]
      BY <2>2, WriteTypes, WritesTyped DEF ExecuteConfirmed
    <3>2. commands' \in [Rows -> Nat]
      <4>1. \/ UNCHANGED commands
            \/ commands' = [commands EXCEPT ![row[h]] = @ + 1]
        BY <2>2 DEF ExecuteConfirmed
      <4> QED
        BY <4>1, SMTT(60) DEF ConfirmTypeOK
    <3> QED
      BY <2>2, <3>1, <3>2 DEF ExecuteConfirmed, ConfirmTypeOK
  <2>3. CASE Reject(h)
    BY <2>3, WriteTypes, WritesTyped DEF Reject, ConfirmTypeOK
  <2>4. CASE CancelPending(h)
    BY <2>4, WriteTypes, WritesTyped DEF CancelPending, ConfirmTypeOK
  <2>5. CASE CreateDialogue(h)
    BY <2>5, CreateTypes DEF CreateDialogue, ConfirmTypeOK
  <2>6. CASE SaveState(h)
    BY <2>6 DEF SaveState, ConfirmTypeOK
  <2>7. CASE WriteConfig(h)
    BY <2>7, SMTT(60) DEF WriteConfig, ConfirmTypeOK
  <2>8. CASE ApproveInstalled(h)
    BY <2>8, WriteTypes, WritesTyped, SMTT(60) DEF ApproveInstalled, ConfirmTypeOK
  <2>9. CASE Commit(h)
    <3>1. rowStatus' \in [Rows -> Statuses]
      BY <2>9 DEF Commit, ConfirmTypeOK
    <3>2. rowKeys' \in [Rows -> SUBSET Keys]
      BY <2>9 DEF Commit, ConfirmTypeOK
    <3>3. /\ bufStatus' \in [Handlers -> [Rows -> Statuses \cup {Same}]]
          /\ bufKeys' \in [Handlers -> (SUBSET Keys) \cup {Nothing}]
      BY <2>9 DEF Commit, Forget, ConfirmTypeOK
    <3> QED
      BY <2>9, <3>1, <3>2, <3>3, SMTT(60) DEF Commit, Forget, ConfirmTypeOK
  <2>10. CASE Rollback(h)
    BY <2>10 DEF Rollback, Forget, ConfirmTypeOK, Same, Nothing
  <2> QED
    BY <1>7, <2>1, <2>2, <2>3, <2>4, <2>5, <2>6, <2>7, <2>8, <2>9, <2>10 DEF HandlerStep
<1>8. ASSUME NEW r \in Rows, Lapse(r) PROVE ConfirmTypeOK'
  BY <1>8 DEF Lapse, ConfirmTypeOK
<1> QED
  BY <1>1, <1>2, <1>3, <1>4, <1>5, <1>6, <1>7, <1>8 DEF ConfirmNext

\* Every variable of the confirmations keeps its type, for any updates, rows and keys.
THEOREM ConfirmTypeCorrect == ConfirmSpec => []ConfirmTypeOK
  BY ConfirmTypeInit, ConfirmTypeNext, PTL DEF ConfirmSpec

(* A resolved row stays resolved. *)

\* Rows are created in turn, and shown as they are.
ShownInTurn == \E k \in 0..MaxRow : shown = 1..k

\* What is committed or flushed was created.
CreatedIsShown ==
    /\ \A r \in Rows : rowStatus[r] # "none" => r \in shown
    /\ \A h \in Handlers : \A r \in Rows : bufStatus[h][r] # Same => r \in shown

\* "pending" is flushed by the one who creates the row, and by nobody else;
\* whatever else is flushed resolves a row that is committed.
FlushedOnce ==
    /\ \A h \in Handlers : \A r \in Rows : bufStatus[h][r] = "pending" =>
          rowStatus[r] = "none" /\ \A g \in Handlers \ {h} : bufStatus[g][r] # "pending"
    /\ \A h \in Handlers : \A r \in Rows :
          bufStatus[h][r] \notin {Same, "pending"} => rowStatus[r] # "none" /\ bufStatus[h][r] # "none"

\* A handler that has read a status has read a committed row's; one that executes
\* has flushed its own approval.
SawCommitted ==
    /\ \A h \in Handlers : saw[h] # "none" => row[h] \in Rows /\ rowStatus[row[h]] # "none"
    /\ \A h \in Handlers : at[h] = "execute" => row[h] \in Rows /\ bufStatus[h][row[h]] = "approved"

RowInv == ShownInTurn /\ CreatedIsShown /\ FlushedOnce /\ SawCommitted

LEMMA RowInit == ConfirmInit => RowInv
<1> SUFFICES ASSUME ConfirmInit PROVE RowInv
  OBVIOUS
<1>1. shown = 1..0
  BY DEF ConfirmInit
<1>2. ShownInTurn
  BY <1>1, ConfirmAssumption DEF ShownInTurn
<1>3. CreatedIsShown /\ FlushedOnce /\ SawCommitted
  BY DEF ConfirmInit, CreatedIsShown, FlushedOnce, SawCommitted, Same
<1> QED
  BY <1>2, <1>3 DEF RowInv

LEMMA NextRowIsNew ==
  ASSUME ConfirmTypeOK, RowInv, NextRow \in Rows
  PROVE  /\ NextRow \notin shown
         /\ shown' = shown \cup {NextRow} => ShownInTurn'
<1>1. PICK k \in 0..MaxRow : shown = 1..k
  BY DEF RowInv, ShownInTurn
<1>2. Cardinality(1..k) = k
  BY FS_Interval
<1>3. NextRow = k + 1
  BY <1>1, <1>2 DEF NextRow
<1>4. ASSUME shown' = shown \cup {NextRow} PROVE ShownInTurn'
  <2>1. k + 1 \in 0..MaxRow /\ shown' = 1..(k + 1)
    BY <1>1, <1>3, <1>4, ConfirmAssumption DEF Rows
  <2> QED
    BY <2>1 DEF ShownInTurn
<1> QED
  BY <1>1, <1>3, <1>4

LEMMA CreateKeeps ==
  ASSUME ConfirmTypeOK, RowInv, NEW h \in Handlers, NEW k, Create(h, k), UNCHANGED <<rowStatus, row, saw>>,
         \A g \in Handlers : at'[g] = "execute" => at[g] = "execute", at[h] # "execute"
  PROVE  RowInv'
<1>1. NextRow \notin shown /\ ShownInTurn'
  BY NextRowIsNew DEF Create
<1>2. NextRow \in Rows /\ rowStatus[NextRow] = "none" /\ \A g \in Handlers : bufStatus[g][NextRow] = Same
  BY <1>1, SMTT(60) DEF Create, RowInv, CreatedIsShown
<1>3. CreatedIsShown' /\ FlushedOnce' /\ SawCommitted'
  BY <1>1, <1>2 DEF Create, RowInv, CreatedIsShown, FlushedOnce, SawCommitted, ConfirmTypeOK, Same
<1> QED
  BY <1>1, <1>3 DEF RowInv

\* A handler that resolves the row it has read.
LEMMA WriteKeeps ==
  ASSUME ConfirmTypeOK, RowInv, NEW h \in Handlers, NEW s \in {Same, "approved", "rejected", "expired"},
         WriteStatus(h, s), s # Same => saw[h] # "none", UNCHANGED <<shown, rowStatus, row, saw>>,
         \A g \in Handlers : at'[g] = "execute" => at[g] = "execute" \/ (g = h /\ s = "approved"),
         at'[h] = "execute" => s = "approved"
  PROVE  RowInv'
<1>1. CASE s = Same
  BY <1>1 DEF WriteStatus, RowInv, ShownInTurn, CreatedIsShown, FlushedOnce, SawCommitted, Same
<1>2. CASE s # Same
  <2>1. row[h] \in Rows /\ rowStatus[row[h]] # "none" /\ row[h] \in shown
    BY <1>2 DEF RowInv, SawCommitted, CreatedIsShown
  <2>2. bufStatus' = [bufStatus EXCEPT ![h][row[h]] = s]
    BY <1>2, SMTT(60) DEF WriteStatus
  <2>3. ShownInTurn' /\ CreatedIsShown' /\ FlushedOnce'
    BY <1>2, <2>1, <2>2, SMTT(60) DEF RowInv, ShownInTurn, CreatedIsShown, FlushedOnce, ConfirmTypeOK
  <2>4. SawCommitted'
    BY <1>2, <2>1, <2>2 DEF RowInv, SawCommitted, ConfirmTypeOK
  <2> QED
    BY <2>3, <2>4 DEF RowInv
<1> QED
  BY <1>1, <1>2

\* A handler that reads.
LEMMA ReadKeeps ==
  ASSUME ConfirmTypeOK, RowInv, NEW h \in Handlers, NEW r \in Rows \cup {NoRow},
         at[h] = "idle", row' = [row EXCEPT ![h] = r],
         saw' = [saw EXCEPT ![h] = IF r = NoRow THEN "none" ELSE rowStatus[r]],
         \A g \in Handlers : at'[g] = "execute" => at[g] = "execute",
         UNCHANGED <<rowStatus, shown, bufStatus>>
  PROVE  RowInv'
  BY SMTT(60) DEF RowInv, ShownInTurn, CreatedIsShown, FlushedOnce, SawCommitted, ConfirmTypeOK

LEMMA RowNext ==
  ASSUME ConfirmTypeOK, RowInv, [ConfirmNext]_confirmVars
  PROVE  RowInv'
<1> USE DEF Goto, rows, locals, buffers, effects
<1>0. ASSUME UNCHANGED <<rowStatus, shown, bufStatus, row, saw>>,
             \A g \in Handlers : at'[g] = "execute" => at[g] = "execute"
      PROVE  RowInv'
  BY <1>0 DEF RowInv, ShownInTurn, CreatedIsShown, FlushedOnce, SawCommitted
<1>1. CASE UNCHANGED confirmVars
  BY <1>0, <1>1 DEF confirmVars
<1>2. ASSUME NEW h \in Handlers, AskConfirmation(h) PROVE RowInv'
  BY <1>2, CreateKeeps, SMTT(60) DEF AskConfirmation, ConfirmTypeOK
<1>3. ASSUME NEW h \in Handlers, Press(h) PROVE RowInv'
  <2>1. PICK r \in shown, op \in {"approve", "reject", "install", "cancel"} :
           Reads(h, op, r) /\ Goto(h, IF op = "install" THEN "missing" ELSE "judge")
    BY <1>3, ZenonT(60) DEF Press
  <2>2. r \in Rows
    BY DEF ConfirmTypeOK
  <2>3. UNCHANGED <<rows, buffers, effects>>
    BY <1>3, SMTT(60) DEF Press
  <2> QED
    BY <2>1, <2>2, <2>3, ReadKeeps DEF Reads, ConfirmTypeOK
<1>4. ASSUME NEW h \in Handlers, StartAdd(h) PROVE RowInv'
  BY <1>4, ReadKeeps DEF StartAdd, Reads, ConfirmTypeOK
<1>5. ASSUME NEW h \in Handlers, TakeKeys(h) PROVE RowInv'
  <2>1. PICK r \in Rows : row' = [row EXCEPT ![h] = r] /\ saw' = [saw EXCEPT ![h] = rowStatus[r]]
    BY <1>5 DEF TakeKeys
  <2>2. r # NoRow
    BY ConfirmAssumption DEF Rows, NoRow
  <2> QED
    BY <1>5, <2>1, <2>2, ReadKeeps DEF TakeKeys, ConfirmTypeOK
<1>6. ASSUME NEW h \in Handlers, RemoveServer(h) \/ SaveState(h) \/ WriteConfig(h) PROVE RowInv'
  BY <1>0, <1>6 DEF RemoveServer, SaveState, WriteConfig, ConfirmTypeOK
<1>7. ASSUME NEW h \in Handlers, Approve(h) PROVE RowInv'
  <2> DEFINE s == ApproveWrites(saw[h], row[h])
  <2>1. s \in {Same, "approved", "rejected", "expired"} /\ (s # Same => saw[h] # "none")
    BY DEF ApproveWrites
  <2> HIDE DEF s
  <2>2. WriteStatus(h, s) /\ at' = [at EXCEPT ![h] = IF s = "approved" THEN "execute" ELSE "commit"]
        /\ UNCHANGED <<shown, rowStatus, row, saw>>
    BY <1>7 DEF Approve, s
  <2> QED
    BY <2>1, <2>2, WriteKeeps DEF ConfirmTypeOK
<1>8. ASSUME NEW h \in Handlers, ExecuteConfirmed(h) PROVE RowInv'
  <2>1. OwnView(h) = "approved"
    BY <1>8 DEF ExecuteConfirmed, RowInv, SawCommitted, OwnView, Same
  <2>2. ApproveWrites(OwnView(h), row[h]) = Same
    BY <2>1 DEF ApproveWrites
  <2>3. bufStatus' = bufStatus
    BY <1>8, <2>2 DEF ExecuteConfirmed, WriteStatus
  <2> QED
    BY <1>0, <1>8, <2>3, SMTT(60) DEF ExecuteConfirmed, ConfirmTypeOK
<1>9. ASSUME NEW h \in Handlers, Reject(h) \/ CancelPending(h) PROVE RowInv'
  <2>1. /\ RejectWrites(saw[h]) \in {Same, "approved", "rejected", "expired"}
        /\ RejectWrites(saw[h]) # Same => saw[h] # "none"
    BY DEF RejectWrites
  <2>2. CASE WriteStatus(h, RejectWrites(saw[h]))
    BY <1>9, <2>1, <2>2, WriteKeeps, SMTT(60) DEF Reject, CancelPending, ConfirmTypeOK
  <2>3. CASE UNCHANGED bufStatus
    BY <1>0, <1>9, <2>3 DEF Reject, CancelPending, ConfirmTypeOK
  <2> QED
    BY <1>9, <2>2, <2>3 DEF Reject, CancelPending
<1>10. ASSUME NEW h \in Handlers, CreateDialogue(h) PROVE RowInv'
  BY <1>10, CreateKeeps DEF CreateDialogue, ConfirmTypeOK
<1>11. ASSUME NEW h \in Handlers, ApproveInstalled(h) PROVE RowInv'
  <2>1. /\ ApproveWrites(saw[h], row[h]) \in {Same, "approved", "rejected", "expired"}
        /\ ApproveWrites(saw[h], row[h]) # Same => saw[h] # "none"
    BY DEF ApproveWrites
  <2> QED
    BY <1>11, <2>1, WriteKeeps DEF ApproveInstalled, ConfirmTypeOK
<1>12. ASSUME NEW h \in Handlers, Commit(h) PROVE RowInv'
  <2>1. /\ rowStatus' = [r \in Rows |-> IF bufStatus[h][r] # Same THEN bufStatus[h][r] ELSE rowStatus[r]]
        /\ bufStatus' = [bufStatus EXCEPT ![h] = [r \in Rows |-> Same]]
        /\ at' = [at EXCEPT ![h] = "done"] /\ UNCHANGED <<shown, row, saw>>
    BY <1>12 DEF Commit, Forget
  <2>2. \A r \in Rows : bufStatus[h][r] # "none"
    BY DEF RowInv, FlushedOnce, Same
  <2>3. \A r \in Rows : rowStatus[r] # "none" => rowStatus'[r] # "none"
    BY <2>1, <2>2
  <2>4. CreatedIsShown'
    BY <2>1 DEF RowInv, CreatedIsShown, ConfirmTypeOK
  <2>5. FlushedOnce'
    BY <2>1, <2>3 DEF RowInv, FlushedOnce, ConfirmTypeOK, Same
  <2>6. SawCommitted'
    BY <2>1, <2>3 DEF RowInv, SawCommitted, ConfirmTypeOK
  <2> QED
    BY <2>1, <2>4, <2>5, <2>6 DEF RowInv, ShownInTurn
<1>13. ASSUME NEW h \in Handlers, Rollback(h) PROVE RowInv'
  BY <1>13 DEF Rollback, Forget, RowInv, ShownInTurn, CreatedIsShown, FlushedOnce, SawCommitted,
               ConfirmTypeOK, Same
<1>14. ASSUME NEW r \in Rows, Lapse(r) PROVE RowInv'
  BY <1>0, <1>14 DEF Lapse
<1> QED
  BY <1>1, <1>2, <1>3, <1>4, <1>5, <1>6, <1>7, <1>8, <1>9, <1>10, <1>11, <1>12, <1>13, <1>14
  DEF ConfirmNext, HandlerStep

LEMMA NotReopened ==
  ASSUME ConfirmTypeOK, RowInv, [ConfirmNext]_confirmVars, NEW r \in Rows,
         rowStatus[r] \notin {"none", "pending"}
  PROVE  rowStatus'[r] # "pending"
<1>1. CASE \E h \in Handlers : Commit(h)
  BY <1>1 DEF Commit, RowInv, FlushedOnce
<1>2. CASE UNCHANGED rowStatus
  BY <1>2
<1> QED
  BY <1>1, <1>2 DEF ConfirmNext, confirmVars, HandlerStep, AskConfirmation, Press, StartAdd, TakeKeys,
     RemoveServer, Approve, ExecuteConfirmed, Reject, CancelPending, CreateDialogue, SaveState,
     WriteConfig, ApproveInstalled, Rollback, Lapse, rows

\* A confirmation that has been resolved is never open again, whatever handlers had
\* read it before (ConfirmationRepository, McpSetupService._save_state).
THEOREM ResolvedStays == ConfirmSpec => NeverReopened
<1>1. ConfirmTypeOK /\ RowInv /\ [ConfirmNext]_confirmVars => (ConfirmTypeOK /\ RowInv)'
  BY ConfirmTypeNext, RowNext
<1>2. ConfirmTypeOK /\ RowInv /\ [ConfirmNext]_confirmVars =>
        [\A r \in Rows : rowStatus[r] \notin {"none", "pending"} => rowStatus'[r] # "pending"]_confirmVars
  BY NotReopened
<1> QED
  BY ConfirmTypeInit, RowInit, <1>1, <1>2, PTL DEF ConfirmSpec, NeverReopened
----
(* Menus that wait for a text: the strengthening. *)

\* Questions are asked in turn: those asked are 1..k.
AskedInTurn == \E k \in 0..MaxAsk : \A n \in Asks : subject[n] # "unasked" <=> n <= k

\* What deletes a row deletes a session's.
DeletesNamed == \A h \in MenuUpdates : menuWrite[h].change = "delete" => menuWrite[h].row \in Named

\* A screen belongs to a question that was asked.
ShownWasAsked == \A n \in prompts \cup backed : subject[n] # "unasked"

\* A handler that is about to set the key, or to show the screen, has a question of
\* its own; while it is about to set the key, the question's screen has not been shown.
Opening(h) == menuAt[h] \in {"set", "show"}
OwnAsk ==
    /\ \A h \in MenuUpdates : Opening(h) => menuAsk[h] \in Asks /\ subject[menuAsk[h]] # "unasked"
    /\ \A g, h \in MenuUpdates : g # h /\ Opening(g) /\ Opening(h) => menuAsk[g] # menuAsk[h]
    /\ \A h \in MenuUpdates : menuAt[h] = "set" => menuAsk[h] \notin prompts \cup backed

MenuInv == /\ MenuTypeOK /\ DeletesNamed
           /\ AskedInTurn /\ ShownWasAsked /\ OwnAsk
           /\ BackCancels

\* A new question has not been asked before, and keeps the order.
LEMMA NextIsFresh ==
  ASSUME MenuTypeOK, AskedInTurn, NextAsk \in Asks
  PROVE  /\ subject[NextAsk] = "unasked"
         /\ \A x \in Named \cup {"access"} :
              subject' = [subject EXCEPT ![NextAsk] = x] => AskedInTurn'
<1>1. PICK k \in 0..MaxAsk : \A n \in Asks : subject[n] # "unasked" <=> n <= k
  BY DEF AskedInTurn
<1>2. {n \in Asks : subject[n] # "unasked"} = 1..k
  BY <1>1, MenuAssumption DEF Asks
<1>3. NextAsk = k + 1
  <2>1. Cardinality(1..k) = k
    BY <1>1, FS_Interval, MenuAssumption
  <2> QED
    BY <1>2, <2>1 DEF NextAsk
<1>4. subject[NextAsk] = "unasked"
  BY <1>1, <1>3, MenuAssumption DEF Asks
<1>5. ASSUME NEW x \in Named \cup {"access"}, subject' = [subject EXCEPT ![NextAsk] = x]
      PROVE  AskedInTurn'
  <2>1. k + 1 \in 0..MaxAsk
    BY <1>1, <1>3, MenuAssumption DEF Asks
  <2>2. x # "unasked"
    BY MenuAssumption
  <2>3. \A n \in Asks : subject'[n] # "unasked" <=> n <= k + 1
    BY <1>1, <1>3, <1>5, <2>2, MenuAssumption DEF Asks, MenuTypeOK
  <2> QED
    BY <2>1, <2>3 DEF AskedInTurn, Asks
<1> QED
  BY <1>4, <1>5

LEMMA MenuInvInit == MenuInit => MenuInv
<1> SUFFICES ASSUME MenuInit PROVE MenuInv
  OBVIOUS
<1>1. MenuTypeOK
  BY MenuAssumption DEF MenuInit, MenuTypeOK, NoWrite, Asks, NoAsk
<1>2. AskedInTurn
  <2>1. \A n \in Asks : subject[n] # "unasked" <=> n <= 0
    BY DEF MenuInit, Asks
  <2> QED
    BY <2>1, MenuAssumption DEF AskedInTurn, Asks
<1>3. DeletesNamed /\ ShownWasAsked /\ OwnAsk /\ BackCancels
  BY DEF MenuInit, DeletesNamed, ShownWasAsked, OwnAsk, Opening, BackCancels, NoWrite
<1> QED
  BY <1>1, <1>2, <1>3 DEF MenuInv

(* The steps. *)

\* What most steps do: they ask nothing, and open nothing.
AsksKept == /\ UNCHANGED subject
            /\ prompts' \subseteq prompts /\ backed' \subseteq backed \cup prompts
            /\ UNCHANGED <<input, backed>> \/ input' = NoAsk
            /\ \A h \in MenuUpdates : menuAt'[h] \in {"set", "show"} =>
                                         menuAt[h] = menuAt'[h] /\ menuAsk'[h] = menuAsk[h]

LEMMA AsksKeptInv ==
  ASSUME MenuInv, AsksKept, MenuTypeOK', DeletesNamed'
  PROVE  MenuInv'
<1>1. AskedInTurn'
  BY DEF MenuInv, AskedInTurn, AsksKept, Asks
<1>2. ShownWasAsked'
  BY DEF MenuInv, ShownWasAsked, AsksKept
<1>3. OwnAsk'
  BY DEF MenuInv, OwnAsk, Opening, AsksKept, Asks
<1>4. BackCancels'
  <2>1. NoAsk \notin backed'
    BY DEF MenuTypeOK, Asks, NoAsk
  <2> QED
    BY <2>1 DEF MenuInv, BackCancels, AsksKept
<1> QED
  BY <1>1, <1>2, <1>3, <1>4 DEF MenuInv

LEMMA PlansKeep ==
  ASSUME MenuInv, NEW h \in MenuUpdates, NEW c \in Changes, NEW r \in Named \cup {"guest"},
         c = "delete" => r \in Named, Plan(h, c, r), UNCHANGED menuAsk
  PROVE  /\ menuWrite' \in [MenuUpdates -> [change : Changes \cup {"none"}, row : Named \cup {"guest"}]]
         /\ menuAt' \in [MenuUpdates -> {"idle", "set", "show", "apply", "write", "clear", "answer", "done"}]
         /\ DeletesNamed'
         /\ \A g \in MenuUpdates : menuAt'[g] \in {"set", "show"} => menuAt[g] = menuAt'[g]
<1> USE DEF Plan, MenuGoto, MenuInv, MenuTypeOK
<1>1. [change |-> c, row |-> r] \in [change : Changes \cup {"none"}, row : Named \cup {"guest"}]
  OBVIOUS
<1>2. DeletesNamed'
  BY DEF DeletesNamed
<1> QED
  BY <1>1, <1>2

LEMMA MenuInvNext == MenuInv /\ [MenuNext]_menuVars => MenuInv'
<1> SUFFICES ASSUME MenuInv, [MenuNext]_menuVars PROVE MenuInv'
  OBVIOUS
<1> USE DEF MenuGoto, menuRows, menuLocals
<1>t. MenuTypeOK /\ DeletesNamed
  BY DEF MenuInv
<1>1. CASE UNCHANGED menuVars
  BY <1>1 DEF menuVars, MenuInv, MenuTypeOK, DeletesNamed, AskedInTurn, ShownWasAsked, OwnAsk,
              Opening, BackCancels, Asks
<1>2. CASE InputExpires
  <2>1. MenuTypeOK' /\ DeletesNamed' /\ AsksKept
    BY <1>2, <1>t DEF InputExpires, MenuTypeOK, DeletesNamed, AsksKept
  <2> QED
    BY <2>1, AsksKeptInv
<1>3. ASSUME NEW h \in MenuUpdates, NEW x \in Named \cup {"access"}, Asking(h, x),
             \/ UNCHANGED <<input, backed>>
             \/ ClearKey
      PROVE  MenuInv'
  <2> USE <1>3 DEF Asking
  <2>1. MenuTypeOK' /\ DeletesNamed'
    BY <1>t DEF MenuTypeOK, DeletesNamed, ClearKey
  <2>2. subject[NextAsk] = "unasked" /\ AskedInTurn'
    BY <1>t, NextIsFresh DEF MenuInv
  <2>3. x # "unasked"
    BY MenuAssumption
  <2>4. ShownWasAsked'
    BY <2>2, <2>3, <1>t DEF MenuInv, ShownWasAsked, ClearKey, MenuTypeOK
  <2>5. NextAsk \notin prompts \cup backed
    BY <2>2 DEF MenuInv, ShownWasAsked
  <2>6. OwnAsk'
    BY <2>2, <2>3, <2>5, <1>t DEF MenuInv, OwnAsk, Opening, ClearKey, MenuTypeOK
  <2>7. BackCancels'
    BY <1>t DEF MenuInv, BackCancels, ClearKey, MenuTypeOK, Asks, NoAsk
  <2> QED
    BY <2>1, <2>2, <2>4, <2>6, <2>7 DEF MenuInv
<1>4. ASSUME NEW h \in MenuUpdates, SetInput(h) PROVE MenuInv'
  <2> USE <1>4 DEF SetInput
  <2>1. MenuTypeOK' /\ DeletesNamed'
    BY <1>t DEF MenuTypeOK, DeletesNamed
  <2>2. AskedInTurn' /\ ShownWasAsked'
    BY DEF MenuInv, AskedInTurn, ShownWasAsked, Asks
  <2>3. OwnAsk' /\ BackCancels'
    BY <1>t DEF MenuInv, OwnAsk, Opening, BackCancels, MenuTypeOK
  <2> QED
    BY <2>1, <2>2, <2>3 DEF MenuInv
<1>5. ASSUME NEW h \in MenuUpdates, ShowPrompt(h) PROVE MenuInv'
  <2> USE <1>5 DEF ShowPrompt
  <2>1. menuAsk[h] \in Asks /\ subject[menuAsk[h]] # "unasked"
    BY DEF MenuInv, OwnAsk, Opening
  <2>2. MenuTypeOK' /\ DeletesNamed'
    BY <1>t, <2>1 DEF MenuTypeOK, DeletesNamed
  <2>3. AskedInTurn' /\ ShownWasAsked'
    BY <2>1 DEF MenuInv, AskedInTurn, ShownWasAsked, Asks
  <2>4. OwnAsk' /\ BackCancels'
    BY <1>t DEF MenuInv, OwnAsk, Opening, BackCancels, MenuTypeOK
  <2> QED
    BY <2>2, <2>3, <2>4 DEF MenuInv
<1>6. ASSUME NEW h \in MenuUpdates, Back(h) \/ SlashText(h) PROVE MenuInv'
  <2>1. MenuTypeOK' /\ DeletesNamed' /\ AsksKept
    BY <1>6, <1>t, ZenonT(60) DEF Back, SlashText, ClearKey, MenuTypeOK, DeletesNamed, AsksKept
  <2> QED
    BY <2>1, AsksKeptInv
<1>7. ASSUME NEW h \in MenuUpdates, NEW s \in Named, PressDelete(h, s) PROVE MenuInv'
  <2>1. CASE s \in deleted
    <3>1. MenuTypeOK' /\ DeletesNamed' /\ AsksKept
      BY <1>7, <1>t, <2>1 DEF PressDelete, ClearKey, MenuTypeOK, DeletesNamed, AsksKept
    <3> QED
      BY <3>1, AsksKeptInv
  <2>2. CASE s \notin deleted
    <3>1. Plan(h, "delete", s) /\ "delete" \in Changes /\ UNCHANGED menuAsk
      BY <1>7, <2>2 DEF PressDelete, Changes
    <3>2. MenuTypeOK' /\ DeletesNamed' /\ AsksKept
      BY <1>7, <1>t, <3>1, PlansKeep DEF PressDelete, ClearKey, MenuTypeOK, AsksKept
    <3> QED
      BY <3>2, AsksKeptInv
  <2> QED
    BY <2>1, <2>2
<1>8. ASSUME NEW h \in MenuUpdates, PressRevoke(h) PROVE MenuInv'
  <2>1. CASE guest # "in"
    <3>1. MenuTypeOK' /\ DeletesNamed' /\ AsksKept
      BY <1>8, <1>t, <2>1 DEF PressRevoke, ClearKey, MenuTypeOK, DeletesNamed, AsksKept
    <3> QED
      BY <3>1, AsksKeptInv
  <2>2. CASE guest = "in"
    <3>1. Plan(h, "revoke", "guest") /\ "revoke" \in Changes /\ UNCHANGED menuAsk
      BY <1>8, <2>2 DEF PressRevoke, Changes
    <3>2. MenuTypeOK' /\ DeletesNamed' /\ AsksKept
      BY <1>8, <1>t, <3>1, PlansKeep DEF PressRevoke, ClearKey, MenuTypeOK, AsksKept
    <3> QED
      BY <3>2, AsksKeptInv
  <2> QED
    BY <2>1, <2>2
<1>9. ASSUME NEW h \in MenuUpdates, Write(h) PROVE MenuInv'
  <2>1. MenuTypeOK' /\ DeletesNamed'
    <3>1. \E pc \in {"done", "answer", "clear"} : menuAt' = [menuAt EXCEPT ![h] = pc]
      BY <1>9 DEF Write, MenuGoto
    <3>2. menuAt' \in [MenuUpdates -> {"idle", "set", "show", "apply", "write", "clear", "answer", "done"}]
      BY <1>t, <3>1 DEF MenuTypeOK
    <3>3. menuWrite' = menuWrite \/ menuWrite' = [menuWrite EXCEPT ![h] = NoWrite]
      BY <1>9 DEF Write
    <3>4. menuWrite' \in [MenuUpdates -> [change : Changes \cup {"none"}, row : Named \cup {"guest"}]]
      BY <1>t, <3>3 DEF MenuTypeOK, NoWrite
    <3>5. DeletesNamed'
      BY <1>t, <3>3, SMTT(60) DEF MenuTypeOK, DeletesNamed, NoWrite
    <3>6. UNCHANGED <<input, subject, prompts, menuRows, menuAsk, backed>>
      BY <1>9 DEF Write
    <3> QED
      BY <1>t, <3>2, <3>4, <3>5, <3>6 DEF MenuTypeOK, menuRows
  <2>2. AsksKept
    BY <1>9, <1>t DEF Write, MenuTypeOK, AsksKept
  <2> QED
    BY <2>1, <2>2, AsksKeptInv
<1>10. ASSUME NEW h \in MenuUpdates, PeekInput(h) PROVE MenuInv'
  <2>1. MenuTypeOK' /\ DeletesNamed' /\ AsksKept
    BY <1>10, <1>t DEF PeekInput, MenuTypeOK, DeletesNamed, AsksKept
  <2> QED
    BY <2>1, AsksKeptInv
<1>11. ASSUME NEW h \in MenuUpdates, RefuseAnswer(h), UNCHANGED <<subject, prompts, menuRows, menuAsk, backed>>
       PROVE  MenuInv'
  <2>1. MenuTypeOK' /\ DeletesNamed' /\ AsksKept
    BY <1>11, <1>t DEF RefuseAnswer, MenuTypeOK, DeletesNamed, AsksKept
  <2> QED
    BY <2>1, AsksKeptInv
<1>12. ASSUME NEW h \in MenuUpdates, NEW c \in {"name", "grant", "insert"}, NEW r \in Named \cup {"guest"},
              Plan(h, c, r), UNCHANGED <<input, subject, prompts, menuRows, menuAsk, backed>>
       PROVE  MenuInv'
  <2>1. c \in Changes /\ c # "delete"
    BY DEF Changes
  <2>2. MenuTypeOK' /\ DeletesNamed' /\ AsksKept
    BY <1>12, <1>t, <2>1, PlansKeep DEF MenuTypeOK, AsksKept
  <2> QED
    BY <2>2, AsksKeptInv
<1>13. ASSUME NEW h \in MenuUpdates, ApplyName(h) PROVE MenuInv'
  BY <1>11, <1>12, <1>13 DEF ApplyName
<1>14. ASSUME NEW h \in MenuUpdates, ApplyGrant(h) PROVE MenuInv'
  <2>1. CASE MenuGoto(h, "clear") /\ UNCHANGED <<input, menuWrite>>
    <3>1. MenuTypeOK' /\ DeletesNamed' /\ AsksKept
      BY <1>14, <1>t, <2>1 DEF ApplyGrant, MenuTypeOK, DeletesNamed, AsksKept
    <3> QED
      BY <3>1, AsksKeptInv
  <2> QED
    BY <1>11, <1>12, <1>14, <2>1 DEF ApplyGrant
<1>15. ASSUME NEW h \in MenuUpdates, ClearInput(h) PROVE MenuInv'
  <2>1. MenuTypeOK' /\ DeletesNamed' /\ AsksKept
    BY <1>15, <1>t DEF ClearInput, MenuTypeOK, DeletesNamed, AsksKept
  <2> QED
    BY <2>1, AsksKeptInv
<1>16. ASSUME NEW h \in MenuUpdates, CommitAnswer(h) \/ RollbackAnswer(h) PROVE MenuInv'
  <2>1. MenuTypeOK'
    <3>1. menuAt' = [menuAt EXCEPT ![h] = "done"] /\ menuWrite' = [menuWrite EXCEPT ![h] = NoWrite]
      BY <1>16 DEF CommitAnswer, RollbackAnswer, MenuGoto
    <3>2. menuAt' \in [MenuUpdates -> {"idle", "set", "show", "apply", "write", "clear", "answer", "done"}]
      BY <1>t, <3>1 DEF MenuTypeOK
    <3>3. menuWrite' \in [MenuUpdates -> [change : Changes \cup {"none"}, row : Named \cup {"guest"}]]
      BY <1>t, <3>1 DEF MenuTypeOK, NoWrite
    <3>4. /\ named' \in [Named -> Asks \cup {NoAsk}]
          /\ deleted' \subseteq Named /\ guest' \in {"unknown", "in", "out"}
      <4>1. CASE CommitAnswer(h)
        <5>1. named' = named \/ named' = [named EXCEPT ![menuWrite[h].row] = menuAsk[h]]
          BY <4>1 DEF CommitAnswer
        <5>2. named' \in [Named -> Asks \cup {NoAsk}]
          BY <1>t, <5>1 DEF MenuTypeOK
        <5>3. deleted' \subseteq Named
          BY <1>t, <4>1 DEF CommitAnswer, MenuTypeOK, DeletesNamed
        <5>4. guest' \in {"unknown", "in", "out"}
          BY <1>t, <4>1 DEF CommitAnswer, MenuTypeOK
        <5> QED
          BY <5>2, <5>3, <5>4
      <4>2. CASE RollbackAnswer(h)
        BY <1>t, <4>2 DEF RollbackAnswer, menuRows, MenuTypeOK
      <4> QED
        BY <1>16, <4>1, <4>2
    <3>5. UNCHANGED <<input, subject, prompts, menuAsk, backed>>
      BY <1>16 DEF CommitAnswer, RollbackAnswer
    <3> QED
      BY <1>t, <3>2, <3>3, <3>4, <3>5 DEF MenuTypeOK
  <2>2. DeletesNamed' /\ AsksKept
    BY <1>16, <1>t, SMTT(60) DEF CommitAnswer, RollbackAnswer, MenuTypeOK, DeletesNamed, AsksKept, NoWrite
  <2> QED
    BY <2>1, <2>2, AsksKeptInv
<1> QED
  BY <1>1, <1>2, <1>3, <1>4, <1>5, <1>6, <1>7, <1>8, <1>9, <1>10, <1>13, <1>14, <1>15, <1>16
  DEF MenuNext, MenuStep, AskName, AskAccess

\* Every variable of the menu's question keeps its type, for any updates handled
\* at once, any sessions and any number of questions.
THEOREM MenuTypeCorrect == MenuSpec => []MenuTypeOK
<1>1. MenuInv => MenuTypeOK
  BY DEF MenuInv
<1> QED
  BY MenuInvInit, MenuInvNext, <1>1, PTL DEF MenuSpec

\* The Back button cancels (menu_input.py clear_menu_input): a question whose screen
\* was shown when a menu button was handled is never waited for again.
THEOREM BackHolds == MenuSpec => []BackCancels
<1>1. MenuInv => BackCancels
  BY DEF MenuInv
<1> QED
  BY MenuInvInit, MenuInvNext, <1>1, PTL DEF MenuSpec

(***************************************************************************)
(* Pictures and albums.                                                    *)
(***************************************************************************)


LEMMA UploadsTypeInit == UploadsInit => UploadsTypeOK
  BY UploadsAssumption, ZenonT(60) DEF UploadsInit, UploadsTypeOK

LEMMA ProcessTypes ==
  ASSUME UploadsTypeOK, NEW j \in Jobs, NEW S \in SUBSET Pictures, NEW o \in BOOLEAN, Process(j, S, o)
  PROVE  /\ jobAt' \in [Jobs -> {"free", "store", "read", "write", "queue", "commit", "done"}]
         /\ jobLeft' \in [Jobs -> SUBSET Pictures] /\ jobKept' \in [Jobs -> SUBSET Pictures]
         /\ jobSaw' \in [Jobs -> SUBSET Pictures] /\ jobOwns' \in [Jobs -> BOOLEAN]
  BY DEF Process, JobTo, UploadsTypeOK

LEMMA UploadsTypeNext == UploadsTypeOK /\ [UploadsNext]_uploadVars => UploadsTypeOK'
<1> SUFFICES ASSUME UploadsTypeOK, [UploadsNext]_uploadVars PROVE UploadsTypeOK'
  OBVIOUS
<1> USE DEF UploadsTypeOK, JobTo, TextTo, jobs, texts, outcomes
<1>1. CASE UNCHANGED uploadVars
  BY <1>1 DEF uploadVars
<1>2. ASSUME NEW p \in Pictures, SendSingle(p) PROVE UploadsTypeOK'
  <2>1. PICK j \in Jobs : Process(j, {p}, TRUE)
    BY <1>2 DEF SendSingle
  <2> QED
    BY <1>2, <2>1, ProcessTypes, ZenonT(60) DEF SendSingle
<1>3. ASSUME NEW p \in Pictures, SendPart(p) PROVE UploadsTypeOK'
  BY <1>3 DEF SendPart
<1>4. ASSUME NEW a \in Albums, FlushAlbum(a) PROVE UploadsTypeOK'
  <2>1. PICK j \in Jobs : Process(j, buffered[a], FALSE)
    BY <1>4 DEF FlushAlbum
  <2> QED
    BY <1>4, <2>1, ProcessTypes DEF FlushAlbum
<1>5. ASSUME NEW j \in Jobs, JobStep(j) PROVE UploadsTypeOK'
  <2>1. Batch(j) \subseteq Pictures
    BY DEF Batch
  <2>2. CASE Refuse(j) \/ JobRaises(j)
    <3>1. JobEnds(j) /\ UNCHANGED <<captioned, sent, buffered, collecting, texts, pendingImages,
                                    acked, prompted, orphaned, overlapped, imagesLapsed>>
          /\ refused' \subseteq Pictures /\ raised' \subseteq Pictures
      BY <2>1, <2>2 DEF Refuse, JobRaises
    <3> QED
      BY <2>1, <3>1 DEF JobEnds
  <2>3. CASE StoreOne(j)
    BY <2>3 DEF StoreOne, After
  <2>4. CASE AddRead(j)
    BY <2>4 DEF AddRead, Inside
  <2>5. CASE AddWrite(j)
    BY <2>1, <2>5 DEF AddWrite, Appended
  <2>6. CASE QueueBatch(j)
    BY <2>6 DEF QueueBatch
  <2>7. CASE EndJob(j)
    BY <2>1, <2>7 DEF EndJob, JobEnds
  <2> QED
    BY <1>5, <2>2, <2>3, <2>4, <2>5, <2>6, <2>7 DEF JobStep
<1>6. ASSUME NEW t \in Texts, Peek(t) \/ TextStep(t) PROVE UploadsTypeOK'
  BY <1>6, ZenonT(60) DEF Peek, TextStep, ClearList, QueueText, EndText, TextRaises, Inside
<1>7. CASE ListExpires
  BY <1>7 DEF ListExpires
<1> QED
  BY <1>1, <1>2, <1>3, <1>4, <1>5, <1>6, <1>7 DEF UploadsNext

\* Every variable of the uploads keeps its type, for any pictures, albums, jobs and texts.
THEOREM UploadsTypeCorrect == UploadsSpec => []UploadsTypeOK
  BY UploadsTypeInit, UploadsTypeNext, PTL DEF UploadsSpec

(* Each part once. *)

\* A picture waits in the buffer of its own album, or is with one job, and only if it
\* has come in; a job that has not begun has none.
OneHolder ==
    /\ \A a \in Albums : \A p \in buffered[a] : p \in sent /\ AlbumOf[p] = a
    /\ \A j \in Jobs : \A p \in Batch(j) : p \in sent /\ \A a \in Albums : p \notin buffered[a]
    /\ \A i, j \in Jobs : i # j => Batch(i) \cap Batch(j) = {}
    /\ \A j \in Jobs : jobAt[j] = "free" => Batch(j) = {}

\* Steps inside a job only move pictures between its two sets.
LEMMA BatchesKept ==
  ASSUME UploadsTypeOK, OneHolder, UNCHANGED <<sent, buffered>>,
         \A j \in Jobs : Batch(j)' = Batch(j),
         \A j \in Jobs : jobAt'[j] = "free" => jobAt[j] = "free"
  PROVE  OneHolder'
  BY DEF OneHolder

LEMMA ProcessHolds ==
  ASSUME UploadsTypeOK, NEW j \in Jobs, NEW S \in SUBSET Pictures, NEW o \in BOOLEAN,
         Process(j, S, o), OneHolder
  PROVE  /\ Batch(j)' = S /\ jobAt'[j] # "free"
         /\ \A i \in Jobs \ {j} : Batch(i)' = Batch(i) /\ jobAt'[i] = jobAt[i]
<1>1. Batch(j) = {}
  BY DEF OneHolder, Process, NextJob
<1> QED
  BY <1>1 DEF Process, JobTo, Batch, UploadsTypeOK

LEMMA OneHolderNext ==
  ASSUME UploadsTypeOK, OneHolder, [UploadsNext]_uploadVars
  PROVE  OneHolder'
<1> USE DEF jobs
<1>1. CASE UNCHANGED uploadVars
  BY <1>1 DEF uploadVars, OneHolder, Batch
<1>2. ASSUME NEW p \in Pictures, SendSingle(p) PROVE OneHolder'
  <2>1. PICK j \in Jobs : Process(j, {p}, TRUE)
    BY <1>2 DEF SendSingle
  <2>2. Batch(j)' = {p} /\ jobAt'[j] # "free"
        /\ \A i \in Jobs \ {j} : Batch(i)' = Batch(i) /\ jobAt'[i] = jobAt[i]
    BY <2>1, ProcessHolds
  <2>3. p \notin sent /\ sent' = sent \cup {p} /\ buffered' = buffered
    BY <1>2 DEF SendSingle
  <2> QED
    BY <2>2, <2>3 DEF OneHolder
<1>3. ASSUME NEW p \in Pictures, SendPart(p) PROVE OneHolder'
  <2>1. \A j \in Jobs : Batch(j)' = Batch(j) /\ jobAt'[j] = jobAt[j]
    BY <1>3 DEF SendPart, Batch
  <2>2. p \notin sent /\ sent' = sent \cup {p} /\ AlbumOf[p] \in Albums
        /\ buffered' = [buffered EXCEPT ![AlbumOf[p]] = @ \cup {p}]
    BY <1>3 DEF SendPart
  <2> QED
    BY <2>1, <2>2 DEF OneHolder, UploadsTypeOK
<1>4. ASSUME NEW a \in Albums, FlushAlbum(a) PROVE OneHolder'
  <2>1. PICK j \in Jobs : Process(j, buffered[a], FALSE)
    BY <1>4 DEF FlushAlbum
  <2>2. Batch(j)' = buffered[a] /\ jobAt'[j] # "free"
        /\ \A i \in Jobs \ {j} : Batch(i)' = Batch(i) /\ jobAt'[i] = jobAt[i]
    BY <2>1, ProcessHolds DEF UploadsTypeOK
  <2>3. sent' = sent /\ buffered' = [buffered EXCEPT ![a] = {}]
    BY <1>4 DEF FlushAlbum
  <2> QED
    BY <2>2, <2>3 DEF OneHolder, UploadsTypeOK
<1>5. ASSUME NEW j \in Jobs, JobStep(j) PROVE OneHolder'
  <2>1. UNCHANGED <<sent, buffered>>
    BY <1>5 DEF JobStep, Refuse, JobRaises, StoreOne, AddRead, AddWrite, QueueBatch, EndJob
  <2>2. \A i \in Jobs : jobAt'[i] = "free" => jobAt[i] = "free"
    BY <1>5 DEF JobStep, Refuse, JobRaises, StoreOne, AddRead, AddWrite, QueueBatch, EndJob,
                JobEnds, JobTo, After, UploadsTypeOK
  <2>3. \A i \in Jobs : Batch(i)' = Batch(i)
    <3>1. CASE Refuse(j) \/ JobRaises(j) \/ EndJob(j)
      BY <3>1 DEF Refuse, JobRaises, EndJob, JobEnds, Batch, UploadsTypeOK
    <3>2. CASE StoreOne(j)
      BY <3>2 DEF StoreOne, Batch, UploadsTypeOK
    <3>3. CASE AddRead(j) \/ QueueBatch(j)
      BY <3>3 DEF AddRead, QueueBatch, Batch
    <3>4. CASE AddWrite(j)
      BY <3>4 DEF AddWrite, Batch, UploadsTypeOK
    <3> QED
      BY <1>5, <3>1, <3>2, <3>3, <3>4 DEF JobStep
  <2> QED
    BY <2>1, <2>2, <2>3, BatchesKept, SMTT(60)
<1>6. CASE ListExpires \/ \E t \in Texts : Peek(t) \/ TextStep(t)
  <2>1. UNCHANGED <<sent, buffered, jobs>>
    BY <1>6 DEF ListExpires, Peek, TextStep, ClearList, QueueText, EndText, TextRaises
  <2> QED
    BY <2>1 DEF OneHolder, Batch
<1> QED
  BY <1>1, <1>2, <1>3, <1>4, <1>5, <1>6 DEF UploadsNext

LEMMA OneHolderInit == UploadsInit => OneHolder
  BY DEF UploadsInit, OneHolder, Batch

LEMMA OneHolderCounts ==
  ASSUME UploadsTypeOK, OneHolder
  PROVE  AlbumPartOnce
<1> SUFFICES ASSUME NEW p \in Pictures
             PROVE  LET holders == {j \in Jobs : p \in Batch(j)}
                    IN  Cardinality(holders) + (IF \E a \in Albums : p \in buffered[a] THEN 1 ELSE 0) <= 1
  BY DEF AlbumPartOnce
<1> DEFINE holders == {j \in Jobs : p \in Batch(j)}
<1>1. CASE holders = {}
  <2>1. Cardinality(holders) = 0
    BY <1>1, FS_EmptySet
  <2> QED
    BY <2>1
<1>2. ASSUME NEW j \in holders PROVE Cardinality(holders) = 1 /\ ~\E a \in Albums : p \in buffered[a]
  <2>1. holders = {j}
    BY <1>2 DEF OneHolder
  <2>2. Cardinality({j}) = 1
    BY FS_Singleton
  <2> HIDE DEF holders
  <2>3. Cardinality(holders) = 1
    BY <2>1, <2>2
  <2>4. ~\E a \in Albums : p \in buffered[a]
    BY <1>2 DEF OneHolder, holders
  <2> QED
    BY <2>3, <2>4
<1> QED
  BY <1>1, <1>2

\* A part of an album is processed by one task, whatever parts come while it is
\* collected or processed (schedule_media_group).
THEOREM PartsOnce == UploadsSpec => []AlbumPartOnce
<1>1. UploadsTypeOK /\ OneHolder /\ [UploadsNext]_uploadVars => (UploadsTypeOK /\ OneHolder)'
  BY UploadsTypeNext, OneHolderNext
<1> QED
  BY UploadsTypeInit, OneHolderInit, <1>1, OneHolderCounts, PTL DEF UploadsSpec

(* What was saved is kept. *)

Safe == pendingImages \cup InHand

\* As long as no two accesses to the list overlap: an image the job has added is in
\* the list or taken, and who is between its look and its write is alone there and
\* has seen the list as it is.
Undisturbed ==
    /\ acked \subseteq Safe
    /\ \A j \in Jobs : jobAt[j] \in {"read", "write"} => jobLeft[j] \subseteq Safe
    /\ \A j \in Jobs : jobAt[j] = "write" =>
          /\ jobSaw[j] = pendingImages
          /\ \A i \in Jobs \ {j} : jobAt[i] # "write"
          /\ \A t \in Texts : textAt[t] # "take"
    /\ \A t \in Texts : textAt[t] = "take" =>
          textTook[t] = pendingImages /\ \A u \in Texts \ {t} : textAt[u] # "take"
NothingTaken == \A t \in Texts : textAt[t] = "idle" => textTook[t] = {}
SavedInv == NothingTaken /\ (overlapped \/ imagesLapsed \/ Undisturbed)

LEMMA SavedInit == UploadsInit => SavedInv
  BY DEF UploadsInit, SavedInv, NothingTaken, Undisturbed

LEMMA SavedHolds == SavedInv => SavedIsKept
  BY DEF SavedInv, SavedIsKept, Undisturbed, Safe

\* A step outside the list that acknowledges nothing.
LEMMA SavedAside ==
  ASSUME SavedInv, UNCHANGED <<texts, pendingImages, acked, overlapped, imagesLapsed>>,
         \A j \in Jobs : jobAt'[j] = "write" => jobAt[j] = "write" /\ jobSaw'[j] = jobSaw[j],
         \A j \in Jobs : jobAt'[j] \in {"read", "write"} =>
                            jobLeft'[j] = {} \/ (jobLeft'[j] = jobLeft[j] /\ jobAt[j] = jobAt'[j])
  PROVE  SavedInv'
<1>1. Safe' = Safe
  BY DEF Safe, InHand, texts
<1> QED
  BY <1>1 DEF SavedInv, NothingTaken, Undisturbed, texts

LEMMA SavedNext ==
  ASSUME UploadsTypeOK, SavedInv, [UploadsNext]_uploadVars
  PROVE  SavedInv'
<1> USE DEF UploadsTypeOK, JobTo, TextTo
<1>1. CASE UNCHANGED uploadVars
  BY <1>1, SavedAside DEF uploadVars, jobs, outcomes
<1>2. ASSUME NEW j \in Jobs, NEW S \in SUBSET Pictures, NEW o \in BOOLEAN, Process(j, S, o),
             UNCHANGED <<texts, pendingImages, outcomes, overlapped, imagesLapsed>>
      PROVE  SavedInv'
  BY <1>2, SavedAside DEF Process, outcomes
<1>3. ASSUME NEW p \in Pictures, SendSingle(p) PROVE SavedInv'
  BY <1>2, <1>3 DEF SendSingle
<1>4. ASSUME NEW p \in Pictures, SendPart(p) PROVE SavedInv'
  BY <1>4, SavedAside DEF SendPart, jobs, outcomes
<1>5. ASSUME NEW a \in Albums, FlushAlbum(a) PROVE SavedInv'
  BY <1>2, <1>5 DEF FlushAlbum
<1>6. ASSUME NEW j \in Jobs, JobStep(j) PROVE SavedInv'
  <2>1. CASE Refuse(j) \/ JobRaises(j) \/ EndJob(j)
    <3>1. JobEnds(j) /\ UNCHANGED <<texts, pendingImages, acked, overlapped, imagesLapsed>>
      BY <2>1 DEF Refuse, JobRaises, EndJob
    <3> QED
      BY <3>1, SavedAside DEF JobEnds
  <2>2. CASE StoreOne(j)
    BY <2>2, SavedAside DEF StoreOne, After, outcomes
  <2>3. CASE QueueBatch(j)
    BY <2>3, SavedAside DEF QueueBatch
  <2>4. CASE AddRead(j)
    <3>1. Safe' = Safe /\ NothingTaken'
      BY <2>4 DEF AddRead, Safe, InHand, texts, SavedInv, NothingTaken
    <3>2. CASE Inside
      BY <2>4, <3>1, <3>2 DEF AddRead, SavedInv
    <3>3. CASE ~Inside
      BY <2>4, <3>1, <3>3 DEF AddRead, SavedInv, Undisturbed, Inside, texts, outcomes
    <3> QED
      BY <3>2, <3>3
  <2>5. CASE AddWrite(j)
    <3>1. NothingTaken' /\ UNCHANGED <<texts, overlapped, imagesLapsed>> /\ jobAt[j] = "write"
      BY <2>5 DEF AddWrite, SavedInv, NothingTaken, texts
    <3>2. PICK p \in jobKept[j] :
             /\ pendingImages' = jobSaw[j] \cup {p}
             /\ jobLeft' = [jobLeft EXCEPT ![j] = @ \cup {p}]
             /\ IF jobKept[j] = {p}
                THEN jobAt' = [jobAt EXCEPT ![j] = "commit"] /\ acked' = acked \cup Batch(j)
                ELSE jobAt' = [jobAt EXCEPT ![j] = "read"] /\ UNCHANGED acked
      BY <2>5 DEF AddWrite, Appended
    <3>3. ASSUME Undisturbed PROVE Undisturbed'
      <4>1. Safe' = Safe \cup {p}
        BY <3>1, <3>2, <3>3 DEF Undisturbed, Safe, InHand, texts
      <4>2. acked' \subseteq Safe'
        BY <3>1, <3>2, <3>3, <4>1 DEF Undisturbed, Batch
      <4>3. \A i \in Jobs : jobAt'[i] \in {"read", "write"} => jobLeft'[i] \subseteq Safe'
        BY <3>1, <3>2, <3>3, <4>1 DEF Undisturbed
      <4>4. /\ \A i \in Jobs : jobAt'[i] # "write"
            /\ \A t \in Texts : textAt'[t] # "take"
        BY <3>1, <3>2, <3>3 DEF Undisturbed, texts
      <4> QED
        BY <4>2, <4>3, <4>4 DEF Undisturbed
    <3> QED
      BY <3>1, <3>3 DEF SavedInv
  <2> QED
    BY <1>6, <2>1, <2>2, <2>3, <2>4, <2>5 DEF JobStep
<1>7. ASSUME NEW t \in Texts, Peek(t) PROVE SavedInv'
  <2>1. /\ textAt[t] = "idle" /\ textTook' = [textTook EXCEPT ![t] = pendingImages]
        /\ textAt' = [textAt EXCEPT ![t] = IF pendingImages = {} THEN "queue" ELSE "take"]
        /\ overlapped' = (overlapped \/ Inside)
        /\ UNCHANGED <<jobs, pendingImages, outcomes, imagesLapsed>>
    BY <1>7 DEF Peek
  <2>2. NothingTaken'
    BY <2>1 DEF SavedInv, NothingTaken
  <2>3. ASSUME Undisturbed, ~Inside PROVE Undisturbed'
    <3>1. textTook[t] = {}
      BY <2>1 DEF SavedInv, NothingTaken
    <3>2. Safe \subseteq Safe'
      BY <2>1, <3>1 DEF Safe, InHand
    <3> QED
      BY <2>1, <2>3, <3>2 DEF Undisturbed, Inside, jobs, outcomes
  <2> QED
    BY <2>1, <2>2, <2>3 DEF SavedInv
<1>8. ASSUME NEW t \in Texts, ClearList(t) PROVE SavedInv'
  <2>1. /\ textAt[t] = "take" /\ pendingImages' = {} /\ textAt' = [textAt EXCEPT ![t] = "queue"]
        /\ UNCHANGED <<jobs, textTook, outcomes, overlapped, imagesLapsed>>
    BY <1>8 DEF ClearList
  <2>2. NothingTaken'
    BY <2>1 DEF SavedInv, NothingTaken
  <2>3. ASSUME Undisturbed PROVE Undisturbed'
    <3>1. pendingImages \subseteq InHand /\ InHand' = InHand
      BY <2>1, <2>3 DEF Undisturbed, InHand
    <3>2. Safe \subseteq Safe'
      BY <3>1 DEF Safe
    <3> QED
      BY <2>1, <2>3, <3>2 DEF Undisturbed, jobs, outcomes
  <2> QED
    BY <2>1, <2>2, <2>3 DEF SavedInv
<1>9. ASSUME NEW t \in Texts, QueueText(t) \/ EndText(t) \/ TextRaises(t) PROVE SavedInv'
  <2>1. /\ UNCHANGED <<jobs, textTook, pendingImages, acked, overlapped, imagesLapsed>>
        /\ \A u \in Texts : textAt'[u] \in {"idle", "take"} => textAt[u] = textAt'[u]
    BY <1>9 DEF QueueText, EndText, TextRaises
  <2>2. Safe' = Safe
    BY <2>1 DEF Safe, InHand
  <2> QED
    BY <2>1, <2>2 DEF SavedInv, NothingTaken, Undisturbed, jobs
<1>10. CASE ListExpires
  BY <1>10 DEF ListExpires, SavedInv, NothingTaken, texts
<1> QED
  BY <1>1, <1>3, <1>4, <1>5, <1>6, <1>7, <1>8, <1>9, <1>10, SMTT(60) DEF UploadsNext, TextStep

\* An image the user was told is saved is in the list or with a text that took it,
\* unless two accesses to the list overlapped or it expired (PendingImageStore).
THEOREM SavedKept == UploadsSpec => []SavedIsKept
<1>1. UploadsTypeOK /\ SavedInv /\ [UploadsNext]_uploadVars => (UploadsTypeOK /\ SavedInv)'
  BY UploadsTypeNext, SavedNext
<1> QED
  BY UploadsTypeInit, SavedInit, <1>1, SavedHolds, PTL DEF UploadsSpec

(***************************************************************************)
(* The parts side by side.                                                 *)
(***************************************************************************)

LEMMA ChatSteps ==
  ASSUME [MCNext]_partVars
  PROVE  [ConfirmNext]_confirmVars /\ [UploadsNext]_uploadVars /\ [SessionsNext]_sessionVars /\ [MenuNext]_menuVars
<1>1. CASE UNCHANGED partVars
  BY <1>1 DEF partVars
<1>2. CASE ConfirmationsPart
  BY <1>2 DEF ConfirmationsPart
<1>3. CASE UploadsPart
  BY <1>3 DEF UploadsPart
<1>4. CASE SessionsPart
  BY <1>4 DEF SessionsPart
<1>5. CASE MenuPart
  BY <1>5 DEF MenuPart
<1> QED
  BY <1>1, <1>2, <1>3, <1>4, <1>5 DEF MCNext

\* A behaviour of the parts side by side is one of each part: what is proved of a
\* part, from its own specification, holds in the run that checks them together.
THEOREM ChatPartsAreTheirSpecs ==
  MCSpec => ConfirmSpec /\ UploadsSpec /\ SessionsSpec /\ MenuSpec
<1>1. MCInit => ConfirmInit /\ UploadsInit /\ SessionsInit /\ MenuInit
  BY DEF MCInit
<1> QED
  BY <1>1, ChatSteps, PTL DEF MCSpec, ConfirmSpec, UploadsSpec, SessionsSpec, MenuSpec

\* Every variable of the bot's parts keeps its type.
THEOREM ChatTypesCorrect == MCSpec => []TypesOK
<1>1. ConfirmTypeOK /\ UploadsTypeOK /\ SessionsTypeOK /\ MenuTypeOK => TypesOK
  BY DEF TypesOK
<1> QED
  BY <1>1, ChatPartsAreTheirSpecs, ConfirmTypeCorrect, UploadsTypeCorrect, SessionsTypeCorrect,
     MenuTypeCorrect, PTL
====
