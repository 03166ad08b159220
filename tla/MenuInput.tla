---- MODULE MenuInput ----
(***************************************************************************)
(* The menu's question: telegram/menu_input.py keeps one key per chat in   *)
(* Redis that says what the user has been asked for - a session's new name *)
(* or whom to give access - and handle_text_message gives the next text to *)
(* it instead of the agent.                                                *)
(*                                                                         *)
(* Presses and texts are handled by coroutines; the key is read, written   *)
(* and deleted in round trips of their own, and what an answer changes is  *)
(* committed when its handler returns.  One owner and one guest; of a text *)
(* it is kept whether it will do.  The buttons that leave the key alone    *)
(* (models, projects, accounts) and the commands with a handler of their   *)
(* own change nothing here and are left out.                               *)
(***************************************************************************)
EXTENDS Naturals, FiniteSets

CONSTANTS MenuUpdates,   \* presses and texts being handled, one or several at once
          Named,         \* sessions in the list
          MaxAsk         \* questions a behaviour may ask

ASSUME MenuAssumption == MaxAsk \in Nat /\ Named \cap {"access", "unasked"} = {}

VARIABLES input,         \* the key: the question an answer is waited for
          subject,       \* what each question is about
          prompts,       \* questions whose screen, with its Back button, is shown
          named,         \* committed title of each session: the question it answered
          deleted,       \* committed: deleted sessions
          guest,         \* committed row of the guest
          menuAt, menuAsk, menuWrite,  \* a handler's place, its question, its write
          backed         \* history: questions shown before a menu button was handled

menuRows   == <<named, deleted, guest>>
menuLocals == <<menuAt, menuAsk, menuWrite>>
menuVars   == <<input, subject, prompts, menuRows, menuLocals, backed>>

Asks     == 1..MaxAsk
NoAsk    == 0
Changes  == {"name", "grant", "insert", "delete", "revoke"}
NoWrite  == [change |-> "none", row |-> "guest"]

MenuTypeOK ==
    /\ input \in Asks \cup {NoAsk}
    /\ subject \in [Asks -> Named \cup {"access", "unasked"}]
    /\ prompts \subseteq Asks /\ backed \subseteq Asks
    /\ named \in [Named -> Asks \cup {NoAsk}] /\ deleted \subseteq Named
    /\ guest \in {"unknown", "in", "out"}
    /\ menuAt \in [MenuUpdates -> {"idle", "set", "show", "apply", "write", "clear", "answer", "done"}]
    /\ menuAsk \in [MenuUpdates -> Asks \cup {NoAsk}]
    /\ menuWrite \in [MenuUpdates -> [change : Changes \cup {"none"}, row : Named \cup {"guest"}]]

MenuInit ==
    /\ input = NoAsk /\ subject = [n \in Asks |-> "unasked"] /\ prompts = {}
    /\ named = [s \in Named |-> NoAsk] /\ deleted = {}
    /\ guest \in {"unknown", "in", "out"}
    /\ menuAt = [h \in MenuUpdates |-> "idle"] /\ menuAsk = [h \in MenuUpdates |-> NoAsk]
    /\ menuWrite = [h \in MenuUpdates |-> NoWrite]
    /\ backed = {}
----
MenuGoto(h, pc) == menuAt' = [menuAt EXCEPT ![h] = pc]

\* A handler has read the row and is going to change it.
Plan(h, change, row) == /\ menuWrite' = [menuWrite EXCEPT ![h] = [change |-> change, row |-> row]]
                        /\ MenuGoto(h, "write")

\* The change is flushed: a row that another handler has written and not
\* committed is waited for, a row it has inserted meanwhile is an error.
RowWritten(g, row) == menuAt[g] \in {"clear", "answer"} /\ menuWrite[g].change # "none"
                   /\ menuWrite[g].row = row
Write(h) ==
    /\ menuAt[h] = "write"
    /\ ~\E g \in MenuUpdates : RowWritten(g, menuWrite[h].row)
    /\ IF menuWrite[h].change = "insert" /\ guest # "unknown"
       THEN MenuGoto(h, "done") /\ menuWrite' = [menuWrite EXCEPT ![h] = NoWrite]
       ELSE MenuGoto(h, IF menuAsk[h] = NoAsk THEN "answer" ELSE "clear") /\ UNCHANGED menuWrite
    /\ UNCHANGED <<input, subject, prompts, menuRows, menuAsk, backed>>

\* A question of its own, about x; it is not asked yet.
NextAsk == Cardinality({n \in Asks : subject[n] # "unasked"}) + 1
Asking(h, x) ==
    /\ menuAt[h] = "idle" /\ NextAsk \in Asks
    /\ subject' = [subject EXCEPT ![NextAsk] = x]
    /\ menuAsk' = [menuAsk EXCEPT ![h] = NextAsk]
    /\ MenuGoto(h, "set")
    /\ UNCHANGED <<prompts, menuRows, menuWrite>>

\* session:rename - the one session button that does not clear the key first.
AskName(h, s) == Asking(h, s) /\ UNCHANGED <<input, backed>>

\* Every other button of the menu does: whatever was asked is not asked any more.
ClearKey == input' = NoAsk /\ backed' = backed \cup prompts

\* menu:act:access_add
AskAccess(h) == Asking(h, "access") /\ ClearKey

\* The key is set, ...
SetInput(h) ==
    /\ menuAt[h] = "set"
    /\ input' = menuAsk[h]
    /\ MenuGoto(h, "show")
    /\ UNCHANGED <<subject, prompts, menuRows, menuAsk, menuWrite, backed>>

\* ... and the screen edited; Telegram may refuse.
ShowPrompt(h) ==
    /\ menuAt[h] = "show"
    /\ \/ prompts' = prompts \cup {menuAsk[h]}
       \/ UNCHANGED prompts
    /\ MenuGoto(h, "done")
    /\ UNCHANGED <<input, subject, menuRows, menuAsk, menuWrite, backed>>

\* A button that goes elsewhere, Back among them.
Back(h) ==
    /\ menuAt[h] = "idle" /\ ClearKey
    /\ MenuGoto(h, "done")
    /\ UNCHANGED <<subject, prompts, menuRows, menuAsk, menuWrite>>

\* session:delete and menu:access:rm: the key, then the row.
PressDelete(h, s) ==
    /\ menuAt[h] = "idle" /\ ClearKey
    /\ IF s \in deleted THEN MenuGoto(h, "done") /\ UNCHANGED menuWrite
                        ELSE Plan(h, "delete", s)
    /\ UNCHANGED <<subject, prompts, menuRows, menuAsk>>
PressRevoke(h) ==
    /\ menuAt[h] = "idle" /\ ClearKey
    /\ IF guest # "in" THEN MenuGoto(h, "done") /\ UNCHANGED menuWrite
                       ELSE Plan(h, "revoke", "guest")
    /\ UNCHANGED <<subject, prompts, menuRows, menuAsk>>

\* A text that begins with a slash, and is no command of the bot, drops the
\* question and goes to the agent.
SlashText(h) ==
    /\ menuAt[h] = "idle"
    /\ input' = NoAsk
    /\ MenuGoto(h, "done")
    /\ UNCHANGED <<subject, prompts, menuRows, menuAsk, menuWrite, backed>>

\* A text while a question waits: the key is read.
PeekInput(h) ==
    /\ menuAt[h] = "idle" /\ input # NoAsk
    /\ menuAsk' = [menuAsk EXCEPT ![h] = input]
    /\ MenuGoto(h, "apply")
    /\ UNCHANGED <<input, subject, prompts, menuRows, menuWrite, backed>>

\* Mutant: the question is put again.
RefuseAnswerMutant(h) == MenuGoto(h, "answer") /\ input' = menuAsk[h] /\ UNCHANGED menuWrite

\* The answer will not do: the user is told, and the question stays as it is.
RefuseAnswer(h) == MenuGoto(h, "answer") /\ UNCHANGED <<input, menuWrite>>

\* SessionService.rename: the session may be gone, the name empty.
ApplyName(h) ==
    /\ menuAt[h] = "apply"
    /\ LET s == subject[menuAsk[h]]
       IN  /\ s \in Named
           /\ \/ RefuseAnswer(h)
              \/ s \notin deleted /\ Plan(h, "name", s) /\ UNCHANGED input
    /\ UNCHANGED <<subject, prompts, menuRows, menuAsk, backed>>

\* AccessService.grant.  Who has access already, an owner or the guest, is not
\* written again; a guest who never wrote to the bot gets a row.
ApplyGrant(h) ==
    /\ menuAt[h] = "apply" /\ subject[menuAsk[h]] = "access"
    /\ \/ RefuseAnswer(h)
       \/ MenuGoto(h, "clear") /\ UNCHANGED <<input, menuWrite>>
       \/ /\ guest # "in" /\ UNCHANGED input
          /\ Plan(h, IF guest = "out" THEN "grant" ELSE "insert", "guest")
    /\ UNCHANGED <<subject, prompts, menuRows, menuAsk, backed>>

\* Done: the key is deleted, whatever is in it by now.
ClearInput(h) ==
    /\ menuAt[h] = "clear"
    /\ input' = NoAsk
    /\ MenuGoto(h, "answer")
    /\ UNCHANGED <<subject, prompts, menuRows, menuAsk, menuWrite, backed>>

\* The middleware.
CommitAnswer(h) ==
    /\ menuAt[h] = "answer"
    /\ LET w == menuWrite[h]
       IN  /\ named' = IF w.change = "name" THEN [named EXCEPT ![w.row] = menuAsk[h]] ELSE named
           /\ deleted' = IF w.change = "delete" THEN deleted \cup {w.row} ELSE deleted
           /\ guest' = IF w.change \in {"grant", "insert"} THEN "in"
                       ELSE IF w.change = "revoke" THEN "out" ELSE guest
    /\ menuWrite' = [menuWrite EXCEPT ![h] = NoWrite]
    /\ MenuGoto(h, "done")
    /\ UNCHANGED <<input, subject, prompts, menuAsk, backed>>

\* Telegram refuses the reply: the session is rolled back, the key is not.
RollbackAnswer(h) ==
    /\ menuAt[h] = "answer"
    /\ menuWrite' = [menuWrite EXCEPT ![h] = NoWrite]
    /\ MenuGoto(h, "done")
    /\ UNCHANGED <<input, subject, prompts, menuRows, menuAsk, backed>>

\* The key's ten minutes are over.
InputExpires ==
    /\ input # NoAsk /\ input' = NoAsk
    /\ UNCHANGED <<subject, prompts, menuRows, menuLocals, backed>>

MenuStep(h) ==
    \/ AskAccess(h) \/ SetInput(h) \/ ShowPrompt(h) \/ Back(h) \/ PressRevoke(h) \/ SlashText(h)
    \/ Write(h) \/ PeekInput(h) \/ ApplyName(h) \/ ApplyGrant(h) \/ ClearInput(h) \/ CommitAnswer(h)
    \/ RollbackAnswer(h)
    \/ \E s \in Named : AskName(h, s) \/ PressDelete(h, s)

MenuNext == InputExpires \/ \E h \in MenuUpdates : MenuStep(h)

MenuSpec == MenuInit /\ [][MenuNext]_menuVars
----
(* Properties. *)

\* The rename screen says: "Back cancels the rename" (session_commands.py:359).
\* A question whose screen was shown when a menu button was handled is never
\* waited for again, whatever texts were being answered meanwhile.
BackCancels == input \notin backed

\* Also seen.  The end of one answer deletes the question asked meanwhile.
OwnQuestion == [][\A h \in MenuUpdates : ClearInput(h) => input \in {menuAsk[h], NoAsk}]_menuVars

\* Also seen.  Two texts at once answer one question.
OneAnswer == \A g, h \in MenuUpdates : g # h /\ menuAt[g] = "write" /\ menuAt[h] = "write"
                => menuAsk[g] = NoAsk \/ menuAsk[g] # menuAsk[h]

\* Also seen.  An answer being handled gives back the access a press has taken.
RevokedStays == [][\A h \in MenuUpdates : CommitAnswer(h) /\ menuWrite[h].change = "grant"
                                            => menuAsk[h] \notin backed]_menuVars
====
