---- MODULE DeployRecovery ----
(***************************************************************************)
(* What survives a restart: the marker file .deploy-pending.json, its      *)
(* claimed copy, the clean-shutdown file and two Redis keys, and everybody *)
(* who writes them: the worker at the start and the end of a turn, when it *)
(* reloads and when it recovers (services/deploy_recovery.py), the deploy  *)
(* script (scripts/deploy-self.sh, deploy-notify-start.py), and the bot    *)
(* that delivers what the worker has stored.                               *)
(*                                                                         *)
(* One user.  One action stands for what an actor does between two awaits  *)
(* (in the script: between two commands); a function of deploy_resume.py   *)
(* reads and writes the file without one, and two processes are taken not  *)
(* to meet inside one (a claim's rename and its read are one step).  Of    *)
(* the notes stored for a user the delivery sends the first, which is      *)
(* always "online", so the stored list is left out.  The worker runs one   *)
(* turn at a time and the transaction that settles the rows is taken to    *)
(* succeed, so at most one row is found running (a recovery that leaves    *)
(* rows running is TurnProtocol's).                                        *)
(***************************************************************************)
EXTENDS Naturals, FiniteSets

CONSTANTS Sessions,     \* chat sessions of the user
          WithChat,     \* those whose agent chat id is known
          MaxTurn,      \* tasks a behaviour may create
          MaxAttempts,  \* MAX_RECOVERY_ATTEMPTS
          MaxToken,     \* recovery tokens a behaviour may hand out
          Schedules,    \* what a behaviour may see: [faults, deploys, scripts, messages]
          NoSession     \* a marker without a session

\* Crashes, stops and failing calls, deploys asked for in the chat and started
\* by hand, messages.
Schedule == [faults : Nat, deploys : Nat, scripts : Nat, messages : Nat]

ASSUME RecoveryAssumption ==
    /\ WithChat \subseteq Sessions /\ NoSession \notin Sessions
    /\ MaxTurn \in Nat /\ MaxAttempts \in Nat /\ MaxToken \in Nat
    /\ Schedules \subseteq Schedule

VARIABLES turns,                           \* the tasks' rows
          marker, claimFile, cleanFile,    \* files
          restartKey, readyKey,            \* Redis
          wpc, wTurn,                      \* the worker, and the turn it is in
          scan,                            \* tasks it will claim before it looks again
          wMarker, wClean, wNote, wResume, \* locals of its recovery
          wToken, bpc, bToken,             \* the markers it and the bot deliver
          dpc, dRaw,                       \* the deploy script, the marker it has read
          tokens,                          \* tokens handed out
          left,                            \* what the schedule has left
          announced, lost, warned,         \* history: of tokens and warnings,
          demises, cut, handled, dropped, cutShort   \* and of turns

files         == <<marker, claimFile, cleanFile>>
redisKeys     == <<restartKey, readyKey>>
recoveryLocals == <<wMarker, wClean, wNote, wResume>>
loopVars      == <<wTurn, scan>>
deliveryVars  == <<wToken, bpc, bToken>>
scriptVars    == <<dpc, dRaw>>
tokenHistory  == <<announced, lost, warned>>
turnHistory   == <<demises, cut, handled, dropped, cutShort>>
recoveryVars  == <<turns, files, redisKeys, wpc, loopVars, recoveryLocals, deliveryVars,
                   scriptVars, tokens, left, tokenHistory, turnHistory>>

Turns   == 1..MaxTurn
NoTurn  == 0
NoToken == 0
Tokens  == 1..MaxToken
MarkerType == [status : {"started", "session_active", "deploy_pending", "pending_resume"},
               sess : Sessions \cup {NoSession}, task : Turns \cup {NoTurn},
               recovered : BOOLEAN, token : Tokens \cup {NoToken}, notified : BOOLEAN]
NoMarker == [status |-> "none"]
Markers  == MarkerType \cup {NoMarker}
Notes    == {"none", "online", "nosession", "exhausted", "interrupted"}

\* A row: its session, recovery_attempt, and the message's or the deploy's row
\* whose work it continues (history).
Row   == [st : {"none", "pending", "running", "completed", "failed"},
          sess : Sessions \cup {NoSession}, kind : {"user", "resume", "deploy"},
          attempt : Nat, root : Turns \cup {NoTurn}]
NoRow == [st |-> "none", sess |-> NoSession, kind |-> "user", attempt |-> 0, root |-> NoTurn]

Settled      == {"store", "resume", "ready", "tell", "requeue", "stale", "clear"}
InTurn       == {"marking", "turn", "ending", "deploying"}
Serving      == InTurn \cup {"idle", "reloading"}
WorkerPlaces == Settled \cup Serving \cup {"down", "consume", "rows", "look", "send", "release"}

RecoveryTypeOK ==
    /\ turns \in [Turns -> Row]
    /\ marker \in Markers /\ claimFile \in Markers /\ cleanFile \in BOOLEAN
    /\ restartKey \in BOOLEAN /\ readyKey \in Tokens \cup {NoToken}
    /\ wpc \in WorkerPlaces /\ wTurn \in Turns \cup {NoTurn} /\ scan \subseteq Turns
    /\ wMarker \in Markers /\ wClean \in BOOLEAN
    /\ wNote \in Notes /\ wResume \in Row
    /\ wToken \in Tokens \cup {NoToken} /\ bToken \in Tokens \cup {NoToken}
    /\ bpc \in {"off", "early", "wait", "ready", "claim", "send", "release"}
    /\ dpc \in {"off", "notify", "preflight", "bot", "keys", "read", "write", "done", "failed"}
    /\ dRaw \in Markers
    /\ tokens \in 0..MaxToken /\ left \in Schedule
    /\ announced \in [Tokens \cup {NoToken} -> Nat] /\ warned \in Nat
    /\ lost \in [Tokens -> {"no", "replaced", "dropped"}]
    /\ demises \in [Turns -> Nat] /\ cut \subseteq Turns /\ handled \subseteq Turns
    /\ dropped \subseteq Turns /\ cutShort \subseteq Turns

RecoveryInit ==
    /\ turns = [t \in Turns |-> NoRow]
    /\ marker = NoMarker /\ claimFile = NoMarker /\ cleanFile = FALSE
    /\ restartKey = FALSE /\ readyKey = NoToken
    /\ wpc = "down" /\ wTurn = NoTurn /\ scan = {}
    /\ wMarker = NoMarker /\ wClean = FALSE /\ wNote = "none" /\ wResume = NoRow
    /\ wToken = NoToken /\ bpc = "early" /\ bToken = NoToken
    /\ dpc = "off" /\ dRaw = NoMarker
    /\ tokens = 0 /\ left \in Schedules
    /\ announced = [k \in Tokens \cup {NoToken} |-> 0] /\ warned = 0
    /\ lost = [k \in Tokens |-> "no"]
    /\ demises = [t \in Turns |-> 0] /\ cut = {} /\ handled = {}
    /\ dropped = {} /\ cutShort = {}
----
(* services/deploy_resume.py *)

NewMarker(status, s, t) == [status |-> status, sess |-> s, task |-> t, recovered |-> FALSE,
                            token |-> NoToken, notified |-> FALSE]
HasMarker == marker # NoMarker
Known(m)  == m # NoMarker /\ m.sess # NoSession        \* it has a telegram_id
Active(m) == m # NoMarker /\ m.status = "session_active"

\* Mutant: a marker that awaits its resume is not recovered.
ShouldRecoverMutant(m) == /\ m # NoMarker
                    /\ ~m.recovered
                    /\ m.status \in {"deploy_pending"}

ShouldRecover(m) == /\ m # NoMarker
                    /\ ~m.recovered
                    /\ m.status \in {"pending_resume", "deploy_pending"}

\* claim_deploy_start_notification: reserve the warning, if nobody has.
MayWarn(m)  == Known(m) /\ ~m.notified
Reserved(m) == IF MayWarn(m) THEN [m EXCEPT !.notified = TRUE, !.status = "deploy_pending"] ELSE m

\* update_marker_completed
Completed(m) == IF m = NoMarker THEN m ELSE [m EXCEPT !.status = "pending_resume"]

\* The rows.
Used     == {t \in Turns : turns[t].st # "none"}
Running  == {t \in Turns : turns[t].st = "running"}
NewTurn  == Cardinality(Used) + 1
CanCreate == NewTurn \in Turns
Created(r) == [turns EXCEPT ![NewTurn] = [r EXCEPT !.st = "pending"]]
Resume(s, attempt, root) == [NoRow EXCEPT !.sess = s, !.kind = "resume",
                                          !.attempt = attempt, !.root = root]

\* snapshot_running_deploy_context, and what the script falls back to.
Snapshot == IF Running = {} THEN [sess |-> NoSession, task |-> NoTurn]
            ELSE LET t == CHOOSE t \in Running : TRUE IN [sess |-> turns[t].sess, task |-> t]
----
(* History. *)

\* A marker that is written over, or removed, takes its token with it.
LoseToken(why) == lost' = [k \in Tokens |-> IF marker # NoMarker /\ marker.token = k
                                            THEN why ELSE lost[k]]
NotDelivered(token) == lost' = [k \in Tokens |-> IF k = token THEN "dropped" ELSE lost[k]]

\* The turns a recovery deals with: the row it found running, its marker's.
InRecovery == ({wTurn} \cup IF wMarker = NoMarker THEN {} ELSE {wMarker.task}) \ {NoTurn}
----
(* The user. *)

\* A row of its own begins a piece of work.
NewWork(s, kind) == Created([NoRow EXCEPT !.sess = s, !.kind = kind, !.root = NewTurn])

Message(s) ==
    /\ left.messages > 0 /\ CanCreate
    /\ left' = [left EXCEPT !.messages = @ - 1]
    /\ turns' = NewWork(s, "user")
    /\ UNCHANGED <<files, redisKeys, wpc, loopVars, recoveryLocals, deliveryVars, scriptVars,
                   tokens, tokenHistory, turnHistory>>

AskDeploy(s) ==
    /\ left.deploys > 0 /\ CanCreate
    /\ left' = [left EXCEPT !.deploys = @ - 1]
    /\ turns' = NewWork(s, "deploy")
    /\ UNCHANGED <<files, redisKeys, wpc, loopVars, recoveryLocals, deliveryVars, scriptVars,
                   tokens, tokenHistory, turnHistory>>
----
(* The worker: start, recovery. *)

\* The recovery returns, or dies: its locals are gone.
LocalsGone == wTurn' = NoTurn /\ scan' = {} /\ wMarker' = NoMarker /\ wClean' = FALSE
              /\ wNote' = "none" /\ wResume' = NoRow

\* A fresh process drops the reload request: it has the current sources.
Boot ==
    /\ wpc = "down"
    /\ wpc' = "consume" /\ restartKey' = FALSE
    /\ UNCHANGED <<turns, files, readyKey, loopVars, recoveryLocals, deliveryVars, scriptVars,
                   tokens, left, tokenHistory, turnHistory>>

\* consume_clean_shutdown and read_marker.
Consume ==
    /\ wpc = "consume"
    /\ wClean' = cleanFile /\ cleanFile' = FALSE
    /\ wMarker' = marker
    /\ wpc' = "rows"
    /\ UNCHANGED <<turns, marker, claimFile, redisKeys, loopVars, wNote, wResume, deliveryVars,
                   scriptVars, tokens, left, tokenHistory, turnHistory>>

\* The verdict on an interrupted row: its new status, what the user is told,
\* and whether its session is resumed.
ByDeploy(t) == ShouldRecover(wMarker) /\ Known(wMarker)
               /\ (wMarker.task = t \/ turns[t].kind = "deploy")
Superseded(t) == ShouldRecover(wMarker) /\ wMarker.sess = turns[t].sess
\* Mutant: a turn without a chat is failed without a word.
VerdictMutant(t) ==
    CASE ByDeploy(t) \/ turns[t].kind = "deploy"        -> [st |-> "completed", note |-> "online"]
      [] ~ByDeploy(t) /\ Superseded(t)                  -> [st |-> "failed", note |-> "none"]
      [] turns[t].sess \notin WithChat                  -> [st |-> "failed", note |-> "none"]
      [] ~wClean /\ turns[t].attempt >= MaxAttempts     -> [st |-> "failed", note |-> "exhausted"]
      [] OTHER                                          -> [st |-> "failed", note |-> "interrupted"]

Verdict(t) ==
    CASE ByDeploy(t) \/ turns[t].kind = "deploy"        -> [st |-> "completed", note |-> "online"]
      [] ~ByDeploy(t) /\ Superseded(t)                  -> [st |-> "failed", note |-> "none"]
      [] turns[t].sess \notin WithChat                  -> [st |-> "failed", note |-> "nosession"]
      [] ~wClean /\ turns[t].attempt >= MaxAttempts     -> [st |-> "failed", note |-> "exhausted"]
      [] OTHER                                          -> [st |-> "failed", note |-> "interrupted"]
\* Mutant: a resume does not count as a further attempt.
NextAttemptMutant(t) == turns[t].attempt

NextAttempt(t) == IF wClean THEN 1 ELSE turns[t].attempt + 1

\* The marker resumes this very session.
ResumesSession(t) == wMarker.sess = turns[t].sess /\ wMarker.sess \in WithChat

\* Every running row is settled, in one transaction.  Under a deploy's marker
\* no row's own note is sent: the delivery sends "online" in its place.
SettleRows ==
    /\ wpc = "rows"
    /\ turns' = [t \in Turns |-> IF t \in Running THEN [turns[t] EXCEPT !.st = Verdict(t).st]
                                                  ELSE turns[t]]
    /\ wNote' = IF Running = {} THEN "none" ELSE Verdict(CHOOSE t \in Running : TRUE).note
    /\ wResume' = LET t == CHOOSE t \in Running : TRUE
                  IN  IF Running = {} \/ ShouldRecover(wMarker) THEN NoRow
                      ELSE IF Verdict(t).note # "interrupted" THEN NoRow
                      ELSE Resume(turns[t].sess, NextAttempt(t), turns[t].root)
    /\ cut' = cut \cup {t \in Running : turns[t].kind # "deploy"}
    /\ dropped' = dropped \cup {t \in Running : ShouldRecover(wMarker) /\ ~ResumesSession(t)}
    /\ wTurn' = IF Running = {} THEN NoTurn ELSE CHOOSE t \in Running : TRUE
    /\ wpc' = IF ShouldRecover(wMarker) THEN "store" ELSE "tell"
    /\ UNCHANGED <<files, redisKeys, scan, wMarker, wClean, deliveryVars, scriptVars, tokens, left,
                   tokenHistory, demises, handled, cutShort>>

\* store_recovery_state: the marker, if it is still there, now has the notes.
FreshToken == tokens + 1
StoreNotes ==
    /\ wpc = "store"
    /\ IF HasMarker /\ marker.token = NoToken
       THEN FreshToken \in Tokens /\ tokens' = FreshToken
       ELSE tokens' = tokens
    /\ marker' = IF HasMarker THEN [marker EXCEPT !.recovered = TRUE,
                                       !.token = IF @ = NoToken THEN FreshToken ELSE @]
                              ELSE marker
    /\ wpc' = "resume"
    /\ UNCHANGED <<turns, claimFile, cleanFile, redisKeys, loopVars, recoveryLocals, deliveryVars,
                   scriptVars, left, tokenHistory, turnHistory>>

\* The marker's session is resumed, as a piece of work of its own.
ResumeDeployed ==
    /\ wpc = "resume"
    /\ IF wMarker.sess \in WithChat
       THEN /\ CanCreate /\ turns' = Created(Resume(wMarker.sess, 1, NewTurn))
            /\ handled' = handled \cup {t \in cut \cap {wTurn} : turns[t].sess = wMarker.sess}
       ELSE UNCHANGED <<turns, handled>>
    /\ wpc' = "ready"
    /\ UNCHANGED <<files, redisKeys, loopVars, recoveryLocals, deliveryVars, scriptVars, tokens, left,
                   tokenHistory, demises, cut, dropped, cutShort>>

\* The bot may deliver: the token is read from the file once more.
SetReady ==
    /\ wpc = "ready"
    /\ readyKey' = IF HasMarker /\ marker.token # NoToken THEN marker.token ELSE readyKey
    /\ wpc' = "look"
    /\ UNCHANGED <<turns, files, restartKey, loopVars, recoveryLocals, deliveryVars, scriptVars,
                   tokens, left, tokenHistory, turnHistory>>

\* No deploy: the user is told at once, if Telegram takes the message ...
TellInterrupted ==
    /\ wpc = "tell"
    /\ IF wTurn = NoTurn \/ wNote = "none"
       THEN UNCHANGED <<handled, dropped, left>>
       ELSE \/ handled' = handled \cup {wTurn} /\ UNCHANGED <<dropped, left>>
            \/ /\ left.faults > 0 /\ left' = [left EXCEPT !.faults = @ - 1]
               /\ dropped' = dropped \cup {wTurn} /\ UNCHANGED handled
    /\ wpc' = "requeue"
    /\ UNCHANGED <<turns, files, redisKeys, loopVars, recoveryLocals, deliveryVars, scriptVars,
                   tokens, tokenHistory, demises, cut, cutShort>>

\* ... the interrupted turn is queued again ...
Requeue ==
    /\ wpc = "requeue"
    /\ IF wResume = NoRow
       THEN UNCHANGED <<turns, handled>>
       ELSE CanCreate /\ turns' = Created(wResume) /\ handled' = handled \cup {wTurn}
    /\ wResume' = NoRow
    /\ wpc' = "stale"
    /\ UNCHANGED <<files, redisKeys, loopVars, wMarker, wClean, wNote, deliveryVars, scriptVars,
                   tokens, left, tokenHistory, demises, cut, dropped, cutShort>>

\* ... a session nobody has resumed for its row is resumed for its marker, as
\* if for the first time ...
AlreadyResumed == wTurn # NoTurn /\ wNote \in {"interrupted", "exhausted"}
                  /\ turns[wTurn].sess = wMarker.sess
ResumeStale ==
    /\ wpc = "stale"
    /\ IF Active(wMarker) /\ wMarker.sess \in WithChat /\ ~AlreadyResumed
       THEN CanCreate /\ turns' = Created(Resume(wMarker.sess, 1, turns[wMarker.task].root))
       ELSE turns' = turns
    /\ wpc' = "clear"
    /\ UNCHANGED <<files, redisKeys, loopVars, recoveryLocals, deliveryVars, scriptVars, tokens,
                   left, tokenHistory, turnHistory>>

\* ... and once that is queued, whatever marker there is is removed.
ClearStale ==
    /\ wpc = "clear"
    /\ IF Active(wMarker) THEN marker' = NoMarker /\ LoseToken("replaced")
                          ELSE UNCHANGED <<marker, lost>>
    /\ wpc' = "look"
    /\ UNCHANGED <<turns, claimFile, cleanFile, redisKeys, loopVars, recoveryLocals, deliveryVars,
                   scriptVars, tokens, left, announced, warned, turnHistory>>

\* A database or Redis error while a resume is queued: startup_recovery_failed.
\* What is stored is not delivered before the next start.
RecoveryFails ==
    /\ wpc \in {"resume", "ready", "requeue", "stale", "clear"} /\ left.faults > 0
    /\ left' = [left EXCEPT !.faults = @ - 1]
    /\ wpc' = "idle" /\ LocalsGone
    /\ cutShort' = cutShort \cup InRecovery /\ LoseToken("dropped")
    /\ UNCHANGED <<turns, files, redisKeys, deliveryVars, scriptVars, tokens,
                   announced, warned, demises, cut, handled, dropped>>
----
(* Delivery, by the worker or by the bot. *)

\* Mutant: the marker is copied, not renamed.
ClaimFileMutant == claimFile' = marker /\ UNCHANGED marker

\* claim_marker_for_delivery: the rename takes whatever marker is there.
ClaimFile == claimFile' = marker /\ marker' = NoMarker

\* A message is sent, or Telegram refuses it, and nobody tries again.
Announce(token) ==
    \/ announced' = [announced EXCEPT ![token] = @ + 1] /\ UNCHANGED <<lost, left>>
    \/ /\ left.faults > 0 /\ left' = [left EXCEPT !.faults = @ - 1]
       /\ NotDelivered(token) /\ UNCHANGED announced

WorkerLooks ==
    /\ wpc = "look"
    /\ LocalsGone
    /\ IF HasMarker /\ marker.recovered
       THEN ClaimFile /\ wToken' = marker.token /\ wpc' = "send"
       ELSE wpc' = "idle" /\ UNCHANGED <<marker, claimFile, wToken>>
    /\ UNCHANGED <<turns, cleanFile, redisKeys, bpc, bToken, scriptVars, tokens,
                   left, tokenHistory, turnHistory>>

WorkerSends ==
    /\ wpc = "send"
    /\ Announce(wToken)
    /\ wpc' = "release"
    /\ UNCHANGED <<turns, files, redisKeys, loopVars, recoveryLocals, deliveryVars, scriptVars, tokens,
                   warned, turnHistory>>

WorkerReleases ==
    /\ wpc = "release"
    /\ claimFile' = NoMarker
    /\ wpc' = "idle" /\ wToken' = NoToken
    /\ UNCHANGED <<turns, marker, cleanFile, redisKeys, loopVars, recoveryLocals, bpc, bToken,
                   scriptVars, tokens, left, tokenHistory, turnHistory>>

\* deliver_notifications_when_ready.  A live turn's marker means no deploy.
BotLooks ==
    /\ bpc = "early"
    /\ bpc' = IF HasMarker /\ ~marker.recovered /\ ~ShouldRecover(marker) THEN "off" ELSE "wait"
    /\ UNCHANGED <<turns, files, redisKeys, wpc, loopVars, recoveryLocals, wToken, bToken, scriptVars,
                   tokens, left, tokenHistory, turnHistory>>

BotSeesRecovery ==
    /\ bpc = "wait" /\ HasMarker /\ marker.recovered
    /\ bpc' = "ready" /\ bToken' = marker.token
    /\ UNCHANGED <<turns, files, redisKeys, wpc, loopVars, recoveryLocals, wToken, scriptVars,
                   tokens, left, tokenHistory, turnHistory>>

BotSeesReady ==
    /\ bpc = "ready" /\ readyKey = bToken
    /\ bpc' = "claim"
    /\ UNCHANGED <<turns, files, redisKeys, wpc, loopVars, recoveryLocals, wToken, bToken, scriptVars,
                   tokens, left, tokenHistory, turnHistory>>

\* Half a minute has passed, or there is nothing left to claim.
BotGivesUp ==
    /\ bpc \in {"wait", "ready"} \/ (bpc = "claim" /\ ~HasMarker)
    /\ bpc' = "off" /\ bToken' = NoToken
    /\ UNCHANGED <<turns, files, redisKeys, wpc, loopVars, recoveryLocals, wToken, scriptVars,
                   tokens, left, tokenHistory, turnHistory>>

BotClaims ==
    /\ bpc = "claim" /\ HasMarker
    /\ ClaimFile /\ bToken' = marker.token
    /\ bpc' = "send"
    /\ UNCHANGED <<turns, cleanFile, redisKeys, wpc, loopVars, recoveryLocals, wToken, scriptVars,
                   tokens, left, tokenHistory, turnHistory>>

BotSends ==
    /\ bpc = "send"
    /\ Announce(bToken)
    /\ bpc' = "release"
    /\ UNCHANGED <<turns, files, redisKeys, wpc, loopVars, recoveryLocals, wToken, bToken, scriptVars,
                   tokens, warned, turnHistory>>

BotReleases ==
    /\ bpc = "release"
    /\ claimFile' = NoMarker
    /\ bpc' = "off" /\ bToken' = NoToken
    /\ UNCHANGED <<turns, marker, cleanFile, redisKeys, wpc, loopVars, recoveryLocals, wToken,
                   scriptVars, tokens, left, tokenHistory, turnHistory>>
----
(* The worker: turns. *)

\* The loop takes an id off the queue or, when it is empty, lists what is
\* pending (_recover_pending_tasks).  Only here does it ask for a reload.
Pending == {t \in Turns : turns[t].st = "pending"}
Look ==
    /\ wpc = "idle" /\ scan = {} /\ ~restartKey
    /\ Pending # {}
    /\ scan' \in {{t} : t \in Pending} \cup {Pending}
    /\ UNCHANGED <<turns, files, redisKeys, wpc, wTurn, recoveryLocals, deliveryVars, scriptVars,
                   tokens, left, tokenHistory, turnHistory>>

\* What was taken is claimed in turn.
Claim(t) ==
    /\ wpc = "idle" /\ t \in scan /\ \A u \in scan : t <= u
    /\ turns' = [turns EXCEPT ![t].st = "running"]
    /\ scan' = scan \ {t} /\ wTurn' = t
    /\ wpc' = IF turns[t].kind = "resume" THEN "turn" ELSE "marking"
    /\ UNCHANGED <<files, redisKeys, recoveryLocals, deliveryVars, scriptVars, tokens, left,
                   tokenHistory, turnHistory>>

\* write_marker, over whatever is there: of a user's turn, or of the deploy
\* that the task now runs (DeployService.trigger).
WriteMarker ==
    /\ wpc = "marking"
    /\ LoseToken("replaced")
    /\ IF turns[wTurn].kind = "deploy"
       THEN /\ dpc \in {"off", "done", "failed"}
            /\ marker' = NewMarker("started", turns[wTurn].sess, wTurn)
            /\ dpc' = "notify" /\ wpc' = "deploying"
       ELSE /\ marker' = NewMarker("session_active", turns[wTurn].sess, wTurn)
            /\ wpc' = "turn" /\ UNCHANGED dpc
    /\ UNCHANGED <<turns, claimFile, cleanFile, redisKeys, loopVars, recoveryLocals, deliveryVars,
                   dRaw, tokens, left, announced, warned, turnHistory>>

\* _clear_session_marker: only a marker of this very turn, still only active.
EndTurn ==
    /\ wpc = "turn"
    /\ marker' = IF Active(marker) /\ marker.task = wTurn /\ turns[wTurn].kind = "user"
                 THEN NoMarker ELSE marker
    /\ wpc' = "ending"
    /\ UNCHANGED <<turns, claimFile, cleanFile, redisKeys, loopVars, recoveryLocals, deliveryVars,
                   scriptVars, tokens, left, tokenHistory, turnHistory>>

\* A turn that raises, other than by its timeout, does not get there.
TurnRaises ==
    /\ wpc = "turn" /\ left.faults > 0
    /\ left' = [left EXCEPT !.faults = @ - 1]
    /\ wpc' = "ending"
    /\ UNCHANGED <<turns, files, redisKeys, loopVars, recoveryLocals, deliveryVars, scriptVars,
                   tokens, tokenHistory, turnHistory>>

\* The script of the task has ended: update_marker_completed if it went well.
EndDeploy ==
    /\ wpc = "deploying" /\ dpc \in {"done", "failed"}
    /\ marker' = IF dpc = "done" THEN Completed(marker) ELSE marker
    /\ dpc' = "off"
    /\ wpc' = "ending"
    /\ UNCHANGED <<turns, claimFile, cleanFile, redisKeys, loopVars, recoveryLocals, deliveryVars,
                   dRaw, tokens, left, tokenHistory, turnHistory>>

FinishRow ==
    /\ wpc = "ending"
    /\ \E st \in {"completed", "failed"} : turns' = [turns EXCEPT ![wTurn].st = st]
    /\ wTurn' = NoTurn /\ wpc' = "idle"
    /\ UNCHANGED <<files, redisKeys, scan, recoveryLocals, deliveryVars, scriptVars, tokens, left,
                   tokenHistory, turnHistory>>

\* _reexec_for_reload: a requested one prepares the marker for recovery; the
\* warning is reserved, sent, and then the marker completed.
Reload ==
    /\ wpc = "idle" /\ scan = {} /\ restartKey
    /\ IF Known(marker)
       THEN /\ marker' = Reserved(marker)
            /\ warned' = IF MayWarn(marker) THEN warned + 1 ELSE warned
            /\ wpc' = "reloading" /\ UNCHANGED restartKey
       ELSE /\ restartKey' = FALSE
            /\ wpc' = "down" /\ UNCHANGED <<marker, warned>>
    /\ UNCHANGED <<turns, claimFile, cleanFile, readyKey, loopVars, recoveryLocals, deliveryVars,
                   scriptVars, tokens, left, announced, lost, turnHistory>>

Reexec ==
    /\ wpc = "reloading"
    /\ marker' = Completed(marker) /\ restartKey' = FALSE
    /\ wpc' = "down"
    /\ UNCHANGED <<turns, claimFile, cleanFile, readyKey, loopVars, recoveryLocals, deliveryVars,
                   scriptVars, tokens, left, tokenHistory, turnHistory>>

\* The process dies; on SIGTERM it leaves the clean-shutdown file.  The sources
\* may also have changed under an idle worker: it then starts anew unasked.
Stop(clean) ==
    /\ wpc # "down" /\ left.faults > 0
    /\ left' = [left EXCEPT !.faults = @ - 1]
    /\ cleanFile' = (cleanFile \/ clean)
    /\ wpc' = "down" /\ LocalsGone /\ wToken' = NoToken
    /\ demises' = IF clean THEN [r \in Turns |-> 0]
                  ELSE IF wpc \in InTurn THEN [demises EXCEPT ![turns[wTurn].root] = @ + 1]
                  ELSE demises
    /\ cutShort' = IF wpc \in Settled THEN cutShort \cup InRecovery ELSE cutShort
    /\ IF wpc = "send" THEN NotDelivered(wToken) ELSE UNCHANGED lost
    /\ UNCHANGED <<turns, marker, claimFile, redisKeys, bpc, bToken, scriptVars, tokens,
                   announced, warned, cut, handled, dropped>>
----
(* scripts/deploy-self.sh *)

\* Somebody, or the agent in its turn, starts it by hand.
StartScript ==
    /\ dpc \in {"off", "done", "failed"} /\ wpc # "deploying"
    /\ left.scripts > 0
    /\ left' = [left EXCEPT !.scripts = @ - 1]
    /\ dpc' = "notify"
    /\ UNCHANGED <<turns, files, redisKeys, wpc, loopVars, recoveryLocals, deliveryVars, dRaw, tokens,
                   tokenHistory, turnHistory>>

\* deploy-notify-start.py: ensure_marker for the running turn, then the warning.
\* A marker without a chat has no fields worth keeping, and is written anew.
Ensured == IF ~Known(marker) /\ Running # {} THEN NewMarker("started", Snapshot.sess, Snapshot.task)
           ELSE marker
NotifyStart ==
    /\ dpc = "notify"
    /\ marker' = Reserved(Ensured)
    /\ warned' = IF MayWarn(Ensured) THEN warned + 1 ELSE warned
    /\ IF Ensured = marker THEN UNCHANGED lost ELSE LoseToken("replaced")
    /\ dpc' = "preflight"
    /\ UNCHANGED <<turns, claimFile, cleanFile, redisKeys, wpc, loopVars, recoveryLocals, deliveryVars,
                   dRaw, tokens, left, announced, turnHistory>>

Preflight ==
    /\ dpc = "preflight"
    /\ dpc' \in {"bot", "failed"}
    /\ UNCHANGED <<turns, files, redisKeys, wpc, loopVars, recoveryLocals, deliveryVars, dRaw, tokens,
                   left, tokenHistory, turnHistory>>

RecreateBot ==
    /\ dpc = "bot"
    /\ dpc' = "keys" /\ bpc' = "early" /\ bToken' = NoToken
    /\ IF bpc = "send" THEN NotDelivered(bToken) ELSE UNCHANGED lost
    /\ UNCHANGED <<turns, files, redisKeys, wpc, loopVars, recoveryLocals, wToken, dRaw,
                   tokens, left, announced, warned, turnHistory>>

RequestRestart ==
    /\ dpc = "keys"
    /\ readyKey' = NoToken /\ restartKey' = TRUE
    /\ dpc' = "read"
    /\ UNCHANGED <<turns, files, wpc, loopVars, recoveryLocals, deliveryVars, dRaw, tokens, left,
                   tokenHistory, turnHistory>>

\* The marker is read, the database asked for the session's chat, ...
ReadMarker ==
    /\ dpc = "read"
    /\ dRaw' = IF HasMarker THEN marker ELSE NewMarker("pending_resume", Snapshot.sess, Snapshot.task)
    /\ dpc' = "write"
    /\ UNCHANGED <<turns, files, redisKeys, wpc, loopVars, recoveryLocals, deliveryVars, tokens, left,
                   tokenHistory, turnHistory>>

\* ... and what was read is written back with a token of its own.
WritePending ==
    /\ dpc = "write"
    /\ FreshToken \in Tokens
    /\ tokens' = FreshToken
    /\ marker' = [dRaw EXCEPT !.status = "pending_resume", !.token = FreshToken]
    /\ LoseToken("replaced")
    /\ dpc' = "done" /\ dRaw' = NoMarker
    /\ UNCHANGED <<turns, claimFile, cleanFile, redisKeys, wpc, loopVars, recoveryLocals, deliveryVars,
                   left, announced, warned, turnHistory>>
----
RecoveryStep == \/ Consume \/ SettleRows \/ StoreNotes \/ ResumeDeployed \/ SetReady
                \/ TellInterrupted \/ Requeue \/ ResumeStale \/ ClearStale
WorkerStep   == \/ Boot \/ RecoveryStep \/ WorkerLooks \/ WorkerSends \/ WorkerReleases
                \/ Look \/ WriteMarker \/ EndTurn \/ EndDeploy \/ FinishRow \/ Reload \/ Reexec
                \/ \E t \in Turns : Claim(t)
BotStep      == \/ BotLooks \/ BotSeesRecovery \/ BotSeesReady \/ BotGivesUp
                \/ BotClaims \/ BotSends \/ BotReleases
ScriptStep   == \/ NotifyStart \/ Preflight \/ RecreateBot \/ RequestRestart
                \/ ReadMarker \/ WritePending

RecoveryNext ==
    \/ WorkerStep \/ BotStep \/ ScriptStep \/ RecoveryFails \/ TurnRaises \/ StartScript
    \/ \E s \in Sessions : Message(s) \/ AskDeploy(s)
    \/ \E clean \in BOOLEAN : Stop(clean)

RecoverySpec == RecoveryInit /\ [][RecoveryNext]_recoveryVars

\* systemd starts a dead worker, its loop never waits for ever, a script's
\* commands end, and the bot's half minutes pass.
RecoveryFairness == WF_recoveryVars(WorkerStep) /\ WF_recoveryVars(BotStep)
                    /\ WF_recoveryVars(ScriptStep)
FairRecoverySpec == RecoverySpec /\ RecoveryFairness
----
(* Properties. *)

\* What is stored under one token is sent once, by the worker or by the bot,
\* whoever renames the file first (claim_marker_for_delivery, release_claim).
DeliveredOnce == \A k \in Tokens : announced[k] <= 1

\* The work of turns whose recovery was cut short: the process stopped, or the
\* recovery raised, between the settled rows and the cleared marker.
Loose == {turns[t].root : t \in cutShort}

\* A turn that dies on its own is not queued for ever.  What a message or a
\* deploy has begun, the turn and all resumes of it, dies with the worker at
\* most MaxAttempts + 1 times since the last clean stop, unless a recovery of it
\* was itself cut short (_recovery_attempt, recover_tasks_on_startup).
CrashBudget == \A r \in Turns : demises[r] <= MaxAttempts + 1 \/ r \in Loose

\* When the worker serves again, the user of every turn that was cut off has
\* been told of it, or the turn's session has its resume queued, unless the
\* recovery was cut short after the rows were settled, Telegram refused the
\* note, or a deploy's recovery of another session sent "online" in its place.
InterruptedIsHandled == wpc \in Serving => cut \subseteq handled \cup dropped \cup cutShort

\* The marker of a deploy that a task has run to its end is announced in the
\* chat, under the token the script gave it, whatever stops the worker
\* meanwhile, unless that very marker is written over or removed, or the one
\* attempt to deliver it is cut off, fails, or is skipped by a failed recovery.
DeployIsAnnounced ==
    \A k \in Tokens : (wpc = "deploying" /\ dpc = "done" /\ marker # NoMarker /\ marker.token = k)
                          ~> (announced[k] > 0 \/ lost[k] # "no")

\* Also seen.  The budget without its excuse: a crash between the resume and the
\* removal of the marker leaves a second resume, counted from one again.
CrashBudgetAlways == \A r \in Turns : demises[r] <= MaxAttempts + 1

\* Also seen.  An interrupted turn neither told of nor resumed, though its recovery
\* was not cut short: Telegram refused its note, or a deploy of another session
\* was recovered.
InterruptedIsHandledAlways == wpc \in Serving => cut \subseteq handled \cup cutShort

\* Also seen.  A message's turn, claimed in the same scan as the deploy, writes
\* its own marker over the deploy's.
DeployMarkerKept == \A k \in Tokens : lost[k] = "no" \/ announced[k] > 0

\* Also seen.  "Exactly one process wins the claim and the user never gets
\* duplicates" (deploy_resume.py): a deploy, asked for once, announced twice.
OnlineOnce == Cardinality({k \in Tokens \cup {NoToken} : announced[k] > 0}) <= 1

\* Also seen.  "Reserve the right to send the deploy warning exactly once".
WarnedOnce == warned <= 1

\* Also seen.  A crash between the resume and the removal of the marker leaves
\* two resumes of one turn.
ResumedOnce == \A s \in Sessions : Cardinality({t \in Used : turns[t].kind = "resume"
                    /\ turns[t].sess = s /\ turns[t].st = "pending"}) <= 1
====
