---- MODULE CursorAccounts ----
(***************************************************************************)
(* The Cursor accounts of the host: the registry, the auth files and the   *)
(* marks in Redis (services/cursor_accounts.py), their rotation around a   *)
(* run (queue/worker.py), and the login that waits in the background for   *)
(* the user's browser (services/cursor_account_login.py).                  *)
(*                                                                         *)
(* The worker's main loop runs one task at a time: an agent turn, a login, *)
(* its cancel, a logout, a switch.  Beside it live the monitors of logins. *)
(* An action runs from one await to the next.  An auth file is the token   *)
(* it holds: the number of the login it came from.  The worker has listed  *)
(* the accounts at its start, so every account has a file of its own.      *)
(* A call over the network, a key of Redis or a file may fail in a turn's  *)
(* choice of an account and in a monitor, which nobody waits for.          *)
(***************************************************************************)
EXTENDS Naturals, FiniteSets

CONSTANTS MaxAccount,    \* accounts are 1..MaxAccount, in order of priority
          MaxLogin,      \* logins in a behaviour
          MaxTask,       \* tasks in a behaviour
          MaxFault       \* failing calls and deaths of the worker in a behaviour

ASSUME AccountAssumption == /\ MaxAccount \in Nat \ {0}
                            /\ MaxLogin \in Nat /\ MaxTask \in Nat /\ MaxFault \in Nat

VARIABLES registry,      \* accounts.json; empty: there is no such file
          token, live,   \* auth.json of each account, and the active copy
          active,        \* tca:active_cursor_account
          exhausted,     \* tca:cursor_account_exhausted:*
          spent,         \* tokens that are used up, or revoked
          atTask, acc, ran,    \* the worker: its place, its account, the token it runs with
          login,         \* tca:cursor_login:<user>: the login waited for
          logins, monitored,   \* the logins so far; _monitor_tasks
          tasksLeft, failures,
          verdicts, excused, raised    \* history

accountFiles == <<registry, token, live>>
accountKeys  == <<active, exhausted>>
workerState  == <<atTask, acc, ran>>
loginVars    == <<login, logins, monitored>>
loginHistory == <<verdicts, excused, raised>>
accountVars  == <<accountFiles, accountKeys, spent, workerState, loginVars, tasksLeft, failures,
                  loginHistory>>

Accounts  == 1..MaxAccount
Default   == 1
NoAccount == 0
Logins    == 1..MaxLogin
NoLogin   == 0
NoAuth   == 0
AuthIds    == 0..MaxLogin + MaxAccount   \* those of the first accounts come last
FirstToken(a) == MaxLogin + a
Procs     == {"none", "running", "done", "failed"}
Monitors  == {"none", "starting", "waiting", "register", "activate", "tell", "sorry", "finish", "gone"}
NoLoginYet == [acc |-> NoAccount, proc |-> "none", mon |-> "none", late |-> FALSE]

AccountsTypeOK ==
    /\ registry \subseteq Accounts
    /\ token \in [Accounts -> AuthIds] /\ live \in AuthIds
    /\ active \in Accounts \cup {NoAccount}
    /\ exhausted \subseteq Accounts /\ spent \subseteq AuthIds
    /\ atTask \in {"idle", "heal", "usage", "rotate", "pick", "run", "rerotate", "rerun",
                   "url", "kill", "clear", "forget"}
    /\ acc \in Accounts \cup {NoAccount} /\ ran \in AuthIds
    /\ login \in Logins \cup {NoLogin} /\ monitored \in Logins \cup {NoLogin}
    /\ logins \in [Logins -> [acc : Accounts \cup {NoAccount}, proc : Procs,
                              mon : Monitors, late : BOOLEAN]]
    /\ tasksLeft \in 0..MaxTask /\ failures \in 0..MaxFault
    /\ verdicts \in [Logins -> Nat] /\ excused \subseteq Logins /\ raised \subseteq Logins

AccountsInit ==
    /\ registry = Accounts \ {MaxAccount} \/ registry = Accounts
    /\ token = [a \in Accounts |-> IF a \in registry THEN FirstToken(a) ELSE NoAuth]
    /\ live = NoAuth /\ active = NoAccount
    /\ exhausted = {} /\ spent = {}
    /\ atTask = "idle" /\ acc = NoAccount /\ ran = NoAuth
    /\ login = NoLogin /\ monitored = NoLogin
    /\ logins = [n \in Logins |-> NoLoginYet]
    /\ tasksLeft = MaxTask /\ failures = 0
    /\ verdicts = [n \in Logins |-> 0] /\ excused = {} /\ raised = {}
----
(* services/cursor_accounts.py *)

\* load_config: without a registry there is the default account alone.
Listed == IF registry = {} THEN {Default} ELSE registry
LoggedIn == live # NoAuth \/ \E a \in Listed : token[a] # NoAuth
First(S) == CHOOSE a \in S : \A b \in S : a <= b

\* get_active_account: the pointer, if it names an account.
ActiveAccount == IF active \in Listed THEN active ELSE First(Listed)

\* fetch_usage of an account without a token asks with the active copy's.
UsedFor(a) == IF token[a] # NoAuth THEN token[a] ELSE live
WellUsed(a) == UsedFor(a) # NoAuth /\ UsedFor(a) \notin spent

\* activate_account: the file is copied, the pointer set; or Redis fails
\* between the two.
Activate(a) == live' = token[a] /\ active' = a
CopyOnly(a) == live' = token[a] /\ UNCHANGED active

\* _rotate_from: the accounts after the failed one, then those before it; the
\* first that is not marked, has a token and is not used up.
Usable(a) == a \notin exhausted /\ token[a] # NoAuth /\ token[a] \notin spent
Candidates(a) == {b \in Listed \ {a} : Usable(b)}
Behind(a, S) == {b \in S : b > a}
NextAfter(a) == LET S == Candidates(a)
                IN  IF Behind(a, S) # {} THEN First(Behind(a, S)) ELSE First(S)

\* What the rotation passes on its way to an account is marked, if it is used
\* up and its usage says so.
Passed(a) == {b \in Listed \ {a} : b \notin exhausted /\ token[b] \in spent \ {NoAuth}}
----
(* The worker: a turn. *)

TakeTask == atTask = "idle" /\ tasksLeft > 0 /\ tasksLeft' = tasksLeft - 1

\* Nobody is logged in: the turn is refused.
BeginAgentTurn ==
    /\ TakeTask
    /\ atTask' = IF LoggedIn THEN "heal" ELSE "idle"
    /\ UNCHANGED <<accountFiles, accountKeys, spent, acc, ran, loginVars, failures, loginHistory>>

\* ensure_healthy_active_account: with one account there is nowhere to go.
Heal ==
    /\ atTask = "heal"
    /\ acc' = ActiveAccount
    /\ atTask' = IF Cardinality(Listed) < 2 THEN "pick"
                 ELSE IF ActiveAccount \in exhausted THEN "rotate" ELSE "usage"
    /\ UNCHANGED <<accountFiles, accountKeys, spent, ran, loginVars, tasksLeft, failures,
                   loginHistory>>

\* The usage has come: a session that is refused is not marked, a used up one is.
CheckUsage ==
    /\ atTask = "usage"
    /\ IF WellUsed(acc) THEN atTask' = "pick" /\ UNCHANGED exhausted
       ELSE /\ atTask' = "rotate"
            /\ \E marks \in {{}, {acc}} : exhausted' = exhausted \cup marks
    /\ UNCHANGED <<accountFiles, active, spent, acc, ran, loginVars, tasksLeft, failures,
                   loginHistory>>

Rotate(from, to, otherwise) ==
    /\ atTask = from
    /\ \E marks \in SUBSET Passed(acc) : exhausted' = exhausted \cup marks
    /\ IF Candidates(acc) = {}
       THEN /\ atTask' = otherwise
            /\ UNCHANGED <<live, active, acc, ran>>
       ELSE /\ Activate(NextAfter(acc))
            /\ acc' = NextAfter(acc)
            /\ ran' = token[NextAfter(acc)]
            /\ atTask' = to
    /\ UNCHANGED <<registry, token, spent, loginVars, tasksLeft, failures, loginHistory>>

RotateBefore == Rotate("rotate", "pick", "pick")

\* The run: on whatever account is active by now.  Without its file it fails.
PickAccount ==
    /\ atTask = "pick"
    /\ acc' = ActiveAccount
    /\ IF token[ActiveAccount] = NoAuth
       THEN atTask' = "idle" /\ UNCHANGED <<live, active, ran>>
       ELSE atTask' = "run" /\ Activate(ActiveAccount) /\ ran' = token[ActiveAccount]
    /\ UNCHANGED <<registry, token, exhausted, spent, loginVars, tasksLeft, failures, loginHistory>>

AccountFault == failures < MaxFault /\ failures' = failures + 1

\* What is not a CursorUsageError - an answer of the usage API that is no 200,
\* no answer, a call of Redis - goes up through ensure_healthy_active_account,
\* the activation or rotate_after_failure, and the turn has failed.
AccountRaises ==
    /\ atTask \in {"heal", "usage", "rotate", "pick", "rerotate"}
    /\ AccountFault
    /\ atTask' = "idle"
    /\ \/ /\ \E marks \in IF atTask \in {"rotate", "rerotate"} THEN SUBSET Passed(acc) ELSE {{}} :
               exhausted' = exhausted \cup marks
          /\ \/ UNCHANGED <<live, active>>
             \/ /\ atTask \in {"rotate", "rerotate"} /\ Candidates(acc) # {}
                /\ CopyOnly(NextAfter(acc))
       \/ /\ atTask = "pick" /\ token[ActiveAccount] # NoAuth
          /\ CopyOnly(ActiveAccount) /\ UNCHANGED exhausted
    /\ UNCHANGED <<registry, token, spent, acc, ran, loginVars, tasksLeft, loginHistory>>

RunSucceeds ==
    /\ atTask \in {"run", "rerun"}
    /\ atTask' = "idle"
    /\ UNCHANGED <<accountFiles, accountKeys, spent, acc, ran, loginVars, tasksLeft, failures,
                   loginHistory>>

\* classify_agent_result looks for words in what the agent has written, so any
\* answer may read like a limit.  rotate_after_failure marks the account.
RunBlamesAccount ==
    /\ atTask = "run"
    /\ IF Cardinality(Listed) < 2
       THEN atTask' = "idle" /\ UNCHANGED exhausted
       ELSE atTask' = "rerotate" /\ exhausted' = exhausted \cup {acc}
    /\ UNCHANGED <<accountFiles, active, spent, acc, ran, loginVars, tasksLeft, failures,
                   loginHistory>>

RotateAfter == Rotate("rerotate", "rerun", "idle")
----
(* The worker: the other tasks. *)

SwitchAccount(a) ==
    /\ TakeTask
    /\ IF a \in Listed /\ token[a] # NoAuth THEN Activate(a) ELSE UNCHANGED <<live, active>>
    /\ UNCHANGED <<registry, token, exhausted, spent, workerState, loginVars, failures, loginHistory>>

\* logout: the files, then the keys.
LogoutFiles ==
    /\ TakeTask
    /\ token' = [a \in Accounts |-> IF a \in Listed THEN NoAuth ELSE token[a]]
    /\ live' = NoAuth /\ registry' = {}
    /\ excused' = excused \cup {n \in Logins : logins[n].mon \in {"register", "activate"}}
    /\ atTask' = "forget"
    /\ UNCHANGED <<accountKeys, spent, acc, ran, loginVars, failures, verdicts, raised>>

LogoutKeys ==
    /\ atTask = "forget"
    /\ active' = NoAccount /\ exhausted' = {}
    /\ atTask' = "idle"
    /\ UNCHANGED <<accountFiles, spent, acc, ran, loginVars, tasksLeft, failures, loginHistory>>

\* start_login: refused while one is waited for; an old monitor is cancelled
\* before a new process is started.
Begun == {n \in Logins : logins[n].mon # "none"}
NextLogin == Cardinality(Begun) + 1
Cancelled(n) == [logins EXCEPT ![n].mon = "gone"]
\* Mutant: the old monitor lives on.
StartLoginMutant(a) ==
    /\ TakeTask
    /\ IF login # NoLogin THEN UNCHANGED <<logins, monitored, atTask, acc, excused>>
       ELSE /\ NextLogin \in Logins
            /\ logins' = [n \in Logins |->
                  IF n = NextLogin THEN [acc |-> a, proc |-> "running", mon |-> "starting", late |-> FALSE] ELSE logins[n]]
            /\ excused' = excused \cup ({monitored} \ {NoLogin})
            /\ monitored' = NoLogin
            /\ acc' = a /\ atTask' = "url"
    /\ UNCHANGED <<accountFiles, accountKeys, spent, ran, login, failures, verdicts, raised>>

StartLogin(a) ==
    /\ TakeTask
    /\ IF login # NoLogin THEN UNCHANGED <<logins, monitored, atTask, acc, excused>>
       ELSE /\ NextLogin \in Logins
            /\ logins' = [n \in Logins |->
                  IF n = NextLogin THEN [acc |-> a, proc |-> "running", mon |-> "starting", late |-> FALSE]
                  ELSE IF n = monitored THEN [logins[n] EXCEPT !.mon = "gone"] ELSE logins[n]]
            /\ excused' = excused \cup ({monitored} \ {NoLogin})
            /\ monitored' = NoLogin
            /\ acc' = a /\ atTask' = "url"
    /\ UNCHANGED <<accountFiles, accountKeys, spent, ran, login, failures, verdicts, raised>>

Newest == CHOOSE n \in Begun : \A m \in Begun : m <= n

\* The link was read: the key is set, the monitor started.
LinkShown ==
    /\ atTask = "url"
    /\ login' = Newest /\ monitored' = Newest
    /\ logins' = [logins EXCEPT ![Newest].mon = "waiting"]
    /\ atTask' = "idle"
    /\ UNCHANGED <<accountFiles, accountKeys, spent, acc, ran, tasksLeft, failures, loginHistory>>

\* There was none, and the process is terminated; or the key could not be set,
\* and it runs on.  The task fails.
NoLink ==
    /\ atTask = "url"
    /\ \/ /\ logins' = [logins EXCEPT ![Newest].mon = "gone",
                                      ![Newest].proc = IF @ = "running" THEN "failed" ELSE @]
          /\ UNCHANGED failures
       \/ logins' = [logins EXCEPT ![Newest].mon = "gone"] /\ AccountFault
    /\ excused' = excused \cup {Newest}
    /\ atTask' = "idle"
    /\ UNCHANGED <<accountFiles, accountKeys, spent, acc, ran, login, monitored, tasksLeft,
                   verdicts, raised>>

\* cancel_login: kill the process the key names, wait, ...
KillLogin ==
    /\ TakeTask
    /\ IF login = NoLogin THEN UNCHANGED <<logins, atTask>>
       ELSE /\ logins' = [logins EXCEPT ![login].proc = IF @ = "running" THEN "failed" ELSE @]
            /\ atTask' = "kill"
    /\ UNCHANGED <<accountFiles, accountKeys, spent, acc, ran, login, monitored, failures, loginHistory>>

\* ... delete the key, ...
ForgetLogin ==
    /\ atTask = "kill"
    /\ login' = NoLogin
    /\ atTask' = "clear"
    /\ UNCHANGED <<accountFiles, accountKeys, spent, acc, ran, logins, monitored, tasksLeft, failures,
                   loginHistory>>

\* ... and cancel the monitor, if it is still there.
CancelMonitor ==
    /\ atTask = "clear"
    /\ logins' = IF monitored = NoLogin THEN logins ELSE Cancelled(monitored)
    /\ excused' = excused \cup ({monitored} \ {NoLogin})
    /\ monitored' = NoLogin
    /\ atTask' = "idle"
    /\ UNCHANGED <<accountFiles, accountKeys, spent, acc, ran, login, tasksLeft, failures, verdicts, raised>>
----
(* A login's monitor. *)

Monitor(n, from, to) == /\ logins[n].mon = from
                        /\ logins' = [logins EXCEPT ![n].mon = to]

ProcessEnded(n) ==
    /\ logins[n].proc \in {"done", "failed"}
    /\ Monitor(n, "waiting", IF logins[n].proc = "done" /\ token[logins[n].acc] # NoAuth
                             THEN "register" ELSE "sorry")
    /\ UNCHANGED <<accountFiles, accountKeys, spent, workerState, login, monitored, tasksLeft,
                   failures, loginHistory>>

\* Mutant: a login whose time is over is dropped silently.
WaitTimesOutMutant(n) ==
    /\ logins[n].late /\ logins[n].mon = "waiting"
    /\ logins' = [logins EXCEPT ![n].mon = "finish", ![n].proc = IF @ = "running" THEN "failed" ELSE @]
    /\ UNCHANGED <<accountFiles, accountKeys, spent, workerState, login, monitored, tasksLeft,
                   failures, loginHistory>>

WaitTimesOut(n) ==
    /\ logins[n].late /\ logins[n].mon = "waiting"
    /\ logins' = [logins EXCEPT ![n].mon = "sorry", ![n].proc = IF @ = "running" THEN "failed" ELSE @]
    /\ UNCHANGED <<accountFiles, accountKeys, spent, workerState, login, monitored, tasksLeft,
                   failures, loginHistory>>

\* register_account: it keeps what load_config lists, the default included.
Register(n) ==
    /\ Monitor(n, "register", "activate")
    /\ registry' = Listed \cup {logins[n].acc}
    /\ UNCHANGED <<token, live, accountKeys, spent, workerState, login, monitored, tasksLeft,
                   failures, loginHistory>>

\* set_active_account, after the usage has been fetched; an account that is no
\* longer known, or has lost its file, is an error nobody is told of.
ActivateLogin(n) ==
    /\ logins[n].mon = "activate"
    /\ LET a == logins[n].acc
       IN  IF a \in Listed /\ token[a] # NoAuth
           THEN Activate(a) /\ Monitor(n, "activate", "tell")
           ELSE UNCHANGED <<live, active>> /\ Monitor(n, "activate", "finish")
    /\ UNCHANGED <<registry, token, exhausted, spent, workerState, login, monitored, tasksLeft,
                   failures, loginHistory>>

\* The monitor raises, and the user is told nothing: the registry cannot be
\* written; fetch_usage, of which only a CursorUsageError is caught, or the
\* activation fails, maybe after the file is copied; the models cannot be
\* refreshed; or neither the edit of the menu nor the message goes through.
MonitorRaises(n) ==
    /\ logins[n].mon \in {"register", "activate", "tell", "sorry"}
    /\ Monitor(n, logins[n].mon, "finish")
    /\ AccountFault /\ raised' = raised \cup {n}
    /\ \/ UNCHANGED <<live, active>>
       \/ /\ logins[n].mon = "activate"
          /\ logins[n].acc \in Listed /\ token[logins[n].acc] # NoAuth
          /\ CopyOnly(logins[n].acc)
    /\ UNCHANGED <<registry, token, exhausted, spent, workerState, login, monitored, tasksLeft,
                   verdicts, excused>>

TellVerdict(n) ==
    /\ Monitor(n, logins[n].mon, "finish") /\ logins[n].mon \in {"tell", "sorry"}
    /\ verdicts' = [verdicts EXCEPT ![n] = @ + 1]
    /\ UNCHANGED <<accountFiles, accountKeys, spent, workerState, login, monitored, tasksLeft,
                   failures, excused, raised>>

\* Mutant: the key is left.
FinishMonitorMutant(n) ==
    /\ Monitor(n, "finish", "gone")
    /\ monitored' = NoLogin
    /\ UNCHANGED <<accountFiles, accountKeys, spent, workerState, login, tasksLeft, failures, loginHistory>>

\* finally: the user's key is deleted, and the monitor forgotten.
FinishMonitor(n) ==
    /\ Monitor(n, "finish", "gone")
    /\ login' = NoLogin
    /\ monitored' = NoLogin
    /\ UNCHANGED <<accountFiles, accountKeys, spent, workerState, tasksLeft, failures, loginHistory>>

\* Redis does not delete the key: it stays until it expires.
FinishRaises(n) ==
    /\ Monitor(n, "finish", "gone")
    /\ AccountFault /\ excused' = excused \cup {n}
    /\ UNCHANGED <<accountFiles, accountKeys, spent, workerState, login, monitored, tasksLeft,
                   verdicts, raised>>
----
(* The world. *)

\* The user confirms in the browser, or the process gives up.
Browse(n) ==
    /\ logins[n].proc = "running"
    /\ \E ok \in BOOLEAN :
          /\ logins' = [logins EXCEPT ![n].proc = IF ok THEN "done" ELSE "failed"]
          /\ token' = IF ok THEN [token EXCEPT ![logins[n].acc] = n] ELSE token
    /\ UNCHANGED <<registry, live, accountKeys, spent, workerState, login, monitored, tasksLeft,
                   failures, loginHistory>>

Spend(k) ==
    /\ k \in {token[a] : a \in Accounts} \ (spent \cup {NoAuth})
    /\ spent' = spent \cup {k}
    /\ UNCHANGED <<accountFiles, accountKeys, workerState, loginVars, tasksLeft, failures, loginHistory>>

MarkLapses(a) ==
    /\ a \in exhausted
    /\ exhausted' = exhausted \ {a}
    /\ UNCHANGED <<accountFiles, active, spent, workerState, loginVars, tasksLeft, failures, loginHistory>>

\* The login's time is over for the key and, a moment later, for the monitor.
KeyLapses ==
    /\ login # NoLogin
    /\ logins' = [logins EXCEPT ![login].late = TRUE]
    /\ login' = NoLogin
    /\ UNCHANGED <<accountFiles, accountKeys, spent, workerState, monitored, tasksLeft, failures,
                   loginHistory>>

\* The worker dies, and its monitors and login processes with it.
WorkerDies ==
    /\ AccountFault
    /\ atTask' = "idle" /\ acc' = NoAccount /\ ran' = NoAuth
    /\ logins' = [n \in Logins |-> IF n \in Begun
                    THEN [logins[n] EXCEPT !.mon = "gone", !.proc = IF @ = "running" THEN "failed" ELSE @]
                    ELSE logins[n]]
    /\ monitored' = NoLogin
    /\ excused' = excused \cup Begun
    /\ UNCHANGED <<accountFiles, accountKeys, spent, login, tasksLeft, verdicts, raised>>

MonitorStep(n) == ProcessEnded(n) \/ WaitTimesOut(n) \/ Register(n) \/ ActivateLogin(n)
                  \/ TellVerdict(n) \/ FinishMonitor(n)
MainStep == \/ Heal \/ CheckUsage \/ RotateBefore \/ PickAccount \/ RunSucceeds \/ RunBlamesAccount
            \/ RotateAfter \/ LogoutKeys \/ LinkShown \/ NoLink \/ ForgetLogin \/ CancelMonitor

AccountsNext ==
    \/ MainStep \/ BeginAgentTurn \/ LogoutFiles \/ KillLogin \/ KeyLapses \/ WorkerDies
    \/ \E a \in Accounts : SwitchAccount(a) \/ StartLogin(a) \/ MarkLapses(a)
    \/ AccountRaises
    \/ \E n \in Logins : MonitorStep(n) \/ MonitorRaises(n) \/ FinishRaises(n) \/ Browse(n)
    \/ \E k \in AuthIds : Spend(k)

AccountsSpec == AccountsInit /\ [][AccountsNext]_accountVars

\* The worker's coroutines go on, and keys expire.
AccountsFairness == /\ WF_accountVars(MainStep) /\ WF_accountVars(KeyLapses)
                    /\ \A n \in Logins : WF_accountVars(MonitorStep(n))
FairAccountsSpec == AccountsSpec /\ AccountsFairness
----
(* Properties. *)

\* While a login is waited for, its key names it, so that it can be cancelled
\* and no second one begins - whatever cancels, fails and restarts came before
\* it (the finally of an older monitor deletes the same key).
Ended(n) == logins[n].late \/ atTask \in {"kill", "clear"}
LoginIsHeld == \A n \in Logins :
    logins[n].mon \in {"waiting", "register", "activate", "tell", "sorry"} => login = n \/ Ended(n)

\* A key that is left has a live monitor that will delete it, also when a call
\* of that monitor raises; or its login was cancelled, replaced or died with a
\* worker, or Redis did not delete it.
KeyHasMonitor == login # NoLogin =>
    \/ login = monitored /\ logins[login].mon # "gone"
    \/ login \in excused

\* Who was shown a link hears how it ended - whatever the browser does, and when
\* the process ends late or the key expires first - unless the login was
\* cancelled or replaced, the worker died, a logout came between the
\* registration and the activation, or a call of the monitor raised (raised).
LoginIsAnswered == \A n \in Logins :
    (logins[n].mon = "waiting") ~> (verdicts[n] > 0 \/ n \in excused \cup raised)

\* Also seen.  After a login that worked an error of the usage API, of Redis or
\* of Telegram ends the monitor, and the user hears nothing.
SuccessIsTold == \A n \in Logins :
    (logins[n].mon = "register") ~> (verdicts[n] > 0 \/ n \in excused)

\* Also seen.  An account is marked for an hour by a run that began with its
\* old token, or whose answer only reads like a limit.
MarksAreEarned == [][\A a \in exhausted' \ exhausted : token[a] \in spent]_accountVars

\* Also seen.  A cancelled login is also told to have failed.
CancelIsSilent == [][\A n \in Logins : verdicts'[n] > verdicts[n] => atTask \notin {"kill", "clear"}]_accountVars

\* Also seen.  A login whose key has expired a moment before its monitor's
\* timeout, and is replaced, leaves its process running.
OneLoginProcess == Cardinality({n \in Logins : logins[n].proc = "running"}) <= 1

\* Also seen.  Somebody else's usage: an account without a token of its own is
\* judged by the active copy's.
OwnUsage == atTask = "usage" => token[acc] # NoAuth
====
