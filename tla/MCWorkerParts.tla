---- MODULE MCWorkerParts ----
(* The parts of the worker's side that share no state, each on a small       *)
(* instance, in one run: a behaviour is one of one part, the others rest in  *)
(* one of their initial states.                                              *)
EXTENDS DeployRecovery, DeployGuard, CursorAccounts, AgentRun, LiveMessage

VARIABLE part

partVars == <<recoveryVars, guardVars, accountVars, runVars, liveVars, part>>
Parts == {"recovery", "guard", "accounts", "run", "live"}

MCSchedule(faults, deploys, scripts, messages) ==
    [faults |-> faults, deploys |-> deploys, scripts |-> scripts, messages |-> messages]
MCSchedules == {MCSchedule(3, 0, 0, 1), MCSchedule(2, 0, 0, 2), MCSchedule(0, 0, 1, 1),
                MCSchedule(2, 0, 1, 0), MCSchedule(1, 1, 0, 0), MCSchedule(0, 1, 0, 1)}

MCInit ==
    /\ part \in Parts
    /\ RecoveryInit /\ GuardInit /\ AccountsInit /\ AgentRunInit /\ LiveInit
    /\ part = "recovery" \/ left = MCSchedule(0, 1, 0, 1)
    /\ part = "guard" \/ good = 0
    /\ part = "accounts" \/ registry = Accounts
    /\ part = "run" \/ adapter = "live"
    /\ part = "live" \/ debounced

RecoveryPart == /\ part = "recovery" /\ RecoveryNext
                /\ UNCHANGED <<guardVars, accountVars, runVars, liveVars, part>>
GuardPart    == /\ part = "guard" /\ GuardNext
                /\ UNCHANGED <<recoveryVars, accountVars, runVars, liveVars, part>>
AccountsPart == /\ part = "accounts" /\ AccountsNext
                /\ UNCHANGED <<recoveryVars, guardVars, runVars, liveVars, part>>
RunPart      == /\ part = "run" /\ AgentRunNext
                /\ UNCHANGED <<recoveryVars, guardVars, accountVars, liveVars, part>>
LivePart     == /\ part = "live" /\ LiveNext
                /\ UNCHANGED <<recoveryVars, guardVars, accountVars, runVars, part>>

MCNext == RecoveryPart \/ GuardPart \/ AccountsPart \/ RunPart \/ LivePart

\* Each part's own fairness.
MCFairness ==
    /\ WF_recoveryVars(part = "recovery" /\ WorkerStep)
    /\ WF_recoveryVars(part = "recovery" /\ BotStep)
    /\ WF_recoveryVars(part = "recovery" /\ ScriptStep)
    /\ \A d \in Deploys : WF_guardVars(part = "guard" /\ GuardStep(d))
    /\ WF_guardVars(part = "guard" /\ EndTurnOfWorker)
    /\ WF_guardVars(part = "guard" /\ ReloadWorker)
    /\ WF_accountVars(part = "accounts" /\ MainStep)
    /\ WF_accountVars(part = "accounts" /\ KeyLapses)
    /\ \A n \in Logins : WF_accountVars(part = "accounts" /\ MonitorStep(n))
    /\ WF_runVars(part = "run" /\ RunStep)

MCSpec == MCInit /\ [][MCNext]_partVars /\ MCFairness

\* Every variable of every part is of its type.
TypesOK == RecoveryTypeOK /\ GuardTypeOK /\ AccountsTypeOK /\ AgentRunTypeOK /\ LiveTypeOK
====
