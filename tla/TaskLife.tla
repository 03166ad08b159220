------------------------------ MODULE TaskLife ------------------------------
(***************************************************************************)
(* What one session's tasks promise, whatever the bot, the queue, the      *)
(* redirects and the restarts do underneath: a task waits, has at most one *)
(* turn and is over; one turn at a time; the user hears of a task's end    *)
(* after it, and hears of it once.                                         *)
(***************************************************************************)
EXTENDS Naturals

CONSTANT Tasks

VARIABLES
    life,   \* where each task stands
    told    \* tasks whose end the user has been told of

vars == <<life, told>>

Lives == {"absent", "waiting", "merged", "active", "over"}

\* A waiting task merged into another is not run, as a rule; the worker may
\* have picked it up just before.
Moves == {<<"absent", "waiting">>, <<"waiting", "merged">>,
          <<"waiting", "active">>, <<"merged", "active">>, <<"active", "over">>}

Init ==
    /\ life = [t \in Tasks |-> "absent"]
    /\ told = {}

OneTurnAtATime(l) ==
    \A t, u \in Tasks : l[t] = "active" /\ l[u] = "active" => t = u

\* One transaction may end stale turns, merge waiting tasks and create one.
Move ==
    /\ life' \in [Tasks -> Lives]
    /\ \A t \in Tasks : life'[t] # life[t] => <<life[t], life'[t]>> \in Moves
    /\ OneTurnAtATime(life')
    /\ UNCHANGED told

Tell(t) ==
    /\ life[t] = "over"
    /\ t \notin told
    /\ told' = told \cup {t}
    /\ UNCHANGED life

Next == Move \/ \E t \in Tasks : Tell(t)

Spec == Init /\ [][Next]_vars
=============================================================================
