---- MODULE LiveMessage ----
(***************************************************************************)
(* The live message of a turn: one message ("bubble") in the chat that     *)
(* shows the agent's progress, is replaced in place, follows the user's    *)
(* messages, and is removed when the answer comes                          *)
(* (telegram/live_message.py, telegram/session_live.py, and the turn in    *)
(* queue/worker.py that drives them; the chat is Telegram's).              *)
(*                                                                         *)
(* Four coroutines of the worker write to the bubble: the turn, which      *)
(* reads the agent's stream; OpenCode's watcher of running tools; the poll *)
(* for a redirect, which tells of it; and the flusher of debounced         *)
(* displays.  In the bot, handlers of the user's messages move the bubble  *)
(* below what the user has written.  A call to Telegram or Redis takes     *)
(* effect in the step that ends its await.  A text is shown once: that the *)
(* same status may come twice in a row is left out, and so is a blank      *)
(* answer when there is no bubble, of which Telegram is sent nothing.      *)
(***************************************************************************)
EXTENDS Naturals, Sequences, FiniteSets

CONSTANTS MaxBubble,       \* messages posted for progress in a behaviour
          MaxUpdate,       \* updates of the agent's progress
          MaxChunk,        \* messages the answer is split into
          MaxRefusal,      \* calls to Telegram that fail
          Movers           \* handlers of the user's messages

ASSUME LiveAssumption == /\ MaxBubble \in Nat /\ MaxUpdate \in Nat
                         /\ MaxChunk \in Nat \ {0} /\ MaxRefusal \in Nat

VARIABLES chat, posted,         \* the bubbles in the chat; how many were sent so far
          shown,                \* the answer's chunks the chat has received
          liveRef,              \* tca:session:<id>:live_message
          bubble, lastText,     \* LiveMessageNotifier._message_id, _last_text
          display,              \* _pending_display
          persisted,            \* live_ref_persisted
          debounced,            \* tool calls are shown live, with a debounce
          writer,               \* the four coroutines: place, target and text
          atTurn, chunk,        \* the turn's place; the next chunk
          updates, refusals,    \* updates so far; failed calls so far
          mover,                \* the handlers: place and the bubble they read
          moved                 \* history: a handler has moved the bubble

chatVars  == <<chat, posted, shown>>
liveState == <<bubble, lastText, display, persisted>>
turnState == <<atTurn, chunk, updates>>
moveVars  == <<mover, moved>>
liveVars  == <<chatVars, liveRef, liveState, debounced, writer, turnState, refusals, moveVars>>

Bubbles   == 1..MaxBubble
NoBubble  == 0
NoText    == 0
Thinking  == 1                       \* THINKING_STATUS_TEXT
Texts     == 1..MaxUpdate + 1
Coroutines == {"turn", "watch", "poll", "flush"}
AtRest    == [at |-> "idle", target |-> NoBubble, text |-> NoText]

LiveTypeOK ==
    /\ chat \subseteq Bubbles /\ posted \in 0..MaxBubble
    /\ shown \in Seq(1..MaxChunk)
    /\ liveRef \in Bubbles \cup {NoBubble} /\ bubble \in Bubbles \cup {NoBubble}
    /\ lastText \in Texts \cup {NoText} /\ display \in Texts \cup {NoText}
    /\ persisted \in BOOLEAN /\ debounced \in BOOLEAN
    /\ writer \in [Coroutines -> [at : {"idle", "sleep", "send", "edit", "ref"},
                                  target : Bubbles \cup {NoBubble}, text : Texts \cup {NoText}]]
    /\ atTurn \in {"begin", "run", "cancelled", "failed", "flush", "final", "delete",
                   "plain", "over", "clean", "mute", "ended"}
    /\ chunk \in 1..MaxChunk + 1
    /\ updates \in 0..MaxUpdate /\ refusals \in 0..MaxRefusal
    /\ mover \in [Movers -> [at : {"idle", "delete", "send", "set", "done"},
                             seen : Bubbles \cup {NoBubble}]]
    /\ moved \in BOOLEAN

LiveInit ==
    /\ chat = {} /\ posted = 0 /\ shown = <<>>
    /\ liveRef = NoBubble
    /\ bubble = NoBubble /\ lastText = NoText /\ display = NoText /\ persisted = FALSE
    /\ debounced \in BOOLEAN
    /\ writer = [c \in Coroutines |-> AtRest]
    /\ atTurn = "begin" /\ chunk = 1
    /\ updates = 0 /\ refusals = 0
    /\ mover = [h \in Movers |-> [at |-> "idle", seen |-> NoBubble]] /\ moved = FALSE
----
(* Telegram *)

Post(n) == /\ posted < MaxBubble
           /\ n = posted + 1 /\ posted' = n /\ chat' = chat \cup {n}

Refused == refusals < MaxRefusal /\ refusals' = refusals + 1
----
(* LiveMessageNotifier._apply_live_text, up to its first call to Telegram.  *)

\* The call that shows a text: a first message, or one in place of the bubble's.
Showing(b, text) == [at |-> IF b = NoBubble THEN "send" ELSE "edit", target |-> b, text |-> text]

\* A text that is shown already is not sent again - nor one whose call failed.
Apply(c, text, then) ==
    IF text = lastText
    THEN writer' = [writer EXCEPT ![c] = [AtRest EXCEPT !.at = then]] /\ UNCHANGED lastText
    ELSE /\ lastText' = text
         /\ writer' = [writer EXCEPT ![c] = Showing(bubble, text)]

\* Where a coroutine goes after its call: to the reference in Redis, or home.
After(c) == IF c = "flush" \/ atTurn \in {"begin", "flush"} THEN "idle" ELSE "ref"
Rest(c) == writer' = [writer EXCEPT ![c] = [AtRest EXCEPT !.at = After(c)]]

\* Only the push that precedes an answer lets its error through.
CallFails(c) == /\ Refused
                /\ atTurn' = IF c = "turn" /\ atTurn = "flush" THEN "plain" ELSE atTurn

\* send_live_start
SendEnds(c) ==
    /\ writer[c].at = "send"
    /\ \/ \E n \in Bubbles : Post(n) /\ bubble' = n /\ UNCHANGED <<refusals, atTurn>>
       \/ CallFails(c) /\ UNCHANGED <<chat, posted, bubble>>
    /\ Rest(c)
    /\ UNCHANGED <<shown, liveRef, lastText, display, persisted, debounced, chunk, updates, moveVars>>

\* edit_live_message; a message that is gone is sent anew.
EditEnds(c) ==
    /\ writer[c].at = "edit"
    /\ \/ writer[c].target \in chat /\ Rest(c) /\ UNCHANGED <<bubble, lastText, refusals, atTurn>>
       \/ CallFails(c) /\ Rest(c) /\ UNCHANGED <<bubble, lastText>>
       \/ /\ writer[c].target \notin chat
          /\ bubble' = NoBubble /\ lastText' = writer[c].text
          /\ writer' = [writer EXCEPT ![c].at = "send"]
          /\ UNCHANGED <<refusals, atTurn>>
    /\ UNCHANGED <<chatVars, liveRef, display, persisted, debounced, chunk, updates, moveVars>>

\* Coroutines are cancelled; a message one of them was sending may have arrived.
CutOff(C) == \/ UNCHANGED <<chat, posted>>
             \/ /\ \E c \in C : writer[c].at = "send"
                /\ \E n \in Bubbles : Post(n)
----
(* The turn: _process_task around the agent's run. *)

\* update_status(THINKING_STATUS_TEXT)
BeginLive ==
    /\ atTurn = "begin" /\ writer["turn"].at = "idle"
    /\ IF lastText = NoText
       THEN Apply("turn", Thinking, "idle") /\ UNCHANGED atTurn
       ELSE /\ atTurn' = "run"
            /\ writer' = [writer EXCEPT !["turn"] = [AtRest EXCEPT !.at = "ref"]]
            /\ UNCHANGED lastText
    /\ UNCHANGED <<chatVars, liveRef, bubble, display, persisted, debounced, chunk, updates, refusals,
                   moveVars>>

\* Mutant: the reference is believed before it is written.
SyncedMutant == liveRef

\* _sync_live_message: follow the bubble a handler has moved.
Synced == IF persisted /\ liveRef # NoBubble THEN liveRef ELSE bubble
Adopt == /\ bubble' = Synced
         /\ lastText' = IF Synced # bubble THEN NoText ELSE lastText

\* on_progress, from the stream or the watcher.  Debounced, it leaves the text
\* to the flusher and goes on.
Progress(c) ==
    /\ atTurn = "run" /\ writer[c].at = "idle" /\ updates < MaxUpdate
    /\ c = "watch" => debounced
    /\ updates' = updates + 1
    /\ bubble' = Synced
    /\ LET text == updates + 2
       IN  IF debounced
           THEN /\ display' = text
                /\ lastText' = IF Synced # bubble THEN NoText ELSE lastText
                /\ writer' = [writer EXCEPT ![c] = [AtRest EXCEPT !.at = "ref"],
                                            !["flush"].at = IF @ = "idle" THEN "sleep" ELSE @]
           ELSE /\ lastText' = text /\ UNCHANGED display
                /\ writer' = [writer EXCEPT ![c] = Showing(Synced, text)]
    /\ UNCHANGED <<chatVars, liveRef, persisted, debounced, atTurn, chunk, refusals, moveVars>>

\* on_status: of a redirect the poll has seen, or of the turn's next run (after a
\* redirect, or to review the answer).  It is never debounced.
Status(c) ==
    /\ atTurn = "run" /\ writer[c].at = "idle" /\ updates < MaxUpdate
    /\ c = "turn" => writer["watch"].at = "idle" /\ writer["poll"].at = "idle"
    /\ updates' = updates + 1
    /\ bubble' = Synced /\ lastText' = updates + 2
    /\ writer' = [writer EXCEPT ![c] = Showing(Synced, updates + 2)]
    /\ UNCHANGED <<chatVars, liveRef, display, persisted, debounced, atTurn, chunk, refusals, moveVars>>

\* _maybe_persist_live_ref
Persist(c) ==
    /\ writer[c].at = "ref"
    /\ writer' = [writer EXCEPT ![c] = AtRest]
    /\ IF bubble = NoBubble THEN UNCHANGED <<bubble, lastText, liveRef, persisted>>
       ELSE /\ Adopt
            /\ liveRef' = IF persisted THEN liveRef ELSE bubble
            /\ persisted' = TRUE
    /\ UNCHANGED <<chatVars, display, debounced, turnState, refusals, moveVars>>

\* _flush_debounced_display: the pending text stays, until the answer comes.
FlusherWakes ==
    /\ writer["flush"].at = "sleep"
    /\ Apply("flush", IF display = NoText THEN lastText ELSE display, "idle")
    /\ UNCHANGED <<chatVars, liveRef, bubble, display, persisted, debounced, turnState, refusals,
                   moveVars>>

\* The run is over, and with it the reading of the stream, the watcher and the
\* poll, in the midst of a call it may be.  A timeout is an answer too; "run" is
\* a run after which the turn makes another.
RunEnds(outcome) ==
    /\ atTurn = "run"
    /\ outcome = "run" => writer["turn"].at = "idle"
    /\ atTurn' = IF outcome # "answer" THEN outcome ELSE IF bubble = NoBubble THEN "plain" ELSE "flush"
    /\ writer' = [c \in Coroutines |-> IF c = "flush" THEN writer[c] ELSE AtRest]
    /\ CutOff({"turn", "watch", "poll"})
    /\ UNCHANGED <<shown, liveRef, liveState, debounced, chunk, updates, refusals, moveVars>>

\* Mutant: the flusher is not cancelled.
FlushDisplayMutant ==
    /\ atTurn = "flush" /\ writer["turn"].at = "idle"
    /\ IF display = NoText
       THEN /\ atTurn' = "final" /\ UNCHANGED writer
            /\ UNCHANGED <<lastText, display>>
       ELSE /\ display' = NoText
            /\ lastText' = display
            /\ writer' = [writer EXCEPT !["turn"] = IF display = lastText THEN AtRest
                                           ELSE Showing(bubble, display)]
            /\ UNCHANGED atTurn
    /\ UNCHANGED <<chat, posted>>
    /\ UNCHANGED <<shown, liveRef, bubble, persisted, debounced, chunk, updates, refusals, moveVars>>

\* flush_pending_display: the flusher is cancelled, its text pushed at once.
FlushDisplay ==
    /\ atTurn = "flush" /\ writer["turn"].at = "idle"
    /\ IF display = NoText
       THEN /\ writer' = [writer EXCEPT !["flush"] = AtRest] /\ atTurn' = "final"
            /\ UNCHANGED <<lastText, display>>
       ELSE /\ display' = NoText
            /\ lastText' = display
            /\ writer' = [writer EXCEPT !["flush"] = AtRest,
                  !["turn"] = IF display = lastText THEN AtRest
                                           ELSE Showing(bubble, display)]
            /\ UNCHANGED atTurn
    /\ CutOff({"flush"})
    /\ UNCHANGED <<shown, liveRef, bubble, persisted, debounced, chunk, updates, refusals, moveVars>>

\* Mutant: a chunk that fails ends the answer.
SendChunkMutant ==
    /\ atTurn = "final"
    /\ \/ /\ shown' = Append(shown, chunk) /\ chunk' = chunk + 1
          /\ atTurn' = IF chunk = MaxChunk THEN "delete" ELSE "final"
          /\ UNCHANGED refusals
       \/ Refused /\ atTurn' = "delete" /\ UNCHANGED <<shown, chunk>>
    /\ UNCHANGED <<chat, posted, liveRef, liveState, debounced, writer, updates, moveVars>>

\* finalize: the chunks, then the bubble.  What fails here, the push included,
\* leads to _notify_safe with the whole answer.
SendChunk ==
    /\ atTurn = "final"
    /\ \/ /\ shown' = Append(shown, chunk) /\ chunk' = chunk + 1
          /\ atTurn' = IF chunk = MaxChunk THEN "delete" ELSE "final"
          /\ UNCHANGED refusals
       \/ Refused /\ atTurn' = "plain" /\ chunk' = 1 /\ UNCHANGED shown
    /\ UNCHANGED <<chat, posted, liveRef, liveState, debounced, writer, updates, moveVars>>

\* finalize returns early when the answer is blank: nothing is sent, the bubble stays.
BlankAnswer ==
    /\ atTurn = "final" /\ chunk = 1
    /\ atTurn' = "mute" /\ liveRef' = NoBubble
    /\ UNCHANGED <<chatVars, liveState, debounced, writer, chunk, updates, refusals, moveVars>>

DeleteBubble ==
    /\ atTurn = "delete"
    /\ bubble' = NoBubble
    /\ \/ chat' = chat \ {bubble} /\ UNCHANGED refusals
       \/ Refused /\ UNCHANGED chat
    /\ atTurn' = "clean"
    /\ liveRef' = NoBubble
    /\ UNCHANGED <<posted, shown, lastText, display, persisted, debounced, writer, chunk, updates,
                   moveVars>>

PlainChunk ==
    /\ atTurn = "plain"
    /\ \/ /\ shown' = Append(shown, chunk) /\ chunk' = chunk + 1
          /\ atTurn' = IF chunk = MaxChunk THEN "over" ELSE "plain"
          /\ UNCHANGED refusals
       \/ Refused /\ atTurn' = "over" /\ UNCHANGED <<shown, chunk>>
    /\ liveRef' = IF atTurn' = "over" THEN NoBubble ELSE liveRef
    /\ UNCHANGED <<chat, posted, liveState, debounced, writer, updates, moveVars>>

\* A cancelled or failed turn leaves the bubble as it is; finally: the
\* reference is deleted.
EndWithout ==
    /\ atTurn \in {"cancelled", "failed"}
    /\ atTurn' = "ended" /\ liveRef' = NoBubble
    /\ UNCHANGED <<chatVars, liveState, debounced, writer, chunk, updates, refusals, moveVars>>
----
(* The bot: relocate_live_after_user_message, in each handler. *)

ReadRef(h) ==
    /\ mover[h].at = "idle" /\ atTurn = "run"
    /\ mover' = [mover EXCEPT ![h] = [at |-> IF liveRef = NoBubble THEN "send" ELSE "delete",
                                      seen |-> liveRef]]
    /\ UNCHANGED <<chatVars, liveRef, liveState, debounced, writer, turnState, refusals, moved>>

DropOld(h) ==
    /\ mover[h].at = "delete"
    /\ \/ chat' = chat \ {mover[h].seen} /\ UNCHANGED refusals
       \/ Refused /\ UNCHANGED chat
    /\ mover' = [mover EXCEPT ![h].at = "send"]
    /\ moved' = TRUE
    /\ UNCHANGED <<posted, shown, liveRef, liveState, debounced, writer, turnState>>

SendBelow(h) ==
    /\ mover[h].at = "send"
    /\ \/ \E n \in Bubbles : /\ Post(n)
                             /\ mover' = [mover EXCEPT ![h] = [at |-> "set", seen |-> n]]
                             /\ moved' = TRUE /\ UNCHANGED refusals
       \/ Refused /\ mover' = [mover EXCEPT ![h].at = "done"] /\ UNCHANGED <<chat, posted, moved>>
    /\ UNCHANGED <<shown, liveRef, liveState, debounced, writer, turnState>>

SetRef(h) ==
    /\ mover[h].at = "set"
    /\ liveRef' = mover[h].seen
    /\ mover' = [mover EXCEPT ![h].at = "done"]
    /\ UNCHANGED <<chatVars, liveState, debounced, writer, turnState, refusals, moved>>

LiveStep == \/ BeginLive \/ FlushDisplay \/ SendChunk \/ BlankAnswer \/ DeleteBubble \/ PlainChunk
            \/ EndWithout
            \/ FlusherWakes
            \/ \E c \in Coroutines : SendEnds(c) \/ EditEnds(c) \/ Persist(c)
            \/ \E c \in {"turn", "watch"} : Progress(c)
            \/ \E c \in {"turn", "poll"} : Status(c)
            \/ \E outcome \in {"answer", "cancelled", "failed", "run"} : RunEnds(outcome)
MoverStep(h) == ReadRef(h) \/ DropOld(h) \/ SendBelow(h) \/ SetRef(h)

LiveNext == LiveStep \/ \E h \in Movers : MoverStep(h)

LiveSpec == LiveInit /\ [][LiveNext]_liveVars
----
(* Properties. *)

Whole == [i \in 1..MaxChunk |-> i]
EndsWhole == /\ Len(shown) >= MaxChunk
             /\ SubSeq(shown, Len(shown) - MaxChunk + 1, Len(shown)) = Whole

\* A turn that ends with an answer has shown all of it, in order, even if one
\* call to Telegram failed on the way: for the bubble, for a chunk, or for the
\* debounced text pushed before it.  (Not if the user wrote meanwhile: the bubble
\* may just be missing then, and the answer sent without a second attempt.)
AnswerIsWhole == atTurn \in {"over", "clean"} /\ refusals < 2 /\ ~moved => EndsWhole

\* Once the debounced text has been pushed for an answer the worker posts no
\* progress any more, whatever was under way in its other coroutines, however
\* the bubble was moved and whatever Telegram refused.
NothingAfterAnswer ==
    [][(atTurn \in {"final", "delete", "clean", "mute"} /\ mover' = mover) => chat' \subseteq chat]_liveVars

\* Unless the user wrote meanwhile, or Telegram refused something, an answered
\* turn leaves no bubble behind.
BubbleRemoved == atTurn \in {"over", "clean"} /\ refusals = 0 /\ ~moved => chat = {}

\* Also seen.  With the user's messages, bubbles are orphaned: two handlers read
\* the same reference, or the worker sends anew what a handler has just moved.
\* With a refused call for the first bubble, two coroutines may both send one: the
\* flusher, say, and the turn that tells of its next run.
OneBubble == Cardinality(chat) <= 1

\* Also seen.  The flusher of a turn that failed, or found its bubble missing
\* when the answer came, goes on, and posts what nobody removes.
NothingAfterEnd == [][(atTurn \in {"over", "ended"} /\ mover' = mover) => chat' \subseteq chat]_liveVars

\* Also seen.  A chunk that was shown is shown again with the whole answer.
NothingTwice == \A i, j \in DOMAIN shown : shown[i] = shown[j] => i = j

\* Also seen.  A turn whose answer is blank says nothing, and its bubble stays.
BlankIsCleared == atTurn = "mute" /\ refusals = 0 /\ ~moved => chat = {}
====
