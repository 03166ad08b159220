---- MODULE Uploads ----
(***************************************************************************)
(* Pictures from the chat: telegram/media_groups.py collects the parts of  *)
(* an album, telegram/handlers/uploads.py stores them, and the images of a *)
(* message without a caption wait in Redis                                 *)
(* (services/image_attachments.py) for the text that says what to do.      *)
(*                                                                         *)
(* A single picture is processed by its own update's handler, whose        *)
(* database session the middleware commits when the handler returns.  The  *)
(* parts of an album are processed by the task that collected them, long   *)
(* after those handlers returned: its session is committed by nobody.      *)
(*                                                                         *)
(* One user; a caption or a text is an agent prompt.  A file on disk is    *)
(* its picture.  A document that is no image is stored and acknowledged by *)
(* its own handler, touches nothing the others do, and is left out.        *)
(***************************************************************************)
EXTENDS Naturals, FiniteSets

CONSTANTS Pictures,    \* pictures the user sends
          Albums,      \* media groups
          AlbumOf,     \* the album of each picture, or Single
          Single,      \* a picture outside any album
          Captions,    \* what a behaviour may see: sets of pictures with a caption
          MaxJob,      \* processings of an album or a single picture
          Texts        \* prompts the user types

ASSUME UploadsAssumption ==
    /\ MaxJob \in Nat
    /\ Single \notin Albums
    /\ AlbumOf \in [Pictures -> Albums \cup {Single}]
    /\ Captions \subseteq SUBSET Pictures

VARIABLES captioned,   \* pictures the user gives a caption
          sent,        \* pictures Telegram has delivered
          buffered,    \* _album_buffers
          collecting,  \* _album_tasks: albums with a task in its sleep
          jobAt, jobLeft, jobKept, jobSaw, jobOwns,  \* _process_image_messages and its locals
          textAt, textTook,                          \* handle_text_message and its images
          pendingImages,                             \* the Redis list
          refused,     \* pictures whose sender was told they were not taken
          raised,      \* pictures whose processing ended in an exception
          acked,       \* pictures the user was told are saved
          prompted,    \* images of a prompt the worker will find
          orphaned,    \* images of a prompt whose row is never committed
          overlapped,  \* history: two accesses to the Redis list overlapped
          imagesLapsed \* history: the Redis list has expired with an image in it

jobs      == <<jobAt, jobLeft, jobKept, jobSaw, jobOwns>>
texts     == <<textAt, textTook>>
outcomes  == <<refused, raised, acked, prompted, orphaned>>
uploadVars == <<sent, buffered, collecting, jobs, texts, pendingImages, outcomes,
                overlapped, imagesLapsed, captioned>>

Jobs == 1..MaxJob

UploadsTypeOK ==
    /\ captioned \subseteq Pictures
    /\ sent \subseteq Pictures /\ pendingImages \subseteq Pictures
    /\ buffered \in [Albums -> SUBSET Pictures]
    /\ collecting \subseteq Albums
    /\ jobAt \in [Jobs -> {"free", "store", "read", "write", "queue", "commit", "done"}]
    /\ jobLeft \in [Jobs -> SUBSET Pictures]
    /\ jobKept \in [Jobs -> SUBSET Pictures]
    /\ jobSaw \in [Jobs -> SUBSET Pictures]
    /\ jobOwns \in [Jobs -> BOOLEAN]
    /\ textAt \in [Texts -> {"idle", "take", "queue", "commit", "done"}]
    /\ textTook \in [Texts -> SUBSET Pictures]
    /\ refused \subseteq Pictures /\ raised \subseteq Pictures /\ acked \subseteq Pictures
    /\ prompted \subseteq Pictures /\ orphaned \subseteq Pictures
    /\ overlapped \in BOOLEAN /\ imagesLapsed \in BOOLEAN

UploadsInit ==
    /\ captioned \in Captions
    /\ sent = {} /\ pendingImages = {} /\ collecting = {}
    /\ buffered = [a \in Albums |-> {}]
    /\ jobAt = [j \in Jobs |-> "free"]
    /\ jobLeft = [j \in Jobs |-> {}]
    /\ jobKept = [j \in Jobs |-> {}]
    /\ jobSaw = [j \in Jobs |-> {}]
    /\ jobOwns = [j \in Jobs |-> FALSE]
    /\ textAt = [t \in Texts |-> "idle"]
    /\ textTook = [t \in Texts |-> {}]
    /\ refused = {} /\ raised = {} /\ acked = {} /\ prompted = {} /\ orphaned = {}
    /\ overlapped = FALSE /\ imagesLapsed = FALSE
----
(* schedule_media_group. *)

JobTo(j, pc) == jobAt' = [jobAt EXCEPT ![j] = pc]

\* Jobs are numbered in the order they start.
NextJob(j) == jobAt[j] = "free" /\ \A i \in Jobs : i < j => jobAt[i] # "free"

\* handler(messages): the pictures are processed, one after the other; owns says
\* whether in a handler, whose session will be committed.
Process(j, pictures, owns) ==
    /\ NextJob(j)
    /\ JobTo(j, "store")
    /\ jobLeft' = [jobLeft EXCEPT ![j] = pictures]
    /\ jobOwns' = [jobOwns EXCEPT ![j] = owns]
    /\ UNCHANGED <<jobKept, jobSaw>>

\* A picture of its own comes in.
SendSingle(p) ==
    /\ p \notin sent /\ AlbumOf[p] = Single
    /\ sent' = sent \cup {p}
    /\ \E j \in Jobs : Process(j, {p}, TRUE)
    /\ UNCHANGED <<buffered, collecting, texts, pendingImages, outcomes, overlapped, imagesLapsed, captioned>>

\* Mutant: the task that slept is cancelled, and none started for it.
SendPartMutant(p) ==
    /\ p \notin sent /\ AlbumOf[p] \in Albums
    /\ sent' = sent \cup {p}
    /\ buffered' = [buffered EXCEPT ![AlbumOf[p]] = @ \cup {p}]
    /\ collecting' = IF AlbumOf[p] \in collecting THEN collecting \ {AlbumOf[p]}
                                                ELSE collecting \cup {AlbumOf[p]}
    /\ UNCHANGED <<jobs, texts, pendingImages, outcomes, overlapped, imagesLapsed, captioned>>

\* A part of an album comes in: the task that slept is cancelled for a new one.
SendPart(p) ==
    /\ p \notin sent /\ AlbumOf[p] \in Albums
    /\ sent' = sent \cup {p}
    /\ buffered' = [buffered EXCEPT ![AlbumOf[p]] = @ \cup {p}]
    /\ collecting' = collecting \cup {AlbumOf[p]}
    /\ UNCHANGED <<jobs, texts, pendingImages, outcomes, overlapped, imagesLapsed, captioned>>

\* Mutant: the buffer is read and not emptied.
FlushAlbumMutant(a) ==
    /\ a \in collecting
    /\ collecting' = collecting \ {a}
    /\ \E j \in Jobs : Process(j, buffered[a], FALSE)
    /\ UNCHANGED <<sent, buffered, texts, pendingImages, outcomes, overlapped, imagesLapsed, captioned>>

\* 0.6 s after the last part, the task takes the buffer and processes it.  A
\* later part starts another one.
FlushAlbum(a) ==
    /\ a \in collecting
    /\ collecting' = collecting \ {a}
    /\ buffered' = [buffered EXCEPT ![a] = {}]
    /\ \E j \in Jobs : Process(j, buffered[a], FALSE)
    /\ UNCHANGED <<sent, texts, pendingImages, outcomes, overlapped, imagesLapsed, captioned>>
----
(* _process_image_messages. *)

Batch(j) == jobLeft[j] \cup jobKept[j]

\* It returns or raises: of its locals, what it had processed is remembered.
JobEnds(j) == /\ JobTo(j, "done")
              /\ jobLeft' = [jobLeft EXCEPT ![j] = {}]
              /\ jobKept' = [jobKept EXCEPT ![j] = Batch(j)]
              /\ jobSaw' = [jobSaw EXCEPT ![j] = {}]
              /\ jobOwns' = [jobOwns EXCEPT ![j] = FALSE]

\* A picture too large or not downloaded ends the processing of all of them,
\* and the user is told of this one only.
Refuse(j) ==
    /\ jobAt[j] = "store"
    /\ refused' = refused \cup Batch(j)
    /\ JobEnds(j)
    /\ UNCHANGED <<sent, buffered, collecting, texts,
                   pendingImages, raised, acked, prompted, orphaned, overlapped, imagesLapsed, captioned>>

\* Telegram, Postgres or UploadService.store raises.
JobRaises(j) ==
    /\ jobAt[j] \notin {"free", "done"}
    /\ raised' = raised \cup Batch(j)
    /\ JobEnds(j)
    /\ UNCHANGED <<sent, buffered, collecting, texts,
                   pendingImages, refused, acked, prompted, orphaned, overlapped, imagesLapsed, captioned>>

\* Where a batch goes once its last file is stored: to the agent if any part
\* has a caption, to Redis if none has.
After(j) == IF Batch(j) \cap captioned # {} THEN "queue" ELSE "read"

\* One file is downloaded and stored, and its row flushed.
StoreOne(j) ==
    /\ jobAt[j] = "store"
    /\ \E p \in jobLeft[j] :
         /\ jobLeft' = [jobLeft EXCEPT ![j] = @ \ {p}]
         /\ jobKept' = [jobKept EXCEPT ![j] = @ \cup {p}]
         /\ IF jobLeft[j] = {p} THEN JobTo(j, After(j)) ELSE UNCHANGED jobAt
    /\ UNCHANGED <<sent, buffered, collecting, jobSaw, jobOwns, texts, pendingImages, outcomes,
                   overlapped, imagesLapsed, captioned>>

\* Somebody is between its look at the Redis list and its write.
Inside == (\E j \in Jobs : jobAt[j] = "write") \/ (\E t \in Texts : textAt[t] = "take")

\* PendingImageStore.add, for each image of the batch: the list is read ...
AddRead(j) ==
    /\ jobAt[j] = "read"
    /\ jobSaw' = [jobSaw EXCEPT ![j] = pendingImages]
    /\ overlapped' = (overlapped \/ Inside)
    /\ JobTo(j, "write")
    /\ UNCHANGED <<sent, buffered, collecting, jobLeft, jobKept, jobOwns, texts, pendingImages,
                   outcomes, imagesLapsed, captioned>>

\* Mutant: the list is written with the new image alone.
AppendedMutant(j, p) == {p}

\* ... and written back with one more; after the last one the user is told.
Appended(j, p) == jobSaw[j] \cup {p}
AddWrite(j) ==
    /\ jobAt[j] = "write"
    /\ \E p \in jobKept[j] :
         /\ pendingImages' = Appended(j, p)
         /\ jobKept' = [jobKept EXCEPT ![j] = @ \ {p}]
         /\ jobLeft' = [jobLeft EXCEPT ![j] = @ \cup {p}]
         /\ IF jobKept[j] = {p}
            THEN JobTo(j, "commit") /\ acked' = acked \cup Batch(j)
            ELSE JobTo(j, "read") /\ UNCHANGED acked
    /\ jobSaw' = [jobSaw EXCEPT ![j] = {}]
    /\ UNCHANGED <<sent, buffered, collecting, jobOwns, texts, refused, raised, prompted,
                   orphaned, overlapped, imagesLapsed, captioned>>

\* _queue_images_with_caption: into the payload of a live turn, which Redis
\* keeps, or into a row.  The row is the session's, and the id is on the queue.
QueueBatch(j) ==
    /\ jobAt[j] = "queue"
    /\ \/ prompted' = prompted \cup jobKept[j] /\ UNCHANGED orphaned
       \/ jobOwns[j] /\ UNCHANGED <<prompted, orphaned>>
       \/ ~jobOwns[j] /\ orphaned' = orphaned \cup jobKept[j] /\ UNCHANGED prompted
    /\ JobTo(j, "commit")
    /\ UNCHANGED <<sent, buffered, collecting, jobLeft, jobKept, jobSaw, jobOwns, texts,
                   pendingImages, refused, raised, acked, overlapped, imagesLapsed, captioned>>

\* The handler returns and its rows are committed; an album's task just ends.
EndJob(j) ==
    /\ jobAt[j] = "commit"
    /\ prompted' = IF jobOwns[j] /\ Batch(j) \cap captioned # {}
                   THEN prompted \cup jobKept[j] ELSE prompted
    /\ JobEnds(j)
    /\ UNCHANGED <<sent, buffered, collecting, texts,
                   pendingImages, refused, raised, acked, orphaned, overlapped, imagesLapsed, captioned>>
----
(* handle_text_message, and time. *)

TextTo(t, pc) == textAt' = [textAt EXCEPT ![t] = pc]

\* get_and_clear: the list is read ...
Peek(t) ==
    /\ textAt[t] = "idle"
    /\ textTook' = [textTook EXCEPT ![t] = pendingImages]
    /\ overlapped' = (overlapped \/ Inside)
    /\ TextTo(t, IF pendingImages = {} THEN "queue" ELSE "take")
    /\ UNCHANGED <<sent, buffered, collecting, jobs, pendingImages, outcomes, imagesLapsed, captioned>>

\* ... and deleted, whatever it holds by now.
ClearList(t) ==
    /\ textAt[t] = "take"
    /\ pendingImages' = {}
    /\ TextTo(t, "queue")
    /\ UNCHANGED <<sent, buffered, collecting, jobs, textTook, outcomes, overlapped, imagesLapsed, captioned>>

\* handle_text: into the payload of a live turn, or into a row.
QueueText(t) ==
    /\ textAt[t] = "queue"
    /\ \/ prompted' = prompted \cup textTook[t]
       \/ UNCHANGED prompted
    /\ TextTo(t, "commit")
    /\ UNCHANGED <<sent, buffered, collecting, jobs, textTook, pendingImages, refused, raised, acked,
                   orphaned, overlapped, imagesLapsed, captioned>>

\* The handler returns.
EndText(t) ==
    /\ textAt[t] = "commit"
    /\ prompted' = prompted \cup textTook[t]
    /\ TextTo(t, "done")
    /\ UNCHANGED <<sent, buffered, collecting, jobs, textTook, pendingImages, refused, raised, acked,
                   orphaned, overlapped, imagesLapsed, captioned>>

\* It raises after it took the images: its row is rolled back, the list is gone.
TextRaises(t) ==
    /\ textAt[t] \in {"queue", "commit"}
    /\ raised' = raised \cup textTook[t]
    /\ TextTo(t, "done")
    /\ UNCHANGED <<sent, buffered, collecting, jobs, textTook, pendingImages, refused, acked,
                   prompted, orphaned, overlapped, imagesLapsed, captioned>>

\* Half an hour after the last write.
ListExpires ==
    /\ pendingImages # {}
    /\ pendingImages' = {}
    /\ imagesLapsed' = TRUE
    /\ UNCHANGED <<sent, buffered, collecting, jobs, texts, outcomes, overlapped, captioned>>

JobStep(j) == \/ Refuse(j) \/ JobRaises(j) \/ StoreOne(j)
              \/ AddRead(j) \/ AddWrite(j) \/ QueueBatch(j) \/ EndJob(j)

TextStep(t) == ClearList(t) \/ QueueText(t) \/ EndText(t) \/ TextRaises(t)

UploadsNext ==
    \/ \E p \in Pictures : SendSingle(p) \/ SendPart(p)
    \/ \E a \in Albums : FlushAlbum(a)
    \/ \E j \in Jobs : JobStep(j)
    \/ \E t \in Texts : Peek(t) \/ TextStep(t)
    \/ ListExpires

UploadsSpec == UploadsInit /\ [][UploadsNext]_uploadVars

\* The event loop wakes a task that slept and runs every coroutine it started.
FairUploadsSpec ==
    /\ UploadsSpec
    /\ \A a \in Albums : WF_uploadVars(FlushAlbum(a))
    /\ \A j \in Jobs : WF_uploadVars(JobStep(j))
----
(* Properties. *)

\* A part of an album is processed once: the buffer is taken whole, and a part
\* that comes while its album is processed waits for the next task.
AlbumPartOnce ==
    \A p \in Pictures :
        LET holders == {j \in Jobs : p \in Batch(j)}
        IN  Cardinality(holders) + (IF \E a \in Albums : p \in buffered[a] THEN 1 ELSE 0) <= 1

\* Every picture that came in is dealt with: its task is not cancelled for
\* good by the parts that come after it (_album_tasks).
PictureHandled ==
    \A p \in Pictures :
        (p \in sent) ~> (p \in refused \cup raised \cup acked \cup prompted \cup orphaned)

\* A picture the user was told is saved waits in Redis or is with a text that
\* took it, unless the half hour passed or two accesses to the list overlapped.
InHand == UNION {textTook[t] : t \in Texts}
SavedIsKept ==
    \/ overlapped \/ imagesLapsed
    \/ acked \subseteq pendingImages \cup InHand

\* Also seen.  The same without the excuse: of two photos sent at once one is lost.
SavedIsKeptAlways == imagesLapsed \/ acked \subseteq pendingImages \cup InHand

\* Also seen.  The prompt of an album with a caption is in a session that nobody commits.
AlbumPromptRuns == orphaned = {}

\* Also seen.  A stale write brings back images that a text has taken.
ImageInOnePrompt ==
    \A t, u \in Texts : t # u => textTook[t] \cap textTook[u] = {}
====
