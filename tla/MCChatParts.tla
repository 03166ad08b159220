---- MODULE MCChatParts ----
(* The parts of the bot's side that share no state, each on a small instance, *)
(* in one run: a behaviour is one of one part, the others rest in one of      *)
(* their initial states.                                                      *)
EXTENDS Confirmation, Uploads, AgentSessions, MenuInput, TLC

CONSTANTS p1, p2, p3, a1

VARIABLE part

partVars == <<confirmVars, uploadVars, sessionVars, menuVars, part>>
Parts == {"confirmations", "uploads", "sessions", "menu"}

\* An album of two and a picture of its own.
MCAlbumOf == (p1 :> a1) @@ (p2 :> a1) @@ (p3 :> Single)

MCInit ==
    /\ part \in Parts
    /\ ConfirmInit /\ UploadsInit /\ SessionsInit /\ MenuInit
    /\ part = "uploads" \/ captioned = {p1}
    /\ part = "sessions" \/ model = "cursor"
    /\ part = "menu" \/ guest = "unknown"

ConfirmationsPart == /\ part = "confirmations" /\ ConfirmNext
                     /\ UNCHANGED <<uploadVars, sessionVars, menuVars, part>>
UploadsPart       == /\ part = "uploads" /\ UploadsNext
                     /\ UNCHANGED <<confirmVars, sessionVars, menuVars, part>>
SessionsPart      == /\ part = "sessions" /\ SessionsNext
                     /\ UNCHANGED <<confirmVars, uploadVars, menuVars, part>>

MenuPart          == /\ part = "menu" /\ MenuNext
                     /\ UNCHANGED <<confirmVars, uploadVars, sessionVars, part>>

MCNext == ConfirmationsPart \/ UploadsPart \/ SessionsPart \/ MenuPart

\* Each part's own fairness.
MCFairness ==
    /\ \A a \in Albums : WF_uploadVars(part = "uploads" /\ FlushAlbum(a))
    /\ \A j \in Jobs : WF_uploadVars(part = "uploads" /\ JobStep(j))

MCSpec == MCInit /\ [][MCNext]_partVars /\ MCFairness

\* Every variable of every part is of its type.
TypesOK == ConfirmTypeOK /\ UploadsTypeOK /\ SessionsTypeOK /\ MenuTypeOK
====
