---- MODULE Applications ----
(***************************************************************************)
(* The example applications: documents that CollabHub owns, edited with    *)
(* the commands of their packs or in the block editor, and the body of     *)
(* yjs-hybrid, which Yjs owns.  A field has one owner and the two share no *)
(* state, so that a behaviour is one of documents or one of bodies.        *)
(***************************************************************************)
EXTENDS BlockEditor, YjsBody

VARIABLE part

applicationVars == <<allVars, bodyVars, part>>

InitApplications ==
    /\ InitEditors /\ InitBody
    /\ part \in {"document", "body"}
    /\ part = "body" => pack = CHOOSE p \in Packs : p.domain = "model" /\ p.stale = "rebase"

NextApplications ==
    \/ part = "document" /\ NextEditors /\ UNCHANGED <<bodyVars, part>>
    \/ part = "body" /\ NextBody /\ UNCHANGED <<allVars, part>>

ApplicationsSpec == InitApplications /\ [][NextApplications]_applicationVars
====
