---- MODULE MCDraftServer ----
(***************************************************************************)
(* Small instances of DraftServer for TLC.                                 *)
(***************************************************************************)
EXTENDS DraftServer, TLC

CONSTANTS c1, s1, s2, e1, e2, o1

\* Sockets are interchangeable, and so are the edits REST makes.
Alike == Permutations(Sockets) \cup Permutations(RestEdits)

\* An edit that has raced owes nothing any more: whether it was answered makes no
\* difference.
Owed == <<repo, diskVars, restVars, roomVars, done \ raced, unheld \ raced, raced>>
====
