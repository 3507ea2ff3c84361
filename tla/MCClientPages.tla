---- MODULE MCClientPages ----
(***************************************************************************)
(* Small instances of ClientPages for TLC.                                 *)
(***************************************************************************)
EXTENDS ClientPages, TLC

CONSTANTS p1, p2, a, b

\* An application that gives all pages one client id.
OneClient == [p \in Pages |-> "c"]

\* Then pages are interchangeable, and so are ids.
Interchangeable == Permutations(Pages) \cup Permutations(Ids)

\* createCollaboration: every page load has a client id of its own.
ClientPerPage == [p \in Pages |-> IF p = p1 THEN "c1" ELSE "c2"]
====
