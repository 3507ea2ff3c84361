---- MODULE MCStandaloneServer ----
(***************************************************************************)
(* Small instances of StandaloneServer for TLC.                            *)
(***************************************************************************)
EXTENDS StandaloneServer, TLC

CONSTANTS c1, c2

Op(id, client, base, schema, strategy) ==
    [id |-> id, client |-> client, base |-> base, schema |-> schema, strategy |-> strategy]

TwoBoots == <<1, 2>>

\* An operation of each schema the server runs; the first may be refused.
OpPerBoot == { Op("a", c1, 0, 1, "byState"), Op("b", c2, 1, 2, "merge") }

\* The first client says hello again while its hello is being handled.
OneHasty  == [c \in {c1, c2} |-> IF c = c1 THEN {1, 2} ELSE {1}]

\* A session object nothing refers to is garbage, and no guard reads who gets
\* presence messages: peers and orphaned are only counted, which makes TLC normalize them.
View == <<retention, boots, diskVars, room, [s \in Sessions |-> IF Free(s) THEN NewSession ELSE ses[s]],
          task, clientVars, joined, overtaken,
          Cardinality(peers) > Cardinality(Clients), Cardinality(orphaned) > Cardinality(Callers)>>
====
