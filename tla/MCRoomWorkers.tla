---- MODULE MCRoomWorkers ----
(***************************************************************************)
(* Small instances of RoomWorkers for TLC.                                 *)
(***************************************************************************)
EXTENDS RoomWorkers, TLC

CONSTANTS w1, w2

Op(id, base, schema, strategy, body) ==
    [id |-> id, base |-> base, schema |-> schema, strategy |-> strategy, body |-> body]

\* One operation of each strategy, and the id of the first sent again with
\* another payload, as by a client that lost its memory.
CoreOps == { Op("a", 0, 1, "merge", "x"),
             Op("a", 0, 1, "merge", "y"),
             Op("b", 0, 1, "atBase", "x"),
             Op("c", 1, 1, "byState", "x") }

\* A session that is in no map, runs nothing and saves nothing can never act
\* again: whatever it still holds is garbage.
Garbage(e) ==
    \/ phase[e] \in {"unused", "dead"}
    \/ phase[e] = "idle" /\ ~IsWarm(e) /\ mailbox[e] = <<>> /\ saving[e] = {}

SessionView ==
    [e \in Epochs |-> IF Garbage(e) THEN <<>>
                     ELSE <<home[e], phase[e], version[e], doc[e], hist[e], mailbox[e],
                            retried[e], saving[e], load[e]>>]

\* For the runs about verdicts.
VerdictView == <<storeVars, warm, activating, SessionView, snapWrites, clientVars>>

\* For the runs about documents: no guard reads told.
DocumentView == <<storeVars, warm, activating, SessionView, snapWrites, settled>>

\* Bounds the verdict runs to sessions that store no snapshot.
NoSnapshots == snapWrites = {} /\ \A e \in Epochs : saving[e] = {}

TwoOps == { Op("a", 0, 1, "merge", "x"), Op("b", 1, 1, "merge", "x") }

SameSchema == [w \in {w1, w2} |-> 1]

\* A rolling upgrade: w2 already runs the next Domain Pack.
Upgrading == [w \in {w1, w2} |-> IF w = w1 THEN 1 ELSE 2]

UpgradeOps == { Op("a", 0, 1, "merge", "x"),
                Op("b", 1, 1, "merge", "x"),
                Op("c", 1, 2, "merge", "x") }

Interchangeable == Permutations({w1, w2})
====
