---- MODULE CanonicalLog ----
(***************************************************************************)
(* What a collaborative document promises its clients, whoever serves it:  *)
(* one append-only canonical log in which an operation id occurs at most   *)
(* once, and one final verdict per operation.  The distributed runtime     *)
(* (RoomWorkers) and, between two deletions of the room, the standalone    *)
(* one (StandaloneServer) are shown to implement this module.              *)
(***************************************************************************)
EXTENDS Naturals, Sequences

CONSTANT Ops        \* submitted operations, records with at least the field id

VARIABLES
    log,            \* the canonical operations, log[v] committed as version v
    told            \* told[o]: final verdicts a client was given for o,
                    \* v > 0 for "accepted as v", 0 for "rejected"

canonicalVars == <<log, told>>

Committed(o) == \E v \in 1 .. Len(log) : log[v] = o
IdUsed(o)    == \E v \in 1 .. Len(log) : log[v].id = o.id

Init ==
    /\ log = <<>>
    /\ told = [o \in Ops |-> {}]

(* An operation whose id is new, and which no client believes rejected,    *)
(* becomes the next version.  The client may or may not hear of it.        *)
Accept(o) ==
    /\ ~IdUsed(o)
    /\ told[o] = {}
    /\ log' = Append(log, o)
    /\ told' \in {told, [told EXCEPT ![o] = {Len(log) + 1}]}

(* A verdict names the version the operation has, or denies one it will    *)
(* never have.                                                             *)
Answer(o, verdict) ==
    /\ \/ verdict \in 1 .. Len(log) /\ log[verdict] = o
       \/ verdict = 0 /\ ~Committed(o)
    /\ told' = [told EXCEPT ![o] = @ \cup {verdict}]
    /\ UNCHANGED log

Next ==
    \E o \in Ops :
        \/ Accept(o)
        \/ \E verdict \in 0 .. Len(log) : Answer(o, verdict)

Spec == Init /\ [][Next]_canonicalVars
====
