---- MODULE Editing ----
(***************************************************************************)
(* Applications that edit one document: their commands become operations   *)
(* with optimistic patches, computed on what the client shows; the server  *)
(* decides each operation on the canonical document (prepare, server-core) *)
(* with the strategies, policies and invariants of its Domain Pack; and    *)
(* the clients apply the canonical patches under what they have pending.   *)
(*                                                                         *)
(* This module is about what is in the documents.  How operations, events  *)
(* and answers travel is in ClientPages, RoomWorkers and Gateway: here an  *)
(* operation waits at its client until it is decided, and events arrive in *)
(* order.  The server knows its whole history.                             *)
(***************************************************************************)
EXTENDS DomainPacks

CONSTANTS
    Clients,
    Packs,          \* the Domain Packs, of which one is chosen
    Commands(_, _), \* what an application with the pack may do to what it shows
    MaxRecoveryGap, \* widest version gap an operation without a policy is rebased over
    MaxEdits(_)     \* bound on the commands of a behaviour, for each pack

ASSUME BoundsAssumption == MaxRecoveryGap \in Nat /\ \A p \in Packs : MaxEdits(p) \in Nat

VARIABLES
    pack,
    log,      \* the committed operations: [op, command, patches]
    docs,     \* the canonical documents, from the initial one
    canon,    \* the canonical version each client has
    pending,  \* each client's pending operations, oldest first
    edits

vars == <<pack, log, docs, canon, pending, edits>>

StateAt(v) == docs[v + 1]
doc        == StateAt(Len(log))

\* reproject: the canonical document of the client, with what it has pending.
Projected(d, queue) ==
    FoldLeft(LAMBDA projected, item : ApplyPatches(projected, item.optimistic), d, queue)

Projection(c) == Projected(StateAt(canon[c]), pending[c])

Init ==
    /\ pack \in Packs
    /\ log = <<>> /\ docs = <<InitialState(pack)>>
    /\ canon = [c \in Clients |-> 0]
    /\ pending = [c \in Clients |-> <<>>]
    /\ edits = 0

Undecided == [kind |-> "undecided"]

\* execute: a command is adapted to what the client shows, which may throw.
Submitted(c, queue, command, adapted) ==
    IF "op" \notin DOMAIN adapted THEN queue
    ELSE Append(queue, [op |-> adapted.op, command |-> command, base |-> canon[c],
                        optimistic |-> adapted.optimistic, verdict |-> Undecided])

ExecuteOn(c, shown) ==
    /\ shown # Thrown
    /\ \E command \in Commands(pack, shown) :
         pending' = [pending EXCEPT ![c] = Submitted(c, @, command, Adapt(pack, command, shown))]
    /\ pending' # pending

Execute(c) ==
    /\ edits < MaxEdits(pack)
    /\ ExecuteOn(c, Projection(c))
    /\ edits' = edits + 1
    /\ UNCHANGED <<pack, log, docs, canon>>

\* prepare: the operation's verdict, and the document when it is accepted.
Checked(result, next, validity) ==
    IF result.kind = "reject" THEN result
    ELSE IF next = Thrown THEN Reject("strategyFailure")
    ELSE IF validity # "valid" THEN Reject(validity)
    ELSE [kind |-> "accept", patches |-> result.patches, version |-> Len(log) + 1, doc |-> next]

\* Mutant: the invariants of the pack are not checked.
ResolvedUnchecked(result, next) == Checked(result, next, "valid")

Resolved(result, next) == Checked(result, next, Invariants(pack, next))

Prepare(op, base) ==
    LET gap    == Len(log) - base
        policy == IF gap > 0 THEN StalePolicy(pack, op, gap > MaxRecoveryGap) ELSE "resolve"
        Apply(result) == Resolved(result, ApplyPatches(doc, result.patches))
    IN  CASE policy = "reject"  -> Reject("staleVersion")
          [] policy = "resync"  -> [kind |-> "resync"]
          [] policy = "resolve" -> Apply(StrategyResult(pack, op, base, doc, Len(log)))

\* The server decides the oldest operation of a client that is not decided.
DecideAs(c, i, verdict) ==
    IF verdict.kind = "accept"
    THEN /\ log' = Append(log, [op |-> pending[c][i].op, command |-> pending[c][i].command,
                                patches |-> verdict.patches])
         /\ docs' = Append(docs, verdict.doc)
         /\ pending' = [pending EXCEPT ![c][i].verdict = [kind |-> "accept", version |-> verdict.version]]
    ELSE /\ pending' = [pending EXCEPT ![c][i].verdict = verdict]
         /\ UNCHANGED <<log, docs>>

Decide(c) ==
    LET i == SelectInSeq(pending[c], LAMBDA item : item.verdict = Undecided)
    IN  /\ i # 0
        /\ DecideAs(c, i, Prepare(pending[c][i].op, pending[c][i].base))
        /\ UNCHANGED <<pack, canon, edits>>

\* handleCanonical.
HearEvent(c) ==
    /\ canon[c] < Len(log)
    /\ canon' = [canon EXCEPT ![c] = @ + 1]
    /\ UNCHANGED <<pack, log, docs, pending, edits>>

\* handleSnapshot settles what the snapshot contains, and what was told to resynchronize.
AfterSnapshot(c) ==
    /\ canon' = [canon EXCEPT ![c] = Len(log)]
    /\ pending' = [pending EXCEPT ![c] = SelectSeq(@, LAMBDA i : i.verdict.kind \in {"undecided", "reject"})]

\* handleResult, of the oldest operation: the next version is applied, a gap or a
\* resynchronization is answered with a snapshot.
HearResult(c) ==
    /\ pending[c] # <<>>
    /\ LET verdict == Head(pending[c]).verdict
           next    == verdict.kind = "accept" /\ verdict.version = canon[c] + 1
           behind  == verdict.kind = "accept" /\ verdict.version > canon[c] + 1
       IN  /\ verdict # Undecided
           /\ IF behind \/ verdict.kind = "resync" THEN AfterSnapshot(c)
              ELSE /\ canon' = [canon EXCEPT ![c] = IF next THEN @ + 1 ELSE @]
                   /\ pending' = [pending EXCEPT ![c] = Tail(@)]
    /\ UNCHANGED <<pack, log, docs, edits>>

Next ==
    \E c \in Clients : Execute(c) \/ Decide(c) \/ HearEvent(c) \/ HearResult(c)

Spec == Init /\ [][Next]_vars

----------------------------------------------------------------------------
Custom(command) == command.type \in {"custom", "set", "unset", "create", "delete", "transaction"}

OfApplication(d, command) ==
    CASE pack.domain = "draft" -> ApplyDraftCommand(d, command)
      [] pack.domain = "graph" -> ApplyGraphCommand(d, command)
      [] pack.domain = "model" -> Reduce(d, command)

\* buildSectionCommandPatches, buildGraphCommandPatches, diffJsonObjects: the patches of
\* the accepted commands, whatever they were computed against, leave the document that
\* the application's own functions make of the same commands, one after the other.
DocumentIsItsCommands ==
    (pack.domain \in {"draft", "graph", "model"} /\ \A i \in DOMAIN log : ~Custom(log[i].command)) =>
      doc = FoldLeft(LAMBDA d, entry : IF d = Thrown THEN d ELSE OfApplication(d, entry.command), InitialState(pack), log)

\* prepare (server-core): because the server derives the patches from its own document,
\* a command of the application, however stale, never fails the pack's invariants.
CommandsKeepInvariants ==
    pack.domain # "json" =>
      \A c \in Clients : \A i \in DOMAIN pending[c] :
        LET item == pending[c][i]
        IN  Custom(item.command) \/ item.verdict.kind # "reject"
              \/ item.verdict.code \notin {"invariantViolation", "strategyFailure"}

\* Everybody has everything.
Quiet == \A c \in Clients : pending[c] = <<>> /\ canon[c] = Len(log)

\* The operations of the log from one on, applied to a document.
Replay(d, first) ==
    FoldLeft(LAMBDA replayed, entry : ApplyPatches(replayed, entry.patches), d, SubSeq(log, first, Len(log)))

\* A document, but for the order in the arrays of its lists.
Unordered(d) ==
    [key \in DOMAIN Data(d) |-> LET value == Get(d, key)
                                IN  IF Kind(value) = "list" THEN <<"bag", ToBag(Data(value))>> ELSE value]

\* applyCanonicalPatch: a replica whose document is ahead of its version (a load that
\* overlapped a commit) and that applies the operations it already has once more ends in
\* the same document up to the order in its lists, or throws on what is no list any more.
ReplayAbsorbs ==
    Quiet => \A v \in 0 .. Len(log) : \A ahead \in v + 1 .. Len(log) :
      LET again == Replay(StateAt(ahead), v + 1)
      IN  again = Thrown \/ Unordered(again) = Unordered(doc)

\* reproject (client-core): with a pack whose invariants keep its lists, whatever others
\* commit, a client can apply its pending patches to the canonical document.
ProjectionComputes ==
    pack.domain # "json" => \A c \in Clients : Projection(c) # Thrown

\* What an operation puts after what.
Places(op) ==
    CASE op.type = "list.move" -> {[collection |-> op.collection, id |-> op.id, after |-> op.after]}
      [] op.type = "section.add" -> {[collection |-> "sections", id |-> op.command.id, after |-> op.command.after]}
      [] op.type \in {"block.insert", "block.move"} ->
           {[collection |-> "blocks", id |-> op.command.id, after |-> op.command.after]}
      [] OTHER -> {}

\* listOrderStrategy, positionFor: an entity that the last operation put after another
\* directly follows it in the order of the keys, or comes first when none was named.
MovedWhereAsked ==
    log # <<>> => \A p \in Places(Last(log).op) :
      LET items   == Entities(doc, p.collection)
          ordered == Ordered(items)
      IN  (/\ \A j \in DOMAIN items : Get(items[j], "orderKey") # Undefined
           /\ p.after = "" \/ HasEntity(doc, p.collection, p.after))
          => PlaceOf(ordered, p.id) = PlaceOf(ordered, p.after) + 1

\* withCanonicalRevision: a review is only submitted for the document that its client
\* saw: no operation of any kind was committed in between, whatever wrote the revision.
ReviewedAsSeen ==
    \A i \in DOMAIN log :
      log[i].command.type = "draft.submitReview" => log[i].command.revision = i - 1

\* diffJsonObjects: the difference of any two versions of a document is a patch from one
\* to the other.
DiffRebuilds ==
    Quiet => \A v, w \in 0 .. Len(log) : ApplyPatches(StateAt(v), DiffJson(StateAt(v), StateAt(w))) = StateAt(w)
====
