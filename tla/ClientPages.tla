---- MODULE ClientPages ----
(***************************************************************************)
(* The browser pages of one actor on one document (client-core): the queue *)
(* of optimistic operations, the connection, recovery, and the durable     *)
(* queue in IndexedDB that a reloaded page, or another tab, takes over.    *)
(*                                                                         *)
(* The service is what CanonicalLog promises, reached through a Gateway    *)
(* that handles the messages of a socket concurrently, binds operations to *)
(* the client id of the socket (gateway.ts) and compares fingerprints      *)
(* (worker.ts).  Messages to a page keep their order; operations under way *)
(* do not, and go on after their socket is gone.                           *)
(*                                                                         *)
(* Data abstraction.  A document is the sequence of log versions applied.   *)
(* The order of the queue is left out: the Gateway does not keep it.       *)
(***************************************************************************)
EXTENDS Naturals, Sequences, FiniteSets

CONSTANTS
    Pages,           \* page loads, each opened and closed once
    NoPage,          \* the page of an operation not submitted yet
    ClientId,        \* ClientId[p]: the client id page p connects with
    Ids,             \* ids of the actor's operations
    Other,           \* an operation of anybody else
    MaxPending,      \* operations a queue may hold
    MaxRecoveryGap,  \* widest version gap an operation is rebased over
    MaxOthers,       \* bound on the commits of others
    MaxFaults,       \* bound on losses, stale answers and refusals
    MaxInbox,        \* bound on messages on their way to a page
    SyncMayFail      \* whether a synchronization may fail in the Gateway

ASSUME PagesAssumption == NoPage \notin Pages /\ ClientId \in [Pages -> STRING]
ASSUME IdsAssumption == Other \notin Ids
ASSUME BoundsAssumption ==
    /\ MaxPending \in Nat /\ MaxRecoveryGap \in Nat /\ MaxOthers \in Nat
    /\ MaxFaults \in Nat /\ MaxInbox \in Nat \ {0} /\ SyncMayFail \in BOOLEAN

VARIABLES
    \* the service
    log,        \* canonical operations: [id, by], by the client id bound to it
    denied,     \* receipts of rejections: [id, by]
    \* the sockets
    copies,     \* copies[p][i]: submits of i under way on p's socket
    stray,      \* submits whose socket is gone, as <<i, client id>>
    link,       \* link[p]: the Gateway's side of p's connection
    inbox,      \* messages on their way to p
    \* the pages
    page,       \* "new", "loading" the durable queue, "open", "closed"
    socket,     \* "none", "opening", "open"
    conn,       \* diagnostics.connection
    version,    \* canonicalVersion
    doc,        \* canonical, NoDoc before the first snapshot
    pending,    \* pending[p][i]: the item of i in p's queue
    chain,      \* persistenceChain: mutations of the durable queue to come
    \* the browser profile
    storage,    \* ids in the durable queue
    \* history
    origin,     \* origin[i]: page and base version of the submit
    durable,    \* ids whose first mutation has been stored
    settled,    \* settled[i]: answers with which pages dropped i
    faults

serviceVars == <<log, denied>>
linkVars    == <<link, inbox>>
pageVars    == <<page, socket, conn, version, doc>>
queueVars   == <<copies, stray, pending, chain, storage>>
historyVars == <<origin, durable, settled, faults>>
vars == <<serviceVars, linkVars, pageVars, queueVars, historyVars>>

NoDoc    == <<0>>
UpTo(v)  == [k \in 1 .. v |-> k]
NoOp   == [page |-> NoPage, base |-> 0]
NoLink == [joined |-> FALSE, syncs |-> 0, readies |-> 0, lastSent |-> 0]
Unsent == [sent |-> FALSE, accepted |-> 0, resync |-> FALSE, timers |-> 0]
Clients == {ClientId[p] : p \in Pages}

Init ==
    /\ log = <<>> /\ denied = {}
    /\ copies = [p \in Pages |-> [i \in Ids |-> 0]]
    /\ stray = {}
    /\ link = [p \in Pages |-> NoLink]
    /\ inbox = [p \in Pages |-> <<>>]
    /\ page = [p \in Pages |-> "new"]
    /\ socket = [p \in Pages |-> "none"]
    /\ conn = [p \in Pages |-> "offline"]
    /\ version = [p \in Pages |-> 0]
    /\ doc = [p \in Pages |-> NoDoc]
    /\ pending = [p \in Pages |-> <<>>]
    /\ chain = [p \in Pages |-> <<>>]
    /\ storage = {}
    /\ origin = [i \in Ids |-> NoOp]
    /\ durable = {}
    /\ settled = [i \in Ids |-> {}]
    /\ faults = 0

-----------------------------------------------------------------------------
(* The service *)

HasReceipt(i) ==
    \/ \E v \in 1 .. Len(log) : log[v].id = i
    \/ \E r \in denied : r.id = i

\* Mutant: a rejection is not found before the operation is decided.
NotCommitted(i) == \A v \in 1 .. Len(log) : log[v].id # i

Undecided(i) == ~HasReceipt(i)

Message(kind, i, v) == [kind |-> kind, id |-> i, version |-> v]

\* A fault, while there may be more.
Fault == faults < MaxFaults /\ faults' = faults + 1

\* A copy of i is decided, on its socket or after it.
Decide(i, by) ==
    /\ Undecided(i)
    /\ \/ <<i, by>> \in stray
       \/ \E p \in Pages : ClientId[p] = by /\ copies[p][i] > 0
    /\ Len(log) - origin[i].base <= MaxRecoveryGap
    /\ \/ /\ log' = Append(log, [id |-> i, by |-> by])
          /\ UNCHANGED denied
       \/ /\ denied' = denied \cup {[id |-> i, by |-> by]}
          /\ UNCHANGED log
    /\ UNCHANGED <<linkVars, pageVars, queueVars, historyVars>>

OthersCommit ==
    /\ Cardinality({v \in 1 .. Len(log) : log[v].id = Other}) < MaxOthers
    /\ log' = Append(log, [id |-> Other, by |-> Other])
    /\ UNCHANGED <<denied, linkVars, pageVars, queueVars, historyVars>>

\* send: what a socket that is open is sent; one that reads too slowly is closed (Lose).
Reply(p, m) ==
    /\ Len(inbox[p]) < MaxInbox
    /\ inbox' = [inbox EXCEPT ![p] = Append(@, m)]

\* The answer a receipt gives to a copy of i bound to by.
Verdict(i, by) ==
    IF \E v \in 1 .. Len(log) : log[v] = [id |-> i, by |-> by]
    THEN Message("accepted", i, CHOOSE v \in 1 .. Len(log) : log[v].id = i)
    ELSE Message("rejected", i, 0)

\* A copy on p's socket is answered: from its receipt; with a resync, by the
\* owner because the gap is too wide or by a stale worker because the operation
\* is ahead of it; or by a refusal that asks for a retry.
Answer(p, i) ==
    /\ copies[p][i] > 0
    /\ copies' = [copies EXCEPT ![p][i] = @ - 1]
    /\ \/ /\ HasReceipt(i)
          /\ Reply(p, Verdict(i, ClientId[p]))
          /\ UNCHANGED faults
       \/ /\ ~HasReceipt(i)
          /\ Len(log) - origin[i].base > MaxRecoveryGap
          /\ Reply(p, Message("resync", i, 0))
          /\ UNCHANGED faults
       \/ /\ ~HasReceipt(i)
          /\ origin[i].base > 0
          /\ Reply(p, Message("resync", i, 0))
          /\ Fault
       \/ /\ Reply(p, Message("retry", i, 0))
          /\ Fault
    /\ UNCHANGED <<serviceVars, link, pageVars, stray, pending, chain, storage,
                   origin, durable, settled>>

\* synchronize: the snapshot, which may be a stale worker's; then the events
\* after it, and ready.
SendSnapshot(p) ==
    /\ link[p].syncs > 0
    /\ \E v \in 0 .. Len(log) :
          /\ Reply(p, Message("snapshot", Other, v))
          /\ link' = [link EXCEPT ![p] = [joined |-> TRUE, syncs |-> @.syncs - 1,
                                          readies |-> @.readies + 1, lastSent |-> v]]
          /\ IF v = Len(log) THEN UNCHANGED faults ELSE Fault
    /\ UNCHANGED <<serviceVars, pageVars, queueVars, origin, durable, settled>>

SendEvent(p) ==
    /\ link[p].joined /\ link[p].lastSent < Len(log)
    /\ Reply(p, Message("event", Other, link[p].lastSent + 1))
    /\ link' = [link EXCEPT ![p].lastSent = @ + 1]
    /\ UNCHANGED <<serviceVars, pageVars, queueVars, historyVars>>

SendReady(p) ==
    /\ link[p].readies > 0
    /\ Reply(p, Message("ready", Other, link[p].lastSent))
    /\ link' = [link EXCEPT ![p].readies = @ - 1]
    /\ UNCHANGED <<serviceVars, pageVars, queueVars, historyVars>>

\* synchronize throws: the page is told to retry an operation it does not have.
SyncFails(p) ==
    /\ SyncMayFail
    /\ link[p].syncs > 0
    /\ Fault
    /\ Reply(p, Message("retry", Other, 0))
    /\ link' = [link EXCEPT ![p].syncs = @ - 1]
    /\ UNCHANGED <<serviceVars, pageVars, queueVars, origin, durable, settled>>

-----------------------------------------------------------------------------
(* Helpers of the page *)

Queue(p) == DOMAIN pending[p]

\* flush: with an open socket and the connection online, all that is unsent goes.
Flush(p, items, connection) ==
    LET due == IF connection = "online" /\ socket[p] = "open"
               THEN {i \in DOMAIN items : ~items[i].sent} ELSE {}
    IN
    /\ pending' = [pending EXCEPT ![p] = [i \in DOMAIN items |->
                      IF i \in due THEN [items[i] EXCEPT !.sent = TRUE] ELSE items[i]]]
    /\ copies' = [copies EXCEPT ![p] = [i \in Ids |-> IF i \in due THEN @[i] + 1 ELSE @[i]]]
    /\ conn' = [conn EXCEPT ![p] = connection]

Mutation(add, remove) == [add |-> add, remove |-> remove]

\* persistMutation.
Persist(p, m) == chain' = [chain EXCEPT ![p] = Append(@, m)]

\* requestRecovery, and the recover a resync sends.
Recover(p) ==
    /\ conn' = [conn EXCEPT ![p] = "resyncing"]
    /\ link' = [link EXCEPT ![p].syncs = @ + 1]

Without(items, done) == [i \in DOMAIN items \ done |-> items[i]]

\* The socket is gone, for the Gateway and for what it had under way.
Unlink(p) ==
    /\ link' = [link EXCEPT ![p] = NoLink]
    /\ inbox' = [inbox EXCEPT ![p] = <<>>]
    /\ socket' = [socket EXCEPT ![p] = "none"]
    /\ stray' = stray \cup {<<i, ClientId[p]>> : i \in {j \in Ids : copies[p][j] > 0}}
    /\ copies' = [copies EXCEPT ![p] = [i \in Ids |-> 0]]

-----------------------------------------------------------------------------
(* The life of a page: construction, connect, close events, disconnect *)

Load(p) ==
    /\ page[p] = "new"
    /\ page' = [page EXCEPT ![p] = "loading"]
    /\ conn' = [conn EXCEPT ![p] = "connecting"]
    /\ UNCHANGED <<serviceVars, linkVars, socket, version, doc, queueVars, historyVars>>

\* restorePending, and the openSocket that waits for it.
Restore(p) ==
    /\ page[p] = "loading"
    /\ page' = [page EXCEPT ![p] = "open"]
    /\ socket' = [socket EXCEPT ![p] = "opening"]
    /\ \/ /\ pending' = [pending EXCEPT ![p] = [i \in Queue(p) \cup storage |->
                             IF i \in Queue(p) THEN pending[p][i] ELSE Unsent]]
          /\ UNCHANGED faults
       \/ /\ Fault
          /\ UNCHANGED pending
    /\ UNCHANGED <<serviceVars, linkVars, conn, version, doc, copies, stray, chain, storage,
                   origin, durable, settled>>

\* The reconnect timer, or connect.
Connect(p) ==
    /\ page[p] = "open" /\ socket[p] = "none"
    /\ socket' = [socket EXCEPT ![p] = "opening"]
    /\ conn' = [conn EXCEPT ![p] = "connecting"]
    /\ UNCHANGED <<serviceVars, linkVars, page, version, doc, queueVars, historyVars>>

Hello(p) ==
    /\ socket[p] = "opening"
    /\ socket' = [socket EXCEPT ![p] = "open"]
    /\ link' = [link EXCEPT ![p].syncs = 1]
    /\ UNCHANGED <<serviceVars, inbox, page, conn, version, doc, queueVars, historyVars>>

\* A close event; disconnect and a socket that was replaced leave sent alone.
Lose(p) ==
    /\ socket[p] # "none"
    /\ Fault
    /\ Unlink(p)
    /\ conn' = [conn EXCEPT ![p] = "offline"]
    /\ \/ pending' = [pending EXCEPT ![p] = [i \in Queue(p) |-> [@[i] EXCEPT !.sent = FALSE]]]
       \/ UNCHANGED pending
    /\ UNCHANGED <<serviceVars, page, version, doc, chain, storage, origin, durable, settled>>

\* The page is closed or reloaded: its memory is gone.
Close(p) ==
    /\ page[p] \in {"loading", "open"}
    /\ page' = [page EXCEPT ![p] = "closed"]
    /\ Unlink(p)
    /\ conn' = [conn EXCEPT ![p] = "offline"]
    /\ version' = [version EXCEPT ![p] = 0]
    /\ doc' = [doc EXCEPT ![p] = NoDoc]
    /\ pending' = [pending EXCEPT ![p] = <<>>]
    /\ chain' = [chain EXCEPT ![p] = <<>>]
    /\ UNCHANGED <<serviceVars, storage, historyVars>>

-----------------------------------------------------------------------------
(* The queue: submit, the retry timers, the durable queue *)

Submit(p, i) ==
    /\ page[p] \in {"loading", "open"}
    /\ origin[i] = NoOp
    /\ origin' = [origin EXCEPT ![i] = [page |-> p, base |-> version[p]]]
    /\ IF Cardinality(Queue(p)) < MaxPending
       THEN /\ Flush(p, [j \in Queue(p) \cup {i} |-> IF j = i THEN Unsent ELSE pending[p][j]], conn[p])
            /\ Persist(p, Mutation({i}, {}))
            /\ UNCHANGED settled
       ELSE /\ settled' = [settled EXCEPT ![i] = @ \cup {Message("rejected", i, 0)}]
            /\ UNCHANGED <<pending, copies, conn, chain>>
    /\ UNCHANGED <<serviceVars, linkVars, page, socket, version, doc, stray, storage,
                   durable, faults>>

\* The timer of a retryLater.
Retry(p, i) ==
    /\ i \in Queue(p) /\ pending[p][i].timers > 0
    /\ Flush(p, [pending[p] EXCEPT ![i].timers = @ - 1, ![i].sent = FALSE], conn[p])
    /\ UNCHANGED <<serviceVars, linkVars, page, socket, version, doc, stray, chain, storage,
                   historyVars>>

\* Mutant: the whole queue is saved.
StoreWhole(p) ==
    /\ chain[p] # <<>>
    /\ chain' = [chain EXCEPT ![p] = Tail(@)]
    /\ storage' = Queue(p)
    /\ durable' = durable \cup Queue(p)
    /\ UNCHANGED <<serviceVars, linkVars, pageVars, copies, stray, pending, origin, settled, faults>>

\* The next mutation of the durable queue, a transaction of its own; one that
\* fails is not tried again.
Store(p) ==
    LET m == Head(chain[p]) IN
    /\ chain[p] # <<>>
    /\ chain' = [chain EXCEPT ![p] = Tail(@)]
    /\ \/ /\ storage' = (storage \ m.remove) \cup m.add
          /\ durable' = durable \cup m.add
          /\ UNCHANGED faults
       \/ /\ Fault
          /\ UNCHANGED <<storage, durable>>
    /\ UNCHANGED <<serviceVars, linkVars, pageVars, copies, stray, pending, origin, settled>>

-----------------------------------------------------------------------------
(* handle, by kind of message *)

Receive(p, kind) ==
    /\ inbox[p] # <<>> /\ Head(inbox[p]).kind = kind
    /\ inbox' = [inbox EXCEPT ![p] = Tail(@)]

\* The promises of the operations answered are resolved, their items removed.
Settle(p, answers) ==
    LET done == DOMAIN answers IN
    /\ settled' = [i \in Ids |-> IF i \in done THEN settled[i] \cup {answers[i]} ELSE settled[i]]
    /\ IF done = {} THEN UNCHANGED chain ELSE Persist(p, Mutation({}, done))

\* Mutant: the items that go on keep sent.
HandleSnapshotKeepsSent(p) ==
    LET v    == Head(inbox[p]).version
        item(i) == pending[p][i]
        done == {i \in Queue(p) : item(i).resync \/ item(i).accepted \in 1 .. v}
        answers == [i \in done |-> IF item(i).resync THEN Message("resync", i, 0)
                                   ELSE Message("accepted", i, item(i).accepted)]
    IN
    /\ Receive(p, "snapshot")
    /\ version' = [version EXCEPT ![p] = v]
    /\ doc' = [doc EXCEPT ![p] = UpTo(v)]
    /\ Settle(p, answers)
    /\ Flush(p, [i \in Queue(p) \ done |-> item(i)],
             IF conn[p] = "connecting" THEN "connecting" ELSE "online")
    /\ UNCHANGED <<serviceVars, link, page, socket, stray, storage, origin, durable, faults>>

HandleSnapshot(p) ==
    LET v    == Head(inbox[p]).version
        item(i) == pending[p][i]
        done == {i \in Queue(p) : item(i).resync \/ item(i).accepted \in 1 .. v}
        answers == [i \in done |-> IF item(i).resync THEN Message("resync", i, 0)
                                   ELSE Message("accepted", i, item(i).accepted)]
    IN
    /\ Receive(p, "snapshot")
    /\ version' = [version EXCEPT ![p] = v]
    /\ doc' = [doc EXCEPT ![p] = UpTo(v)]
    /\ Settle(p, answers)
    /\ Flush(p, [i \in Queue(p) \ done |-> [item(i) EXCEPT !.sent = FALSE]],
             IF conn[p] = "connecting" THEN "connecting" ELSE "online")
    /\ UNCHANGED <<serviceVars, link, page, socket, stray, storage, origin, durable, faults>>

HandleReady(p) ==
    /\ Receive(p, "ready")
    /\ IF doc[p] = NoDoc \/ Head(inbox[p]).version # version[p]
       THEN Recover(p) /\ UNCHANGED <<pending, copies>>
       ELSE Flush(p, pending[p], "online") /\ UNCHANGED link
    /\ UNCHANGED <<serviceVars, page, socket, version, doc, stray, chain, storage, historyVars>>

Advance(p, v) ==
    /\ version' = [version EXCEPT ![p] = v]
    /\ doc' = [doc EXCEPT ![p] = Append(@, v)]

\* Mutant: an event is applied whatever its version.
HandleEventBlindly(p) ==
    /\ Receive(p, "event")
    /\ Advance(p, Head(inbox[p]).version)
    /\ UNCHANGED <<serviceVars, link, page, socket, conn, queueVars, historyVars>>

HandleEvent(p) ==
    LET v == Head(inbox[p]).version IN
    /\ Receive(p, "event")
    /\ \/ /\ doc[p] = NoDoc \/ v > version[p] + 1
          /\ Recover(p)
          /\ UNCHANGED <<version, doc>>
       \/ /\ doc[p] # NoDoc /\ v <= version[p]
          /\ UNCHANGED <<conn, link, version, doc>>
       \/ /\ doc[p] # NoDoc /\ v = version[p] + 1
          /\ Advance(p, v)
          /\ UNCHANGED <<conn, link>>
    /\ UNCHANGED <<serviceVars, page, socket, queueVars, historyVars>>

\* An operation that cannot be resolved is settled by the next snapshot.
HandleResync(p) ==
    LET i == Head(inbox[p]).id IN
    /\ Receive(p, "resync")
    /\ Recover(p)
    /\ pending' = IF i \in Queue(p) THEN [pending EXCEPT ![p][i].resync = TRUE] ELSE pending
    /\ UNCHANGED <<serviceVars, page, socket, version, doc, copies, stray, chain, storage,
                   historyVars>>

HandleRetry(p) ==
    LET i == Head(inbox[p]).id IN
    /\ Receive(p, "retry")
    /\ pending' = IF i \in Queue(p)
                  THEN [pending EXCEPT ![p][i].sent = TRUE, ![p][i].timers = @ + 1]
                  ELSE pending
    /\ UNCHANGED <<serviceVars, link, page, socket, conn, version, doc, copies, stray, chain,
                   storage, historyVars>>

\* An acceptance ahead of the document waits for the snapshot.
HandleAccepted(p) ==
    LET m == Head(inbox[p])
        i == m.id
    IN
    /\ Receive(p, "accepted")
    /\ \/ /\ doc[p] = NoDoc \/ m.version > version[p] + 1
          /\ pending' = IF i \in Queue(p) THEN [pending EXCEPT ![p][i].accepted = m.version]
                        ELSE pending
          /\ Recover(p)
          /\ UNCHANGED <<version, doc, chain, settled>>
       \/ /\ doc[p] # NoDoc /\ m.version <= version[p] + 1
          /\ IF m.version = version[p] + 1 THEN Advance(p, m.version) ELSE UNCHANGED <<version, doc>>
          /\ pending' = [pending EXCEPT ![p] = Without(@, {i})]
          /\ Settle(p, [j \in {i} \cap Queue(p) |-> m])
          /\ UNCHANGED <<conn, link>>
    /\ UNCHANGED <<serviceVars, page, socket, copies, stray, storage, origin, durable, faults>>

HandleRejected(p) ==
    LET m == Head(inbox[p]) IN
    /\ Receive(p, "rejected")
    /\ pending' = [pending EXCEPT ![p] = Without(@, {m.id})]
    /\ Settle(p, [j \in {m.id} \cap Queue(p) |-> m])
    /\ UNCHANGED <<serviceVars, link, page, socket, conn, version, doc, copies, stray, storage,
                   origin, durable, faults>>

Handle(p) ==
    \/ HandleSnapshot(p) \/ HandleReady(p) \/ HandleEvent(p)
    \/ HandleResync(p) \/ HandleRetry(p) \/ HandleAccepted(p) \/ HandleRejected(p)

PageStep(p) ==
    \/ Load(p) \/ Restore(p) \/ Connect(p) \/ Hello(p) \/ Lose(p) \/ Close(p)
    \/ Store(p) \/ Handle(p)
    \/ SendSnapshot(p) \/ SendEvent(p) \/ SendReady(p) \/ SyncFails(p)
    \/ \E i \in Ids : Submit(p, i) \/ Retry(p, i) \/ Answer(p, i)

Next ==
    \/ \E p \in Pages : PageStep(p)
    \/ \E i \in Ids, by \in Clients : Decide(i, by)
    \/ OthersCommit

\* Timers fire, messages arrive, and every call of the Gateway is answered
\* within its timeout; what goes wrong on the way, faults counts.  Events may
\* never come.
Fairness ==
    /\ \A p \in Pages :
          /\ WF_vars(Restore(p)) /\ WF_vars(Connect(p)) /\ WF_vars(Hello(p))
          /\ WF_vars(Handle(p))
          /\ WF_vars(SendSnapshot(p)) /\ WF_vars(SendReady(p))
          /\ \A i \in Ids : WF_vars(Retry(p, i)) /\ WF_vars(Answer(p, i))
    /\ \A i \in Ids, by \in Clients : WF_vars(Decide(i, by))

Spec     == Init /\ [][Next]_vars
LiveSpec == Spec /\ Fairness

-----------------------------------------------------------------------------
(* Properties *)

\* The document a page shows is the canonical one of the version it says,
\* in whatever order snapshots, events and results come.
DocumentIsPrefix ==
    \A p \in Pages : doc[p] # NoDoc => doc[p] = UpTo(version[p])

\* What a page drops an operation with is true for ever: accepted means that the
\* operation is in the log at that version, rejected that it never will be.
OutcomesAreTrue ==
    \A i \in Ids : \A a \in settled[i] :
        /\ a.kind = "accepted" => a.version <= Len(log) /\ log[a.version].id = i
        /\ a.kind = "rejected" => \A v \in 1 .. Len(log) : log[v].id # i

\* A stored operation stays in the durable queue until some page has an answer,
\* whatever pages are closed and whatever other tabs store.
NothingLost ==
    \A i \in durable : settled[i] = {} => i \in storage

Coming(p, kinds, i) ==
    \E k \in 1 .. Len(inbox[p]) : inbox[p][k].kind \in kinds /\ inbox[p][k].id = i

\* A connected page never forgets an operation: an answer to it or a timer is
\* under way, or a snapshot that has it sent again.
NothingForgotten ==
    \A p \in Pages : \A i \in Queue(p) :
        socket[p] = "open" =>
            \/ link[p].syncs > 0 \/ Coming(p, {"snapshot"}, Other)
            \/ conn[p] = "connecting" /\ (link[p].readies > 0 \/ Coming(p, {"ready"}, Other))
            \/ pending[p][i].sent /\ \/ copies[p][i] > 0
                                     \/ pending[p][i].timers > 0
                                     \/ Coming(p, {"retry", "resync", "accepted", "rejected"}, i)

\* Every operation of a page that stays open is settled in the end.
PendingSettles ==
    \A p \in Pages, i \in Ids : i \in Queue(p) ~> i \notin Queue(p)
====
