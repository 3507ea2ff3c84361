---- MODULE Gateway ----
(***************************************************************************)
(* One document at one Gateway (gateway.ts): the hub of the document, the  *)
(* WebSocket connections in it, and how each is synchronized from a Room   *)
(* Worker's snapshot and the WAL, kept up to date by Redis Pub/Sub, and    *)
(* repaired by the comparison of head watermarks.                          *)
(*                                                                         *)
(* Pub/Sub loses, repeats (the outbox delivers at least once) and reorders *)
(* events, so any committed version may arrive at any time, or never.  A   *)
(* Worker answers with its warm session, which may be behind the head.     *)
(*                                                                         *)
(* The async calls under way are tasks, with a step where PostgreSQL runs  *)
(* the query and another where the Gateway goes on with its rows: events   *)
(* arrive in between.  A canonical event is its version.                   *)
(***************************************************************************)
EXTENDS Naturals, FiniteSets, FiniteSetsExt

CONSTANTS
    Conns,          \* connection objects: each is one socket, from open to close
    SyncSlots,      \* synchronize calls a connection may have under way
    HubSlots,       \* catchupHub calls the hub may have under way
    PageSize,       \* the limit of eventsAfter
    WalVersions,    \* WAL rows compaction keeps below the head
    MaxHead         \* bound on commits

Catchup == 0        \* the slot of connection.catchup

ASSUME SlotsAssumption == SyncSlots \subseteq Nat \ {Catchup} /\ SyncSlots # {}
ASSUME LimitsAssumption == PageSize \in Nat \ {0} /\ WalVersions \in Nat /\ MaxHead \in Nat

Slots == {Catchup} \cup SyncSlots

VARIABLES
    \* PostgreSQL
    head,       \* document_head.canonical_version
    walFloor,   \* WAL rows up to this version have been compacted away
    \* the hub
    hubOpen,    \* the document has a hub in the map
    cursor,     \* hub.cursor
    members,    \* hub.connections
    hubTask,    \* catchupHub calls under way
    \* connections
    open,       \* sockets that are open
    stage,      \* "new", "auth" while its hello is authenticated, "in" with a context
    phase,      \* connection.phase
    lastSent,   \* connection.lastSentVersion
    queued,     \* versions in connection.queuedEvents
    task,       \* synchronize and sendEventsAfter calls under way
    \* history
    since,      \* the head when the latest synchronize of the connection began
    failed,     \* connections a synchronize of which threw after the latest began
    tangled     \* connections of which another call was under way then

storeVars == <<head, walFloor>>
hubVars   == <<hubOpen, cursor, members>>
connVars  == <<open, stage, phase, lastSent, queued>>
historyVars == <<since, failed, tangled>>
vars == <<storeVars, hubVars, hubTask, connVars, task, historyVars>>

Idle == [at |-> "idle", sync |-> FALSE, after |-> 0, page |-> {}]

Init ==
    /\ head = 0 /\ walFloor = 0
    /\ hubOpen = FALSE /\ cursor = 0 /\ members = {}
    /\ hubTask = [s \in HubSlots |-> Idle]
    /\ open = Conns
    /\ stage = [c \in Conns |-> "new"]
    /\ phase = [c \in Conns |-> "new"]
    /\ lastSent = [c \in Conns |-> 0]
    /\ queued = [c \in Conns |-> {}]
    /\ task = [c \in Conns |-> [s \in Slots |-> Idle]]
    /\ since = [c \in Conns |-> 0]
    /\ failed = {} /\ tangled = {}

-----------------------------------------------------------------------------
(* PostgreSQL, driven by the Workers *)

Committed ==
    /\ head < MaxHead
    /\ head' = head + 1
    /\ UNCHANGED <<walFloor, hubVars, hubTask, connVars, task, historyVars>>

Compacted ==
    /\ \E floor \in walFloor + 1 .. head :
          /\ floor + WalVersions <= head
          /\ walFloor' = floor
    /\ UNCHANGED <<head, hubVars, hubTask, connVars, task, historyVars>>

\* Mutant: the row already held is fetched again.
EventsFrom(v) ==
    LET first == IF v > walFloor THEN v ELSE walFloor
    IN  {row \in first .. head : row < first + PageSize}

\* The rows eventsAfter returns: a stretch of the WAL, at most a page long.
EventsAfter(v) ==
    LET first == IF v > walFloor THEN v + 1 ELSE walFloor + 1
    IN  {row \in first .. head : row < first + PageSize}

-----------------------------------------------------------------------------
(* Helpers *)

Querying(v, sync) == [at |-> "query", sync |-> sync, after |-> v, page |-> {}]
AwaitSnapshot     == [at |-> "snapshot", sync |-> TRUE, after |-> 0, page |-> {}]

\* A full page means there may be more; a short one ends the loop.
Last(page) == Cardinality(page) < PageSize

\* deliverEvent of a stretch of events to every connection of the hub: queued
\* while it syncs, sent when it continues what was sent, and otherwise a reason
\* to catch up, unless a catchup is under way.
Deliver(events) ==
    LET ready(c)  == c \in members /\ phase[c] = "ready"
        next(c)   == lastSent[c] + 1 \in events
        missed(c) == ~next(c) /\ \E v \in events : v > lastSent[c]
    IN
    /\ lastSent' = [c \in Conns |-> IF ready(c) /\ next(c) THEN Max(events) ELSE lastSent[c]]
    /\ queued' = [c \in Conns |-> IF c \in members /\ phase[c] = "syncing"
                                  THEN queued[c] \cup events ELSE queued[c]]
    /\ task' = [c \in Conns |->
                  IF ready(c) /\ missed(c) /\ task[c][Catchup] = Idle
                  THEN [task[c] EXCEPT ![Catchup] = Querying(lastSent[c], FALSE)]
                  ELSE task[c]]

\* synchronize up to its first await.
Synchronize(c, s) ==
    /\ phase' = [phase EXCEPT ![c] = "syncing"]
    /\ queued' = [queued EXCEPT ![c] = {}]
    /\ task' = [task EXCEPT ![c][s] = AwaitSnapshot]
    /\ since' = [since EXCEPT ![c] = head]
    /\ failed' = failed \ {c}
    /\ tangled' = IF s = Catchup \/ \E t \in Slots \ {s} : task[c][t] # Idle
                  THEN tangled \cup {c} ELSE tangled \ {c}

\* Mutant: what was queued is dropped.
ReadyDiscarding(c, s, v) ==
    /\ phase' = [phase EXCEPT ![c] = "ready"]
    /\ lastSent' = [lastSent EXCEPT ![c] = v]
    /\ queued' = [queued EXCEPT ![c] = {}]
    /\ task' = [task EXCEPT ![c][s] = Idle]

\* The rest of synchronize once the WAL has been read up to version v: the
\* connection is ready and gets the queued events that continue v.
Ready(c, s, v) ==
    LET upTo == Max({m \in v .. head : v + 1 .. m \subseteq queued[c]})
        gap  == \E e \in queued[c] : e > upTo
    IN
    /\ phase' = [phase EXCEPT ![c] = "ready"]
    /\ lastSent' = [lastSent EXCEPT ![c] = upTo]
    /\ queued' = [queued EXCEPT ![c] = {}]
    /\ task' = [task EXCEPT ![c] = [t \in Slots |->
                  IF t = s THEN Idle
                  ELSE IF t = Catchup /\ gap /\ task[c][t] = Idle THEN Querying(upTo, FALSE)
                  ELSE task[c][t]]]

OpenHub(v) ==
    /\ hubOpen' = TRUE
    /\ cursor' = IF hubOpen /\ cursor > v THEN cursor ELSE v

-----------------------------------------------------------------------------
(* Connections: attachSocket, handle, hello, detach *)

Hello(c) ==
    /\ c \in open /\ stage[c] = "new"
    /\ stage' = [stage EXCEPT ![c] = "auth"]
    /\ UNCHANGED <<storeVars, hubVars, hubTask, open, phase, lastSent, queued, task, historyVars>>

\* The hello goes on after its await, whether or not the socket is still open.
Authenticated(c, s) ==
    /\ stage[c] = "auth"
    /\ stage' = [stage EXCEPT ![c] = "in"]
    /\ OpenHub(0)
    /\ members' = members \cup {c}
    /\ Synchronize(c, s)
    /\ UNCHANGED <<storeVars, hubTask, open, lastSent>>

Recover(c, s) ==
    /\ c \in open /\ stage[c] = "in"
    /\ task[c][s] = Idle
    /\ Synchronize(c, s)
    /\ UNCHANGED <<storeVars, hubVars, hubTask, open, stage, lastSent>>

\* The hub goes with its last connection.  The calls under way on it serve no
\* connection any more; those of the connection itself go on.
Close(c) ==
    /\ c \in open
    /\ open' = open \ {c}
    /\ IF stage[c] = "in" /\ hubOpen
       THEN /\ members' = members \ {c}
            /\ IF members' = {}
               THEN hubOpen' = FALSE /\ cursor' = 0 /\ hubTask' = [s \in HubSlots |-> Idle]
               ELSE UNCHANGED <<hubOpen, cursor, hubTask>>
       ELSE UNCHANGED <<hubVars, hubTask>>
    /\ UNCHANGED <<storeVars, stage, phase, lastSent, queued, task, historyVars>>

\* The process exits: close(), a crash, or a rejection nobody handles (onRoomEvent
\* and deliverEvent leave those of their catchups).
Exit ==
    /\ open # {}
    /\ open' = {} /\ members' = {} /\ hubOpen' = FALSE /\ cursor' = 0
    /\ hubTask' = [s \in HubSlots |-> Idle]
    /\ task' = [c \in Conns |-> [s \in Slots |-> Idle]]
    /\ stage' = [c \in Conns |-> IF stage[c] = "auth" THEN "new" ELSE stage[c]]
    /\ UNCHANGED <<storeVars, phase, lastSent, queued, historyVars>>

-----------------------------------------------------------------------------
(* synchronize and sendEventsAfter *)

\* Mutant: the snapshot is taken to be the head.
TrustSnapshot(c, s) ==
    /\ task[c][s].at = "snapshot"
    /\ \E v \in 0 .. head :
          /\ lastSent' = [lastSent EXCEPT ![c] = v]
          /\ OpenHub(v)
    /\ task' = [task EXCEPT ![c][s] = Idle]
    /\ phase' = [phase EXCEPT ![c] = "ready"]
    /\ queued' = [queued EXCEPT ![c] = {}]
    /\ UNCHANGED <<storeVars, members, hubTask, open, stage, historyVars>>

\* A Worker answers fetchSnapshot with the version v of its session.
SnapshotArrives(c, s) ==
    /\ task[c][s].at = "snapshot"
    /\ \E v \in 0 .. head :
          /\ lastSent' = [lastSent EXCEPT ![c] = v]
          /\ OpenHub(v)
          /\ task' = [task EXCEPT ![c][s] = Querying(v, TRUE)]
    /\ UNCHANGED <<storeVars, members, hubTask, open, stage, phase, queued, historyVars>>

Query(c, s) ==
    /\ task[c][s].at = "query"
    /\ task' = [task EXCEPT ![c][s].at = "page", ![c][s].page = EventsAfter(task[c][s].after)]
    /\ UNCHANGED <<storeVars, hubVars, hubTask, connVars, historyVars>>

\* The events of a page that follow what was sent are sent; a hole in the WAL
\* starts the synchronization over.  Events sent meanwhile by another call are
\* skipped, and do not move the loop's own cursor.
Page(c, s) ==
    LET t    == task[c][s]
        new  == {v \in t.page : v > lastSent[c]}
        sent == IF new = {} THEN lastSent[c] ELSE Max(new)
    IN
    /\ t.at = "page"
    /\ IF new # {} /\ lastSent[c] + 1 \notin new
       THEN Synchronize(c, s) /\ UNCHANGED lastSent
       ELSE /\ UNCHANGED historyVars
            /\ \/ /\ ~Last(t.page)
                  /\ lastSent' = [lastSent EXCEPT ![c] = sent]
                  /\ task' = [task EXCEPT ![c][s] =
                                Querying(IF new = {} THEN t.after ELSE sent, t.sync)]
                  /\ UNCHANGED <<phase, queued>>
               \/ /\ Last(t.page) /\ t.sync
                  /\ Ready(c, s, sent)
               \/ /\ Last(t.page) /\ ~t.sync
                  /\ lastSent' = [lastSent EXCEPT ![c] = sent]
                  /\ task' = [task EXCEPT ![c][s] = Idle]
                  /\ UNCHANGED <<phase, queued>>
    /\ UNCHANGED <<storeVars, hubVars, hubTask, open, stage>>

\* fetchSnapshot or eventsAfter throws under handle, which tells the client to
\* retry and leaves the connection as it is.
SyncFails(c, s) ==
    /\ s \in SyncSlots
    /\ task[c][s].at \in {"snapshot", "query"}
    /\ task' = [task EXCEPT ![c][s] = Idle]
    /\ failed' = failed \cup {c}
    /\ UNCHANGED <<storeVars, hubVars, hubTask, connVars, since, tangled>>

-----------------------------------------------------------------------------
(* onRoomEvent, checkWatermarks, catchupHub *)

Event(v) ==
    /\ hubOpen
    /\ \/ /\ v = cursor + 1
          /\ cursor' = v
          /\ Deliver({v})
          /\ UNCHANGED hubTask
       \/ /\ v > cursor + 1
          /\ \E s \in HubSlots :
                /\ hubTask[s] = Idle
                /\ hubTask' = [hubTask EXCEPT ![s] = Querying(cursor, FALSE)]
          /\ UNCHANGED <<cursor, lastSent, queued, task>>
    /\ UNCHANGED <<storeVars, hubOpen, members, open, stage, phase, historyVars>>

\* Mutant: the next version is left to Pub/Sub.
CheckWatermarksLater(s) ==
    /\ hubOpen /\ head > cursor + 1 /\ hubTask[s] = Idle
    /\ hubTask' = [hubTask EXCEPT ![s] = Querying(cursor, FALSE)]
    /\ UNCHANGED <<storeVars, hubVars, connVars, task, historyVars>>

CheckWatermarks(s) ==
    /\ hubOpen /\ head > cursor /\ hubTask[s] = Idle
    /\ hubTask' = [hubTask EXCEPT ![s] = Querying(cursor, FALSE)]
    /\ UNCHANGED <<storeVars, hubVars, connVars, task, historyVars>>

HubQuery(s) ==
    /\ hubTask[s].at = "query"
    /\ hubTask' = [hubTask EXCEPT ![s].at = "page", ![s].page = EventsAfter(hubTask[s].after)]
    /\ UNCHANGED <<storeVars, hubVars, connVars, task, historyVars>>

\* Like Page, for the cursor of the hub, and without a look at holes.
HubPage(s) ==
    LET t   == hubTask[s]
        new == {v \in t.page : v > cursor}
    IN
    /\ t.at = "page"
    /\ IF new = {}
       THEN UNCHANGED <<cursor, lastSent, queued, task>>
       ELSE cursor' = Max(new) /\ Deliver(new)
    /\ hubTask' = [hubTask EXCEPT ![s] =
                     IF Last(t.page) THEN Idle
                     ELSE Querying(IF new = {} THEN t.after ELSE cursor', FALSE)]
    /\ UNCHANGED <<storeVars, hubOpen, members, open, stage, phase, historyVars>>

\* A query of checkWatermarks throws, and is swallowed.
HubQueryFails(s) ==
    /\ hubTask[s].at = "query"
    /\ hubTask' = [hubTask EXCEPT ![s] = Idle]
    /\ UNCHANGED <<storeVars, hubVars, connVars, task, historyVars>>

ConnStep(c) ==
    \/ Hello(c) \/ Close(c)
    \/ \E s \in SyncSlots : Authenticated(c, s) \/ Recover(c, s) \/ SyncFails(c, s)
    \/ \E s \in Slots : SnapshotArrives(c, s) \/ Query(c, s) \/ Page(c, s)

Next ==
    \/ Committed \/ Compacted \/ Exit
    \/ \E c \in Conns : ConnStep(c)
    \/ \E v \in 1 .. head : Event(v)
    \/ \E s \in HubSlots : CheckWatermarks(s) \/ HubQuery(s) \/ HubPage(s) \/ HubQueryFails(s)

\* Calls are answered in the end: fetch and the pool have timeouts, and
\* PostgreSQL does not fail for ever.  The watermark timer never stops.
Fairness ==
    /\ \A c \in Conns, s \in Slots :
          /\ WF_vars(SnapshotArrives(c, s))
          /\ WF_vars(Query(c, s))
          /\ WF_vars(Page(c, s))
    /\ \A s \in HubSlots :
          /\ WF_vars(CheckWatermarks(s))
          /\ SF_vars(HubQuery(s))
          /\ WF_vars(HubPage(s))

Spec     == Init /\ [][Next]_vars
LiveSpec == Spec /\ Fairness

-----------------------------------------------------------------------------
(* Properties *)

TaskType == [at : {"idle", "snapshot", "query", "page"}, sync : BOOLEAN,
             after : 0 .. head, page : SUBSET (1 .. head)]

\* Type correctness of the hub, its connections and the calls under way.
TypeOK ==
    /\ head \in 0 .. MaxHead /\ walFloor \in 0 .. head
    /\ hubOpen \in BOOLEAN /\ cursor \in 0 .. head /\ members \subseteq Conns
    /\ hubTask \in [HubSlots -> TaskType]
    /\ open \subseteq Conns
    /\ stage \in [Conns -> {"new", "auth", "in"}]
    /\ phase \in [Conns -> {"new", "syncing", "ready"}]
    /\ lastSent \in [Conns -> 0 .. head]
    /\ queued \in [Conns -> SUBSET (1 .. head)]
    /\ task \in [Conns -> [Slots -> TaskType]]
    /\ since \in [Conns -> 0 .. head]
    /\ failed \subseteq Conns /\ tangled \subseteq Conns

\* A connection that is ready, has nothing under way and was not told to retry.
Settled(c) ==
    /\ c \in open \ failed /\ phase[c] = "ready"
    /\ \A s \in Slots : task[c][s] = Idle

\* A client that asked for a synchronization has, once the Gateway is done with
\* it, every version committed before it asked: whatever stale session answered,
\* whatever other synchronizations of the connection ran, and whatever
\* compaction took from the WAL between two pages.
SettledIsFresh == \A c \in Conns : Settled(c) => lastSent[c] >= since[c]

\* What the hub counts as delivered was sent to every settled connection, unless
\* calls of the connection got tangled: an event that does not continue what was
\* sent is dropped while connection.catchup is set, also where that call is past
\* its last query, or is itself the synchronize that hands over the event.
KeepsUpWithHub == \A c \in Conns \ tangled : Settled(c) => lastSent[c] >= cursor

\* Whatever Pub/Sub loses, the hub learns of every committed version.
HubRepaired == []<>(hubOpen => cursor = head)

\* Whatever Pub/Sub loses, every ready connection is sent every committed version,
\* unless its calls got tangled.
ConnectionsRepaired ==
    \A c \in Conns : []<>(Settled(c) /\ c \notin tangled => lastSent[c] = head)
====
