---- MODULE StandaloneServer ----
(***************************************************************************)
(* The standalone WebSocket server (server-ws): its sockets, the room each *)
(* has joined and the hello handlers that wait for a lease, composed with  *)
(* the rooms of StandaloneRooms.                                           *)
(*                                                                         *)
(* One room is modelled; a connection that has said hello to another is one *)
(* that has not joined it.  The connection limits, the token bucket, a     *)
(* refused hello and a full set of rooms all end in socket.close, which    *)
(* Close takes at any time.  A client whose socket has closed has another   *)
(* as soon as it says hello again.                                         *)
(***************************************************************************)
EXTENDS StandaloneRooms

VARIABLES
    joined,    \* clients whose connection's roomKey is the room
    peers,     \* sockets in socketsByRoom of the room; empty when it has no entry
    overtaken, \* hellos whose connection's generation has moved on
    orphaned   \* hellos whose peer set is no longer in socketsByRoom

socketVars == <<joined, peers, overtaken, orphaned>>
vars       == <<roomVars, socketVars>>

Init ==
    /\ InitRooms
    /\ joined = {}
    /\ peers = {}
    /\ overtaken = {} /\ orphaned = {}

InFlight   == {q \in Callers : task[q].at # "none"}
Handlers(c) == {q \in InFlight : q[1] = c}

-----------------------------------------------------------------------------

\* The peers the room has once c has left it.
PeersWithout(c) == IF c \in joined THEN peers \ {c} ELSE peers

\* Handlers hold the peer set they joined; an emptied set leaves the map.
OrphanedBy(left) == IF left = {} THEN orphaned \cup InFlight ELSE orphaned

\* leaveRoom: the lease and its subscription end, the connection's generation
\* moves on.
Leave(c) ==
    /\ lease' = [lease EXCEPT ![c] = 0]
    /\ seen' = [seen EXCEPT ![c] = 0]
    /\ gap' = [gap EXCEPT ![c] = FALSE]
    /\ overtaken' = overtaken \cup Handlers(c)
    /\ orphaned' = OrphanedBy(PeersWithout(c))

\* An authenticated hello for the room: leave the old room, join the new one's
\* peers, ask the core for a lease.
Hello(c, k) ==
    LET left == PeersWithout(c) IN
    /\ task[<<c, k>>].at = "none"
    /\ Leave(c)
    /\ joined' = joined \cup {c}
    /\ peers' = left \cup {c}
    /\ Look(<<c, k>>, Released(c))
    /\ UNCHANGED <<retention, boots, diskVars, told>>

\* The same for another room, whose lease comes at once.
HelloElsewhere(c) ==
    /\ c \in joined
    /\ Leave(c)
    /\ joined' = joined \ {c}
    /\ peers' = PeersWithout(c)
    /\ ses' = Released(c)
    /\ UNCHANGED <<retention, boots, diskVars, room, task, told>>

\* Mutant: whether the connection has moved on is not checked.
KeepAlways(q) == TRUE

\* Whether a handler that gets its lease still speaks for its connection.
Keeps(q) == q \notin overtaken

\* The handler gets its lease: it joins and is sent the snapshot, or, overtaken
\* by another hello or the close, gives lease and place among the peers back.
HelloDone(q) ==
    LET c == q[1]
        s == task[q].on
        left == IF Keeps(q) \/ q \in orphaned THEN peers ELSE peers \ {c}
    IN
    /\ Acquired(q, Keeps(q))
    /\ lease' = [lease EXCEPT ![c] = IF Keeps(q) THEN s ELSE @]
    /\ seen' = [seen EXCEPT ![c] = IF Keeps(q) THEN ses[s].version ELSE @]
    /\ gap' = [gap EXCEPT ![c] = IF Keeps(q) THEN FALSE ELSE @]
    /\ peers' = left
    /\ overtaken' = overtaken \ {q}
    /\ orphaned' = (IF left # peers THEN OrphanedBy(left) ELSE orphaned) \ {q}
    /\ UNCHANGED <<retention, boots, diskVars, told, joined>>

Submit(c, o) == Enqueue(c, o) /\ UNCHANGED socketVars

\* A recover message is answered with the session's snapshot.
Recover(c) ==
    /\ lease[c] # 0
    /\ seen' = [seen EXCEPT ![c] = ses[lease[c]].version]
    /\ gap' = [gap EXCEPT ![c] = FALSE]
    /\ UNCHANGED <<retention, boots, diskVars, room, ses, task, lease, told, socketVars>>

\* Either side closes the socket; answers to what was submitted on it go nowhere.
Close(c) ==
    /\ Leave(c)
    /\ joined' = joined \ {c}
    /\ peers' = PeersWithout(c)
    /\ LET released == Released(c) IN
       ses' = [s \in Sessions |-> [released[s] EXCEPT !.queue =
                  [i \in DOMAIN @ |-> IF @[i].from = c THEN [@[i] EXCEPT !.from = Gone] ELSE @[i]]]]
    /\ UNCHANGED <<retention, boots, diskVars, room, task, told>>

SocketsGone ==
    /\ joined' = {} /\ peers' = {}
    /\ overtaken' = {} /\ orphaned' = {}

\* The process is killed, or ends by a rejection nobody handles.
Crash == KillRooms /\ SocketsGone

\* The handle's close: the sockets first, then the rooms.
Shutdown == CloseRooms /\ SocketsGone

Next ==
    \/ \E c \in Clients :
          \/ HelloElsewhere(c) \/ Recover(c) \/ Close(c)
          \/ \E k \in Slots[c] : Hello(c, k)
          \/ \E o \in Ops : Submit(c, o)
    \/ \E q \in Callers : HelloDone(q)
    \/ RoomStep /\ UNCHANGED socketVars
    \/ Crash
    \/ Shutdown

Spec == Init /\ [][Next]_vars

-----------------------------------------------------------------------------
(* Properties *)

\* The document has one ordering point: every connection that holds a lease, and
\* every operation that is queued, is with the session in the map, however
\* lookups, evictions and closes interleave (server-core's session, acquireRoom
\* and finishEviction).
OneOrderingPoint ==
    /\ \A c \in Clients : lease[c] # 0 => lease[c] = room
    /\ \A s \in Sessions : ses[s].queue # <<>> => s = room

\* A ready session holds exactly what a restart would load from the snapshot and
\* the WAL, so nothing a client sees is lost with the process (process, load).
SessionIsCanonical ==
    \A s \in Sessions :
        s = room /\ ses[s].stage = "ready" /\ ses[s].evicting # "deleting" =>
            /\ ses[s].doc = Replayed(snap.doc, snap.version)
            /\ ses[s].version = LastVersion(snap.version)

\* The leases counted for the room are those of the connections that hold it: an
\* overtaken hello leaks none, which would keep the room warm for ever, and gives
\* back none it does not have, which would let it be evicted in use
\* (acquireRoom's release, server-ws's generation check).
LeasesAreCounted ==
    room # 0 => ses[room].active = Cardinality({c \in Clients : lease[c] = room})

\* A connection that has joined and is not waiting for a snapshot has been sent
\* every version of its session, unless the commit of the last one failed to
\* store its periodic snapshot (the order of subscribe, snapshot and listeners).
NobodyMissesAnEvent ==
    \A c \in Clients :
        lease[c] # 0 /\ ~gap[c] /\ ses[lease[c]].running # "snapshotting"
        /\ seen[c] # ses[lease[c]].version =>
            /\ seen[c] < ses[lease[c]].version
            /\ \E v \in seen[c] + 1 .. ses[lease[c]].version : v % SnapshotInterval = 0
            /\ snap.version < ses[lease[c]].version

\* The operations that the durable files hold, in the order a load applies them.
DurableLog == Replayed(snap.doc, snap.version)

Log == INSTANCE CanonicalLog WITH log <- DurableLog

\* Between two deletions of the room, the WAL and snapshot files implement the
\* canonical log, and every verdict sent to a client is the log's: an accepted
\* operation is in it at the version answered, once, through evictions,
\* migrations and restarts.
ImplementsCanonicalLog == Log!Init /\ [][Log!Next \/ Erase]_<<DurableLog, told>>
====
