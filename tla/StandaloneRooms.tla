---- MODULE StandaloneRooms ----
(***************************************************************************)
(* One document served by the standalone runtime of server-core: the       *)
(* session that is its only ordering point, the cache of warm rooms that   *)
(* creates, shares and evicts sessions, and the storage adapter (a WAL     *)
(* file and a snapshot file).  Nothing fences a session here: that there   *)
(* is one at a time rests on the cache alone.                              *)
(*                                                                         *)
(* The callers of acquireRoom are the hello handlers of server-ws, one     *)
(* task each; StandaloneServer composes them with the sockets.             *)
(*                                                                         *)
(* Data abstraction.  A document is the function that gives the operation  *)
(* applied as each version; all other rooms of the server are the constant *)
(* Crowded; the idle time of a room has passed or not at any moment.  Every     *)
(* await of a storage call is a boundary between two steps.                *)
(***************************************************************************)
EXTENDS Naturals, Sequences, FiniteSets

CONSTANTS
    Clients,          \* clients, each with one connection at a time
    Gone,             \* the sender of an operation whose socket has closed
    Slots,            \* Slots[c]: hello messages of c's socket handled at a time
    Ops,              \* the operations clients may submit
    Sessions,         \* bound on session objects alive at a time
    SchemaAt,         \* SchemaAt[b]: schema version the server runs after b starts
    MaxQueue,         \* bound on operations queued in a session
    MaxRecoveryGap,   \* widest version gap an operation is rebased over
    SnapshotInterval, \* a snapshot is written every so many versions
    Retentions,       \* roomDataRetention settings considered
    Crowded,          \* the other rooms may fill the cache
    SweepsOverlap     \* a hello may create the session while another sweeps the cache

Strategies == {"merge", "atBase", "byState"}
Operation  == [id : STRING, client : Clients, base : Nat, schema : Nat, strategy : Strategies]

ASSUME StandaloneAssumption ==
    /\ IsFiniteSet(Clients) /\ Gone \notin Clients
    /\ Ops \subseteq Operation
    /\ \A o, p \in Ops : o.id = p.id => o = p
    /\ Sessions \subseteq Nat \ {0}
    /\ MaxQueue \in Nat /\ MaxRecoveryGap \in Nat /\ SnapshotInterval \in Nat \ {0}
    /\ SchemaAt \in Seq(Nat \ {0}) /\ Len(SchemaAt) > 0
    /\ Retentions \subseteq {"retain", "delete"}
    /\ Crowded \in BOOLEAN /\ SweepsOverlap \in BOOLEAN

Callers == UNION {{c} \X Slots[c] : c \in Clients}

VARIABLES
    retention,  \* roomDataRetention
    boots,      \* starts of the server process
    wal,        \* lines of wal.ndjson: [version, op]
    snap,       \* snapshot.json: [version, doc, schema], schema 0 for no file
    room,       \* the session in the map, 0 for none
    ses,        \* ses[s]: session object and its cache entry
    task,       \* task[q]: what the session() call of a hello awaits
    lease,      \* lease[c]: the session c's connection holds and subscribes to
    seen,       \* seen[c]: last version c's client was sent without a gap
    gap,        \* c's client was sent an event it cannot apply
    told        \* told[o]: final verdicts o's client was sent

diskVars   == <<wal, snap>>
clientVars == <<lease, seen, gap, told>>
roomVars   == <<retention, boots, diskVars, room, ses, task, clientVars>>

NoSnap == [version |-> 0, doc |-> <<>>, schema |-> 0]

\* A session object and its entry, as session() creates them.
NewSession ==
    [stage |-> "new", stored |-> 0, version |-> 0, doc |-> <<>>, horizon |-> 0,
     results |-> {}, queue |-> <<>>, running |-> "none",
     active |-> 0, initializing |-> TRUE, evicting |-> "no", evictSnap |-> NoSnap]

NoTask == [at |-> "none", on |-> 0]

InitRooms ==
    /\ retention \in Retentions
    /\ boots = 1
    /\ wal = <<>> /\ snap = NoSnap
    /\ room = 0
    /\ ses = [s \in Sessions |-> NewSession]
    /\ task = [q \in Callers |-> NoTask]
    /\ lease = [c \in Clients |-> 0]
    /\ seen = [c \in Clients |-> 0]
    /\ gap = [c \in Clients |-> FALSE]
    /\ told = [o \in Ops |-> {}]

-----------------------------------------------------------------------------
(* Helpers *)

Pack == SchemaAt[boots]

Larger(a, b) == IF a >= b THEN a ELSE b

WalVersions == {wal[i].version : i \in DOMAIN wal}

\* Lines are sorted by version; of two with one version the earlier is first.
FirstLine(v) == CHOOSE i \in DOMAIN wal :
                    /\ wal[i].version = v
                    /\ \A j \in DOMAIN wal : wal[j].version = v => i <= j

\* A document of version n brought up to date with the WAL.
Replayed(d, n) ==
    LET above == {v \in WalVersions : v > n} IN
    [v \in DOMAIN d \cup above |-> IF v \in above THEN wal[FirstLine(v)].op ELSE d[v]]

LastVersion(n) == CHOOSE v \in WalVersions \cup {n} : \A u \in WalVersions \cup {n} : u <= v

\* Mutant: only the operations above the snapshot are remembered.
ResultsAboveSnapshot ==
    {[id |-> wal[i].op.id, verdict |-> wal[i].version] :
        i \in {i \in DOMAIN wal : wal[i].version > snap.version}}

\* The result index a load rebuilds: every operation of the WAL.
ResultsOfWal ==
    {[id |-> wal[i].op.id, verdict |-> wal[i].version] :
        i \in {i \in DOMAIN wal : \A j \in DOMAIN wal :
                   wal[j].op.id = wal[i].op.id => wal[j].version <= wal[i].version}}

\* The version above which a load at version n remembers operations of this
\* schema for rebasing.
HorizonOfWal(n) ==
    LET known == {wal[i].version : i \in {i \in DOMAIN wal : wal[i].op.schema = Pack}}
    IN  IF known = {} THEN n ELSE (CHOOSE v \in known : \A u \in known : v <= u) - 1

\* Whether the cache may evict s: no lease, no queued operation, loaded.
Evictable(s) ==
    ses[s].active = 0 /\ ses[s].queue = <<>> /\ ~ses[s].initializing

\* Session objects nothing refers to any more; another may take their place.
Free(s) ==
    /\ s # room /\ ses[s].queue = <<>> /\ ses[s].evicting = "no"
    /\ \A c \in Clients : lease[c] # s
    /\ \A q \in Callers : task[q].on # s

SnapshotOf(s) == [version |-> ses[s].version, doc |-> ses[s].doc, schema |-> Pack]

Tell(entry, verdict) ==
    told' = IF entry.from = Gone THEN told ELSE [told EXCEPT ![entry.op] = @ \cup {verdict}]

-----------------------------------------------------------------------------
(* The warm-room cache: session, acquireRoom, release.  An operator with    *)
(* the parameter "after" continues a step that has made ses so.             *)

MayCreate == SweepsOverlap \/ \A q \in Callers : task[q].at # "sweeping"

\* session() puts a new session into the map, over whatever is there.
NewRoom(q, after) ==
    \E s \in Sessions :
        /\ Free(s) /\ \A t \in Sessions : Free(t) => s <= t
        /\ ses' = [after EXCEPT ![s] = NewSession]
        /\ room' = s
        /\ task' = [task EXCEPT ![q] = [at |-> "loading", on |-> s]]

\* Mutant: an eviction under way is not noticed.
LookRegardless(q, after) ==
    \/ /\ room # 0
       /\ task' = [task EXCEPT ![q] = [at |-> "loading", on |-> room]]
       /\ ses' = after /\ UNCHANGED room
    \/ /\ room = 0 /\ Crowded /\ MayCreate
       /\ task' = [task EXCEPT ![q] = [at |-> "sweeping", on |-> 0]]
       /\ ses' = after /\ UNCHANGED room
    \/ /\ room = 0 /\ MayCreate
       /\ NewRoom(q, after)

\* One turn of session()'s loop: wait for an eviction, share the session in
\* the map, sweep a full cache first, or create the session.
Look(q, after) ==
    \/ /\ room # 0
       /\ task' = [task EXCEPT ![q] =
                     [at |-> IF ses[room].evicting # "no" THEN "evicting" ELSE "loading", on |-> room]]
       /\ ses' = after /\ UNCHANGED room
    \/ /\ room = 0 /\ Crowded /\ MayCreate
       /\ task' = [task EXCEPT ![q] = [at |-> "sweeping", on |-> 0]]
       /\ ses' = after /\ UNCHANGED room
    \/ /\ room = 0 /\ MayCreate
       /\ NewRoom(q, after)

\* The sweep of a full cache is over.  The map is not looked at again.
SweepDone(q) ==
    /\ task[q].at = "sweeping"
    /\ NewRoom(q, ses)
    /\ UNCHANGED <<retention, boots, diskVars, clientVars>>

Loaded(q) == task[q].at = "loading" /\ ses[task[q].on].stage = "ready"

\* initialize() is over and the session still the room's: q holds a lease of
\* it, which it keeps or releases at once.
Acquired(q, keep) ==
    LET s == task[q].on IN
    /\ Loaded(q) /\ room = s
    /\ ses' = [ses EXCEPT ![s].initializing = FALSE, ![s].active = IF keep THEN @ + 1 ELSE @]
    /\ task' = [task EXCEPT ![q] = NoTask]
    /\ UNCHANGED room

\* The call looks at the map again: the eviction it awaited is over, or the
\* session it awaited is the room's no more.
LookAgain(q) ==
    LET s == task[q].on IN
    /\ \/ task[q].at = "evicting" /\ ses[s].evicting = "no"
       \/ Loaded(q) /\ room # s
    /\ Look(q, [ses EXCEPT ![s].initializing = @ /\ task[q].at # "loading"])
    /\ UNCHANGED <<retention, boots, diskVars, clientVars>>

\* The sessions after c's connection has released its lease.
Released(c) ==
    IF lease[c] # 0 /\ lease[c] = room
    THEN [ses EXCEPT ![room].active = @ - 1]
    ELSE ses

-----------------------------------------------------------------------------
(* Loading: AuthoritativeDocumentSession.load *)

LoadSnapshot(s) ==
    /\ ses[s].stage = "new" /\ \E q \in Callers : task[q] = [at |-> "loading", on |-> s]
    /\ ses' = [ses EXCEPT ![s].stage = "snapRead", ![s].version = snap.version,
                          ![s].doc = snap.doc, ![s].stored = snap.schema]
    /\ UNCHANGED <<retention, boots, diskVars, room, task, clientVars>>

\* Mutant: the WAL is not replayed over a snapshot.
LoadWalOfSnapshot(s) ==
    LET d == ses[s]
        stored == IF d.stored # 0 THEN d.stored ELSE IF wal # <<>> THEN wal[1].op.schema ELSE Pack
    IN
    /\ d.stage = "snapRead"
    /\ ses' = [ses EXCEPT ![s].stage = IF stored = Pack THEN "ready" ELSE "migrating",
                          ![s].results = ResultsOfWal,
                          ![s].horizon = d.version]
    /\ UNCHANGED <<retention, boots, diskVars, room, task, clientVars>>

\* The WAL is replayed and the results are indexed; a document of an older
\* schema is migrated, which forgets the operations to rebase over.
LoadWal(s) ==
    LET d == ses[s]
        stored == IF d.stored # 0 THEN d.stored ELSE IF wal # <<>> THEN wal[1].op.schema ELSE Pack
        n == LastVersion(d.version)
    IN
    /\ d.stage = "snapRead"
    /\ ses' = [ses EXCEPT ![s].stage = IF stored = Pack THEN "ready" ELSE "migrating",
                          ![s].doc = Replayed(d.doc, d.version),
                          ![s].version = n,
                          ![s].results = ResultsOfWal,
                          ![s].horizon = IF stored = Pack THEN HorizonOfWal(n) ELSE n]
    /\ UNCHANGED <<retention, boots, diskVars, room, task, clientVars>>

\* The migrated document is saved before the session serves anyone.
MigrationSaved(s) ==
    /\ ses[s].stage = "migrating"
    /\ snap' = SnapshotOf(s)
    /\ ses' = [ses EXCEPT ![s].stage = "ready"]
    /\ UNCHANGED <<retention, boots, wal, room, task, clientVars>>

-----------------------------------------------------------------------------
(* Operations: submit and process, one at a time *)

\* submit: the operation joins the serial chain.
Enqueue(c, o) ==
    LET s == lease[c] IN
    /\ s # 0 /\ Len(ses[s].queue) < MaxQueue
    /\ o.client = c /\ o.base <= ses[s].version /\ 0 \notin told[o]
    /\ ses' = [ses EXCEPT ![s].queue = Append(@, [op |-> o, from |-> c])]
    /\ UNCHANGED <<retention, boots, diskVars, room, task, clientVars>>

\* Whether the pipeline sends o back for a new snapshot.
NeedsResync(s, o) ==
    \/ o.schema # Pack
    \/ o.base > ses[s].version
    \/ /\ o.base < ses[s].version
       /\ \/ ses[s].version - o.base > MaxRecoveryGap
          \/ o.base < ses[s].horizon

\* Whether the strategy or an invariant of the domain can refuse o, accept it.
CanReject(s, o) == o.strategy = "byState" \/ (o.strategy = "atBase" /\ o.base # ses[s].version)
CanAccept(s, o) == o.strategy = "atBase" => o.base = ses[s].version

Prior(s, o) == {r \in ses[s].results : r.id = o.id}

\* process up to appendWal, for the operation at the head of the chain.
Process(s) ==
    LET entry == Head(ses[s].queue)
        o     == entry.op
        next  == Tail(ses[s].queue)
    IN
    /\ ses[s].stage = "ready" /\ ses[s].running = "none" /\ ses[s].queue # <<>>
    /\ \/ \E r \in Prior(s, o) : Tell(entry, r.verdict) /\ ses' = [ses EXCEPT ![s].queue = next]
       \/ /\ Prior(s, o) = {} /\ NeedsResync(s, o)
          /\ ses' = [ses EXCEPT ![s].queue = next]
          /\ UNCHANGED told
       \/ /\ Prior(s, o) = {} /\ ~NeedsResync(s, o) /\ CanReject(s, o)
          /\ ses' = [ses EXCEPT ![s].queue = next,
                                ![s].results = @ \cup {[id |-> o.id, verdict |-> 0]}]
          /\ Tell(entry, 0)
       \/ /\ Prior(s, o) = {} /\ ~NeedsResync(s, o) /\ CanAccept(s, o)
          /\ ses' = [ses EXCEPT ![s].running = "appending"]
          /\ UNCHANGED told
    /\ UNCHANGED <<retention, boots, diskVars, room, task, lease, seen, gap>>

\* The listeners of s, one per lease, send event v.  A client applies the next
\* version, ignores one it has, and notices a gap.
Deliver(s, v) ==
    /\ seen' = [c \in Clients |-> IF lease[c] = s /\ seen[c] = v - 1 THEN v ELSE seen[c]]
    /\ gap' = [c \in Clients |-> gap[c] \/ (lease[c] = s /\ seen[c] < v - 1)]

\* appendWal is the commit point; memory, events and the answer follow, unless
\* a snapshot is due first.
Appended(s) ==
    LET entry == Head(ses[s].queue)
        v     == ses[s].version + 1
        due   == v % SnapshotInterval = 0
    IN
    /\ ses[s].running = "appending"
    /\ wal' = Append(wal, [version |-> v, op |-> entry.op])
    /\ ses' = [ses EXCEPT ![s].version = v,
                          ![s].doc = [u \in DOMAIN @ \cup {v} |-> IF u = v THEN entry.op ELSE @[u]],
                          ![s].results = @ \cup {[id |-> entry.op.id, verdict |-> v]},
                          ![s].running = IF due THEN "snapshotting" ELSE "none",
                          ![s].queue = IF due THEN @ ELSE Tail(@)]
    /\ IF due THEN UNCHANGED <<seen, gap, told>> ELSE Deliver(s, v) /\ Tell(entry, v)
    /\ UNCHANGED <<retention, boots, snap, room, task, lease>>

\* appendWal fails before the line is in the file: a rejection that is answered
\* and not remembered.
AppendFails(s) ==
    LET entry == Head(ses[s].queue) IN
    /\ ses[s].running = "appending"
    /\ ses' = [ses EXCEPT ![s].running = "none", ![s].queue = Tail(@)]
    /\ Tell(entry, 0)
    /\ UNCHANGED <<retention, boots, diskVars, room, task, lease, seen, gap>>

FinishSnapshot(s) ==
    LET entry == Head(ses[s].queue) IN
    /\ ses[s].running = "snapshotting"
    /\ ses' = [ses EXCEPT ![s].running = "none", ![s].queue = Tail(@)]
    /\ Tell(entry, ses[s].version)
    /\ UNCHANGED <<retention, boots, wal, room, task, lease>>

\* Mutant: the listeners are not called after a snapshot.
SnapshottedSilently(s) ==
    /\ FinishSnapshot(s)
    /\ snap' = SnapshotOf(s)
    /\ UNCHANGED <<seen, gap>>

\* The periodic snapshot is stored; the events and the answer follow.
Snapshotted(s) ==
    /\ FinishSnapshot(s)
    /\ snap' = SnapshotOf(s)
    /\ Deliver(s, ses[s].version)

\* The periodic snapshot fails: the listeners are skipped with it.
SnapshotFails(s) ==
    /\ FinishSnapshot(s)
    /\ UNCHANGED <<snap, seen, gap>>

-----------------------------------------------------------------------------
(* Eviction: sweepRooms, evict, finishEviction *)

EvictBegin(s) ==
    /\ s = room /\ ses[s].evicting = "no" /\ Evictable(s)
    /\ ses' = [ses EXCEPT ![s].evicting = "saving", ![s].evictSnap = SnapshotOf(s)]
    /\ UNCHANGED <<retention, boots, diskVars, room, task, clientVars>>

\* Mutant: a room that was taken into use during the save is evicted all the same.
EvictSavedUnchecked(s) ==
    /\ ses[s].evicting = "saving"
    /\ \A q \in Callers : task[q] = [at |-> "loading", on |-> s] => ses[s].stage # "ready"
    /\ snap' = ses[s].evictSnap
    /\ ses' = [ses EXCEPT ![s].evicting = IF retention = "delete" THEN "deleting" ELSE "no",
                          ![s].evictSnap = NoSnap]
    /\ room' = IF retention = "delete" THEN room ELSE 0
    /\ UNCHANGED <<retention, boots, wal, task, clientVars>>

\* The final snapshot is stored.  A room taken into use meanwhile stays.  A
\* caller whose initialize is over gets its lease within two microtasks, before
\* any save ends.
EvictSaved(s) ==
    LET evict == s = room /\ Evictable(s) IN
    /\ ses[s].evicting = "saving"
    /\ \A q \in Callers : task[q] = [at |-> "loading", on |-> s] => ses[s].stage # "ready"
    /\ snap' = ses[s].evictSnap
    /\ ses' = [ses EXCEPT ![s].evicting = IF evict /\ retention = "delete" THEN "deleting" ELSE "no",
                          ![s].evictSnap = NoSnap]
    /\ room' = IF evict /\ retention = "retain" THEN 0 ELSE room
    /\ UNCHANGED <<retention, boots, wal, task, clientVars>>

\* The save fails and the room stays.  (A hello that awaits the eviction would
\* end the process: that is Crash.)
EvictFails(s) ==
    /\ ses[s].evicting = "saving" /\ \A q \in Callers : task[q].at # "evicting"
    /\ ses' = [ses EXCEPT ![s].evicting = "no", ![s].evictSnap = NoSnap]
    /\ UNCHANGED <<retention, boots, diskVars, room, task, clientVars>>

\* deleteDocument is over: the room starts again from nothing, and so do the
\* promises made about it.
Erase ==
    /\ wal' = <<>> /\ snap' = NoSnap
    /\ told' = [o \in Ops |-> {}]

EvictDeleted(s) ==
    /\ ses[s].evicting = "deleting"
    /\ Erase
    /\ room' = IF room = s THEN 0 ELSE room
    /\ ses' = [ses EXCEPT ![s].evicting = "no"]
    /\ UNCHANGED <<retention, boots, task, lease, seen, gap>>

-----------------------------------------------------------------------------
(* The process ends and is started again, with the next Domain Pack if the  *)
(* deployment brings one.  A storage error while a room loads ends it too:  *)
(* no handler catches the rejection of acquireRoom.                         *)

Restarted ==
    /\ boots < Len(SchemaAt)
    /\ boots' = boots + 1
    /\ room' = 0
    /\ ses' = [s \in Sessions |-> NewSession]
    /\ task' = [q \in Callers |-> NoTask]
    /\ lease' = [c \in Clients |-> 0]
    /\ seen' = [c \in Clients |-> 0]
    /\ gap' = [c \in Clients |-> FALSE]
    /\ UNCHANGED retention

KillRooms == Restarted /\ UNCHANGED <<wal, snap, told>>

\* close: the warm room is saved before the process ends.
CloseRooms ==
    /\ Restarted
    /\ room # 0 /\ ses[room].stage = "ready" /\ ses[room].evicting # "deleting"
    /\ snap' = SnapshotOf(room)
    /\ UNCHANGED <<wal, told>>

\* Steps of the server core that no socket event starts.
RoomStep ==
    \/ \E q \in Callers : LookAgain(q) \/ SweepDone(q)
    \/ \E s \in Sessions :
          \/ LoadSnapshot(s) \/ LoadWal(s) \/ MigrationSaved(s)
          \/ Process(s) \/ Appended(s) \/ AppendFails(s)
          \/ Snapshotted(s) \/ SnapshotFails(s)
          \/ EvictBegin(s) \/ EvictSaved(s) \/ EvictFails(s) \/ EvictDeleted(s)
====
