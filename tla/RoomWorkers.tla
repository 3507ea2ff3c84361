---- MODULE RoomWorkers ----
(***************************************************************************)
(* One document served by the distributed runtime: Room Workers (worker.ts)*)
(* that activate, commit, evict and crash, the PostgreSQL tables that are  *)
(* the authority (postgres-store.ts).                                      *)
(*                                                                         *)
(* Every activation claims a new owner epoch, so a warm session object is  *)
(* identified by its epoch; several may be alive at once, and the ones     *)
(* below head.epoch are zombies that PostgreSQL must fence.  The lease in  *)
(* Redis decides only where requests are sent and when a worker gives a    *)
(* room up.  It may vanish at any time, so here any warm session may get   *)
(* any request and any worker may find its lease lost.                     *)
(*                                                                         *)
(* Data abstraction.  A document state is the set of log versions whose    *)
(* patches it contains, with the schema it is written in.  The patches of  *)
(* domain-json replace what they name, so applying a stretch of the log    *)
(* again, in order, ends in the same state, up to the order inside lists   *)
(* (Editing, ReplayAbsorbs).  Every PostgreSQL query is a step, and so is   *)
(* the code from one query's answer to the next query.                     *)
(***************************************************************************)
EXTENDS Naturals, Sequences, FiniteSets

CONSTANTS
    Workers,              \* worker instances
    Nobody,               \* the null owner_instance_id
    Ops,                  \* the operations clients may submit
    PackSchema,           \* PackSchema[w]: schema version of w's Domain Pack
    MaxRecoveryGap,       \* widest version gap an operation is rebased over
    MaxMailbox,           \* operations one session may hold
    HistoryLimit,         \* operations a session remembers for rebasing
    SnapshotInterval,     \* a snapshot is written every so many versions
    WalVersions,          \* WAL rows compaction keeps below the head
    SnapshotsPerDocument, \* snapshots compaction keeps
    Expiring,             \* ids whose receipts may outlive their TTL
    MaxEpoch              \* bound on activations

Strategies == {"merge", "atBase", "byState"}
Operation  == [id : STRING, base : Nat, schema : Nat, strategy : Strategies, body : STRING]

ASSUME OpsAssumption == Ops \subseteq Operation
ASSUME WorkersAssumption == Nobody \notin Workers /\ PackSchema \in [Workers -> Nat]
ASSUME BoundsAssumption ==
    /\ MaxRecoveryGap \in Nat
    /\ MaxMailbox \in Nat
    /\ HistoryLimit \in Nat \ {0}
    /\ SnapshotInterval \in Nat \ {0}
    /\ WalVersions \in Nat
    /\ SnapshotsPerDocument \in Nat \ {0}
    /\ MaxEpoch \in Nat
ASSUME ExpiringAssumption == Expiring \subseteq STRING

Epochs == 1 .. MaxEpoch
Ids    == {o.id : o \in Ops}

VARIABLES
    \* PostgreSQL
    log,        \* operation WAL: log[v] is the operation of version v
    walFloor,   \* WAL rows up to this version have been compacted away
    head,       \* document_head: owner epoch and instance, schema, snapshot pointer
    snapshots,  \* snapshot table, by version
    receipts,   \* receipt table: [op, outcome], outcome a version or 0 for rejected
    \* workers
    warm,       \* warm[w]: the session in w's map, 0 for none
    activating, \* activating[w]: the activation in flight at w, 0 for none
    home,       \* home[e]: the worker session e lives in
    phase,      \* what session e awaits
    version,    \* session.version
    doc,        \* session.state
    hist,       \* hist[e]: versions of the operations in session.recentOperations
    mailbox,    \* operations of the session's serial chain, the running one first
    retried,    \* the running operation has reloaded once
    saving,     \* saving[e]: snapshots that evictions of session e await
    load,       \* what the loadRoom in flight has read
    snapWrites, \* saveSnapshot calls under way
    \* clients
    told,       \* told[o]: final verdicts some client received for o
    settled     \* ids no client submits any more

storeVars   == <<log, walFloor, head, snapshots, receipts>>
placeVars   == <<warm, activating, home>>
sessionVars == <<version, doc, hist>>
taskVars    == <<mailbox, retried>>
clientVars  == <<told, settled>>
vars == <<storeVars, placeVars, phase, sessionVars, taskVars, saving, load,
          snapWrites, clientVars>>

Document == [applied : SUBSET Nat, schema : Nat]
Loading  == [version : Nat, snap : Nat, schema : Nat, doc : Document]
Write    == [version : Nat, schema : Nat, doc : Document]
Phases   == {"unused", "dead",
             "claimed", "headRead", "snapRead", "migrating",
             "idle", "committing", "recording",
             "conflict", "headReread", "snapReread"}

Blank  == [applied |-> {}, schema |-> 0]
NoLoad == [version |-> 0, snap |-> 0, schema |-> 0, doc |-> Blank]

\* After ensureDocument: version 0, its snapshot, no owner.
Init ==
    /\ log = <<>> /\ walFloor = 0
    /\ \E s \in {PackSchema[w] : w \in Workers} :
          /\ head = [epoch |-> 0, owner |-> Nobody, schema |-> s, snap |-> 0]
          /\ snapshots = [v \in {0} |-> [applied |-> {}, schema |-> s]]
    /\ receipts = {}
    /\ warm = [w \in Workers |-> 0] /\ activating = [w \in Workers |-> 0]
    /\ home = [e \in Epochs |-> Nobody]
    /\ phase = [e \in Epochs |-> "unused"]
    /\ version = [e \in Epochs |-> 0]
    /\ doc = [e \in Epochs |-> Blank]
    /\ hist = [e \in Epochs |-> {}]
    /\ mailbox = [e \in Epochs |-> <<>>]
    /\ retried = [e \in Epochs |-> FALSE]
    /\ saving = [e \in Epochs |-> {}]
    /\ load = [e \in Epochs |-> NoLoad]
    /\ snapWrites = {}
    /\ told = [o \in Ops |-> {}]
    /\ settled = {}

-----------------------------------------------------------------------------
(* Helpers *)

Larger(a, b)  == IF a >= b THEN a ELSE b
Smaller(a, b) == IF a <= b THEN a ELSE b

\* Mutant: the fence compares the instance, not the epoch of its claim.
OwnsByInstance(e) == head.owner = home[e]

Owns(e)   == head.epoch = e /\ head.owner = home[e]

\* Mutant: only acceptances are remembered.
PriorAccepted(id) == {r \in receipts : r.op.id = id /\ r.outcome # 0}

Prior(id) == {r \in receipts : r.op.id = id}
WalRows   == walFloor + 1 .. Len(log)

\* Mutant: the first row above the snapshot is skipped.
ReplayedFromNext(d, v) == [d EXCEPT !.applied = @ \cup {row \in WalRows : row > v + 1}]

\* A document brought up to date with the WAL rows above version v.
Replayed(d, v) == [d EXCEPT !.applied = @ \cup {row \in WalRows : row > v}]

\* The last HistoryLimit of a set of versions: slice(-500), and shift after push.
Latest(S) == {r \in S : Cardinality({u \in S : u > r}) < HistoryLimit}

\* The operations that a session loaded from version v remembers.
History(v) == Latest({row \in WalRows : row > v})

\* Mutant: the pointer moves to whatever was stored last.
SaveSnapshotUnordered(w) ==
    /\ snapshots' = [v \in DOMAIN snapshots \cup {w.version} |->
                        IF v \in DOMAIN snapshots THEN snapshots[v] ELSE w.doc]
    /\ head' = [head EXCEPT !.snap = w.version]

\* The INSERT ... ON CONFLICT DO NOTHING and the guarded pointer update.
SaveSnapshot(w) ==
    /\ snapshots' = [v \in DOMAIN snapshots \cup {w.version} |->
                        IF v \in DOMAIN snapshots THEN snapshots[v] ELSE w.doc]
    /\ head' = IF /\ Len(log) >= w.version
                  /\ head.snap < w.version
                  /\ head.schema = w.schema
               THEN [head EXCEPT !.snap = w.version]
               ELSE head

\* The running operation of e leaves the serial chain.
Finish(e) ==
    /\ phase' = [phase EXCEPT ![e] = "idle"]
    /\ mailbox' = [mailbox EXCEPT ![e] = Tail(@)]

Tell(o, verdict) == told' = [told EXCEPT ![o] = @ \cup {verdict}]

\* Mutant: the fingerprint is not compared.
VerdictById(r, o) == r.outcome

\* What a receipt found under o's id says of o.
Verdict(r, o) == IF r.op = o THEN r.outcome ELSE 0

IsWarm(e) == home[e] \in Workers /\ warm[home[e]] = e

DropWarm(w) == warm' = [warm EXCEPT ![w] = 0]

-----------------------------------------------------------------------------
(* Activation: activate, doActivate, ensureDocument, claimOwnership, loadRoom *)

Activate(w) ==
    LET e == head.epoch + 1 IN
    /\ warm[w] = 0 /\ activating[w] = 0
    /\ e \in Epochs
    /\ head' = [head EXCEPT !.epoch = e, !.owner = w]
    /\ activating' = [activating EXCEPT ![w] = e]
    /\ home' = [home EXCEPT ![e] = w]
    /\ phase' = [phase EXCEPT ![e] = "claimed"]
    /\ UNCHANGED <<log, walFloor, snapshots, receipts, warm, sessionVars,
                   taskVars, saving, load, snapWrites, clientVars>>

\* Mutant: the version is taken from the snapshot.
ReadHeadOfSnapshot(e) ==
    /\ \/ phase[e] = "claimed"  /\ phase' = [phase EXCEPT ![e] = "headRead"]
       \/ phase[e] = "conflict" /\ phase' = [phase EXCEPT ![e] = "headReread"]
    /\ load' = [load EXCEPT ![e] = [version |-> head.snap, snap |-> head.snap,
                                    schema |-> head.schema, doc |-> Blank]]
    /\ UNCHANGED <<storeVars, placeVars, sessionVars, taskVars, saving,
                   snapWrites, clientVars>>

\* First query of loadRoom, on activation and on reload.
ReadHead(e) ==
    /\ \/ phase[e] = "claimed"  /\ phase' = [phase EXCEPT ![e] = "headRead"]
       \/ phase[e] = "conflict" /\ phase' = [phase EXCEPT ![e] = "headReread"]
    /\ load' = [load EXCEPT ![e] = [version |-> Len(log), snap |-> head.snap,
                                    schema |-> head.schema, doc |-> Blank]]
    /\ UNCHANGED <<storeVars, placeVars, sessionVars, taskVars, saving,
                   snapWrites, clientVars>>

\* Second query: the row the pointer named may be gone by now.
ReadSnapshot(e) ==
    /\ \/ phase[e] = "headRead"   /\ phase' = [phase EXCEPT ![e] = "snapRead"]
       \/ phase[e] = "headReread" /\ phase' = [phase EXCEPT ![e] = "snapReread"]
    /\ load[e].snap \in DOMAIN snapshots
    /\ load' = [load EXCEPT ![e].doc = snapshots[load[e].snap]]
    /\ UNCHANGED <<storeVars, placeVars, sessionVars, taskVars, saving,
                   snapWrites, clientVars>>

LoadDone(e) ==
    /\ load' = [load EXCEPT ![e] = NoLoad]
    /\ activating' = [activating EXCEPT ![home[e]] = 0]

\* sessions.set of a loaded document d; publishOwner follows.
Install(e, d, rows) ==
    /\ version' = [version EXCEPT ![e] = load[e].version]
    /\ doc' = [doc EXCEPT ![e] = d]
    /\ hist' = [hist EXCEPT ![e] = rows]
    /\ warm' = [warm EXCEPT ![home[e]] = e]
    /\ phase' = [phase EXCEPT ![e] = "idle"]
    /\ LoadDone(e)

\* An activation that throws leaves nothing behind: its epoch was never published.
AbandonActivation(e) ==
    /\ phase' = [phase EXCEPT ![e] = "dead"]
    /\ LoadDone(e)

\* Mutant: any schema is installed as it is.
ReadWalUnmigrated(e) ==
    /\ phase[e] = "snapRead"
    /\ Install(e, Replayed(load[e].doc, load[e].snap), History(load[e].snap))
    /\ UNCHANGED <<storeVars, home, taskVars, saving, snapWrites, clientVars>>

\* Third query, and what doActivate does with the result before its next await.
ReadWal(e) ==
    LET pack == PackSchema[home[e]]
        d    == Replayed(load[e].doc, load[e].snap)
    IN
    /\ phase[e] = "snapRead"
    /\ \/ /\ load[e].schema = pack
          /\ Install(e, d, History(load[e].snap))
       \/ /\ load[e].schema < pack
          /\ phase' = [phase EXCEPT ![e] = "migrating"]
          /\ load' = [load EXCEPT ![e].doc = [d EXCEPT !.schema = pack]]
          /\ UNCHANGED <<warm, activating, sessionVars>>
       \/ /\ load[e].schema > pack
          /\ AbandonActivation(e)
          /\ UNCHANGED <<warm, sessionVars>>
    /\ UNCHANGED <<storeVars, home, taskVars, saving, snapWrites, clientVars>>

\* The migrateDocument transaction; the migrated snapshot replaces the row of
\* its version, and the session starts with no remembered operations.
Migrate(e) ==
    LET pack == PackSchema[home[e]] IN
    /\ phase[e] = "migrating"
    /\ \/ /\ Owns(e)
          /\ load[e].version = Len(log)
          /\ \/ /\ head.schema = load[e].schema
                /\ snapshots' = [v \in DOMAIN snapshots \cup {Len(log)} |->
                                    IF v = Len(log) THEN load[e].doc ELSE snapshots[v]]
                /\ head' = [head EXCEPT !.schema = pack, !.snap = Len(log)]
             \/ /\ head.schema # load[e].schema
                /\ head.schema = pack
                /\ UNCHANGED <<snapshots, head>>
          /\ Install(e, load[e].doc, {})
       \/ /\ \/ ~Owns(e)
             \/ load[e].version # Len(log)
             \/ head.schema \notin {load[e].schema, pack}
          /\ AbandonActivation(e)
          /\ UNCHANGED <<snapshots, head, warm, sessionVars>>
    /\ UNCHANGED <<log, walFloor, receipts, home, taskVars, saving,
                   snapWrites, clientVars>>

-----------------------------------------------------------------------------
(* Operations: submit, process, persistRejection, reload *)

\* A client submits or retries o; a full mailbox answers retryLater.
Submit(e, o) ==
    /\ IsWarm(e)
    /\ o.base <= Len(log)
    /\ o.id \notin settled
    /\ Len(mailbox[e]) < MaxMailbox
    /\ mailbox' = [mailbox EXCEPT ![e] = Append(@, o)]
    /\ UNCHANGED <<storeVars, placeVars, phase, sessionVars, retried, saving,
                   load, snapWrites, clientVars>>

\* The operations remembered, h, do not reach back to what o was made on.
HistoryStartsAfter(o, h) == \A r \in h : o.base + 1 < r

\* Mutant: operations of any schema are resolved.
NeedsResyncAnySchema(e, o, v, h) ==
    \/ o.base > v
    \/ o.base < v /\ (v - o.base > MaxRecoveryGap \/ HistoryStartsAfter(o, h))

\* Mutant: with no operation remembered, the history counts as complete.
NeedsResyncIfRemembered(e, o, v, h) ==
    \/ o.schema # PackSchema[home[e]]
    \/ o.base > v
    \/ o.base < v /\ (v - o.base > MaxRecoveryGap \/ (h # {} /\ HistoryStartsAfter(o, h)))

\* Whether the pipeline sends o back for a new snapshot at version v, when
\* the operations h are remembered.
NeedsResync(e, o, v, h) ==
    \/ o.schema # PackSchema[home[e]]
    \/ o.base > v
    \/ o.base < v /\ (v - o.base > MaxRecoveryGap \/ HistoryStartsAfter(o, h))

\* Whether the strategy or an invariant of the domain can refuse o, accept it.
CanReject(o, v) == o.strategy = "byState" \/ (o.strategy = "atBase" /\ o.base # v)
CanAccept(o, v) == o.strategy = "atBase" => o.base = v

\* The pipeline's prepare of the running operation: where its process goes next.
Prepare(e, v, h) ==
    LET o == Head(mailbox[e]) IN
    \/ /\ NeedsResync(e, o, v, h)
       /\ Finish(e)
    \/ /\ ~NeedsResync(e, o, v, h) /\ CanReject(o, v)
       /\ phase' = [phase EXCEPT ![e] = "recording"]
       /\ UNCHANGED mailbox
    \/ /\ ~NeedsResync(e, o, v, h) /\ CanAccept(o, v)
       /\ phase' = [phase EXCEPT ![e] = "committing"]
       /\ UNCHANGED mailbox

\* process up to its second query: an operation with a receipt is answered
\* from it, another is resolved against the session's memory.
Process(e) ==
    LET o == Head(mailbox[e]) IN
    /\ phase[e] = "idle" /\ mailbox[e] # <<>>
    /\ \/ \E r \in Prior(o.id) : Tell(o, Verdict(r, o)) /\ Finish(e)
       \/ Prior(o.id) = {} /\ Prepare(e, version[e], hist[e]) /\ UNCHANGED told
    /\ retried' = [retried EXCEPT ![e] = FALSE]
    /\ UNCHANGED <<storeVars, placeVars, sessionVars, saving, load, snapWrites, settled>>

\* The commit transaction under the head row's lock, outcome by outcome.

CommitDuplicate(e, o) ==
    /\ \E r \in Prior(o.id) : Tell(o, Verdict(r, o))
    /\ Finish(e)
    /\ UNCHANGED <<log, head, receipts, warm, sessionVars, snapWrites>>

\* sessions.delete is by key: it drops whichever session the worker holds.
CommitFenced(e, o) ==
    /\ Prior(o.id) = {} /\ ~Owns(e)
    /\ DropWarm(home[e])
    /\ Finish(e)
    /\ UNCHANGED <<log, head, receipts, sessionVars, snapWrites, told>>

CommitConflict(e, o) ==
    /\ Prior(o.id) = {} /\ Owns(e) /\ version[e] # Len(log)
    /\ phase' = [phase EXCEPT ![e] = "conflict"]
    /\ UNCHANGED <<log, head, receipts, warm, sessionVars, mailbox, snapWrites, told>>

\* The WAL row, its receipt and the new head; then, when the answer reaches the
\* worker, the session's memory, the periodic snapshot and the reply.
CommitAccepted(e, o) ==
    LET v == Len(log) + 1 IN
    /\ Prior(o.id) = {} /\ Owns(e) /\ version[e] = Len(log)
    /\ \A row \in WalRows : log[row].id # o.id
    /\ log' = Append(log, o)
    /\ receipts' = receipts \cup {[op |-> o, outcome |-> v]}
    /\ \/ /\ version' = [version EXCEPT ![e] = v]
          /\ doc' = [doc EXCEPT ![e].applied = @ \cup {v}]
          /\ hist' = [hist EXCEPT ![e] = Latest(@ \cup {v})]
          /\ snapWrites' = IF v % SnapshotInterval = 0
                           THEN snapWrites \cup {[version |-> v, schema |-> PackSchema[home[e]],
                                                  doc |-> doc'[e]]}
                           ELSE snapWrites
          /\ Tell(o, v)
       \/ UNCHANGED <<sessionVars, snapWrites, told>>
    /\ Finish(e)
    /\ UNCHANGED <<head, warm>>

Commit(e) ==
    LET o == Head(mailbox[e]) IN
    /\ phase[e] = "committing"
    /\ \/ CommitDuplicate(e, o)
       \/ CommitFenced(e, o)
       \/ CommitConflict(e, o)
       \/ CommitAccepted(e, o)
    /\ UNCHANGED <<walFloor, snapshots, activating, home, retried, saving, load, settled>>

\* persistRejection and the recordReceipt transaction.
RecordRejection(e) ==
    LET o == Head(mailbox[e]) IN
    /\ phase[e] = "recording"
    /\ \/ /\ ~Owns(e)
          /\ DropWarm(home[e])
          /\ UNCHANGED <<receipts, told>>
       \/ /\ Owns(e) /\ Prior(o.id) = {}
          /\ receipts' = receipts \cup {[op |-> o, outcome |-> 0]}
          /\ Tell(o, 0)
          /\ UNCHANGED warm
       \/ /\ Owns(e)
          /\ \E r \in Prior(o.id) : Tell(o, Verdict(r, o))
          /\ UNCHANGED <<receipts, warm>>
    /\ Finish(e)
    /\ UNCHANGED <<log, walFloor, head, snapshots, activating, home, sessionVars, retried,
                   saving, load, snapWrites, settled>>

\* Last query of reload; the operation is resolved once more, or given up.
ReloadWal(e) ==
    LET rows == History(load[e].snap) IN
    /\ phase[e] = "snapReread"
    /\ version' = [version EXCEPT ![e] = load[e].version]
    /\ doc' = [doc EXCEPT ![e] = Replayed(load[e].doc, load[e].snap)]
    /\ hist' = [hist EXCEPT ![e] = rows]
    /\ load' = [load EXCEPT ![e] = NoLoad]
    /\ IF retried[e] THEN Finish(e) ELSE Prepare(e, load[e].version, rows)
    /\ retried' = [retried EXCEPT ![e] = ~@]
    /\ UNCHANGED <<storeVars, placeVars, saving, snapWrites, clientVars>>

\* A query throws: the activation, the running operation or the eviction fails,
\* and the session stays.
StoreError(e) ==
    /\ \/ /\ phase[e] \in {"claimed", "headRead", "snapRead", "migrating"}
          /\ AbandonActivation(e)
          /\ UNCHANGED <<taskVars, saving>>
       \/ /\ phase[e] \in {"idle", "committing", "recording", "conflict", "headReread", "snapReread"}
          /\ mailbox[e] # <<>>
          /\ Finish(e)
          /\ retried' = [retried EXCEPT ![e] = FALSE]
          /\ load' = [load EXCEPT ![e] = NoLoad]
          /\ UNCHANGED <<activating, saving>>
       \/ /\ \E w \in saving[e] : saving' = [saving EXCEPT ![e] = @ \ {w}]
          /\ UNCHANGED <<activating, phase, load, taskVars>>
    /\ UNCHANGED <<storeVars, warm, home, sessionVars, snapWrites, clientVars>>

-----------------------------------------------------------------------------
(* Eviction, lost leases, crashes *)

Idle(e) == IsWarm(e) /\ mailbox[e] = <<>>

\* Mutant: the state is stored under the version before it.
SnapshotBefore(e) == [version |-> version[e] - 1, schema |-> PackSchema[home[e]], doc |-> doc[e]]

Snapshot(e) == [version |-> version[e], schema |-> PackSchema[home[e]], doc |-> doc[e]]

\* evictSession up to its await on saveSnapshot; the sweep, a full cache and the
\* shutdown of the worker may all be evicting the session at once.
EvictBegin(e) ==
    /\ Idle(e)
    /\ saving' = [saving EXCEPT ![e] = @ \cup {Snapshot(e)}]
    /\ UNCHANGED <<storeVars, placeVars, phase, sessionVars, taskVars, load,
                   snapWrites, clientVars>>

\* The snapshot is stored, and the session leaves if nothing used it meanwhile.
EvictEnd(e) ==
    /\ \E w \in saving[e] :
          /\ SaveSnapshot(w)
          /\ saving' = [saving EXCEPT ![e] = @ \ {w}]
    /\ IF Idle(e)
       THEN DropWarm(home[e])
       ELSE UNCHANGED warm
    /\ UNCHANGED <<log, walFloor, receipts, activating, home, phase, sessionVars, taskVars,
                   load, snapWrites, clientVars>>

\* The floating saveSnapshot of a periodic snapshot reaches PostgreSQL.
SnapshotWritten(w) ==
    /\ SaveSnapshot(w)
    /\ snapWrites' = snapWrites \ {w}
    /\ UNCHANGED <<log, walFloor, receipts, placeVars, phase, sessionVars, taskVars,
                   saving, load, clientVars>>

\* maintainSessions: renewOwner finds another owner, no key, or no Redis.
RenewFails(w) ==
    /\ warm[w] # 0
    /\ DropWarm(w)
    /\ UNCHANGED <<storeVars, activating, home, phase, sessionVars, taskVars, saving,
                   load, snapWrites, clientVars>>

\* The process dies and starts again with an empty map.
Crash(w) ==
    LET lost == {e \in Epochs : home[e] = w /\ phase[e] # "unused"} IN
    /\ \E e \in lost : phase[e] # "dead"
    /\ warm' = [warm EXCEPT ![w] = 0]
    /\ activating' = [activating EXCEPT ![w] = 0]
    /\ phase' = [e \in Epochs |-> IF e \in lost THEN "dead" ELSE phase[e]]
    /\ mailbox' = [e \in Epochs |-> IF e \in lost THEN <<>> ELSE mailbox[e]]
    /\ retried' = [e \in Epochs |-> IF e \in lost THEN FALSE ELSE retried[e]]
    /\ saving' = [e \in Epochs |-> IF e \in lost THEN {} ELSE saving[e]]
    /\ load' = [e \in Epochs |-> IF e \in lost THEN NoLoad ELSE load[e]]
    /\ UNCHANGED <<storeVars, home, sessionVars, snapWrites, clientVars>>

-----------------------------------------------------------------------------
(* Retention: compact, and the clients' retry horizon *)

\* Mutant: receipts expire while their operations may still be retried.
LiveReceiptsTooFew == {r \in receipts : r.op.id \notin Expiring}

LiveReceipts  == {r \in receipts : r.op.id \notin settled}
KeptSnapshots == {v \in DOMAIN snapshots :
                    \/ v = head.snap
                    \/ Cardinality({u \in DOMAIN snapshots : u > v}) < SnapshotsPerDocument}

\* The compaction transaction of whichever worker holds the advisory lock.
Compact ==
    LET below == IF Len(log) > WalVersions THEN Len(log) - WalVersions ELSE 0 IN
    /\ walFloor' = Larger(walFloor, Smaller(head.snap, below))
    /\ receipts' = LiveReceipts
    /\ snapshots' = [v \in KeptSnapshots |-> snapshots[v]]
    /\ UNCHANGED <<log, head, placeVars, phase, sessionVars, taskVars, saving, load,
                   snapWrites, clientVars>>

\* Environment: the receipt TTL is longer than any client keeps retrying.
Settle(id) ==
    /\ id \in Expiring \ settled
    /\ \A e \in Epochs : \A i \in 1 .. Len(mailbox[e]) : mailbox[e][i].id # id
    /\ settled' = settled \cup {id}
    /\ UNCHANGED <<storeVars, placeVars, phase, sessionVars, taskVars, saving, load,
                   snapWrites, told>>

SessionStep(e) ==
    \/ ReadHead(e) \/ ReadSnapshot(e) \/ ReadWal(e) \/ Migrate(e)
    \/ \E o \in Ops : Submit(e, o)
    \/ Process(e) \/ Commit(e) \/ RecordRejection(e) \/ ReloadWal(e)
    \/ StoreError(e)
    \/ EvictBegin(e) \/ EvictEnd(e)

Next ==
    \/ \E w \in Workers : Activate(w) \/ RenewFails(w) \/ Crash(w)
    \/ \E e \in Epochs : SessionStep(e)
    \/ \E w \in snapWrites : SnapshotWritten(w)
    \/ Compact
    \/ \E id \in Expiring : Settle(id)

Spec == Init /\ [][Next]_vars

-----------------------------------------------------------------------------
(* Properties *)

StoreTypeOK ==
    /\ log \in Seq(Ops)
    /\ walFloor \in Nat
    /\ head \in [epoch : 0 .. MaxEpoch, owner : Workers \cup {Nobody}, schema : Nat, snap : Nat]
    /\ DOMAIN snapshots \subseteq Nat
    /\ snapshots \in [DOMAIN snapshots -> Document]
    /\ receipts \subseteq [op : Ops, outcome : Nat]

PlaceTypeOK ==
    /\ warm \in [Workers -> 0 .. MaxEpoch]
    /\ activating \in [Workers -> 0 .. MaxEpoch]
    /\ home \in [Epochs -> Workers \cup {Nobody}]

SessionTypeOK ==
    /\ phase \in [Epochs -> Phases]
    /\ version \in [Epochs -> Nat]
    /\ doc \in [Epochs -> Document]
    /\ hist \in [Epochs -> SUBSET Nat]
    /\ mailbox \in [Epochs -> Seq(Ops)]
    /\ retried \in [Epochs -> BOOLEAN]

CallTypeOK ==
    /\ saving \in [Epochs -> SUBSET Write]
    /\ load \in [Epochs -> Loading]
    /\ snapWrites \subseteq Write

ClientTypeOK ==
    /\ told \in [Ops -> SUBSET Nat]
    /\ settled \subseteq Expiring

\* Type correctness of every table, session field, call under way and answer.
TypeOK == StoreTypeOK /\ PlaceTypeOK /\ SessionTypeOK /\ CallTypeOK /\ ClientTypeOK

Warmed(e) == phase[e] \in {"idle", "committing", "recording", "conflict", "headReread", "snapReread"}

\* An operation id is committed at most once, whatever is retried, duplicated
\* or left in doubt by a lost commit answer, and whoever owns the room.
AtMostOnce ==
    \A v, u \in 1 .. Len(log) : log[v].id = log[u].id => v = u

\* Clients are never given two different final verdicts on one operation,
\* across workers, retries, receipts and rejections.
OneVerdict ==
    \A o \in Ops : \A a, b \in told[o] : a = b

\* A session that PostgreSQL would let commit at the head holds exactly the
\* canonical document: nothing lost, nothing ahead, in its own schema.  So what
\* it resolved before the commit's await is still right after it.
OwnerStateIsCanonical ==
    \A e \in Epochs :
        Warmed(e) /\ Owns(e) /\ version[e] = Len(log)
            => /\ doc[e] = [applied |-> 1 .. Len(log), schema |-> head.schema]
               /\ head.schema = PackSchema[home[e]]

\* Whatever all workers lose, the snapshot the head points at and the WAL rows
\* that are left rebuild the canonical document.
Recoverable ==
    /\ head.snap \in DOMAIN snapshots
    /\ Replayed(snapshots[head.snap], head.snap) =
          [applied |-> 1 .. Len(log), schema |-> head.schema]

\* The receipt an owner looked up before resolving is still absent when its
\* transaction runs: the owner decides each operation once, and the
\* duplicate, collision and exists outcomes are only ever met by zombies.
OwnerDecidesOnce ==
    \A e \in Epochs :
        phase[e] \in {"committing", "recording"} /\ Owns(e)
            => Prior(Head(mailbox[e]).id) = {}

\* One reload is enough: after it an owner meets no second version conflict.
OneReloadSuffices ==
    \A e \in Epochs :
        retried[e] /\ phase[e] = "committing" /\ Owns(e) => version[e] = Len(log)

\* An operation that awaits its commit or its recorded rejection was resolved
\* against every operation its author had not seen: the session remembers them
\* all, from the operation's base to its own version, however its history was
\* cut by the limit, the snapshot it loaded, a reload, a migration or compaction.
HistoryIsComplete ==
    \A e \in Epochs :
        phase[e] \in {"committing", "recording"}
            => Head(mailbox[e]).base + 1 .. version[e] \subseteq hist[e]

\* A migration is a barrier: no operation of an older schema is committed after
\* one of a newer schema, nor under a document already migrated, although old
\* and new workers serve the room side by side.
MigrationIsBarrier ==
    /\ \A v, u \in 1 .. Len(log) : v <= u => log[v].schema <= log[u].schema
    /\ \A v \in 1 .. Len(log) : log[v].schema <= head.schema

\* The environment of the document properties: while a loadRoom is between two
\* of its queries, no compaction deletes the snapshot it has chosen, or WAL rows
\* above it.  The code has no lock to this effect; it relies on a load being
\* short against WAL_RETENTION_VERSIONS further commits.
CompactionSparesLoaders ==
    \A e \in Epochs :
        /\ phase[e] \in {"headRead", "headReread"} => load[e].snap \in DOMAIN snapshots
        /\ phase[e] \in {"headRead", "headReread", "snapRead", "snapReread"}
               => walFloor <= load[e].snap

-----------------------------------------------------------------------------
(* RoomWorkers implements the abstract log.                                *)
Canonical == INSTANCE CanonicalLog
ImplementsCanonicalLog == Canonical!Spec
====
