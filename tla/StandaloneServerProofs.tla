---- MODULE StandaloneServerProofs ----
(***************************************************************************)
(* Proofs about StandaloneServer: that the warm-room cache keeps one       *)
(* ordering point per document, that its leases are counted, that a ready  *)
(* session is what a restart would load, and that nobody who holds a lease *)
(* misses an event unnoticed; and that its two files are a canonical log,  *)
(* whose verdicts are those the clients are sent.                          *)
(*                                                                         *)
(* Nothing fences a session of the standalone server.  What stands in for  *)
(* an epoch is the cache: sessions other than the room's are at rest, and  *)
(* a caller that awaits a session awaits the room's.  A full cache that is *)
(* swept by two hellos at a time breaks that, so the theorems assume that  *)
(* either the cache is never full or sweeps do not overlap.                *)
(***************************************************************************)
EXTENDS StandaloneServer, Integers, FiniteSetTheorems,
        SequenceTheorems, TLAPS

-----------------------------------------------------------------------------
(* Types of the variables the theorems are about *)

Line     == [version : Nat, op : Ops]
Entry    == [op : Ops, from : Clients \cup {Gone}]
Snapshot == [version : Nat, doc : Seq(Ops), schema : Nat]
Result   == [id : STRING, verdict : Nat]
Session  ==
    [stage : {"new", "snapRead", "migrating", "ready"}, stored : Nat, version : Nat,
     doc : Seq(Ops), horizon : Nat, results : SUBSET Result, queue : Seq(Entry),
     running : {"none", "appending", "snapshotting"}, active : Int, initializing : BOOLEAN,
     evicting : {"no", "saving", "deleting"}, evictSnap : Snapshot]
Task     == [at : {"none", "loading", "evicting", "sweeping"}, on : Sessions \cup {0}]

TypeInv ==
    /\ boots \in DOMAIN SchemaAt
    /\ wal \in Seq(Line)
    /\ snap \in Snapshot
    /\ room \in Sessions \cup {0}
    /\ ses \in [Sessions -> Session]
    /\ task \in [Callers -> Task]
    /\ lease \in [Clients -> Sessions \cup {0}]
    /\ seen \in [Clients -> Nat]
    /\ gap \in [Clients -> BOOLEAN]

-----------------------------------------------------------------------------
(* The inductive invariant *)

\* What a session's cache entry and its operations say of one another.
Coherent(s) ==
    /\ ~ses[s].initializing => ses[s].stage = "ready"
    /\ ses[s].evicting # "no" => ~ses[s].initializing
    /\ ses[s].queue # <<>> => ~ses[s].initializing
    /\ ses[s].running # "none" => ses[s].queue # <<>>
    /\ ses[s].evicting = "deleting" => ses[s].active = 0 /\ ses[s].queue = <<>>

\* A session that is not in the map has nothing under way.
AtRest(s) ==
    /\ ses[s].stage \in {"new", "ready"}
    /\ ses[s].queue = <<>>
    /\ ses[s].evicting = "no"

\* Callers await the room's session, or sweep the cache one at a time.
WaitInv ==
    /\ \A q \in Callers :
          /\ task[q].at = "loading" =>
                /\ task[q].on = room /\ room # 0
                /\ ses[room].evicting # "deleting"
          /\ task[q].at = "evicting" => task[q].on # 0
          /\ task[q].at = "sweeping" => room = 0 /\ Crowded
    /\ \A p, q \in Callers : task[p].at = "sweeping" /\ task[q].at = "sweeping" => p = q

\* Only the room's session is at work, and leases are of it.
CacheInv ==
    /\ \A s \in Sessions : Coherent(s) /\ (s # room => AtRest(s))
    /\ WaitInv
    /\ \A c \in Clients : lease[c] # 0 =>
          /\ lease[c] = room
          /\ ~ses[room].initializing
          /\ ses[room].evicting # "deleting"

\* Of the hellos of one socket at most one still speaks for the connection, and
\* that connection holds no lease yet.
HelloInv ==
    /\ overtaken \subseteq InFlight
    /\ \A q \in InFlight \ overtaken : lease[q[1]] = 0
    /\ \A p, q \in InFlight \ overtaken : p[1] = q[1] => p = q

\* The first n lines of a WAL, as a document.
Prefix(w, n) == [v \in 1 .. n |-> w[v].op]

\* A session, or a snapshot, that holds the first lines of a WAL.
IsPrefix(d, w) == d.version <= Len(w) /\ d.doc = Prefix(w, d.version)

\* The lines of the WAL are numbered; every document that was written or read
\* is a prefix of it, and the one that is served is all of it.
DiskInv ==
    /\ \A i \in 1 .. Len(wal) : wal[i].version = i
    /\ IsPrefix(snap, wal)
    /\ room # 0 =>
          /\ ses[room].stage # "new" => IsPrefix(ses[room], wal)
          /\ ses[room].stage \in {"migrating", "ready"} => ses[room].version = Len(wal)
          /\ ses[room].evicting = "saving" => IsPrefix(ses[room].evictSnap, wal)

Due(v) == v % SnapshotInterval = 0

\* A connection that has missed an event missed it with a snapshot that failed,
\* and no snapshot of a later version has been stored since.
EventInv ==
    /\ \A c \in Clients : lease[c] # 0 =>
          /\ seen[c] <= ses[room].version
          /\ ses[room].evicting = "saving" => ses[room].evictSnap.version <= seen[c]
          /\ ~gap[c] /\ ses[room].running # "snapshotting" /\ seen[c] # ses[room].version =>
                /\ \E v \in seen[c] + 1 .. ses[room].version : Due(v)
                /\ snap.version < ses[room].version
    /\ room # 0 /\ ses[room].running = "snapshotting" =>
          /\ Due(ses[room].version)
          /\ snap.version < ses[room].version
          /\ ses[room].evicting = "saving" => ses[room].evictSnap.version < ses[room].version

Inv == TypeInv /\ CacheInv /\ HelloInv /\ LeasesAreCounted /\ DiskInv /\ EventInv

-----------------------------------------------------------------------------
(* The operators of the model *)

LEMMA PackType == TypeInv => Pack \in Nat
  BY StandaloneAssumption DEF TypeInv, Pack

\* The prefixes of the WAL are documents.
LEMMA PrefixType ==
    ASSUME TypeInv, NEW n \in 0 .. Len(wal)
    PROVE  Prefix(wal, n) \in Seq(Ops) /\ DOMAIN Prefix(wal, n) = 1 .. n
<1>1. wal \in Seq(Line) /\ n \in Nat /\ 1 .. n \subseteq 1 .. Len(wal)
  BY DEF TypeInv
<1>2. \A v \in 1 .. n : wal[v] \in Line
  BY <1>1
<1>3. \A v \in 1 .. n : wal[v].op \in Ops
  BY <1>2 DEF Line
<1>4. Prefix(wal, n) \in [1 .. n -> Ops]
  BY <1>3, Zenon DEF Prefix
<1>5. DOMAIN Prefix(wal, n) = 1 .. n
  BY DEF Prefix
<1>. QED  BY <1>1, <1>4, <1>5, SeqDef

LEMMA LargestVersion ==
    ASSUME NEW N \in Nat, NEW n \in Nat, n <= N
    PROVE  (CHOOSE v \in 1 .. N \cup {n} : \A u \in 1 .. N \cup {n} : u <= v) = N
<1>. DEFINE V == 1 .. N \cup {n}
<1>1. N \in V
  BY N = 0 \/ N \in 1 .. N
<1>2. \A v \in V : v \in Nat /\ v <= N
  OBVIOUS
<1>. HIDE DEF V
<1>3. \A v \in V : (\A u \in V : u <= v) => v = N
  BY <1>1, <1>2
<1>4. (CHOOSE v \in V : \A u \in V : u <= v) = N
  BY <1>1, <1>2, <1>3
<1>. QED  BY <1>4 DEF V

\* A load at any version that a snapshot can have brings the document up to the
\* last line of the WAL.
LEMMA ReplayPrefix ==
    ASSUME TypeInv, \A i \in 1 .. Len(wal) : wal[i].version = i, NEW n \in 0 .. Len(wal)
    PROVE  Replayed(Prefix(wal, n), n) = Prefix(wal, Len(wal)) /\ LastVersion(n) = Len(wal)
<1>. DEFINE N == Len(wal)
<1>1. N \in Nat /\ DOMAIN wal = 1 .. N /\ n \in Nat /\ n <= N
  BY DEF TypeInv
<1>2. WalVersions = 1 .. N
  BY <1>1 DEF WalVersions
<1>3. ASSUME NEW v \in 1 .. N PROVE FirstLine(v) = v
  BY <1>1 DEF FirstLine
<1>4. DOMAIN Prefix(wal, n) = 1 .. n
  BY DEF Prefix
<1>5. Replayed(Prefix(wal, n), n) = [v \in 1 .. N |-> wal[v].op]
  <2>1. 1 .. n \cup {v \in 1 .. N : v > n} = 1 .. N
    BY <1>1
  <2>2. \A v \in 1 .. n : Prefix(wal, n)[v] = wal[v].op
    BY DEF Prefix
  <2>3. {v \in WalVersions : v > n} = {v \in 1 .. N : v > n}
    BY <1>2
  <2>4. Replayed(Prefix(wal, n), n) =
          [v \in 1 .. N |-> IF v \in {u \in 1 .. N : u > n} THEN wal[FirstLine(v)].op ELSE Prefix(wal, n)[v]]
    BY <1>4, <2>1, <2>3, Zenon DEF Replayed
  <2>5. ASSUME NEW v \in 1 .. N
        PROVE  (IF v \in {u \in 1 .. N : u > n} THEN wal[FirstLine(v)].op ELSE Prefix(wal, n)[v]) = wal[v].op
    <3>1. v > n \/ v \in 1 .. n
      BY <1>1
    <3>. QED  BY <3>1, <1>3, <2>2
  <2>. QED  BY <2>4, <2>5
<1>6. WalVersions \cup {n} = 1 .. N \cup {n}
  BY <1>2
<1>7. LastVersion(n) = N
  <2>. HIDE DEF N
  <2>1. (CHOOSE v \in 1 .. N \cup {n} : \A u \in 1 .. N \cup {n} : u <= v) = N
    BY <1>1, LargestVersion
  <2>. QED  BY <1>6, <2>1, Zenon DEF LastVersion
<1>. QED  BY <1>5, <1>7 DEF Prefix

\* There is a least version among any.
LEMMA LeastVersion ==
    ASSUME NEW V \in SUBSET Nat, V # {}
    PROVE  \E v \in V : \A u \in V : v <= u
<1>. DEFINE T == {1 .. u : u \in V}
            N == FiniteSubsetsOf(Nat)
<1>1. T \subseteq N /\ T # {}
  <2>1. \A u \in V : IsFiniteSet(1 .. u) /\ 1 .. u \subseteq Nat
    BY FS_Interval
  <2>. QED  BY <2>1 DEF FiniteSubsetsOf
<1>2. IsWellFoundedOn(StrictSubsetOrdering(Nat), N)
  BY FS_StrictSubsetOrderingWellFounded
<1>3. PICK t \in T : \A r \in T : <<r, t>> \notin StrictSubsetOrdering(Nat)
  <2>. HIDE DEF T, N
  <2>. QED  BY <1>1, <1>2, WFMin, Zenon
<1>4. PICK v \in V : t = 1 .. v
  OBVIOUS
<1>5. ASSUME NEW u \in V, u < v PROVE FALSE
  <2>1. 1 .. u \subseteq 1 .. v /\ 1 .. u # 1 .. v
    <3>1. v \in 1 .. v /\ v \notin 1 .. u
      BY <1>5
    <3>. QED  BY <1>5, <3>1
  <2>2. 1 .. u \in SUBSET Nat /\ 1 .. v \in SUBSET Nat
    OBVIOUS
  <2>3. <<1 .. u, 1 .. v>> \in StrictSubsetOrdering(Nat)
    BY <2>1, <2>2 DEF StrictSubsetOrdering
  <2>. QED  BY <1>3, <1>4, <2>3
<1>. QED  BY <1>5

LEMMA HorizonType ==
    ASSUME TypeInv, \A i \in 1 .. Len(wal) : wal[i].version = i, NEW n \in Nat
    PROVE  HorizonOfWal(n) \in Nat
<1>. DEFINE known == {wal[i].version : i \in {i \in DOMAIN wal : wal[i].op.schema = Pack}}
<1>1. known \subseteq Nat \ {0}
  BY DEF TypeInv
<1>2. CASE known = {}
  BY <1>2 DEF HorizonOfWal
<1>3. CASE known # {}
  <2>1. PICK v \in known : \A u \in known : v <= u
    BY <1>1, <1>3, LeastVersion
  <2>. DEFINE m == CHOOSE w \in known : \A u \in known : w <= u
  <2>3. m \in known
    BY <2>1
  <2>4. m \in Nat \ {0}
    BY <2>3, <1>1
  <2>5. HorizonOfWal(n) = m - 1
    BY <1>3 DEF HorizonOfWal
  <2>. QED  BY <2>4, <2>5
<1>. QED  BY <1>2, <1>3

LEMMA ResultsType ==
    ASSUME TypeInv
    PROVE  ResultsOfWal \in SUBSET Result
<1>1. \A i \in DOMAIN wal : wal[i] \in Line
  BY DEF TypeInv
<1>2. \A i \in DOMAIN wal : wal[i].version \in Nat /\ wal[i].op \in Operation
  BY <1>1, StandaloneAssumption DEF Line
<1>3. \A i \in DOMAIN wal : wal[i].op.id \in STRING
  BY <1>2 DEF Operation
<1>4. \A i \in DOMAIN wal : [id |-> wal[i].op.id, verdict |-> wal[i].version] \in Result
  BY <1>2, <1>3 DEF Result
<1>. QED  BY <1>4 DEF ResultsOfWal

\* A line at the end of the WAL changes no prefix of it, and makes one more.
LEMMA PrefixGrows ==
    ASSUME NEW w \in Seq(Line), NEW l \in Line, NEW n \in Nat, n <= Len(w)
    PROVE  /\ Append(w, l) \in Seq(Line)
           /\ Len(Append(w, l)) = Len(w) + 1
           /\ Append(w, l)[Len(w) + 1] = l
           /\ \A i \in 1 .. Len(w) : Append(w, l)[i] = w[i]
           /\ Prefix(Append(w, l), n) = Prefix(w, n)
<1>1. \A i \in 1 .. Len(w) : Append(w, l)[i] = w[i]
  OBVIOUS
<1>2. 1 .. n \subseteq 1 .. Len(w)
  OBVIOUS
<1>3. \A v \in 1 .. n : Append(w, l)[v].op = w[v].op
  BY <1>1, <1>2
<1>4. Prefix(Append(w, l), n) = Prefix(w, n)
  BY <1>3, Zenon DEF Prefix
<1>. QED  BY <1>1, <1>4

-----------------------------------------------------------------------------
(* Steps of the room's session *)

\* A step that changes nothing but the room's session, neither its leases nor
\* whether it is in use, leaves the cache and the hellos as they are.
LEMMA RoomAtWork ==
    ASSUME Inv, NEW s \in Sessions, s = room,
           ses' \in [Sessions -> Session], \A t \in Sessions \ {s} : ses'[t] = ses[t],
           Coherent(s)', ses'[s].active = ses[s].active,
           ses'[s].initializing = ses[s].initializing,
           ses'[s].evicting = "deleting" => ses[s].evicting = "deleting",
           UNCHANGED <<room, task, lease, overtaken>>
    PROVE  CacheInv' /\ HelloInv' /\ LeasesAreCounted'
<1>1. CacheInv'
  <2>1. \A t \in Sessions \ {s} : Coherent(t)' /\ AtRest(t)'
    BY DEF Inv, CacheInv, Coherent, AtRest
  <2>2. \A t \in Sessions : Coherent(t)' /\ (t # room => AtRest(t))'
    BY <2>1
  <2>3. WaitInv'
    BY DEF Inv, CacheInv, WaitInv
  <2>. QED  BY <2>2, <2>3 DEF Inv, CacheInv
<1>2. HelloInv'
  BY DEF Inv, HelloInv, InFlight
<1>3. LeasesAreCounted'
  BY DEF Inv, LeasesAreCounted
<1>. QED  BY <1>1, <1>2, <1>3

LEMMA SessionReplaced ==
    ASSUME TypeInv, NEW s \in Sessions, NEW r \in Session, ses' = [ses EXCEPT ![s] = r]
    PROVE  /\ ses' \in [Sessions -> Session]
           /\ \A t \in Sessions \ {s} : ses'[t] = ses[t]
           /\ ses'[s] = r
  BY DEF TypeInv

\* A session that is loading, or has an operation under way, is the room's.
LEMMA BusyIsRoom ==
    ASSUME Inv, NEW s \in Sessions,
           \/ ses[s].stage \in {"snapRead", "migrating"}
           \/ ses[s].queue # <<>>
           \/ ses[s].running # "none"
           \/ ses[s].evicting # "no"
           \/ \E q \in Callers : task[q] = [at |-> "loading", on |-> s]
    PROVE  s = room /\ room # 0
<1>. SUFFICES s = room
  BY StandaloneAssumption
<1>1. CASE \E q \in Callers : task[q] = [at |-> "loading", on |-> s]
  BY <1>1 DEF Inv, CacheInv, WaitInv
<1>. QED  BY <1>1 DEF Inv, CacheInv, Coherent, AtRest

LEMMA LoadSnapshotStep ==
    ASSUME Inv, NEW s \in Sessions, LoadSnapshot(s), UNCHANGED socketVars
    PROVE  Inv'
<1>1. s = room /\ room # 0
  BY BusyIsRoom DEF LoadSnapshot
<1>2. /\ ses[s].stage = "new"
      /\ UNCHANGED <<boots, wal, snap, room, task, lease, seen, gap, overtaken>>
  BY DEF LoadSnapshot, diskVars, clientVars, socketVars
<1>3. ses[s] \in Session /\ snap \in Snapshot
  BY DEF Inv, TypeInv
<1>4. /\ ses' \in [Sessions -> Session]
      /\ \A t \in Sessions \ {s} : ses'[t] = ses[t]
      /\ ses'[s] = [ses[s] EXCEPT !.stage = "snapRead", !.version = snap.version,
                                  !.doc = snap.doc, !.stored = snap.schema]
  BY <1>3 DEF LoadSnapshot, Inv, TypeInv, Session, Snapshot
<1>5. /\ ses'[s].stage = "snapRead" /\ ses'[s].version = snap.version /\ ses'[s].doc = snap.doc
      /\ ses'[s].active = ses[s].active /\ ses'[s].initializing = ses[s].initializing
      /\ ses'[s].evicting = ses[s].evicting /\ ses'[s].evictSnap = ses[s].evictSnap
      /\ ses'[s].queue = ses[s].queue /\ ses'[s].running = ses[s].running
  BY <1>3, <1>4 DEF Session
<1>6. ses[s].initializing /\ Coherent(s)
  BY <1>2 DEF Inv, CacheInv, Coherent
<1>7. CacheInv' /\ HelloInv' /\ LeasesAreCounted'
  <2>1. Coherent(s)'
    BY <1>5, <1>6 DEF Coherent
  <2>. QED  BY <1>1, <1>2, <1>4, <1>5, <2>1, RoomAtWork
<1>8. TypeInv'
  BY <1>2, <1>4 DEF Inv, TypeInv
<1>9. DiskInv'
  BY <1>1, <1>2, <1>5 DEF Inv, DiskInv, IsPrefix
<1>10. EventInv'
  BY <1>1, <1>2, <1>5, <1>6 DEF Inv, EventInv, CacheInv, Coherent
<1>. QED  BY <1>7, <1>8, <1>9, <1>10 DEF Inv

LEMMA LoadWalStep ==
    ASSUME Inv, NEW s \in Sessions, LoadWal(s), UNCHANGED socketVars
    PROVE  Inv'
<1>1. s = room /\ room # 0
  BY BusyIsRoom DEF LoadWal
<1>2. /\ ses[s].stage = "snapRead"
      /\ UNCHANGED <<boots, wal, snap, room, task, lease, seen, gap, overtaken>>
  BY DEF LoadWal, diskVars, clientVars, socketVars
<1>3. ses[s] \in Session /\ ses[s].version \in Nat /\ Len(wal) \in Nat
  BY SMTT(30) DEF Inv, TypeInv, Session
<1>4. ses[s].version \in 0 .. Len(wal) /\ ses[s].doc = Prefix(wal, ses[s].version)
  BY <1>1, <1>2, <1>3 DEF Inv, DiskInv, IsPrefix
<1>5. /\ Replayed(ses[s].doc, ses[s].version) = Prefix(wal, Len(wal))
      /\ LastVersion(ses[s].version) = Len(wal)
  BY <1>4, ReplayPrefix DEF Inv, DiskInv
<1>6. Prefix(wal, Len(wal)) \in Seq(Ops)
  BY <1>3, PrefixType DEF Inv
<1>7. HorizonOfWal(Len(wal)) \in Nat /\ ResultsOfWal \in SUBSET Result
  BY <1>3, HorizonType, ResultsType DEF Inv, DiskInv
<1>8. \E stage \in {"ready", "migrating"}, horizon \in Nat :
        ses' = [ses EXCEPT ![s].stage = stage, ![s].doc = Prefix(wal, Len(wal)),
                           ![s].version = Len(wal), ![s].results = ResultsOfWal,
                           ![s].horizon = horizon]
  BY <1>3, <1>5, <1>7 DEF LoadWal
<1>9. /\ ses' \in [Sessions -> Session]
      /\ \A t \in Sessions \ {s} : ses'[t] = ses[t]
      /\ ses'[s].version = Len(wal) /\ ses'[s].doc = Prefix(wal, Len(wal))
      /\ ses'[s].active = ses[s].active /\ ses'[s].initializing = ses[s].initializing
      /\ ses'[s].evicting = ses[s].evicting /\ ses'[s].queue = ses[s].queue
      /\ ses'[s].running = ses[s].running
  <2>1. PICK stage \in {"ready", "migrating"}, horizon \in Nat :
          ses' = [ses EXCEPT ![s].stage = stage, ![s].doc = Prefix(wal, Len(wal)),
                             ![s].version = Len(wal), ![s].results = ResultsOfWal,
                             ![s].horizon = horizon]
    BY <1>8
  <2>. DEFINE r == [ses[s] EXCEPT !.stage = stage, !.doc = Prefix(wal, Len(wal)),
                                  !.version = Len(wal), !.results = ResultsOfWal,
                                  !.horizon = horizon]
  <2>2. r \in Session
    BY <1>3, <1>6, <1>7 DEF Session
  <2>3. ses' = [ses EXCEPT ![s] = r]
    BY <2>1
  <2>4. /\ r.version = Len(wal) /\ r.doc = Prefix(wal, Len(wal))
        /\ r.active = ses[s].active /\ r.initializing = ses[s].initializing
        /\ r.evicting = ses[s].evicting /\ r.queue = ses[s].queue /\ r.running = ses[s].running
    BY <1>3 DEF Session
  <2>. HIDE DEF r
  <2>. QED  BY <2>2, <2>3, <2>4, SessionReplaced DEF Inv
<1>10. ses[s].initializing /\ Coherent(s)
  BY <1>2 DEF Inv, CacheInv, Coherent
<1>11. CacheInv' /\ HelloInv' /\ LeasesAreCounted'
  <2>1. Coherent(s)'
    BY <1>9, <1>10 DEF Coherent
  <2>. QED  BY <1>1, <1>2, <1>9, <1>10, <2>1, RoomAtWork DEF Coherent
<1>12. TypeInv'
  BY <1>2, <1>9 DEF Inv, TypeInv
<1>13. DiskInv'
  BY <1>1, <1>2, <1>3, <1>9, <1>10 DEF Inv, DiskInv, IsPrefix, Coherent
<1>14. EventInv'
  BY <1>1, <1>2, <1>9, <1>10 DEF Inv, EventInv, CacheInv, Coherent
<1>. QED  BY <1>11, <1>12, <1>13, <1>14 DEF Inv

LEMMA MigrationSavedStep ==
    ASSUME Inv, NEW s \in Sessions, MigrationSaved(s), UNCHANGED socketVars
    PROVE  Inv'
<1>1. s = room /\ room # 0
  BY BusyIsRoom DEF MigrationSaved
<1>2. /\ ses[s].stage = "migrating" /\ snap' = SnapshotOf(s)
      /\ UNCHANGED <<boots, wal, room, task, lease, seen, gap, overtaken>>
  BY DEF MigrationSaved, clientVars, socketVars
<1>3. ses[s] \in Session
  BY DEF Inv, TypeInv
<1>4. /\ ses' \in [Sessions -> Session]
      /\ \A t \in Sessions \ {s} : ses'[t] = ses[t]
      /\ ses'[s].version = ses[s].version /\ ses'[s].doc = ses[s].doc
      /\ ses'[s].active = ses[s].active /\ ses'[s].initializing = ses[s].initializing
      /\ ses'[s].evicting = ses[s].evicting /\ ses'[s].queue = ses[s].queue
      /\ ses'[s].running = ses[s].running
  BY <1>3 DEF MigrationSaved, Inv, TypeInv, Session
<1>5. ses[s].initializing /\ Coherent(s)
  BY <1>2 DEF Inv, CacheInv, Coherent
<1>6. CacheInv' /\ HelloInv' /\ LeasesAreCounted'
  <2>1. Coherent(s)'
    BY <1>4, <1>5 DEF Coherent
  <2>. QED  BY <1>1, <1>2, <1>4, <1>5, <2>1, RoomAtWork DEF Coherent
<1>7. TypeInv'
  <2>1. snap' \in Snapshot
    BY <1>2, <1>3, PackType DEF Inv, SnapshotOf, Snapshot, Session
  <2>. QED  BY <1>2, <1>4, <2>1 DEF Inv, TypeInv
<1>8. DiskInv'
  BY <1>1, <1>2, <1>4, <1>5 DEF Inv, DiskInv, IsPrefix, SnapshotOf, Coherent
<1>9. EventInv'
  BY <1>1, <1>2, <1>4, <1>5 DEF Inv, EventInv, CacheInv, Coherent
<1>. QED  BY <1>6, <1>7, <1>8, <1>9 DEF Inv

\* Two states of a session that differ in its operations only.
Alike(d, e) ==
    /\ e.stage = d.stage /\ e.version = d.version /\ e.doc = d.doc
    /\ e.active = d.active /\ e.initializing = d.initializing
    /\ e.evicting = d.evicting /\ e.evictSnap = d.evictSnap

\* A step of the operations of the room's session that commits nothing.
LEMMA OperationStep ==
    ASSUME Inv, NEW s \in Sessions, s = room, NEW r \in Session, ses' = [ses EXCEPT ![s] = r],
           ~ses[s].initializing, ses[s].evicting # "deleting",
           Alike(ses[s], r), r.running # "none" => r.queue # <<>>,
           UNCHANGED <<boots, wal, snap, room, task, lease, seen, gap, overtaken>>
    PROVE  /\ TypeInv' /\ CacheInv' /\ HelloInv' /\ LeasesAreCounted' /\ DiskInv'
           /\ (r.running = "snapshotting" <=> ses[s].running = "snapshotting") => Inv'
<1>1. /\ ses' \in [Sessions -> Session]
      /\ \A t \in Sessions \ {s} : ses'[t] = ses[t]
      /\ ses'[s] = r
  BY SessionReplaced DEF Inv
<1>2. Coherent(s)
  BY DEF Inv, CacheInv
<1>3. CacheInv' /\ HelloInv' /\ LeasesAreCounted'
  <2>1. Coherent(s)'
    BY <1>1, <1>2 DEF Coherent, Alike
  <2>2. /\ ses'[s].active = ses[s].active /\ ses'[s].initializing = ses[s].initializing
        /\ ses'[s].evicting = ses[s].evicting
    BY <1>1 DEF Alike
  <2>. QED  BY <1>1, <2>1, <2>2, RoomAtWork
<1>4. TypeInv'
  BY <1>1 DEF Inv, TypeInv
<1>5. DiskInv'
  BY <1>1 DEF Inv, DiskInv, IsPrefix, Alike
<1>6. ASSUME r.running = "snapshotting" <=> ses[s].running = "snapshotting"
      PROVE  EventInv'
  BY <1>1, <1>6 DEF Inv, EventInv, Alike
<1>. QED  BY <1>3, <1>4, <1>5, <1>6 DEF Inv

LEMMA SubmitStep ==
    ASSUME Inv, NEW c \in Clients, NEW o \in Ops, Submit(c, o)
    PROVE  Inv'
<1>. DEFINE q == Append(ses[room].queue, [op |-> o, from |-> c])
            r == [ses[room] EXCEPT !.queue = q]
<1>1. /\ lease[c] = room /\ room \in Sessions
      /\ ~ses[room].initializing /\ ses[room].evicting # "deleting"
  BY DEF Submit, Enqueue, Inv, CacheInv, TypeInv
<1>2. UNCHANGED <<boots, wal, snap, room, task, lease, seen, gap, overtaken>>
  BY DEF Submit, Enqueue, diskVars, clientVars, socketVars
<1>3. ses[room] \in Session /\ [op |-> o, from |-> c] \in Entry
  BY <1>1 DEF Inv, TypeInv, Entry
<1>4. q \in Seq(Entry) /\ q # <<>>
  <2>1. ses[room].queue \in Seq(Entry)
    BY <1>3 DEF Session
  <2>. QED  BY <1>3, <2>1
<1>5. ses' = [ses EXCEPT ![room] = r]
  BY <1>1 DEF Submit, Enqueue
<1>. HIDE DEF q
<1>6. r \in Session /\ Alike(ses[room], r) /\ r.running = ses[room].running /\ r.queue = q
  BY <1>3, <1>4 DEF Session, Alike
<1>. HIDE DEF r
<1>. QED  BY <1>1, <1>2, <1>4, <1>5, <1>6, OperationStep

\* The operation at the head of a session's chain.
LEMMA ChainHead ==
    ASSUME Inv, NEW s \in Sessions, ses[s].queue # <<>>
    PROVE  /\ s = room /\ room # 0
           /\ Head(ses[s].queue).op \in Ops
           /\ Tail(ses[s].queue) \in Seq(Entry)
           /\ ~ses[s].initializing /\ ses[s].stage = "ready"
           /\ ses[s].evicting # "deleting"
<1>1. s = room /\ room # 0
  BY BusyIsRoom
<1>2. ses[s].queue \in Seq(Entry)
  BY DEF Inv, TypeInv, Session
<1>3. Head(ses[s].queue) \in Entry /\ Tail(ses[s].queue) \in Seq(Entry)
  BY <1>2
<1>4. Head(ses[s].queue).op \in Ops
  BY <1>3 DEF Entry
<1>. QED  BY <1>1, <1>3, <1>4 DEF Inv, CacheInv, Coherent

LEMMA ProcessStep ==
    ASSUME Inv, NEW s \in Sessions, Process(s), UNCHANGED socketVars
    PROVE  Inv'
<1>. DEFINE o == Head(ses[s].queue).op
            next == Tail(ses[s].queue)
<1>1. /\ ses[s].running = "none" /\ ses[s].queue # <<>>
      /\ UNCHANGED <<boots, wal, snap, room, task, lease, seen, gap, overtaken>>
  BY DEF Process, diskVars, socketVars
<1>2. /\ s = room /\ o \in Ops /\ next \in Seq(Entry)
      /\ ~ses[s].initializing /\ ses[s].evicting # "deleting"
  BY <1>1, ChainHead
<1>3. ses[s] \in Session
  BY DEF Inv, TypeInv
<1>4. \/ ses' = [ses EXCEPT ![s].queue = next]
      \/ ses' = [ses EXCEPT ![s].queue = next, ![s].results = @ \cup {[id |-> o.id, verdict |-> 0]}]
      \/ ses' = [ses EXCEPT ![s].running = "appending"]
  BY DEF Process
<1>. HIDE DEF next
<1>5. CASE ses' = [ses EXCEPT ![s].queue = next]
  <2>. DEFINE r == [ses[s] EXCEPT !.queue = next]
  <2>1. r \in Session /\ Alike(ses[s], r) /\ r.running = "none"
    BY <1>1, <1>2, <1>3 DEF Session, Alike
  <2>2. ses' = [ses EXCEPT ![s] = r]
    BY <1>5
  <2>. HIDE DEF r
  <2>. QED  BY <1>1, <1>2, <2>1, <2>2, OperationStep
<1>6. CASE ses' = [ses EXCEPT ![s].queue = next,
                              ![s].results = @ \cup {[id |-> o.id, verdict |-> 0]}]
  <2>. DEFINE results == ses[s].results \cup {[id |-> o.id, verdict |-> 0]}
              r == [ses[s] EXCEPT !.queue = next, !.results = results]
  <2>1. results \in SUBSET Result
    <3>1. o \in Operation
      BY <1>2, StandaloneAssumption
    <3>. HIDE DEF o
    <3>2. [id |-> o.id, verdict |-> 0] \in Result
      BY <3>1 DEF Operation, Result
    <3>. QED  BY <1>3, <3>2 DEF Session
  <2>2. ses' = [ses EXCEPT ![s] = r]
    BY <1>6
  <2>. HIDE DEF results
  <2>3. r \in Session /\ Alike(ses[s], r) /\ r.running = "none"
    BY <1>1, <1>2, <1>3, <2>1 DEF Session, Alike
  <2>. HIDE DEF r
  <2>. QED  BY <1>1, <1>2, <2>2, <2>3, OperationStep
<1>7. CASE ses' = [ses EXCEPT ![s].running = "appending"]
  <2>. DEFINE r == [ses[s] EXCEPT !.running = "appending"]
  <2>1. r \in Session /\ Alike(ses[s], r) /\ r.running = "appending" /\ r.queue # <<>>
    BY <1>1, <1>3 DEF Session, Alike
  <2>2. ses' = [ses EXCEPT ![s] = r]
    BY <1>7
  <2>. HIDE DEF r
  <2>. QED  BY <1>1, <1>2, <2>1, <2>2, OperationStep
<1>. QED  BY <1>4, <1>5, <1>6, <1>7

LEMMA AppendFailsStep ==
    ASSUME Inv, NEW s \in Sessions, AppendFails(s), UNCHANGED socketVars
    PROVE  Inv'
<1>. DEFINE next == Tail(ses[s].queue)
            r == [ses[s] EXCEPT !.running = "none", !.queue = next]
<1>1. /\ ses[s].running = "appending"
      /\ UNCHANGED <<boots, wal, snap, room, task, lease, seen, gap, overtaken>>
  BY DEF AppendFails, diskVars, socketVars
<1>2. ses[s].queue # <<>>
  BY <1>1 DEF Inv, CacheInv, Coherent
<1>3. s = room /\ next \in Seq(Entry) /\ ~ses[s].initializing /\ ses[s].evicting # "deleting"
  BY <1>2, ChainHead
<1>4. ses[s] \in Session
  BY DEF Inv, TypeInv
<1>5. ses' = [ses EXCEPT ![s] = r]
  BY DEF AppendFails
<1>. HIDE DEF next
<1>6. r \in Session /\ Alike(ses[s], r) /\ r.running = "none"
  BY <1>3, <1>4 DEF Session, Alike
<1>. HIDE DEF r
<1>. QED  BY <1>1, <1>3, <1>5, <1>6, OperationStep

LEMMA SnapshotFailsStep ==
    ASSUME Inv, NEW s \in Sessions, SnapshotFails(s), UNCHANGED socketVars
    PROVE  Inv'
<1>. DEFINE next == Tail(ses[s].queue)
            r == [ses[s] EXCEPT !.running = "none", !.queue = next]
<1>1. /\ ses[s].running = "snapshotting"
      /\ UNCHANGED <<boots, wal, snap, room, task, lease, seen, gap, overtaken>>
  BY DEF SnapshotFails, FinishSnapshot, socketVars
<1>2. ses[s].queue # <<>>
  BY <1>1 DEF Inv, CacheInv, Coherent
<1>3. s = room /\ room # 0 /\ next \in Seq(Entry) /\ ~ses[s].initializing /\ ses[s].evicting # "deleting"
  BY <1>2, ChainHead
<1>4. ses[s] \in Session
  BY DEF Inv, TypeInv
<1>5. ses' = [ses EXCEPT ![s] = r]
  BY DEF SnapshotFails, FinishSnapshot
<1>. HIDE DEF next
<1>6. r \in Session /\ Alike(ses[s], r) /\ r.running = "none"
  BY <1>3, <1>4 DEF Session, Alike
<1>. HIDE DEF r
<1>7. TypeInv' /\ CacheInv' /\ HelloInv' /\ LeasesAreCounted' /\ DiskInv'
  BY <1>1, <1>3, <1>5, <1>6, OperationStep
<1>8. EventInv'
  <2>1. ses'[s] = r
    BY <1>5 DEF Inv, TypeInv
  <2>2. ses[s].version \in Nat /\ seen \in [Clients -> Nat]
    BY <1>4 DEF Session, Inv, TypeInv
  <2>3. /\ Due(ses[s].version) /\ snap.version < ses[s].version
    BY <1>1, <1>3 DEF Inv, EventInv
  <2>4. \A c \in Clients : seen[c] <= ses[s].version /\ seen[c] # ses[s].version =>
            ses[s].version \in seen[c] + 1 .. ses[s].version
    BY <2>2
  <2>5. r.version = ses[s].version /\ r.evicting = ses[s].evicting /\ r.evictSnap = ses[s].evictSnap
    BY <1>6 DEF Alike
  <2>6. ASSUME NEW c \in Clients, lease[c] # 0, ~gap[c], seen[c] # ses[s].version
        PROVE  \E v \in seen[c] + 1 .. ses[s].version : Due(v)
    BY <1>3, <2>3, <2>4, <2>6 DEF Inv, EventInv
  <2>. QED  BY <1>1, <1>3, <1>6, <2>1, <2>3, <2>5, <2>6 DEF Inv, EventInv
<1>. QED  BY <1>7, <1>8 DEF Inv

\* After event v nobody who holds a lease lacks v and does not know it.
LEMMA Delivered ==
    ASSUME Inv, NEW s \in Sessions, s = room, NEW v \in Nat, Deliver(s, v)
    PROVE  /\ seen' \in [Clients -> Nat] /\ gap' \in [Clients -> BOOLEAN]
           /\ \A c \in Clients : lease[c] # 0 /\ seen[c] <= v =>
                 /\ seen[c] <= seen'[c] /\ seen'[c] <= v
                 /\ ~gap'[c] => seen'[c] = v
<1>1. /\ seen \in [Clients -> Nat] /\ gap \in [Clients -> BOOLEAN]
      /\ \A c \in Clients : lease[c] # 0 => lease[c] = s
  BY DEF Inv, TypeInv, CacheInv
<1>2. \A c \in Clients :
        /\ seen'[c] = IF lease[c] = s /\ seen[c] = v - 1 THEN v ELSE seen[c]
        /\ gap'[c] = (gap[c] \/ (lease[c] = s /\ seen[c] < v - 1))
  BY Zenon DEF Deliver
<1>3. seen' \in [Clients -> Nat] /\ gap' \in [Clients -> BOOLEAN]
  BY <1>1, <1>2 DEF Deliver
<1>4. ASSUME NEW c \in Clients, lease[c] # 0, seen[c] <= v
      PROVE  /\ seen[c] <= seen'[c] /\ seen'[c] <= v
             /\ ~gap'[c] => seen'[c] = v
  <2>1. lease[c] = s /\ seen[c] \in Nat
    BY <1>1, <1>4
  <2>2. seen[c] = v \/ seen[c] = v - 1 \/ seen[c] < v - 1
    BY <1>4, <2>1
  <2>3. seen[c] < v - 1 => gap'[c]
    BY <1>2, <2>1, Zenon
  <2>4. seen'[c] = IF seen[c] = v - 1 THEN v ELSE seen[c]
    BY <1>2, <2>1
  <2>. QED  BY <1>4, <2>1, <2>2, <2>3, <2>4
<1>. QED  BY <1>3, <1>4

LEMMA SnapshottedStep ==
    ASSUME Inv, NEW s \in Sessions, Snapshotted(s), UNCHANGED socketVars
    PROVE  Inv'
<1>. DEFINE next == Tail(ses[s].queue)
            r == [ses[s] EXCEPT !.running = "none", !.queue = next]
<1>1. /\ ses[s].running = "snapshotting" /\ snap' = SnapshotOf(s)
      /\ Deliver(s, ses[s].version)
      /\ UNCHANGED <<boots, wal, room, task, lease, overtaken>>
  BY DEF Snapshotted, FinishSnapshot, socketVars
<1>2. ses[s].queue # <<>>
  BY <1>1 DEF Inv, CacheInv, Coherent
<1>3. /\ s = room /\ room # 0 /\ next \in Seq(Entry)
      /\ ~ses[s].initializing /\ ses[s].stage = "ready" /\ ses[s].evicting # "deleting"
  BY <1>2, ChainHead
<1>4. ses[s] \in Session
  BY DEF Inv, TypeInv
<1>5. ses' = [ses EXCEPT ![s] = r]
  BY DEF Snapshotted, FinishSnapshot
<1>. HIDE DEF next
<1>6. r \in Session /\ Alike(ses[s], r) /\ r.running = "none"
  BY <1>3, <1>4 DEF Session, Alike
<1>. HIDE DEF r
<1>7. /\ ses' \in [Sessions -> Session]
      /\ \A t \in Sessions \ {s} : ses'[t] = ses[t]
      /\ ses'[s] = r
  BY <1>5, <1>6, SessionReplaced DEF Inv
<1>8. CacheInv' /\ HelloInv' /\ LeasesAreCounted'
  <2>1. Coherent(s)'
    BY <1>3, <1>6, <1>7 DEF Coherent, Alike
  <2>2. /\ ses'[s].active = ses[s].active /\ ses'[s].initializing = ses[s].initializing
        /\ ses'[s].evicting = ses[s].evicting
    BY <1>6, <1>7 DEF Alike
  <2>. QED  BY <1>1, <1>3, <1>7, <2>1, <2>2, RoomAtWork
<1>9. ses[s].version \in Nat
  BY <1>4 DEF Session
<1>10. TypeInv'
  <2>1. snap' \in Snapshot
    BY <1>1, <1>4, PackType DEF Inv, SnapshotOf, Snapshot, Session
  <2>. QED  BY <1>1, <1>3, <1>7, <1>9, <2>1, Delivered DEF Inv, TypeInv
<1>11. DiskInv'
  BY <1>1, <1>3, <1>6, <1>7 DEF Inv, DiskInv, IsPrefix, SnapshotOf, Alike
<1>12. EventInv'
  <2>1. r.version = ses[s].version /\ r.evicting = ses[s].evicting /\ r.evictSnap = ses[s].evictSnap
    BY <1>6 DEF Alike
  <2>2. \A c \in Clients : lease[c] # 0 => seen[c] <= ses[s].version
    BY <1>3 DEF Inv, EventInv
  <2>3. \A c \in Clients : lease[c] # 0 =>
            /\ seen[c] <= seen'[c] /\ seen'[c] <= ses[s].version
            /\ ~gap'[c] => seen'[c] = ses[s].version
    BY <1>1, <1>3, <1>9, <2>2, Delivered
  <2>4. ses[s].evicting = "saving" => \A c \in Clients : lease[c] # 0 => ses[s].evictSnap.version <= seen'[c]
    <3>1. /\ ses[s].evictSnap.version \in Nat /\ seen \in [Clients -> Nat] /\ seen' \in [Clients -> Nat]
      BY <1>4, <1>10 DEF Session, Snapshot, Inv, TypeInv
    <3>. QED  BY <1>3, <2>3, <3>1 DEF Inv, EventInv
  <2>. QED  BY <1>1, <1>3, <1>6, <1>7, <2>1, <2>3, <2>4 DEF EventInv
<1>. QED  BY <1>8, <1>10, <1>11, <1>12 DEF Inv

LEMMA AppendedStep ==
    ASSUME Inv, NEW s \in Sessions, Appended(s), UNCHANGED socketVars
    PROVE  Inv'
<1>. DEFINE o == Head(ses[s].queue).op
            v == ses[s].version + 1
            line == [version |-> v, op |-> o]
            doc == [u \in DOMAIN ses[s].doc \cup {v} |-> IF u = v THEN o ELSE ses[s].doc[u]]
            results == ses[s].results \cup {[id |-> o.id, verdict |-> v]}
            running == IF Due(v) THEN "snapshotting" ELSE "none"
            queue == IF Due(v) THEN ses[s].queue ELSE Tail(ses[s].queue)
            r == [ses[s] EXCEPT !.version = v, !.doc = doc, !.results = results,
                                !.running = running, !.queue = queue]
<1>1. /\ ses[s].running = "appending" /\ wal' = Append(wal, line)
      /\ UNCHANGED <<boots, snap, room, task, lease, overtaken>>
      /\ Due(v) => UNCHANGED <<seen, gap>>
      /\ ~Due(v) => Deliver(s, v)
  BY DEF Appended, Due, socketVars
<1>2. ses[s].queue # <<>>
  BY <1>1 DEF Inv, CacheInv, Coherent
<1>3. /\ s = room /\ room # 0 /\ o \in Ops /\ Tail(ses[s].queue) \in Seq(Entry)
      /\ ~ses[s].initializing /\ ses[s].stage = "ready" /\ ses[s].evicting # "deleting"
  BY <1>2, ChainHead
<1>4. ses[s] \in Session /\ wal \in Seq(Line) /\ Len(wal) \in Nat
  BY DEF Inv, TypeInv
<1>5. /\ ses[s].version = Len(wal) /\ ses[s].doc = Prefix(wal, Len(wal))
      /\ v = Len(wal) + 1 /\ v \in Nat
  <2>1. ses[s].version = Len(wal) /\ ses[s].doc = Prefix(wal, Len(wal))
    BY <1>3 DEF Inv, DiskInv, IsPrefix
  <2>. QED  BY <1>4, <2>1
<1>6. line \in Line
  BY <1>3, <1>5 DEF Line
<1>7. /\ wal' \in Seq(Line) /\ Len(wal') = v /\ wal'[v] = line
      /\ \A i \in 1 .. Len(wal) : wal'[i] = wal[i]
      /\ \A n \in 0 .. Len(wal) : Prefix(wal', n) = Prefix(wal, n)
  BY <1>1, <1>4, <1>5, <1>6, PrefixGrows
<1>8. doc = Prefix(wal', v)
  <2>1. DOMAIN Prefix(wal, Len(wal)) = 1 .. Len(wal)
    BY DEF Prefix
  <2>2. DOMAIN ses[s].doc \cup {v} = 1 .. v
    BY <1>4, <1>5, <2>1
  <2>3. \A u \in 1 .. v : (IF u = v THEN o ELSE ses[s].doc[u]) = wal'[u].op
    <3>1. \A u \in 1 .. Len(wal) : ses[s].doc[u] = wal[u].op
      BY <1>5 DEF Prefix
    <3>2. \A u \in 1 .. v : u = v \/ u \in 1 .. Len(wal)
      BY <1>4, <1>5
    <3>. QED  BY <1>7, <3>1, <3>2
  <2>4. doc = [u \in 1 .. v |-> IF u = v THEN o ELSE ses[s].doc[u]]
    BY <2>2
  <2>. QED  BY <2>3, <2>4 DEF Prefix
<1>9. r \in Session
  <2>1. doc \in Seq(Ops)
    <3>1. \A u \in 1 .. v : wal'[u] \in Line
      BY <1>5, <1>7
    <3>2. \A u \in 1 .. v : wal'[u].op \in Ops
      BY <3>1 DEF Line
    <3>3. Prefix(wal', v) \in [1 .. v -> Ops]
      BY <3>2, Zenon DEF Prefix
    <3>. QED  BY <1>5, <1>8, <3>3, SeqDef
  <2>2. results \in SUBSET Result
    <3>1. o \in Operation
      BY <1>3, StandaloneAssumption, SMTT(30)
    <3>. HIDE DEF o
    <3>2. [id |-> o.id, verdict |-> v] \in Result
      BY <1>5, <3>1 DEF Operation, Result
    <3>. QED  BY <1>4, <3>2 DEF Session
  <2>3. queue \in Seq(Entry) /\ running \in {"none", "snapshotting"}
    <3>1. ses[s].queue \in Seq(Entry)
      BY <1>4, SMTT(30) DEF Session
    <3>. QED  BY <1>3, <3>1
  <2>. HIDE DEF doc, results, queue, running, v
  <2>. QED  BY <1>4, <1>5, <2>1, <2>2, <2>3 DEF Session
<1>10. ses' = [ses EXCEPT ![s] = r]
  BY DEF Appended, Due
<1>11. /\ r.version = v /\ r.doc = doc /\ r.running = running /\ r.queue = queue
       /\ r.stage = "ready" /\ ~r.initializing
       /\ r.active = ses[s].active /\ r.initializing = ses[s].initializing
       /\ r.evicting = ses[s].evicting /\ r.evictSnap = ses[s].evictSnap
  BY <1>3, <1>4 DEF Session
<1>12. running # "none" => Due(v) /\ queue = ses[s].queue
  OBVIOUS
<1>13. running # "snapshotting" => ~Due(v)
  OBVIOUS
<1>. HIDE DEF r, doc, results, queue, running, line, o
<1>14. /\ ses' \in [Sessions -> Session]
       /\ \A t \in Sessions \ {s} : ses'[t] = ses[t]
       /\ ses'[s] = r
  BY <1>9, <1>10, SessionReplaced DEF Inv
<1>15. CacheInv' /\ HelloInv' /\ LeasesAreCounted'
  <2>1. Coherent(s)'
    BY <1>2, <1>3, <1>11, <1>12, <1>14 DEF Coherent
  <2>. QED  BY <1>1, <1>3, <1>11, <1>14, <2>1, RoomAtWork
<1>16. seen' \in [Clients -> Nat] /\ gap' \in [Clients -> BOOLEAN]
  BY <1>1, <1>3, <1>5, Delivered DEF Inv, TypeInv
<1>17. TypeInv'
  BY <1>1, <1>7, <1>14, <1>16 DEF Inv, TypeInv
<1>18. DiskInv'
  <2>1. \A i \in 1 .. Len(wal') : wal'[i].version = i
    <3>1. wal'[v].version = v
      BY <1>7 DEF line
    <3>2. \A i \in 1 .. v : i = v \/ i \in 1 .. Len(wal)
      BY <1>4, <1>5
    <3>. QED  BY <1>7, <3>1, <3>2 DEF Inv, DiskInv
  <2>2. \A d \in Snapshot : IsPrefix(d, wal) => IsPrefix(d, wal')
    <3>1. \A d \in Snapshot : d.version \in Nat
      BY DEF Snapshot
    <3>. QED  BY <1>4, <1>5, <1>7, <3>1 DEF IsPrefix
  <2>3. snap \in Snapshot /\ ses[s].evictSnap \in Snapshot
    BY <1>4 DEF Inv, TypeInv, Session
  <2>4. IsPrefix(r, wal')
    BY <1>5, <1>7, <1>8, <1>11 DEF IsPrefix
  <2>. QED  BY <1>1, <1>3, <1>7, <1>11, <1>14, <2>1, <2>2, <2>3, <2>4 DEF Inv, DiskInv
<1>19. EventInv'
  <2>1. \A c \in Clients : lease[c] # 0 => seen[c] <= ses[s].version
    BY <1>3 DEF Inv, EventInv
  <2>2. \A c \in Clients : seen[c] \in Nat /\ seen'[c] \in Nat
    BY <1>16 DEF Inv, TypeInv
  <2>3. \A c \in Clients : lease[c] # 0 =>
            /\ seen[c] <= seen'[c] /\ seen'[c] <= v
            /\ ~Due(v) /\ ~gap'[c] => seen'[c] = v
    BY <1>1, <1>3, <1>5, <2>1, <2>2, Delivered
  <2>4. snap.version < v /\ (ses[s].evicting = "saving" => ses[s].evictSnap.version < v)
    <3>1. snap.version \in Nat /\ ses[s].evictSnap.version \in Nat
      BY <1>4 DEF Inv, TypeInv, Session, Snapshot
    <3>. QED  BY <1>3, <1>4, <1>5, <3>1 DEF Inv, DiskInv, IsPrefix
  <2>5. ses[s].evicting = "saving" => \A c \in Clients : lease[c] # 0 => ses[s].evictSnap.version <= seen'[c]
    <3>1. ses[s].evictSnap.version \in Nat
      BY <1>4 DEF Session, Snapshot
    <3>. QED  BY <1>3, <2>2, <2>3, <3>1 DEF Inv, EventInv
  <2>. HIDE DEF v
  <2>. QED  BY <1>1, <1>3, <1>11, <1>12, <1>13, <1>14, <2>3, <2>4, <2>5 DEF EventInv
<1>. QED  BY <1>15, <1>17, <1>18, <1>19 DEF Inv

-----------------------------------------------------------------------------
(* Evictions *)

\* A room whose count of leases is zero has none.
LEMMA NoLeases ==
    ASSUME Inv, room # 0, ses[room].active = 0
    PROVE  \A c \in Clients : lease[c] = 0
<1>. DEFINE L == {c \in Clients : lease[c] = room}
<1>1. IsFiniteSet(L)
  BY StandaloneAssumption, FS_Subset
<1>2. Cardinality(L) = 0
  BY DEF Inv, LeasesAreCounted
<1>3. L = {}
  BY <1>1, <1>2, FS_EmptySet
<1>. QED  BY <1>3 DEF Inv, CacheInv

LEMMA EvictBeginStep ==
    ASSUME Inv, NEW s \in Sessions, EvictBegin(s), UNCHANGED socketVars
    PROVE  Inv'
<1>. DEFINE r == [ses[s] EXCEPT !.evicting = "saving", !.evictSnap = SnapshotOf(s)]
<1>1. /\ s = room /\ room # 0
      /\ ses[s].evicting = "no" /\ ses[s].active = 0 /\ ses[s].queue = <<>> /\ ~ses[s].initializing
      /\ UNCHANGED <<boots, wal, snap, room, task, lease, seen, gap, overtaken>>
  BY StandaloneAssumption DEF EvictBegin, Evictable, diskVars, clientVars, socketVars
<1>2. ses[s] \in Session
  BY DEF Inv, TypeInv
<1>3. SnapshotOf(s) \in Snapshot
  BY <1>2, PackType DEF Inv, SnapshotOf, Snapshot, Session
<1>4. r \in Session
  BY <1>2, <1>3 DEF Session
<1>5. /\ r.stage = ses[s].stage /\ r.version = ses[s].version /\ r.doc = ses[s].doc
      /\ r.active = ses[s].active /\ r.initializing = ses[s].initializing
      /\ r.queue = ses[s].queue /\ r.running = ses[s].running
      /\ r.evicting = "saving" /\ r.evictSnap = SnapshotOf(s)
  BY <1>2 DEF Session
<1>6. ses' = [ses EXCEPT ![s] = r]
  BY DEF EvictBegin
<1>. HIDE DEF r
<1>7. /\ ses' \in [Sessions -> Session]
      /\ \A t \in Sessions \ {s} : ses'[t] = ses[t]
      /\ ses'[s] = r
  BY <1>4, <1>6, SessionReplaced DEF Inv
<1>8. Coherent(s)
  BY DEF Inv, CacheInv
<1>9. CacheInv' /\ HelloInv' /\ LeasesAreCounted'
  <2>1. Coherent(s)'
    BY <1>1, <1>5, <1>7, <1>8 DEF Coherent
  <2>. QED  BY <1>1, <1>5, <1>7, <2>1, RoomAtWork
<1>10. TypeInv'
  BY <1>1, <1>7 DEF Inv, TypeInv
<1>11. DiskInv'
  BY <1>1, <1>5, <1>7, <1>8 DEF Inv, DiskInv, IsPrefix, SnapshotOf, Coherent
<1>12. EventInv'
  <2>1. \A c \in Clients : lease[c] = 0
    BY <1>1, NoLeases
  <2>2. ses[s].running = "none"
    BY <1>1, <1>8 DEF Coherent
  <2>. QED  BY <1>1, <1>5, <1>7, <2>1, <2>2 DEF EventInv
<1>. QED  BY <1>9, <1>10, <1>11, <1>12 DEF Inv

LEMMA EvictFailsStep ==
    ASSUME Inv, NEW s \in Sessions, EvictFails(s), UNCHANGED socketVars
    PROVE  Inv'
<1>. DEFINE r == [ses[s] EXCEPT !.evicting = "no", !.evictSnap = NoSnap]
<1>1. /\ ses[s].evicting = "saving"
      /\ UNCHANGED <<boots, wal, snap, room, task, lease, seen, gap, overtaken>>
  BY DEF EvictFails, diskVars, clientVars, socketVars
<1>2. s = room /\ room # 0
  BY <1>1, BusyIsRoom
<1>3. ses[s] \in Session /\ NoSnap \in Snapshot
  BY DEF Inv, TypeInv, NoSnap, Snapshot
<1>4. r \in Session
  BY <1>3 DEF Session
<1>5. /\ r.stage = ses[s].stage /\ r.version = ses[s].version /\ r.doc = ses[s].doc
      /\ r.active = ses[s].active /\ r.initializing = ses[s].initializing
      /\ r.queue = ses[s].queue /\ r.running = ses[s].running
      /\ r.evicting = "no"
  BY <1>3 DEF Session
<1>6. ses' = [ses EXCEPT ![s] = r]
  BY DEF EvictFails
<1>. HIDE DEF r
<1>7. /\ ses' \in [Sessions -> Session]
      /\ \A t \in Sessions \ {s} : ses'[t] = ses[t]
      /\ ses'[s] = r
  BY <1>4, <1>6, SessionReplaced DEF Inv
<1>8. Coherent(s)
  BY DEF Inv, CacheInv
<1>9. CacheInv' /\ HelloInv' /\ LeasesAreCounted'
  <2>1. Coherent(s)'
    BY <1>1, <1>5, <1>7, <1>8 DEF Coherent
  <2>. QED  BY <1>1, <1>2, <1>5, <1>7, <2>1, RoomAtWork
<1>10. TypeInv'
  BY <1>1, <1>7 DEF Inv, TypeInv
<1>11. DiskInv'
  BY <1>1, <1>2, <1>5, <1>7 DEF Inv, DiskInv, IsPrefix
<1>12. EventInv'
  BY <1>1, <1>2, <1>5, <1>7 DEF Inv, EventInv
<1>. QED  BY <1>9, <1>10, <1>11, <1>12 DEF Inv

\* A session that nobody holds or awaits leaves the map at rest.
LEMMA RoomLeavesMap ==
    ASSUME Inv, NEW s \in Sessions, s = room, NEW r \in Session, ses' = [ses EXCEPT ![s] = r],
           ses[s].stage = "ready" /\ ses[s].queue = <<>> /\ ses[s].running = "none",
           r.stage = "ready" /\ r.queue = <<>> /\ r.running = "none" /\ r.evicting = "no",
           \A q \in Callers : task[q].at # "loading",
           \A c \in Clients : lease[c] = 0,
           wal' \in Seq(Line) /\ snap' \in Snapshot,
           \A i \in 1 .. Len(wal') : wal'[i].version = i,
           IsPrefix(snap, wal)',
           room' = 0, UNCHANGED <<boots, task, lease, seen, gap, overtaken>>
    PROVE  Inv'
<1>1. /\ ses' \in [Sessions -> Session]
      /\ \A t \in Sessions \ {s} : ses'[t] = ses[t]
      /\ ses'[s] = r
  BY SessionReplaced DEF Inv
<1>2. room # 0
  BY StandaloneAssumption
<1>3. CacheInv'
  <2>1. \A t \in Sessions : Coherent(t)' /\ AtRest(t)'
    BY <1>1 DEF Inv, CacheInv, Coherent, AtRest
  <2>2. WaitInv'
    BY <1>2 DEF Inv, CacheInv, WaitInv
  <2>. QED  BY <2>1, <2>2 DEF CacheInv
<1>4. HelloInv'
  BY DEF Inv, HelloInv, InFlight
<1>5. TypeInv'
  BY <1>1 DEF Inv, TypeInv
<1>6. LeasesAreCounted' /\ DiskInv' /\ EventInv'
  BY DEF LeasesAreCounted, DiskInv, EventInv
<1>. QED  BY <1>3, <1>4, <1>5, <1>6 DEF Inv

LEMMA EvictDeletedStep ==
    ASSUME Inv, NEW s \in Sessions, EvictDeleted(s), UNCHANGED socketVars
    PROVE  Inv'
<1>. DEFINE r == [ses[s] EXCEPT !.evicting = "no"]
<1>1. /\ ses[s].evicting = "deleting" /\ wal' = <<>> /\ snap' = NoSnap
      /\ UNCHANGED <<boots, task, lease, seen, gap, overtaken>>
  BY DEF EvictDeleted, Erase, socketVars
<1>2. s = room /\ room # 0 /\ room' = 0
  BY <1>1, BusyIsRoom DEF EvictDeleted
<1>3. ses[s] \in Session
  BY DEF Inv, TypeInv
<1>4. /\ ses[s].stage = "ready" /\ ses[s].queue = <<>> /\ ses[s].running = "none"
      /\ ses[s].active = 0
  BY <1>1, <1>3 DEF Inv, CacheInv, Coherent
<1>5. /\ r \in Session
      /\ r.stage = "ready" /\ r.queue = <<>> /\ r.running = "none" /\ r.evicting = "no"
  BY <1>3, <1>4 DEF Session
<1>6. ses' = [ses EXCEPT ![s] = r]
  BY DEF EvictDeleted
<1>. HIDE DEF r
<1>7. \A q \in Callers : task[q].at # "loading"
  BY <1>1, <1>2 DEF Inv, CacheInv, WaitInv
<1>8. \A c \in Clients : lease[c] = 0
  BY <1>2, <1>4, NoLeases
<1>9. wal' \in Seq(Line) /\ snap' \in Snapshot /\ Len(wal') = 0
  BY <1>1 DEF NoSnap, Snapshot
<1>10. IsPrefix(snap, wal)'
  BY <1>1, <1>9 DEF IsPrefix, Prefix, NoSnap
<1>11. \A i \in 1 .. Len(wal') : wal'[i].version = i
  BY <1>9
<1>. QED  BY <1>1, <1>2, <1>4, <1>5, <1>6, <1>7, <1>8, <1>9, <1>10, <1>11, RoomLeavesMap

LEMMA EvictSavedStep ==
    ASSUME Inv, NEW s \in Sessions, EvictSaved(s), UNCHANGED socketVars
    PROVE  Inv'
<1>. DEFINE evict == s = room /\ Evictable(s)
            evicting == IF evict /\ retention = "delete" THEN "deleting" ELSE "no"
            r == [ses[s] EXCEPT !.evicting = evicting, !.evictSnap = NoSnap]
<1>1. /\ ses[s].evicting = "saving" /\ snap' = ses[s].evictSnap
      /\ UNCHANGED <<boots, wal, task, lease, seen, gap, overtaken>>
      /\ room' = IF evict /\ retention = "retain" THEN 0 ELSE room
  BY DEF EvictSaved, clientVars, socketVars
<1>2. s = room /\ room # 0
  BY <1>1, BusyIsRoom
<1>3. ses[s] \in Session /\ NoSnap \in Snapshot
  BY DEF Inv, TypeInv, NoSnap, Snapshot
<1>4. Coherent(s) /\ ses[s].stage = "ready" /\ ~ses[s].initializing
  BY <1>1 DEF Inv, CacheInv, Coherent
<1>5. ASSUME NEW q \in Callers PROVE task[q].at # "loading"
  <2>1. task[q] \in Task
    BY DEF Inv, TypeInv
  <2>2. task[q].at = "loading" => task[q].on = s
    BY <1>2 DEF Inv, CacheInv, WaitInv
  <2>3. task[q].at = "loading" => task[q] = [at |-> "loading", on |-> s]
    BY <2>1, <2>2 DEF Task
  <2>. QED  BY <1>4, <2>3 DEF EvictSaved
<1>6. evict => ses[s].active = 0 /\ ses[s].queue = <<>> /\ ses[s].running = "none"
  BY <1>3, <1>4 DEF Evictable, Coherent
<1>7. /\ r \in Session
      /\ r.stage = "ready" /\ r.version = ses[s].version /\ r.doc = ses[s].doc
      /\ r.active = ses[s].active /\ ~r.initializing
      /\ r.queue = ses[s].queue /\ r.running = ses[s].running /\ r.evicting = evicting
  BY <1>3, <1>4 DEF Session
<1>8. ses' = [ses EXCEPT ![s] = r]
  BY DEF EvictSaved
<1>9. snap' \in Snapshot /\ IsPrefix(snap, wal)'
  BY <1>1, <1>2, <1>3 DEF Session, Inv, DiskInv
<1>10. evict => \A c \in Clients : lease[c] = 0
  BY <1>2, <1>6, NoLeases
<1>11. wal \in Seq(Line) /\ \A i \in 1 .. Len(wal) : wal[i].version = i
  BY DEF Inv, TypeInv, DiskInv
<1>12. /\ evicting = "deleting" => evict
       /\ evicting # "saving"
  OBVIOUS
<1>. HIDE DEF r, evicting
<1>13. CASE evict /\ retention = "retain"
  <2>1. evicting = "no"
    BY <1>13 DEF evicting
  <2>. HIDE DEF evict
  <2>. QED  BY <1>1, <1>2, <1>4, <1>5, <1>6, <1>7, <1>8, <1>9, <1>10, <1>11, <1>13, <2>1, RoomLeavesMap
<1>14. CASE ~(evict /\ retention = "retain")
  <2>. HIDE DEF evict
  <2>1. /\ ses' \in [Sessions -> Session]
        /\ \A t \in Sessions \ {s} : ses'[t] = ses[t]
        /\ ses'[s] = r /\ room' = room
    BY <1>1, <1>7, <1>8, <1>14, SessionReplaced DEF Inv
  <2>2. CacheInv'
    <3>1. \A t \in Sessions \ {s} : Coherent(t)' /\ AtRest(t)'
      BY <1>2, <2>1 DEF Inv, CacheInv, Coherent, AtRest
    <3>2. Coherent(s)'
      BY <1>4, <1>6, <1>7, <1>12, <2>1 DEF Coherent
    <3>3. WaitInv'
      BY <1>1, <1>2, <1>5, <2>1 DEF Inv, CacheInv, WaitInv
    <3>. QED  BY <1>1, <1>2, <1>7, <1>10, <1>12, <2>1, <3>1, <3>2, <3>3 DEF Inv, CacheInv
  <2>3. HelloInv' /\ LeasesAreCounted'
    BY <1>1, <1>2, <1>7, <2>1 DEF Inv, HelloInv, InFlight, LeasesAreCounted
  <2>4. TypeInv'
    BY <1>1, <1>9, <2>1 DEF Inv, TypeInv
  <2>5. DiskInv'
    BY <1>1, <1>2, <1>4, <1>7, <1>9, <1>11, <1>12, <2>1 DEF Inv, DiskInv, IsPrefix
  <2>6. EventInv'
    <3>1. /\ ses[s].evictSnap.version \in Nat /\ ses[s].version \in Nat
          /\ \A c \in Clients : seen[c] \in Nat
      BY <1>3 DEF Session, Snapshot, Inv, TypeInv
    <3>. QED  BY <1>1, <1>2, <1>7, <1>12, <2>1, <3>1 DEF Inv, EventInv
  <2>. QED  BY <2>2, <2>3, <2>4, <2>5, <2>6 DEF Inv
<1>. QED  BY <1>13, <1>14

-----------------------------------------------------------------------------
(* Lookups and leases *)

\* What the theorems assume of the cache.
NoOverlap == ~Crowded \/ ~SweepsOverlap

\* Two states of a session that differ in its leases and in who is to be told.
SameWork(d, e) ==
    /\ e.stage = d.stage /\ e.version = d.version /\ e.doc = d.doc
    /\ e.running = d.running /\ e.initializing = d.initializing
    /\ e.evicting = d.evicting /\ e.evictSnap = d.evictSnap
    /\ e.queue = <<>> <=> d.queue = <<>>
    /\ d.evicting = "deleting" => e.active = d.active

\* A step that ends leases, or none, and counts them.
LEMMA LeasesEnd ==
    ASSUME Inv, ses' \in [Sessions -> Session],
           \A s \in Sessions : SameWork(ses[s], ses'[s]),
           task' \in [Callers -> Task], WaitInv',
           lease' \in [Clients -> Sessions \cup {0}],
           seen' \in [Clients -> Nat], gap' \in [Clients -> BOOLEAN],
           \A c \in Clients : lease'[c] # 0 =>
               lease'[c] = lease[c] /\ seen'[c] = seen[c] /\ gap'[c] = gap[c],
           room # 0 => ses'[room].active = Cardinality({c \in Clients : lease'[c] = room}),
           UNCHANGED <<boots, wal, snap, room>>
    PROVE  TypeInv' /\ CacheInv' /\ LeasesAreCounted' /\ DiskInv' /\ EventInv'
<1>1. TypeInv'
  BY DEF Inv, TypeInv
<1>2. CacheInv'
  <2>1. \A s \in Sessions : Coherent(s)' /\ (s # room => AtRest(s))'
    BY DEF Inv, CacheInv, Coherent, AtRest, SameWork
  <2>2. \A c \in Clients : lease'[c] # 0 =>
          /\ lease'[c] = room
          /\ ~ses'[room].initializing
          /\ ses'[room].evicting # "deleting"
    <3>. SUFFICES ASSUME NEW c \in Clients, lease'[c] # 0
                  PROVE  /\ lease'[c] = room
                         /\ ~ses'[room].initializing
                         /\ ses'[room].evicting # "deleting"
      OBVIOUS
    <3>1. lease'[c] = lease[c] /\ lease'[c] \in Sessions
      OBVIOUS
    <3>2. /\ lease[c] = room
          /\ ~ses[room].initializing
          /\ ses[room].evicting # "deleting"
      BY <3>1 DEF Inv, CacheInv
    <3>3. SameWork(ses[room], ses'[room])
      BY <3>1, <3>2
    <3>. QED  BY <3>1, <3>2, <3>3 DEF SameWork
  <2>. QED  BY <2>1, <2>2 DEF CacheInv
<1>3. LeasesAreCounted'
  BY DEF LeasesAreCounted
<1>4. room # 0 => SameWork(ses[room], ses'[room])
  BY DEF Inv, TypeInv
<1>5. DiskInv'
  BY <1>4 DEF Inv, DiskInv, IsPrefix, SameWork
<1>6. EventInv'
  <2>1. \A c \in Clients : lease'[c] # 0 => room # 0
    BY DEF Inv, CacheInv
  <2>. QED  BY <1>4, <2>1 DEF Inv, EventInv, SameWork
<1>. QED  BY <1>1, <1>2, <1>3, <1>5, <1>6

\* Where no sweep is under way but q's, a new session may become the room's.
LEMMA NewRoomStep ==
    ASSUME Inv, NEW q \in Callers, NewRoom(q, ses), room = 0,
           \A p \in Callers \ {q} : task[p].at # "sweeping",
           lease' = lease, seen' \in [Clients -> Nat], gap' \in [Clients -> BOOLEAN],
           UNCHANGED <<boots, wal, snap>>
    PROVE  TypeInv' /\ CacheInv' /\ LeasesAreCounted' /\ DiskInv' /\ EventInv'
<1>1. PICK s \in Sessions :
        /\ Free(s) /\ room' = s
        /\ ses' = [ses EXCEPT ![s] = NewSession]
        /\ task' = [task EXCEPT ![q] = [at |-> "loading", on |-> s]]
  BY DEF NewRoom
<1>2. NewSession \in Session
  BY DEF NewSession, NoSnap, Session, Snapshot
<1>3. /\ ses' \in [Sessions -> Session]
      /\ \A t \in Sessions \ {s} : ses'[t] = ses[t]
      /\ ses'[s] = NewSession
  BY <1>1, <1>2, SessionReplaced DEF Inv
<1>4. \A c \in Clients : lease[c] = 0
  BY DEF Inv, CacheInv
<1>5. s # 0
  BY StandaloneAssumption
<1>6. TypeInv'
  BY <1>1, <1>3 DEF Inv, TypeInv, Task
<1>7. CacheInv'
  <2>1. Coherent(s)'
    BY <1>3 DEF Coherent, NewSession
  <2>2. \A t \in Sessions \ {s} : Coherent(t)' /\ AtRest(t)'
    BY <1>3, StandaloneAssumption DEF Inv, CacheInv, Coherent, AtRest
  <2>3. WaitInv'
    <3>1. task'[q] = [at |-> "loading", on |-> s] /\ \A p \in Callers \ {q} : task'[p] = task[p]
      BY <1>1 DEF Inv, TypeInv
    <3>2. \A p \in Callers \ {q} : task[p].at # "loading" /\ task[p].at # "sweeping"
      BY DEF Inv, CacheInv, WaitInv
    <3>3. ses'[s].evicting = "no"
      BY <1>3 DEF NewSession
    <3>. QED  BY <1>1, <1>5, <3>1, <3>2, <3>3 DEF Inv, CacheInv, WaitInv
  <2>. QED  BY <1>1, <1>4, <2>1, <2>2, <2>3 DEF CacheInv
<1>8. LeasesAreCounted'
  <2>1. {c \in Clients : lease'[c] = s} = {}
    BY <1>4, <1>5
  <2>. QED  BY <1>1, <1>3, <2>1, FS_EmptySet DEF LeasesAreCounted, NewSession
<1>9. DiskInv' /\ EventInv'
  BY <1>1, <1>3, <1>4 DEF Inv, DiskInv, EventInv, NewSession
<1>. QED  BY <1>6, <1>7, <1>8, <1>9

\* One turn of session()'s loop.
LEMMA LookStep ==
    ASSUME NoOverlap, Inv, NEW q \in Callers, NEW after \in [Sessions -> Session], Look(q, after),
           \A s \in Sessions : SameWork(ses[s], after[s]),
           room = 0 => after = ses,
           task[q].at # "sweeping",
           lease' \in [Clients -> Sessions \cup {0}],
           seen' \in [Clients -> Nat], gap' \in [Clients -> BOOLEAN],
           \A c \in Clients : lease'[c] # 0 =>
               lease'[c] = lease[c] /\ seen'[c] = seen[c] /\ gap'[c] = gap[c],
           room # 0 => after[room].active = Cardinality({c \in Clients : lease'[c] = room}),
           UNCHANGED <<boots, wal, snap>>
    PROVE  /\ TypeInv' /\ CacheInv' /\ LeasesAreCounted' /\ DiskInv' /\ EventInv'
           /\ task'[q].at # "none" /\ \A p \in Callers \ {q} : task'[p] = task[p]
<1>1. task \in [Callers -> Task] /\ room \in Sessions \cup {0}
  BY DEF Inv, TypeInv
<1>2. room = 0 => \A c \in Clients : lease[c] = 0
  BY DEF Inv, CacheInv
<1>3. MayCreate => \A p \in Callers : task[p].at # "sweeping"
  BY DEF MayCreate, NoOverlap, Inv, CacheInv, WaitInv
<1>4. CASE room # 0 /\ ses' = after /\ room' = room
           /\ task' = [task EXCEPT ![q] =
                 [at |-> IF ses[room].evicting # "no" THEN "evicting" ELSE "loading", on |-> room]]
  <2>1. \E at \in {"evicting", "loading"} :
          /\ task' = [task EXCEPT ![q] = [at |-> at, on |-> room]]
          /\ at = "loading" => ses[room].evicting = "no"
    BY <1>4
  <2>2. PICK at \in {"evicting", "loading"} :
          /\ task' = [task EXCEPT ![q] = [at |-> at, on |-> room]]
          /\ at = "loading" => ses[room].evicting = "no"
    BY <2>1
  <2>3. /\ task' \in [Callers -> Task]
        /\ task'[q] = [at |-> at, on |-> room] /\ \A p \in Callers \ {q} : task'[p] = task[p]
    BY <1>1, <1>4, <2>2 DEF Task
  <2>4. SameWork(ses[room], ses'[room])
    BY <1>1, <1>4
  <2>5. WaitInv'
    BY <1>4, <2>2, <2>3, <2>4 DEF Inv, CacheInv, WaitInv, SameWork
  <2>. QED  BY <1>4, <2>3, <2>5, LeasesEnd
<1>5. CASE room = 0 /\ Crowded /\ MayCreate /\ ses' = after /\ room' = room
           /\ task' = [task EXCEPT ![q] = [at |-> "sweeping", on |-> 0]]
  <2>1. /\ task' \in [Callers -> Task]
        /\ task'[q] = [at |-> "sweeping", on |-> 0] /\ \A p \in Callers \ {q} : task'[p] = task[p]
    BY <1>1, <1>5 DEF Task
  <2>2. WaitInv'
    BY <1>3, <1>5, <2>1 DEF Inv, CacheInv, WaitInv
  <2>. QED  BY <1>5, <2>1, <2>2, LeasesEnd
<1>6. CASE room = 0 /\ MayCreate /\ NewRoom(q, after)
  <2>1. lease' = lease
    BY <1>2, <1>6 DEF Inv, TypeInv
  <2>2. NewRoom(q, ses)
    BY <1>6
  <2>3. task'[q].at # "none" /\ \A p \in Callers \ {q} : task'[p] = task[p]
    BY <1>1, <2>2 DEF NewRoom
  <2>. QED  BY <1>3, <1>6, <2>1, <2>2, <2>3, NewRoomStep
<1>. QED  BY <1>4, <1>5, <1>6 DEF Look

LEMMA LookAgainStep ==
    ASSUME NoOverlap, Inv, NEW q \in Callers, LookAgain(q), UNCHANGED socketVars
    PROVE  Inv'
<1>. DEFINE s == task[q].on
            after == [ses EXCEPT ![s].initializing = @ /\ task[q].at # "loading"]
<1>1. task[q] \in Task /\ s \in Sessions \cup {0} /\ ses \in [Sessions -> Session]
  BY DEF Inv, TypeInv, Task
<1>2. task[q].at = "evicting" /\ s \in Sessions
  BY <1>1 DEF LookAgain, Loaded, Inv, CacheInv, WaitInv
<1>3. after = ses
  <2>1. ses[s] \in Session /\ ses[s].initializing \in BOOLEAN
    BY <1>1, <1>2 DEF Session
  <2>2. [ses[s] EXCEPT !.initializing = @ /\ task[q].at # "loading"] = ses[s]
    BY <1>2, <2>1 DEF Session
  <2>. QED  BY <1>1, <1>2, <2>2
<1>4. /\ Look(q, after)
      /\ UNCHANGED <<boots, wal, snap, lease, seen, gap, overtaken>>
  BY DEF LookAgain, diskVars, clientVars, socketVars
<1>. HIDE DEF after
<1>5. \A t \in Sessions : SameWork(ses[t], after[t])
  BY <1>3 DEF SameWork
<1>6. room # 0 => after[room].active = Cardinality({c \in Clients : lease'[c] = room})
  BY <1>3, <1>4 DEF Inv, LeasesAreCounted
<1>7. /\ lease' \in [Clients -> Sessions \cup {0}]
      /\ seen' \in [Clients -> Nat] /\ gap' \in [Clients -> BOOLEAN]
  BY <1>4 DEF Inv, TypeInv
<1>8. /\ TypeInv' /\ CacheInv' /\ LeasesAreCounted' /\ DiskInv' /\ EventInv'
      /\ task'[q].at # "none" /\ \A p \in Callers \ {q} : task'[p] = task[p]
  BY <1>1, <1>2, <1>3, <1>4, <1>5, <1>6, <1>7, LookStep
<1>9. HelloInv'
  <2>1. InFlight' = InFlight
    BY <1>2, <1>8 DEF InFlight
  <2>. QED  BY <1>4, <2>1 DEF Inv, HelloInv
<1>. QED  BY <1>8, <1>9 DEF Inv

LEMMA SweepDoneStep ==
    ASSUME Inv, NEW q \in Callers, SweepDone(q), UNCHANGED socketVars
    PROVE  Inv'
<1>1. /\ task[q].at = "sweeping" /\ NewRoom(q, ses)
      /\ UNCHANGED <<boots, wal, snap, lease, seen, gap, overtaken>>
  BY DEF SweepDone, diskVars, clientVars, socketVars
<1>2. room = 0 /\ \A p \in Callers \ {q} : task[p].at # "sweeping"
  BY <1>1 DEF Inv, CacheInv, WaitInv
<1>3. seen' \in [Clients -> Nat] /\ gap' \in [Clients -> BOOLEAN]
  BY <1>1 DEF Inv, TypeInv
<1>4. TypeInv' /\ CacheInv' /\ LeasesAreCounted' /\ DiskInv' /\ EventInv'
  BY <1>1, <1>2, <1>3, NewRoomStep
<1>5. HelloInv'
  <2>1. task \in [Callers -> Task]
    BY DEF Inv, TypeInv
  <2>2. task'[q].at = "loading" /\ \A p \in Callers \ {q} : task'[p] = task[p]
    BY <1>1, <2>1 DEF NewRoom
  <2>3. InFlight' = InFlight
    BY <1>1, <2>2 DEF InFlight
  <2>. QED  BY <1>1, <2>3 DEF Inv, HelloInv
<1>. QED  BY <1>4, <1>5 DEF Inv

-----------------------------------------------------------------------------
(* Sockets *)

\* What leaving the room does to the sessions.
LEMMA ReleaseCounts ==
    ASSUME Inv, NEW c \in Clients
    PROVE  /\ Released(c) \in [Sessions -> Session]
           /\ \A s \in Sessions : SameWork(ses[s], Released(c)[s])
           /\ room = 0 => Released(c) = ses
           /\ room # 0 => Released(c)[room].active =
                            Cardinality({d \in Clients : [lease EXCEPT ![c] = 0][d] = room})
<1>. DEFINE L == {d \in Clients : lease[d] = room}
            M == {d \in Clients : [lease EXCEPT ![c] = 0][d] = room}
<1>1. /\ ses \in [Sessions -> Session] /\ room \in Sessions \cup {0}
      /\ lease \in [Clients -> Sessions \cup {0}]
  BY DEF Inv, TypeInv
<1>2. CASE lease[c] # 0 /\ lease[c] = room
  <2>. DEFINE r == [ses[room] EXCEPT !.active = @ - 1]
  <2>1. room \in Sessions /\ ses[room] \in Session /\ room # 0
    BY <1>1, <1>2
  <2>2. r \in Session /\ SameWork(ses[room], r) /\ r.active = ses[room].active - 1
    <3>1. ses[room].evicting # "deleting"
      BY <1>2, <2>1 DEF Inv, CacheInv
    <3>2. /\ r \in Session /\ r.active = ses[room].active - 1
          /\ r.stage = ses[room].stage /\ r.version = ses[room].version /\ r.doc = ses[room].doc
          /\ r.running = ses[room].running /\ r.initializing = ses[room].initializing
          /\ r.evicting = ses[room].evicting /\ r.evictSnap = ses[room].evictSnap
          /\ r.queue = ses[room].queue
      BY <2>1, SMTT(30) DEF Session
    <3>. QED  BY <3>1, <3>2 DEF SameWork
  <2>3. Released(c) = [ses EXCEPT ![room] = r]
    BY <1>2 DEF Released
  <2>. HIDE DEF r
  <2>4. Released(c) \in [Sessions -> Session] /\ \A s \in Sessions : SameWork(ses[s], Released(c)[s])
    BY <1>1, <2>1, <2>2, <2>3 DEF SameWork
  <2>5. M = L \ {c} /\ c \in L
    BY <1>1, <1>2
  <2>6. IsFiniteSet(L)
    BY StandaloneAssumption, FS_Subset
  <2>7. Cardinality(M) = Cardinality(L) - 1
    BY <2>5, <2>6, FS_RemoveElement
  <2>8. ses[room].active = Cardinality(L)
    BY <2>1 DEF Inv, LeasesAreCounted
  <2>. QED  BY <1>1, <2>1, <2>2, <2>3, <2>4, <2>7, <2>8
<1>3. CASE ~(lease[c] # 0 /\ lease[c] = room)
  <2>1. Released(c) = ses
    BY <1>3 DEF Released
  <2>2. room # 0 => M = L
    BY <1>1, <1>3
  <2>. QED  BY <1>1, <2>1, <2>2 DEF SameWork, Inv, LeasesAreCounted
<1>. QED  BY <1>2, <1>3

LEMMA CallerClient ==
    ASSUME NEW q \in Callers
    PROVE  q[1] \in Clients
  BY DEF Callers

\* The connection that leaves speaks for no hello any more.
LEMMA LeaveOvertakes ==
    ASSUME Inv, NEW c \in Clients, Leave(c)
    PROVE  /\ lease' \in [Clients -> Sessions \cup {0}]
           /\ seen' \in [Clients -> Nat] /\ gap' \in [Clients -> BOOLEAN]
           /\ \A d \in Clients : lease'[d] # 0 =>
                 lease'[d] = lease[d] /\ seen'[d] = seen[d] /\ gap'[d] = gap[d]
           /\ lease' = [lease EXCEPT ![c] = 0] /\ lease'[c] = 0
           /\ overtaken' \subseteq InFlight
           /\ \A q \in InFlight \ overtaken' :
                 q \in InFlight \ overtaken /\ q[1] # c /\ q[1] \in Clients /\ lease'[q[1]] = 0
<1>1. /\ lease \in [Clients -> Sessions \cup {0}]
      /\ seen \in [Clients -> Nat] /\ gap \in [Clients -> BOOLEAN]
      /\ overtaken \subseteq InFlight
  BY DEF Inv, TypeInv, HelloInv
<1>2. /\ lease' = [lease EXCEPT ![c] = 0]
      /\ seen' = [seen EXCEPT ![c] = 0]
      /\ gap' = [gap EXCEPT ![c] = FALSE]
      /\ overtaken' = overtaken \cup Handlers(c)
  BY DEF Leave
<1>3. /\ lease' \in [Clients -> Sessions \cup {0}]
      /\ seen' \in [Clients -> Nat] /\ gap' \in [Clients -> BOOLEAN]
      /\ lease'[c] = 0
      /\ \A d \in Clients \ {c} : lease'[d] = lease[d] /\ seen'[d] = seen[d] /\ gap'[d] = gap[d]
  BY <1>1, <1>2
<1>4. overtaken' \subseteq InFlight
  BY <1>1, <1>2 DEF Handlers
<1>5. ASSUME NEW q \in InFlight \ overtaken'
      PROVE  q \in InFlight \ overtaken /\ q[1] # c /\ q[1] \in Clients /\ lease'[q[1]] = 0
  <2>1. q \in InFlight \ overtaken /\ q[1] # c
    BY <1>2, <1>5 DEF Handlers
  <2>2. q[1] \in Clients
    BY <2>1, CallerClient DEF InFlight
  <2>. QED  BY <1>3, <2>1, <2>2 DEF Inv, HelloInv
<1>. QED  BY <1>2, <1>3, <1>4, <1>5

LEMMA HelloStep ==
    ASSUME NoOverlap, Inv, NEW c \in Clients, NEW k \in Slots[c], Hello(c, k)
    PROVE  Inv'
<1>. DEFINE q == <<c, k>>
<1>1. q \in Callers /\ q[1] = c
  BY DEF Callers
<1>2. /\ task[q].at = "none" /\ Leave(c) /\ Look(q, Released(c))
      /\ UNCHANGED <<boots, wal, snap>>
  BY DEF Hello, diskVars
<1>. HIDE DEF q
<1>3. /\ lease' \in [Clients -> Sessions \cup {0}]
      /\ seen' \in [Clients -> Nat] /\ gap' \in [Clients -> BOOLEAN]
      /\ \A d \in Clients : lease'[d] # 0 =>
            lease'[d] = lease[d] /\ seen'[d] = seen[d] /\ gap'[d] = gap[d]
      /\ lease' = [lease EXCEPT ![c] = 0] /\ lease'[c] = 0
      /\ overtaken' \subseteq InFlight
      /\ \A p \in InFlight \ overtaken' :
            p \in InFlight \ overtaken /\ p[1] # c /\ p[1] \in Clients /\ lease'[p[1]] = 0
  BY <1>2, LeaveOvertakes
<1>4. /\ Released(c) \in [Sessions -> Session]
      /\ \A s \in Sessions : SameWork(ses[s], Released(c)[s])
      /\ room = 0 => Released(c) = ses
      /\ room # 0 => Released(c)[room].active = Cardinality({d \in Clients : lease'[d] = room})
  BY <1>3, ReleaseCounts
<1>5. /\ TypeInv' /\ CacheInv' /\ LeasesAreCounted' /\ DiskInv' /\ EventInv'
      /\ task'[q].at # "none" /\ \A p \in Callers \ {q} : task'[p] = task[p]
  BY <1>1, <1>2, <1>3, <1>4, LookStep
<1>6. HelloInv'
  <2>1. InFlight' = InFlight \cup {q} /\ q \notin InFlight
    BY <1>1, <1>2, <1>5 DEF InFlight
  <2>2. overtaken' \subseteq InFlight'
    BY <1>3, <2>1
  <2>3. \A p \in InFlight' \ overtaken' : p = q \/ p \in InFlight \ overtaken'
    BY <2>1
  <2>4. \A p \in InFlight' \ overtaken' : lease'[p[1]] = 0
    BY <1>1, <1>3, <2>3
  <2>5. \A p, r \in InFlight' \ overtaken' : p[1] = r[1] => p = r
    BY <1>1, <1>3, <2>3 DEF Inv, HelloInv
  <2>. QED  BY <2>2, <2>4, <2>5 DEF HelloInv
<1>. QED  BY <1>5, <1>6 DEF Inv

\* A connection that leaves while no hello of it is looked at.
LEMMA LeaveStep ==
    ASSUME Inv, NEW c \in Clients, Leave(c), ses' \in [Sessions -> Session],
           \A s \in Sessions : SameWork(ses[s], ses'[s]),
           room # 0 => ses'[room].active = Released(c)[room].active,
           UNCHANGED <<boots, wal, snap, room, task>>
    PROVE  Inv'
<1>1. /\ lease' \in [Clients -> Sessions \cup {0}]
      /\ seen' \in [Clients -> Nat] /\ gap' \in [Clients -> BOOLEAN]
      /\ \A d \in Clients : lease'[d] # 0 =>
            lease'[d] = lease[d] /\ seen'[d] = seen[d] /\ gap'[d] = gap[d]
      /\ lease' = [lease EXCEPT ![c] = 0]
      /\ overtaken' \subseteq InFlight
      /\ \A p \in InFlight \ overtaken' : p \in InFlight \ overtaken /\ lease'[p[1]] = 0
  BY LeaveOvertakes
<1>2. room # 0 => ses'[room].active = Cardinality({d \in Clients : lease'[d] = room})
  BY <1>1, ReleaseCounts
<1>3. task' \in [Callers -> Task] /\ room \in Sessions \cup {0}
  BY DEF Inv, TypeInv
<1>4. WaitInv'
  BY <1>3 DEF Inv, CacheInv, WaitInv, SameWork
<1>5. TypeInv' /\ CacheInv' /\ LeasesAreCounted' /\ DiskInv' /\ EventInv'
  BY <1>1, <1>2, <1>3, <1>4, LeasesEnd
<1>6. HelloInv'
  BY <1>1 DEF Inv, HelloInv, InFlight
<1>. QED  BY <1>5, <1>6 DEF Inv

LEMMA HelloElsewhereStep ==
    ASSUME Inv, NEW c \in Clients, HelloElsewhere(c)
    PROVE  Inv'
<1>1. Leave(c) /\ ses' = Released(c) /\ UNCHANGED <<boots, wal, snap, room, task>>
  BY DEF HelloElsewhere, diskVars
<1>2. ses' \in [Sessions -> Session] /\ \A s \in Sessions : SameWork(ses[s], ses'[s])
  BY <1>1, ReleaseCounts
<1>. QED  BY <1>1, <1>2, LeaveStep

\* Those whose socket has closed are still queued.
LEMMA QueueDisowned ==
    ASSUME NEW q \in Seq(Entry), NEW c \in Clients
    PROVE  LET d == [i \in DOMAIN q |-> IF q[i].from = c THEN [q[i] EXCEPT !.from = Gone] ELSE q[i]]
           IN  d \in Seq(Entry) /\ (d = <<>> <=> q = <<>>)
<1>. DEFINE d == [i \in DOMAIN q |-> IF q[i].from = c THEN [q[i] EXCEPT !.from = Gone] ELSE q[i]]
<1>1. Len(q) \in Nat /\ DOMAIN q = 1 .. Len(q)
  OBVIOUS
<1>2. \A i \in DOMAIN q : q[i] \in Entry
  OBVIOUS
<1>3. \A e \in Entry : [e EXCEPT !.from = Gone] \in Entry
  BY DEF Entry
<1>4. d \in [1 .. Len(q) -> Entry]
  BY <1>1, <1>2, <1>3
<1>5. d \in Seq(Entry) /\ Len(d) = Len(q)
  BY <1>1, <1>4, SeqDef
<1>. HIDE DEF d
<1>6. d = <<>> <=> q = <<>>
  BY <1>5
<1>. QED  BY <1>5, <1>6 DEF d

LEMMA CloseStep ==
    ASSUME Inv, NEW c \in Clients, Close(c)
    PROVE  Inv'
<1>. DEFINE D(q) == [i \in DOMAIN q |-> IF q[i].from = c THEN [q[i] EXCEPT !.from = Gone] ELSE q[i]]
<1>1. /\ Leave(c) /\ UNCHANGED <<boots, wal, snap, room, task>>
      /\ ses' = [s \in Sessions |-> [Released(c)[s] EXCEPT !.queue = D(@)]]
  BY DEF Close, diskVars
<1>2. /\ Released(c) \in [Sessions -> Session]
      /\ \A s \in Sessions : SameWork(ses[s], Released(c)[s])
      /\ room \in Sessions \cup {0}
  BY ReleaseCounts DEF Inv, TypeInv
<1>3. ASSUME NEW s \in Sessions
      PROVE  /\ ses'[s] \in Session /\ SameWork(ses[s], ses'[s])
             /\ ses'[s].active = Released(c)[s].active
  <2>. DEFINE r == Released(c)[s]
              q == D(r.queue)
  <2>1. r \in Session /\ r.queue \in Seq(Entry)
    BY <1>2 DEF Session
  <2>2. q \in Seq(Entry) /\ (q = <<>> <=> r.queue = <<>>)
    BY <2>1, QueueDisowned
  <2>3. ses'[s] = [r EXCEPT !.queue = q]
    BY <1>1
  <2>4. SameWork(ses[s], r)
    BY <1>2
  <2>. HIDE DEF q, r
  <2>. QED  BY <2>1, <2>2, <2>3, <2>4 DEF Session, SameWork, r
<1>4. ses' \in [Sessions -> Session]
  BY <1>1, <1>3
<1>. QED  BY <1>1, <1>2, <1>3, <1>4, LeaveStep

\* What an eviction is saving is no newer than the session.
LEMMA SavedBefore ==
    ASSUME Inv, room # 0, ses[room].stage = "ready" \/ ~ses[room].initializing
                          \/ \E c \in Clients : lease[c] # 0
    PROVE  ses[room].evicting = "saving" => ses[room].evictSnap.version <= ses[room].version
<1>1. room \in Sessions
  BY DEF Inv, TypeInv
<1>2. ses[room].stage = "ready"
  BY <1>1 DEF Inv, CacheInv, Coherent
<1>. QED  BY <1>2 DEF Inv, DiskInv, IsPrefix

LEMMA RecoverStep ==
    ASSUME Inv, NEW c \in Clients, Recover(c)
    PROVE  Inv'
<1>1. /\ lease[c] = room /\ room # 0 /\ room \in Sessions
      /\ UNCHANGED <<boots, wal, snap, room, ses, task, lease, overtaken>>
      /\ seen' = [seen EXCEPT ![c] = ses[room].version]
      /\ gap' = [gap EXCEPT ![c] = FALSE]
  BY DEF Recover, diskVars, socketVars, Inv, CacheInv, TypeInv
<1>2. ses[room] \in Session /\ seen \in [Clients -> Nat] /\ gap \in [Clients -> BOOLEAN]
  BY <1>1 DEF Inv, TypeInv
<1>3. seen' \in [Clients -> Nat] /\ gap' \in [Clients -> BOOLEAN]
  BY <1>1, <1>2 DEF Session
<1>4. /\ seen'[c] = ses[room].version
      /\ \A d \in Clients \ {c} : seen'[d] = seen[d] /\ gap'[d] = gap[d]
  BY <1>1, <1>2
<1>5. TypeInv' /\ DiskInv' /\ LeasesAreCounted' /\ HelloInv'
  BY <1>1, <1>3 DEF Inv, TypeInv, DiskInv, IsPrefix, LeasesAreCounted, HelloInv, InFlight
<1>6. CacheInv'
  BY <1>1 DEF Inv, CacheInv, WaitInv, Coherent, AtRest
<1>7. EventInv'
  <2>1. ses[room].evicting = "saving" => ses[room].evictSnap.version <= ses[room].version
    BY <1>1, SavedBefore
  <2>2. ses[room].version <= ses[room].version
    BY <1>2 DEF Session
  <2>. QED  BY <1>1, <1>4, <2>1, <2>2 DEF Inv, EventInv
<1>. QED  BY <1>5, <1>6, <1>7 DEF Inv

LEMMA HelloDoneStep ==
    ASSUME Inv, NEW q \in Callers, HelloDone(q)
    PROVE  Inv'
<1>. DEFINE c == q[1]
            n == IF Keeps(q) THEN ses[room].active + 1 ELSE ses[room].active
            r == [ses[room] EXCEPT !.initializing = FALSE, !.active = n]
<1>1. /\ task[q].at = "loading" /\ task[q].on = room /\ room \in Sessions /\ room # 0
      /\ ses[room].stage = "ready" /\ ses[room].evicting # "deleting"
  BY DEF HelloDone, Acquired, Loaded, Inv, CacheInv, WaitInv, TypeInv
<1>2. /\ ses' = [ses EXCEPT ![room] = r]
      /\ task' = [task EXCEPT ![q] = NoTask]
      /\ lease' = [lease EXCEPT ![c] = IF Keeps(q) THEN room ELSE @]
      /\ seen' = [seen EXCEPT ![c] = IF Keeps(q) THEN ses[room].version ELSE @]
      /\ gap' = [gap EXCEPT ![c] = IF Keeps(q) THEN FALSE ELSE @]
      /\ overtaken' = overtaken \ {q}
      /\ UNCHANGED <<boots, wal, snap, room>>
  BY <1>1 DEF HelloDone, Acquired, diskVars
<1>3. /\ ses \in [Sessions -> Session] /\ ses[room] \in Session /\ c \in Clients
      /\ task \in [Callers -> Task] /\ lease \in [Clients -> Sessions \cup {0}]
      /\ seen \in [Clients -> Nat] /\ gap \in [Clients -> BOOLEAN]
      /\ ses[room].version \in Nat
  BY <1>1, CallerClient DEF Inv, TypeInv, Session
<1>4. /\ r \in Session
      /\ r.stage = "ready" /\ r.version = ses[room].version /\ r.doc = ses[room].doc
      /\ ~r.initializing /\ r.active = n
      /\ r.evicting = ses[room].evicting /\ r.evictSnap = ses[room].evictSnap
      /\ r.queue = ses[room].queue /\ r.running = ses[room].running
  <2>1. n \in Int
    BY <1>3 DEF Session
  <2>. HIDE DEF n
  <2>. QED  BY <1>1, <1>3, <2>1 DEF Session
<1>. HIDE DEF r
<1>5. /\ ses' \in [Sessions -> Session]
      /\ \A t \in Sessions \ {room} : ses'[t] = ses[t]
      /\ ses'[room] = r
  BY <1>1, <1>2, <1>4, SessionReplaced DEF Inv
<1>6. /\ task' \in [Callers -> Task] /\ task'[q] = NoTask
      /\ \A p \in Callers \ {q} : task'[p] = task[p]
  BY <1>2, <1>3 DEF NoTask, Task
<1>. HIDE DEF c
<1>7. /\ lease' \in [Clients -> Sessions \cup {0}]
      /\ seen' \in [Clients -> Nat] /\ gap' \in [Clients -> BOOLEAN]
      /\ \A d \in Clients \ {c} : lease'[d] = lease[d] /\ seen'[d] = seen[d] /\ gap'[d] = gap[d]
      /\ Keeps(q) => lease'[c] = room /\ seen'[c] = ses[room].version
      /\ ~Keeps(q) => lease'[c] = lease[c] /\ seen'[c] = seen[c] /\ gap'[c] = gap[c]
  BY <1>1, <1>2, <1>3
<1>8. q \in InFlight
  BY <1>1 DEF InFlight
<1>9. Keeps(q) => lease[c] = 0
  BY <1>8 DEF Keeps, Inv, HelloInv, c
<1>10. TypeInv'
  BY <1>2, <1>5, <1>6, <1>7 DEF Inv, TypeInv
<1>11. CacheInv'
  <2>1. \A t \in Sessions \ {room} : Coherent(t)' /\ AtRest(t)'
    BY <1>2, <1>5 DEF Inv, CacheInv, Coherent, AtRest
  <2>2. Coherent(room)
    BY <1>1 DEF Inv, CacheInv
  <2>3. \A t \in Sessions : t = room => Coherent(t)'
    BY <1>1, <1>4, <1>5, <2>2 DEF Coherent
  <2>4. WaitInv'
    BY <1>1, <1>2, <1>4, <1>5, <1>6 DEF Inv, CacheInv, WaitInv, NoTask
  <2>5. \A d \in Clients : lease'[d] # 0 => lease'[d] = room
    BY <1>3, <1>7 DEF Inv, CacheInv
  <2>. QED  BY <1>1, <1>2, <1>4, <1>5, <2>1, <2>3, <2>4, <2>5 DEF CacheInv
<1>12. LeasesAreCounted'
  <2>. DEFINE L == {d \in Clients : lease[d] = room}
              M == {d \in Clients : lease'[d] = room}
  <2>1. IsFiniteSet(L) /\ ses[room].active = Cardinality(L)
    BY <1>1, StandaloneAssumption, FS_Subset DEF Inv, LeasesAreCounted
  <2>2. CASE Keeps(q)
    <3>1. M = L \cup {c} /\ c \notin L
      BY <1>1, <1>3, <1>7, <1>9, <2>2
    <3>2. Cardinality(M) = Cardinality(L) + 1
      BY <2>1, <3>1, FS_AddElement
    <3>. QED  BY <1>2, <1>4, <1>5, <2>1, <2>2, <3>2 DEF LeasesAreCounted
  <2>3. CASE ~Keeps(q)
    <3>1. M = L
      BY <1>7, <2>3
    <3>. QED  BY <1>2, <1>4, <1>5, <2>1, <2>3, <3>1 DEF LeasesAreCounted
  <2>. QED  BY <2>2, <2>3
<1>13. HelloInv'
  <2>1. InFlight' = InFlight \ {q}
    BY <1>6 DEF InFlight, NoTask
  <2>2. InFlight' \ overtaken' = (InFlight \ overtaken) \ {q}
    BY <1>2, <2>1
  <2>3. ASSUME NEW p \in InFlight' \ overtaken' PROVE lease'[p[1]] = 0
    <3>1. p \in InFlight \ overtaken /\ p # q /\ p[1] \in Clients
      BY <2>2, CallerClient DEF InFlight
    <3>2. Keeps(q) => p[1] # c
      BY <1>8, <3>1 DEF Keeps, Inv, HelloInv, c
    <3>. QED  BY <1>7, <3>1, <3>2 DEF Inv, HelloInv
  <2>. QED  BY <1>2, <2>1, <2>2, <2>3 DEF Inv, HelloInv
<1>14. DiskInv'
  BY <1>1, <1>2, <1>4, <1>5 DEF Inv, DiskInv, IsPrefix
<1>15. EventInv'
  <2>1. ses[room].evicting = "saving" => ses[room].evictSnap.version <= ses[room].version
    BY <1>1, SavedBefore
  <2>2. ASSUME NEW d \in Clients, lease'[d] # 0
        PROVE  \/ lease[d] # 0 /\ seen'[d] = seen[d] /\ gap'[d] = gap[d]
               \/ seen'[d] = ses[room].version
    BY <1>3, <1>7, <2>2
  <2>3. ses[room].version <= ses[room].version
    BY <1>3
  <2>. QED  BY <1>2, <1>4, <1>5, <2>1, <2>2, <2>3, ZenonT(40) DEF Inv, EventInv
<1>. QED  BY <1>10, <1>11, <1>12, <1>13, <1>14, <1>15 DEF Inv

-----------------------------------------------------------------------------
(* Restarts *)

LEMMA RestartStep ==
    ASSUME Inv, Restarted, SocketsGone, wal' = wal, snap' \in Snapshot, IsPrefix(snap, wal)'
    PROVE  Inv'
<1>1. /\ boots < Len(SchemaAt) /\ boots' = boots + 1
      /\ room' = 0
      /\ ses' = [s \in Sessions |-> NewSession]
      /\ task' = [q \in Callers |-> NoTask]
      /\ lease' = [c \in Clients |-> 0]
      /\ seen' = [c \in Clients |-> 0]
      /\ gap' = [c \in Clients |-> FALSE]
      /\ overtaken' = {}
  BY DEF Restarted, SocketsGone
<1>2. NewSession \in Session /\ NoTask \in Task
  BY DEF NewSession, NoSnap, Session, Snapshot, NoTask, Task
<1>3. boots' \in DOMAIN SchemaAt
  BY <1>1, StandaloneAssumption DEF Inv, TypeInv
<1>4. TypeInv'
  BY <1>1, <1>2, <1>3 DEF Inv, TypeInv
<1>5. CacheInv'
  <2>1. \A s \in Sessions : ses'[s] = NewSession
    BY <1>1
  <2>2. \A s \in Sessions : Coherent(s)' /\ AtRest(s)'
    BY <2>1 DEF Coherent, AtRest, NewSession
  <2>3. WaitInv'
    BY <1>1 DEF WaitInv, NoTask
  <2>. QED  BY <1>1, <2>2, <2>3 DEF CacheInv
<1>6. HelloInv'
  BY <1>1 DEF HelloInv, InFlight, NoTask
<1>7. LeasesAreCounted' /\ DiskInv' /\ EventInv'
  BY <1>1 DEF LeasesAreCounted, Inv, DiskInv, EventInv
<1>. QED  BY <1>4, <1>5, <1>6, <1>7 DEF Inv

LEMMA CrashStep == Inv /\ Crash => Inv'
  BY RestartStep DEF Crash, KillRooms, Inv, TypeInv, DiskInv

LEMMA ShutdownStep ==
    ASSUME Inv, Shutdown
    PROVE  Inv'
<1>1. /\ Restarted /\ SocketsGone /\ wal' = wal /\ snap' = SnapshotOf(room)
      /\ room # 0 /\ ses[room].stage = "ready"
  BY DEF Shutdown, CloseRooms
<1>2. ses[room] \in Session
  BY <1>1 DEF Inv, TypeInv
<1>3. snap' \in Snapshot
  BY <1>1, <1>2, PackType DEF Inv, SnapshotOf, Snapshot, Session
<1>4. IsPrefix(snap, wal)'
  BY <1>1 DEF Inv, DiskInv, IsPrefix, SnapshotOf
<1>. QED  BY <1>1, <1>3, <1>4, RestartStep

-----------------------------------------------------------------------------
(* The theorems *)

LEMMA InvInit == Init => Inv
<1>. SUFFICES ASSUME Init PROVE Inv
  OBVIOUS
<1>1. NewSession \in Session /\ NoSnap \in Snapshot /\ NoTask \in Task /\ 1 \in DOMAIN SchemaAt
  BY StandaloneAssumption DEF NewSession, NoSnap, Session, Snapshot, NoTask, Task
<1>2. TypeInv
  BY <1>1 DEF Init, InitRooms, TypeInv
<1>3. CacheInv
  <2>1. \A s \in Sessions : Coherent(s) /\ AtRest(s)
    BY DEF Init, InitRooms, Coherent, AtRest, NewSession
  <2>2. WaitInv
    BY DEF Init, InitRooms, WaitInv, NoTask
  <2>. QED  BY <2>1, <2>2 DEF Init, InitRooms, CacheInv
<1>4. HelloInv
  BY DEF Init, InitRooms, HelloInv, InFlight, NoTask
<1>5. IsPrefix(snap, wal)
  BY DEF Init, InitRooms, IsPrefix, Prefix, NoSnap
<1>6. LeasesAreCounted /\ DiskInv /\ EventInv
  BY <1>5 DEF Init, InitRooms, LeasesAreCounted, DiskInv, EventInv
<1>. QED  BY <1>2, <1>3, <1>4, <1>6 DEF Inv

LEMMA InvNext ==
    ASSUME NoOverlap, Inv, [Next]_vars
    PROVE  Inv'
<1>1. ASSUME NEW c \in Clients, HelloElsewhere(c) \/ Recover(c) \/ Close(c) PROVE Inv'
  BY <1>1, HelloElsewhereStep, RecoverStep, CloseStep
<1>2. ASSUME NEW c \in Clients, NEW k \in Slots[c], Hello(c, k) PROVE Inv'
  BY <1>2, HelloStep
<1>3. ASSUME NEW c \in Clients, NEW o \in Ops, Submit(c, o) PROVE Inv'
  BY <1>3, SubmitStep
<1>4. ASSUME NEW q \in Callers, HelloDone(q) PROVE Inv'
  BY <1>4, HelloDoneStep
<1>5. CASE RoomStep /\ UNCHANGED socketVars
  <2>1. ASSUME NEW q \in Callers, LookAgain(q) \/ SweepDone(q) PROVE Inv'
    BY <1>5, <2>1, LookAgainStep, SweepDoneStep
  <2>2. ASSUME NEW s \in Sessions, LoadSnapshot(s) \/ LoadWal(s) \/ MigrationSaved(s) PROVE Inv'
    BY <1>5, <2>2, LoadSnapshotStep, LoadWalStep, MigrationSavedStep
  <2>3. ASSUME NEW s \in Sessions, Process(s) \/ Appended(s) \/ AppendFails(s) PROVE Inv'
    BY <1>5, <2>3, ProcessStep, AppendedStep, AppendFailsStep
  <2>4. ASSUME NEW s \in Sessions, Snapshotted(s) \/ SnapshotFails(s) PROVE Inv'
    BY <1>5, <2>4, SnapshottedStep, SnapshotFailsStep
  <2>5. ASSUME NEW s \in Sessions,
               EvictBegin(s) \/ EvictSaved(s) \/ EvictFails(s) \/ EvictDeleted(s)
        PROVE  Inv'
    BY <1>5, <2>5, EvictBeginStep, EvictSavedStep, EvictFailsStep, EvictDeletedStep
  <2>. QED  BY <1>5, <2>1, <2>2, <2>3, <2>4, <2>5 DEF RoomStep
<1>6. CASE Crash \/ Shutdown
  BY <1>6, CrashStep, ShutdownStep
<1>7. CASE UNCHANGED vars
  <2>1. UNCHANGED <<boots, wal, snap, room, ses, task, lease, seen, gap, overtaken>>
    BY <1>7 DEF vars, roomVars, diskVars, clientVars, socketVars
  <2>2. TypeInv' /\ HelloInv' /\ LeasesAreCounted' /\ DiskInv' /\ EventInv'
    BY <2>1 DEF Inv, TypeInv, HelloInv, InFlight, LeasesAreCounted, DiskInv, IsPrefix, EventInv
  <2>3. CacheInv'
    BY <2>1 DEF Inv, CacheInv, WaitInv, Coherent, AtRest
  <2>. QED  BY <2>2, <2>3 DEF Inv
<1>. QED  BY <1>1, <1>2, <1>3, <1>4, <1>5, <1>6, <1>7 DEF Next

\* The invariant of a standalone server whose cache does not sweep for two
\* hellos at a time.
THEOREM ServerInvariant == NoOverlap => (Spec => []Inv)
<1>. SUFFICES ASSUME NoOverlap PROVE Spec => []Inv
  OBVIOUS
<1>1. Inv /\ [Next]_vars => Inv'
  BY InvNext
<1>. QED  BY InvInit, <1>1, PTL DEF Spec

\* Every lease and every queued operation is with the session in the map
\* (server-core's session, acquireRoom, finishEviction), for any clients,
\* operations, schemas and faults.
THEOREM OneSessionPerDocument == NoOverlap => (Spec => []OneOrderingPoint)
<1>. SUFFICES ASSUME NoOverlap PROVE Spec => []OneOrderingPoint
  OBVIOUS
<1>1. Inv => OneOrderingPoint
  BY DEF Inv, CacheInv, AtRest, OneOrderingPoint
<1>. QED  BY ServerInvariant, <1>1, PTL

\* A ready session holds what a restart would load (process, load).
THEOREM SessionsAreDurable == NoOverlap => (Spec => []SessionIsCanonical)
<1>. SUFFICES ASSUME NoOverlap PROVE Spec => []SessionIsCanonical
  OBVIOUS
<1>1. ASSUME Inv, NEW s \in Sessions, s = room, ses[s].stage = "ready"
      PROVE  /\ ses[s].doc = Replayed(snap.doc, snap.version)
             /\ ses[s].version = LastVersion(snap.version)
  <2>1. room # 0
    BY <1>1, StandaloneAssumption
  <2>2. snap.version \in 0 .. Len(wal) /\ snap.doc = Prefix(wal, snap.version)
    BY <1>1 DEF Inv, TypeInv, Snapshot, DiskInv, IsPrefix
  <2>3. /\ Replayed(snap.doc, snap.version) = Prefix(wal, Len(wal))
        /\ LastVersion(snap.version) = Len(wal)
    BY <1>1, <2>2, ReplayPrefix DEF Inv, DiskInv
  <2>. QED  BY <1>1, <2>1, <2>3 DEF Inv, DiskInv, IsPrefix
<1>2. Inv => SessionIsCanonical
  BY <1>1 DEF SessionIsCanonical
<1>. QED  BY ServerInvariant, <1>2, PTL

\* The leases counted are those held (acquireRoom's release, the generation
\* check of server-ws): none leaks, none is given back twice.
THEOREM LeasesCounted == NoOverlap => (Spec => []LeasesAreCounted)
<1>. SUFFICES ASSUME NoOverlap PROVE Spec => []LeasesAreCounted
  OBVIOUS
<1>1. Inv => LeasesAreCounted
  BY DEF Inv
<1>. QED  BY ServerInvariant, <1>1, PTL

\* A joined connection has been sent every version of its session, but for the
\* last commits whose periodic snapshot failed (subscribe, snapshot, listeners).
THEOREM EventsReachLeases == NoOverlap => (Spec => []NobodyMissesAnEvent)
<1>. SUFFICES ASSUME NoOverlap PROVE Spec => []NobodyMissesAnEvent
  OBVIOUS
<1>1. ASSUME Inv, NEW c \in Clients, lease[c] # 0, ~gap[c],
             ses[lease[c]].running # "snapshotting", seen[c] # ses[lease[c]].version
      PROVE  /\ seen[c] < ses[lease[c]].version
             /\ \E v \in seen[c] + 1 .. ses[lease[c]].version : Due(v)
             /\ snap.version < ses[lease[c]].version
  <2>1. lease[c] = room /\ room \in Sessions
    BY <1>1 DEF Inv, CacheInv, TypeInv
  <2>2. ses[room].version \in Nat /\ seen[c] \in Nat
    BY <1>1, <2>1 DEF Inv, TypeInv, Session
  <2>. QED  BY <1>1, <2>1, <2>2 DEF Inv, EventInv
<1>2. Inv => NobodyMissesAnEvent
  BY <1>1 DEF NobodyMissesAnEvent, Due
<1>. QED  BY ServerInvariant, <1>2, PTL

-----------------------------------------------------------------------------
(* The files as a canonical log.                                           *)

\* No operation is queued twice at a time.  A client that sends one again before
\* the first is answered may be told that it is rejected, as its append failed, and
\* find it accepted from the second copy: appendWal's failure is not remembered.
OneCopyQueued ==
    \A s \in Sessions : \A i, j \in DOMAIN ses[s].queue :
        ses[s].queue[i].op = ses[s].queue[j].op => i = j

InWal(o)   == \E i \in 1 .. Len(wal) : wal[i].op = o
IdInWal(o) == \E i \in 1 .. Len(wal) : wal[i].op.id = o.id

\* What verdict v on operation o says of the WAL.
SaysTrue(o, v) == IF v = 0 THEN ~InWal(o) ELSE v \in 1 .. Len(wal) /\ wal[v].op = o

\* Every answer is true, ids are not used twice, and nothing a client was refused
\* is on its way.
AnswersInv ==
    /\ told \in [Ops -> SUBSET Nat]
    /\ \A o \in Ops : \A v \in told[o] : SaysTrue(o, v)
    /\ \A i, j \in 1 .. Len(wal) : wal[i].op.id = wal[j].op.id => i = j
    /\ \A s \in Sessions : \A i \in DOMAIN ses[s].queue : 0 \notin told[ses[s].queue[i].op]

\* Session s has loaded what it needs to know of the operations ...
HasLoaded(s) == ses[s].stage \in {"migrating", "ready"}

\* ... and remembers every operation of the WAL, and no other as committed, so what
\* it appends is new; one whose snapshot is being stored is the last line.
Remembers(s) ==
    /\ \A r \in ses[s].results :
          IF r.verdict = 0 THEN \A i \in 1 .. Len(wal) : wal[i].op.id # r.id
          ELSE r.verdict \in 1 .. Len(wal) /\ wal[r.verdict].op.id = r.id
    /\ \A i \in 1 .. Len(wal) : \E r \in ses[s].results : r.id = wal[i].op.id
    /\ ses[s].running = "appending" => Prior(s, ses[s].queue[1].op) = {}
    /\ ses[s].running = "snapshotting" =>
          Len(wal) > 0 /\ wal[Len(wal)].op = ses[s].queue[1].op

MemoryInv == room # 0 /\ HasLoaded(room) => Remembers(room)

LogInv == AnswersInv /\ MemoryInv

LEMMA DurableIsWal ==
    ASSUME Inv
    PROVE  DurableLog = Prefix(wal, Len(wal))
<1>1. snap.version \in 0 .. Len(wal) /\ snap.doc = Prefix(wal, snap.version)
  BY DEF Inv, TypeInv, Snapshot, DiskInv, IsPrefix
<1>. QED  BY <1>1, ReplayPrefix DEF Inv, DiskInv, DurableLog

\* What a step that has nothing to do with operations may do to a session ...
Kept(d, e) ==
    /\ e.results = d.results /\ e.running = d.running
    /\ Len(e.queue) = Len(d.queue)
    /\ \A i \in DOMAIN d.queue : e.queue[i].op = d.queue[i].op
    /\ e.stage \in {"migrating", "ready"} => d.stage \in {"migrating", "ready"}

\* ... or what it may put in its place.
Blank(d) == d.queue = <<>> /\ d.stage \in {"new", "snapRead"}

LEMMA Undisturbed ==
    ASSUME Inv, TypeInv', LogInv, UNCHANGED <<wal, told>>,
           \A s \in Sessions : Kept(ses[s], ses'[s]) \/ Blank(ses'[s]),
           room' = 0 \/ room' = room \/ Blank(ses'[room'])
    PROVE  LogInv'
<1>1. \A s \in Sessions : /\ ses[s].queue \in Seq(Entry) /\ ses'[s].queue \in Seq(Entry)
                          /\ ses[s].running # "none" => ses[s].queue # <<>>
  BY DEF Inv, TypeInv, Session, CacheInv, Coherent
<1>2. AnswersInv'
  <2>1. ASSUME NEW s \in Sessions, NEW i \in DOMAIN ses'[s].queue
        PROVE  0 \notin told'[ses'[s].queue[i].op]
    <3>1. Kept(ses[s], ses'[s])
      BY <2>1, <1>1 DEF Blank
    <3>2. i \in DOMAIN ses[s].queue /\ ses'[s].queue[i].op = ses[s].queue[i].op
      BY <1>1, <2>1, <3>1 DEF Kept
    <3>. QED  BY <3>2 DEF LogInv, AnswersInv
  <2>2. \A o \in Ops : \A v \in told[o] : SaysTrue(o, v)'
    BY DEF LogInv, AnswersInv, SaysTrue, InWal
  <2>3. /\ told \in [Ops -> SUBSET Nat]
        /\ \A i, j \in 1 .. Len(wal) : wal[i].op.id = wal[j].op.id => i = j
    BY DEF LogInv, AnswersInv
  <2>. QED  BY <2>1, <2>2, <2>3 DEF AnswersInv
<1>3. MemoryInv'
  <2>. SUFFICES ASSUME room' # 0, HasLoaded(room)' PROVE Remembers(room)'
    BY DEF MemoryInv
  <2>1. room' = room /\ room \in Sessions /\ Kept(ses[room], ses'[room])
    BY DEF Blank, HasLoaded, Inv, TypeInv
  <2>2. /\ ses'[room].results = ses[room].results /\ ses'[room].running = ses[room].running
        /\ HasLoaded(room)
    BY <2>1 DEF Kept, HasLoaded
  <2>3. ses[room].running # "none" => ses'[room].queue[1].op = ses[room].queue[1].op
    BY <1>1, <2>1 DEF Kept
  <2>4. Remembers(room)
    BY <2>1, <2>2 DEF LogInv, MemoryInv
  <2>. QED  BY <2>1, <2>2, <2>3, <2>4 DEF Remembers, Prior
<1>. QED  BY <1>2, <1>3 DEF LogInv

\* The fields of one session that operations have nothing to do with.
LEMMA KeptSessions ==
    ASSUME Inv, NEW s \in Sessions, NEW r \in Session, Kept(ses[s], r), ses' = [ses EXCEPT ![s] = r]
    PROVE  \A t \in Sessions : Kept(ses[t], ses'[t])
<1>1. ses'[s] = r /\ \A t \in Sessions \ {s} : ses'[t] = ses[t]
  BY DEF Inv, TypeInv
<1>2. \A t \in Sessions \ {s} : Kept(ses[t], ses'[t])
  BY <1>1 DEF Kept
<1>. QED  BY <1>1, <1>2

LEMMA KeptReleased ==
    ASSUME Inv, NEW c \in Clients
    PROVE  /\ Released(c) \in [Sessions -> Session]
           /\ \A s \in Sessions : Kept(ses[s], Released(c)[s])
<1>1. Released(c) \in [Sessions -> Session]
  BY ReleaseCounts
<1>2. \A s \in Sessions : /\ Released(c)[s].results = ses[s].results
                          /\ Released(c)[s].running = ses[s].running
                          /\ Released(c)[s].queue = ses[s].queue
                          /\ Released(c)[s].stage = ses[s].stage
  <2>1. room \in Sessions => ses[room] \in Session
    BY DEF Inv, TypeInv
  <2>. QED  BY <2>1 DEF Released, Session, Inv, TypeInv
<1>. QED  BY <1>1, <1>2 DEF Kept

LEMMA BlankSession == NewSession \in Session /\ Blank(NewSession)
  BY DEF NewSession, NoSnap, Session, Snapshot, Blank

\* One turn of session()'s loop disturbs no operation.
LEMMA LookKeeps ==
    ASSUME Inv, NEW q \in Callers, NEW after \in [Sessions -> Session], Look(q, after),
           \A s \in Sessions : Kept(ses[s], after[s])
    PROVE  /\ \A s \in Sessions : Kept(ses[s], ses'[s]) \/ Blank(ses'[s])
           /\ room' = room \/ Blank(ses'[room'])
<1>1. CASE ses' = after /\ room' = room
  BY <1>1
<1>2. CASE NewRoom(q, after)
  <2>1. PICK s \in Sessions : room' = s /\ ses' = [after EXCEPT ![s] = NewSession]
    BY <1>2 DEF NewRoom
  <2>2. ses'[s] = NewSession /\ \A t \in Sessions \ {s} : ses'[t] = after[t]
    BY <2>1
  <2>. QED  BY <2>1, <2>2, BlankSession
<1>. QED  BY <1>1, <1>2 DEF Look

\* Hellos, closes and evictions that delete nothing, loads up to the WAL, and the
\* end of the process disturb no operation.
LEMMA SocketsKeep ==
    ASSUME Inv, TypeInv', LogInv, NEW c \in Clients,
           HelloElsewhere(c) \/ Recover(c) \/ Close(c) \/ \E k \in Slots[c] : Hello(c, k)
    PROVE  LogInv' /\ UNCHANGED <<wal, told>>
<1>1. CASE HelloElsewhere(c)
  BY <1>1, KeptReleased, Undisturbed DEF HelloElsewhere, diskVars
<1>2. CASE Recover(c)
  <2>1. \A s \in Sessions : Kept(ses[s], ses[s])
    BY DEF Kept
  <2>. QED  BY <1>2, <2>1, Undisturbed DEF Recover, diskVars
<1>3. CASE Close(c)
  <2>1. ses' = [s \in Sessions |-> [Released(c)[s] EXCEPT !.queue =
                  [i \in DOMAIN @ |-> IF @[i].from = c THEN [@[i] EXCEPT !.from = Gone] ELSE @[i]]]]
    BY <1>3 DEF Close
  <2>2. ASSUME NEW s \in Sessions PROVE Kept(ses[s], ses'[s])
    <3>. DEFINE r == Released(c)[s]
                q == r.queue
                d == [i \in DOMAIN q |-> IF q[i].from = c THEN [q[i] EXCEPT !.from = Gone] ELSE q[i]]
    <3>1. r \in Session /\ Kept(ses[s], r)
      BY KeptReleased
    <3>2. q \in Seq(Entry)
      BY <3>1 DEF Session
    <3>3. d \in Seq(Entry)
      BY <3>2, QueueDisowned
    <3>4. \A i \in DOMAIN q : d[i].op = q[i].op
      <4>1. \A i \in DOMAIN q : q[i] \in Entry
        BY <3>2
      <4>. QED  BY <4>1 DEF Entry
    <3>5. Len(d) = Len(q)
      BY <3>2, <3>3
    <3>6. ses'[s] = [r EXCEPT !.queue = d]
      BY <2>1
    <3>. HIDE DEF r, d
    <3>7. /\ ses'[s].results = r.results /\ ses'[s].running = r.running
          /\ ses'[s].stage = r.stage /\ ses'[s].queue = d
      BY <3>1, <3>6 DEF Session
    <3>8. Len(q) = Len(ses[s].queue) /\ \A i \in DOMAIN ses[s].queue : q[i].op = ses[s].queue[i].op
      BY <3>1 DEF Kept
    <3>9. ses[s].queue \in Seq(Entry)
      BY DEF Inv, TypeInv, Session
    <3>10. DOMAIN ses[s].queue = DOMAIN q
      BY <3>2, <3>8, <3>9
    <3>. QED  BY <3>1, <3>4, <3>5, <3>7, <3>8, <3>10 DEF Kept
  <2>. QED  BY <1>3, <2>2, Undisturbed DEF Close, diskVars
<1>4. ASSUME NEW k \in Slots[c], Hello(c, k) PROVE LogInv' /\ UNCHANGED <<wal, told>>
  <2>1. <<c, k>> \in Callers
    BY DEF Callers
  <2>2. Look(<<c, k>>, Released(c)) /\ UNCHANGED <<wal, told>>
    BY <1>4 DEF Hello, diskVars
  <2>. QED  BY <2>1, <2>2, KeptReleased, LookKeeps, Undisturbed
<1>. QED  BY <1>1, <1>2, <1>3, <1>4

LEMMA CallersKeep ==
    ASSUME Inv, TypeInv', LogInv, NEW q \in Callers, HelloDone(q) \/ LookAgain(q) \/ SweepDone(q)
    PROVE  LogInv' /\ UNCHANGED <<wal, told>>
<1>1. CASE HelloDone(q)
  <2>. DEFINE n == IF Keeps(q) THEN ses[room].active + 1 ELSE ses[room].active
              r == [ses[room] EXCEPT !.initializing = FALSE, !.active = n]
  <2>1. task[q].on = room /\ room \in Sessions
    BY <1>1 DEF HelloDone, Acquired, Loaded, Inv, CacheInv, WaitInv, TypeInv
  <2>2. ses' = [ses EXCEPT ![room] = r] /\ UNCHANGED <<wal, told, room>>
    BY <1>1, <2>1 DEF HelloDone, Acquired, diskVars
  <2>3. ses[room] \in Session
    BY <2>1 DEF Inv, TypeInv
  <2>4. n \in Int
    BY <2>3 DEF Session
  <2>. HIDE DEF n
  <2>5. r \in Session /\ Kept(ses[room], r)
    BY <2>3, <2>4 DEF Session, Kept
  <2>. HIDE DEF r
  <2>6. \A t \in Sessions : Kept(ses[t], ses'[t])
    BY <2>1, <2>2, <2>5, KeptSessions
  <2>. QED  BY <2>2, <2>6, Undisturbed
<1>2. CASE LookAgain(q)
  <2>. DEFINE s == task[q].on
              after == [ses EXCEPT ![s].initializing = @ /\ task[q].at # "loading"]
  <2>1. Look(q, after) /\ UNCHANGED <<wal, told>>
    BY <1>2 DEF LookAgain, diskVars, clientVars
  <2>2. task[q].at = "evicting" /\ s \in Sessions
    BY <1>2 DEF LookAgain, Loaded, Inv, TypeInv, Task, CacheInv, WaitInv
  <2>3. ses[s] \in Session
    BY <2>2 DEF Inv, TypeInv
  <2>4. after \in [Sessions -> Session] /\ \A t \in Sessions : Kept(ses[t], after[t])
    BY <2>2, <2>3 DEF Session, Kept, Inv, TypeInv
  <2>. HIDE DEF after
  <2>. QED  BY <2>1, <2>4, LookKeeps, Undisturbed
<1>3. CASE SweepDone(q)
  <2>1. NewRoom(q, ses) /\ UNCHANGED <<wal, told>>
    BY <1>3 DEF SweepDone, diskVars, clientVars
  <2>2. PICK s \in Sessions : room' = s /\ ses' = [ses EXCEPT ![s] = NewSession]
    BY <2>1 DEF NewRoom
  <2>3. ses'[s] = NewSession /\ \A t \in Sessions \ {s} : ses'[t] = ses[t]
    BY <2>2 DEF Inv, TypeInv
  <2>4. \A t \in Sessions \ {s} : Kept(ses[t], ses'[t])
    BY <2>3 DEF Kept
  <2>. QED  BY <2>1, <2>2, <2>3, <2>4, BlankSession, Undisturbed
<1>. QED  BY <1>1, <1>2, <1>3

LEMMA EntriesKeep ==
    ASSUME Inv, TypeInv', LogInv, NEW s \in Sessions,
           \/ LoadSnapshot(s) \/ MigrationSaved(s)
           \/ EvictBegin(s) \/ EvictSaved(s) \/ EvictFails(s)
    PROVE  LogInv' /\ UNCHANGED <<wal, told>>
<1>1. ses[s] \in Session /\ snap \in Snapshot /\ NoSnap \in Snapshot
  BY DEF Inv, TypeInv, Snapshot, NoSnap
<1>2. SnapshotOf(s) \in Snapshot
  BY <1>1, PackType DEF Inv, Session, Snapshot, SnapshotOf
<1>3. \E r \in Session : Kept(ses[s], r) /\ ses' = [ses EXCEPT ![s] = r]
  <2>1. CASE LoadSnapshot(s)
    <3>. DEFINE r == [ses[s] EXCEPT !.stage = "snapRead", !.version = snap.version,
                                    !.doc = snap.doc, !.stored = snap.schema]
    <3>1. r \in Session /\ Kept(ses[s], r)
      BY <1>1 DEF Session, Snapshot, Kept
    <3>2. ses' = [ses EXCEPT ![s] = r]
      BY <2>1 DEF LoadSnapshot
    <3>. QED  BY <3>1, <3>2
  <2>2. CASE MigrationSaved(s)
    <3>. DEFINE r == [ses[s] EXCEPT !.stage = "ready"]
    <3>1. r \in Session /\ Kept(ses[s], r)
      BY <1>1, <2>2 DEF MigrationSaved, Session, Kept
    <3>2. ses' = [ses EXCEPT ![s] = r]
      BY <2>2 DEF MigrationSaved
    <3>. QED  BY <3>1, <3>2
  <2>3. CASE EvictBegin(s) \/ EvictSaved(s) \/ EvictFails(s)
    <3>1. ASSUME NEW e \in {"no", "saving", "deleting"}, NEW p \in Snapshot,
                 ses' = [ses EXCEPT ![s].evicting = e, ![s].evictSnap = p]
          PROVE  \E r \in Session : Kept(ses[s], r) /\ ses' = [ses EXCEPT ![s] = r]
      <4>. DEFINE r == [ses[s] EXCEPT !.evicting = e, !.evictSnap = p]
      <4>1. r \in Session /\ Kept(ses[s], r)
        BY <1>1 DEF Session, Kept
      <4>2. ses' = [ses EXCEPT ![s] = r]
        BY <3>1
      <4>. QED  BY <4>1, <4>2
    <3>2. EvictBegin(s) => ses' = [ses EXCEPT ![s].evicting = "saving", ![s].evictSnap = SnapshotOf(s)]
      BY DEF EvictBegin
    <3>3. EvictSaved(s) => \E e \in {"no", "deleting"} :
                               ses' = [ses EXCEPT ![s].evicting = e, ![s].evictSnap = NoSnap]
      BY DEF EvictSaved
    <3>4. EvictFails(s) => ses' = [ses EXCEPT ![s].evicting = "no", ![s].evictSnap = NoSnap]
      BY DEF EvictFails
    <3>. QED  BY <1>1, <1>2, <2>3, <3>1, <3>2, <3>3, <3>4
  <2>. QED  BY <2>1, <2>2, <2>3
<1>4. \A t \in Sessions : Kept(ses[t], ses'[t])
  BY <1>3, KeptSessions
<1>5. UNCHANGED <<wal, told>> /\ (room' = 0 \/ room' = room)
  BY DEF LoadSnapshot, MigrationSaved, EvictBegin, EvictSaved, EvictFails, diskVars, clientVars
<1>. QED  BY <1>4, <1>5, Undisturbed

LEMMA EndKeeps ==
    ASSUME Inv, TypeInv', LogInv, Crash \/ Shutdown
    PROVE  LogInv' /\ UNCHANGED <<wal, told>>
<1>1. Restarted /\ UNCHANGED <<wal, told>>
  BY DEF Crash, KillRooms, Shutdown, CloseRooms
<1>2. room' = 0 /\ \A s \in Sessions : ses'[s] = NewSession
  BY <1>1 DEF Restarted
<1>. QED  BY <1>1, <1>2, BlankSession, Undisturbed

-----------------------------------------------------------------------------
(* Steps that have to do with operations *)

\* What a step may do to the log and what clients were told: nothing, tell a
\* verdict that is true, or append a new operation.
Answered(o, v) ==
    /\ UNCHANGED wal
    /\ v \in 0 .. Len(wal) /\ SaysTrue(o, v)
    /\ told' = told \/ told' = [told EXCEPT ![o] = @ \cup {v}]

Accepted(o) ==
    /\ ~IdInWal(o) /\ told[o] = {}
    /\ wal' = Append(wal, [version |-> Len(wal) + 1, op |-> o])
    /\ told' = told \/ told' = [told EXCEPT ![o] = {Len(wal) + 1}]

\* The head of the chain has its answer, and no copy of it is left.
LEMMA HeadAnswered ==
    ASSUME Inv, AnswersInv, OneCopyQueued, NEW s \in Sessions, ses[s].queue # <<>>,
           NEW v \in Nat, Answered(ses[s].queue[1].op, v),
           NEW r \in Session, r.queue = Tail(ses[s].queue), ses' = [ses EXCEPT ![s] = r]
    PROVE  AnswersInv'
<1>. DEFINE q == ses[s].queue
            o == q[1].op
<1>1. /\ ses'[s] = r /\ \A t \in Sessions \ {s} : ses'[t] = ses[t]
      /\ q \in Seq(Entry) /\ q # <<>> /\ r.queue = Tail(q)
      /\ \A i, j \in DOMAIN q : q[i].op = q[j].op => i = j
      /\ \A i \in DOMAIN q : 0 \notin told[q[i].op]
  BY DEF Inv, TypeInv, Session, OneCopyQueued, AnswersInv
<1>. HIDE DEF q
<1>2. 1 \in DOMAIN q /\ \A i \in DOMAIN q : q[i] \in Entry /\ q[i].op \in Ops
  <2>1. 1 \in DOMAIN q /\ \A i \in DOMAIN q : q[i] \in Entry
    BY <1>1
  <2>. QED  BY <2>1 DEF Entry
<1>3. /\ told' \in [Ops -> SUBSET Nat]
      /\ \A p \in Ops : told'[p] = told[p] \/ (p = o /\ told'[p] = told[p] \cup {v})
  BY <1>2 DEF AnswersInv, Answered, q
<1>4. \A p \in Ops : \A u \in told'[p] : SaysTrue(p, u)'
  BY <1>3 DEF AnswersInv, Answered, SaysTrue, InWal
<1>5. \A i, j \in 1 .. Len(wal') : wal'[i].op.id = wal'[j].op.id => i = j
  BY DEF AnswersInv, Answered
<1>6. ASSUME NEW t \in Sessions, NEW i \in DOMAIN ses'[t].queue
      PROVE  0 \notin told'[ses'[t].queue[i].op]
  <2>1. CASE t # s
    <3>1. s = room
      BY <1>1, BusyIsRoom DEF q
    <3>2. ses'[t].queue = <<>>
      BY <1>1, <2>1, <3>1 DEF Inv, CacheInv, AtRest
    <3>. QED  BY <1>6, <3>2
  <2>2. CASE t = s
    <3>1. /\ i \in DOMAIN Tail(q) /\ ses'[t].queue[i] = q[i + 1]
          /\ i + 1 \in DOMAIN q /\ 1 \in DOMAIN q /\ i + 1 # 1
      BY <1>1, <1>6, <2>2
    <3>2. q[i + 1].op # o /\ q[i + 1].op \in Ops /\ 0 \notin told[q[i + 1].op]
      BY <1>1, <1>2, <3>1
    <3>. QED  BY <1>3, <3>1, <3>2
  <2>. QED  BY <2>1, <2>2
<1>. QED  BY <1>3, <1>4, <1>5, <1>6 DEF AnswersInv

\* What is refused, or answered from memory, is remembered rightly.
LEMMA VerdictTrue ==
    ASSUME Inv, NEW s \in Sessions, Remembers(s), NEW o \in Ops
    PROVE  /\ \A r \in Prior(s, o) : r.verdict \in 0 .. Len(wal) /\ SaysTrue(o, r.verdict)
           /\ Prior(s, o) = {} => ~IdInWal(o)
           /\ ~IdInWal(o) => SaysTrue(o, 0)
<1>1. ASSUME NEW i \in 1 .. Len(wal) PROVE wal[i].op \in Ops
  <2>1. wal[i] \in Line
    BY DEF Inv, TypeInv
  <2>. QED  BY <2>1 DEF Line
<1>2. Len(wal) \in Nat
  BY DEF Inv, TypeInv
<1>3. \A i \in 1 .. Len(wal) : wal[i].op.id = o.id => wal[i].op = o
  BY <1>1, StandaloneAssumption
<1>4. \A r \in Prior(s, o) : r.verdict \in 0 .. Len(wal) /\ SaysTrue(o, r.verdict)
  BY <1>2, <1>3 DEF Prior, Remembers, SaysTrue, InWal
<1>5. Prior(s, o) = {} => ~IdInWal(o)
  BY DEF Prior, Remembers, IdInWal
<1>6. ~IdInWal(o) => SaysTrue(o, 0)
  BY DEF IdInWal, SaysTrue, InWal
<1>. QED  BY <1>4, <1>5, <1>6

\* The session at whose chain a step is at work.
LEMMA AtWork ==
    ASSUME Inv, LogInv, NEW s \in Sessions, ses[s].queue # <<>>
    PROVE  /\ s = room /\ room # 0 /\ Remembers(s) /\ HasLoaded(s)
           /\ ses[s] \in Session /\ ses[s].queue \in Seq(Entry)
           /\ Head(ses[s].queue) = ses[s].queue[1] /\ ses[s].queue[1] \in Entry
           /\ ses[s].queue[1].op \in Ops
           /\ Tail(ses[s].queue) \in Seq(Entry)
<1>1. s = room /\ room # 0 /\ ses[s].stage = "ready" /\ Head(ses[s].queue).op \in Ops
  BY ChainHead
<1>2. ses[s] \in Session /\ ses[s].queue \in Seq(Entry)
  BY DEF Inv, TypeInv, Session
<1>3. Head(ses[s].queue) = ses[s].queue[1] /\ ses[s].queue[1] \in Entry /\ Tail(ses[s].queue) \in Seq(Entry)
  BY <1>2
<1>. QED  BY <1>1, <1>2, <1>3 DEF LogInv, MemoryInv, HasLoaded

LEMMA SubmitKeeps ==
    ASSUME Inv, LogInv, NEW c \in Clients, NEW o \in Ops, Submit(c, o)
    PROVE  LogInv' /\ UNCHANGED <<wal, told>>
<1>. DEFINE s == lease[c]
            q == ses[s].queue
            e == [op |-> o, from |-> c]
            r == [ses[s] EXCEPT !.queue = Append(q, e)]
<1>1. /\ s # 0 /\ 0 \notin told[o] /\ ses' = [ses EXCEPT ![s] = r]
      /\ UNCHANGED <<wal, told, room>>
  BY DEF Submit, Enqueue, diskVars, clientVars
<1>2. s = room /\ s \in Sessions /\ ses[s] \in Session /\ ses \in [Sessions -> Session]
  BY <1>1 DEF Inv, TypeInv, CacheInv
<1>3. q \in Seq(Entry) /\ e \in Entry
  BY <1>2 DEF Session, Entry
<1>4. /\ r.queue = Append(q, e) /\ r.stage = ses[s].stage /\ r.results = ses[s].results
      /\ r.running = ses[s].running
  BY <1>2 DEF Session
<1>5. ses'[s] = r /\ \A t \in Sessions \ {s} : ses'[t] = ses[t]
  BY <1>1, <1>2
<1>6. ses[s].running # "none" => q # <<>>
  BY <1>2 DEF Inv, CacheInv, Coherent
<1>. HIDE DEF r, q, e
<1>7. AnswersInv'
  <2>1. ASSUME NEW t \in Sessions, NEW i \in DOMAIN ses'[t].queue
        PROVE  0 \notin told[ses'[t].queue[i].op]
    <3>1. CASE t # s
      BY <1>5, <2>1, <3>1 DEF LogInv, AnswersInv
    <3>2. CASE t = s
      <4>1. i \in 1 .. Len(q) + 1 /\ (i = Len(q) + 1 => Append(q, e)[i] = e)
            /\ (i # Len(q) + 1 => i \in DOMAIN q /\ Append(q, e)[i] = q[i])
        BY <1>3, <1>4, <1>5, <2>1, <3>2
      <4>. QED  BY <1>1, <1>4, <1>5, <3>2, <4>1, <1>2 DEF LogInv, AnswersInv, q, e
    <3>. QED  BY <3>1, <3>2
  <2>2. \A p \in Ops : \A v \in told[p] : SaysTrue(p, v)'
    BY <1>1 DEF LogInv, AnswersInv, SaysTrue, InWal
  <2>3. /\ told \in [Ops -> SUBSET Nat]
        /\ \A i, j \in 1 .. Len(wal) : wal[i].op.id = wal[j].op.id => i = j
    BY DEF LogInv, AnswersInv
  <2>. QED  BY <1>1, <2>1, <2>2, <2>3 DEF AnswersInv
<1>8. MemoryInv'
  <2>. SUFFICES ASSUME HasLoaded(room)' PROVE Remembers(room)'
    BY DEF MemoryInv
  <2>1. Remembers(room)
    BY <1>1, <1>2, <1>4, <1>5 DEF HasLoaded, LogInv, MemoryInv
  <2>2. ses[room].running # "none" => ses'[room].queue[1] = ses[room].queue[1]
    BY <1>2, <1>3, <1>4, <1>5, <1>6 DEF q
  <2>3. ses'[room].results = ses[room].results /\ ses'[room].running = ses[room].running
    BY <1>2, <1>4, <1>5
  <2>. QED  BY <1>1, <2>1, <2>2, <2>3 DEF Remembers, Prior
<1>. QED  BY <1>1, <1>7, <1>8 DEF LogInv

\* The session goes on to the next operation with what it remembers.
LEMMA ChainMoves ==
    ASSUME Inv, LogInv, OneCopyQueued, NEW s \in Sessions, ses[s].queue # <<>>,
           NEW v \in Nat, Answered(ses[s].queue[1].op, v), room' = room,
           NEW r \in Session, ses' = [ses EXCEPT ![s] = r],
           r.queue = Tail(ses[s].queue), r.running = "none",
           \/ r.results = ses[s].results
           \/ /\ ~IdInWal(ses[s].queue[1].op)
              /\ r.results = ses[s].results \cup {[id |-> ses[s].queue[1].op.id, verdict |-> 0]}
    PROVE  LogInv'
<1>1. s = room /\ Remembers(s) /\ ses'[s] = r
  BY AtWork DEF Inv, TypeInv
<1>2. AnswersInv'
  BY HeadAnswered DEF LogInv
<1>3. Remembers(room)'
  BY <1>1 DEF Remembers, Answered, IdInWal, Prior
<1>. QED  BY <1>2, <1>3 DEF LogInv, MemoryInv

LEMMA ProcessKeeps ==
    ASSUME Inv, LogInv, OneCopyQueued, NEW s \in Sessions, Process(s)
    PROVE  LogInv' /\ (UNCHANGED <<wal, told>> \/ \E o \in Ops, v \in Nat : Answered(o, v))
<1>. DEFINE q == ses[s].queue
            o == q[1].op
            next == Tail(q)
<1>1. /\ ses[s].running = "none" /\ q # <<>> /\ UNCHANGED <<wal, room>>
      /\ Head(q) = q[1]
  BY AtWork DEF Process, diskVars
<1>2. /\ s = room /\ room # 0 /\ Remembers(s) /\ HasLoaded(s) /\ ses[s] \in Session
      /\ o \in Ops /\ next \in Seq(Entry) /\ ses \in [Sessions -> Session]
  BY <1>1, AtWork, SMTT(30) DEF Inv, TypeInv
<1>3. /\ \A r \in Prior(s, o) : r.verdict \in 0 .. Len(wal) /\ SaysTrue(o, r.verdict)
      /\ Prior(s, o) = {} => ~IdInWal(o)
      /\ ~IdInWal(o) => SaysTrue(o, 0)
  BY <1>2, VerdictTrue
<1>4. Len(wal) \in Nat
  BY DEF Inv, TypeInv
<1>5. \/ /\ \E r \in Prior(s, o) : Tell(q[1], r.verdict)
         /\ ses' = [ses EXCEPT ![s].queue = next]
      \/ told' = told /\ ses' = [ses EXCEPT ![s].queue = next]
      \/ /\ Prior(s, o) = {} /\ Tell(q[1], 0)
         /\ ses' = [ses EXCEPT ![s].queue = next,
                               ![s].results = @ \cup {[id |-> o.id, verdict |-> 0]}]
      \/ /\ Prior(s, o) = {} /\ told' = told
         /\ ses' = [ses EXCEPT ![s].running = "appending"]
  BY <1>1 DEF Process
<1>. HIDE DEF next, o, q
<1>6. ASSUME NEW v \in 0 .. Len(wal), SaysTrue(o, v), Tell(q[1], v) PROVE Answered(o, v)
  BY <1>1, <1>6 DEF Tell, Answered, o
<1>7. ASSUME NEW v \in Nat, Answered(o, v), ses' = [ses EXCEPT ![s].queue = next] PROVE LogInv'
  <2>. DEFINE r == [ses[s] EXCEPT !.queue = next]
  <2>1. /\ r \in Session /\ ses' = [ses EXCEPT ![s] = r]
        /\ r.queue = next /\ r.running = "none" /\ r.results = ses[s].results
    BY <1>1, <1>2, <1>7 DEF Session
  <2>. HIDE DEF r
  <2>. QED  BY <1>1, <1>7, <2>1, ChainMoves DEF next, o, q
<1>8. CASE (\E r \in Prior(s, o) : Tell(q[1], r.verdict)) /\ ses' = [ses EXCEPT ![s].queue = next]
  <2>1. PICK r \in Prior(s, o) : Tell(q[1], r.verdict)
    BY <1>8
  <2>2. Answered(o, r.verdict) /\ r.verdict \in Nat
    BY <1>3, <1>4, <1>6, <2>1
  <2>. QED  BY <1>2, <1>7, <1>8, <2>2
<1>9. CASE told' = told /\ ses' = [ses EXCEPT ![s].queue = next]
  <2>. DEFINE r == [ses[s] EXCEPT !.queue = next]
  <2>1. /\ r \in Session /\ ses' = [ses EXCEPT ![s] = r]
        /\ r.queue = next /\ r.running = "none" /\ r.results = ses[s].results
    BY <1>1, <1>2, <1>9 DEF Session
  <2>. HIDE DEF r
  <2>2. ses'[s] = r /\ \A t \in Sessions \ {s} : ses'[t] = ses[t]
    BY <1>2, <2>1
  <2>3. AnswersInv'
    <3>1. ASSUME NEW t \in Sessions, NEW i \in DOMAIN ses'[t].queue
          PROVE  0 \notin told[ses'[t].queue[i].op]
      <4>1. CASE t # s
        BY <2>2, <3>1, <4>1 DEF LogInv, AnswersInv
      <4>2. CASE t = s
        <5>1. q \in Seq(Entry)
          BY <1>2 DEF Session, q
        <5>2. i + 1 \in DOMAIN q /\ ses'[t].queue[i] = q[i + 1]
          BY <1>1, <2>1, <2>2, <3>1, <4>2, <5>1 DEF next
        <5>. QED  BY <1>2, <5>2 DEF LogInv, AnswersInv, q
      <4>. QED  BY <4>1, <4>2
    <3>2. \A p \in Ops : \A v \in told[p] : SaysTrue(p, v)'
      BY <1>1 DEF LogInv, AnswersInv, SaysTrue, InWal
    <3>3. /\ told \in [Ops -> SUBSET Nat]
          /\ \A i, j \in 1 .. Len(wal) : wal[i].op.id = wal[j].op.id => i = j
      BY DEF LogInv, AnswersInv
    <3>. QED  BY <1>1, <1>9, <3>1, <3>2, <3>3 DEF AnswersInv
  <2>4. Remembers(room)'
    BY <1>1, <1>2, <2>1, <2>2 DEF Remembers
  <2>. QED  BY <1>1, <1>9, <2>3, <2>4 DEF LogInv, MemoryInv
<1>10. CASE /\ Prior(s, o) = {} /\ Tell(q[1], 0)
            /\ ses' = [ses EXCEPT ![s].queue = next,
                                  ![s].results = @ \cup {[id |-> o.id, verdict |-> 0]}]
  <2>. DEFINE results == ses[s].results \cup {[id |-> o.id, verdict |-> 0]}
              r == [ses[s] EXCEPT !.queue = next, !.results = results]
  <2>1. results \in SUBSET Result
    <3>1. o.id \in STRING
      BY <1>2, StandaloneAssumption DEF Operation
    <3>2. [id |-> o.id, verdict |-> 0] \in Result
      BY <3>1 DEF Result
    <3>. QED  BY <1>2, <3>2 DEF Session
  <2>2. ses' = [ses EXCEPT ![s] = r]
    BY <1>10
  <2>3. Answered(o, 0)
    BY <1>3, <1>4, <1>6, <1>10
  <2>. HIDE DEF results
  <2>4. r \in Session /\ r.queue = next /\ r.running = "none" /\ r.results = results
    BY <1>1, <1>2, <2>1 DEF Session
  <2>. HIDE DEF r
  <2>5. LogInv'
    BY <1>1, <1>3, <1>10, <2>2, <2>3, <2>4, ChainMoves DEF next, o, q, results
  <2>. QED  BY <1>2, <2>3, <2>5
<1>11. CASE Prior(s, o) = {} /\ told' = told /\ ses' = [ses EXCEPT ![s].running = "appending"]
  <2>. DEFINE r == [ses[s] EXCEPT !.running = "appending"]
  <2>1. /\ ses' = [ses EXCEPT ![s] = r]
        /\ r.queue = q /\ r.running = "appending" /\ r.results = ses[s].results
    BY <1>2, <1>11 DEF Session, q
  <2>. HIDE DEF r
  <2>2. ses'[s] = r /\ \A t \in Sessions \ {s} : ses'[t] = ses[t]
    BY <1>2, <2>1
  <2>3. \A t \in Sessions : ses'[t].queue = ses[t].queue
    BY <2>1, <2>2 DEF q
  <2>4. AnswersInv'
    <3>1. \A p \in Ops : \A v \in told[p] : SaysTrue(p, v)'
      BY <1>1 DEF LogInv, AnswersInv, SaysTrue, InWal
    <3>. QED  BY <1>1, <1>11, <2>3, <3>1 DEF LogInv, AnswersInv
  <2>5. ses'[room].results = ses[room].results /\ ses'[room].running = "appending"
        /\ ses'[room].queue[1] = ses[room].queue[1] /\ Prior(room, ses[room].queue[1].op) = {}
    BY <1>2, <1>3, <1>11, <2>1, <2>2 DEF o, q
  <2>6. Remembers(room)'
    BY <1>1, <1>2, <2>5 DEF Remembers, Prior
  <2>. QED  BY <1>1, <1>11, <2>4, <2>6 DEF LogInv, MemoryInv
<1>. QED  BY <1>5, <1>8, <1>9, <1>10, <1>11

LEMMA EndOfOperationKeeps ==
    ASSUME Inv, LogInv, OneCopyQueued, NEW s \in Sessions,
           AppendFails(s) \/ Snapshotted(s) \/ SnapshotFails(s)
    PROVE  LogInv' /\ \E o \in Ops, v \in Nat : Answered(o, v)
<1>. DEFINE q == ses[s].queue
            o == q[1].op
            next == Tail(q)
            v == IF ses[s].running = "appending" THEN 0 ELSE ses[s].version
            r == [ses[s] EXCEPT !.running = "none", !.queue = next]
<1>1. /\ ses[s].running \in {"appending", "snapshotting"} /\ UNCHANGED <<wal, room>>
      /\ ses' = [ses EXCEPT ![s] = r] /\ Tell(Head(q), v)
  BY DEF AppendFails, Snapshotted, SnapshotFails, FinishSnapshot, diskVars
<1>2. q # <<>>
  BY <1>1 DEF Inv, CacheInv, Coherent
<1>3. /\ s = room /\ room # 0 /\ Remembers(s) /\ HasLoaded(s) /\ ses[s] \in Session
      /\ Head(q) = q[1] /\ o \in Ops /\ next \in Seq(Entry)
  BY <1>2, AtWork
<1>4. Len(wal) \in Nat /\ (Prior(s, o) = {} => SaysTrue(o, 0))
  BY <1>3, VerdictTrue DEF Inv, TypeInv
<1>5. ses[s].version = Len(wal)
  BY <1>3 DEF HasLoaded, Inv, DiskInv
<1>6. v \in 0 .. Len(wal) /\ SaysTrue(o, v)
  <2>1. CASE ses[s].running = "appending"
    BY <1>3, <1>4, <2>1 DEF Remembers
  <2>2. CASE ses[s].running = "snapshotting"
    BY <1>3, <1>4, <1>5, <2>2 DEF Remembers, SaysTrue
  <2>. QED  BY <1>1, <2>1, <2>2
<1>. HIDE DEF v, next
<1>7. r \in Session /\ r.queue = next /\ r.running = "none" /\ r.results = ses[s].results
  BY <1>3 DEF Session
<1>. HIDE DEF r, o, q
<1>8. Answered(o, v)
  BY <1>1, <1>3, <1>6 DEF Tell, Answered, o
<1>9. v \in Nat
  BY <1>4, <1>6
<1>10. LogInv'
  BY <1>1, <1>2, <1>7, <1>8, <1>9, ChainMoves DEF next, o, q
<1>. QED  BY <1>3, <1>8, <1>9, <1>10

LEMMA AppendedKeeps ==
    ASSUME Inv, LogInv, OneCopyQueued, NEW s \in Sessions, Appended(s)
    PROVE  LogInv' /\ \E o \in Ops : Accepted(o)
<1>. DEFINE h == Head(ses[s].queue)
            v == ses[s].version + 1
            doc == [u \in DOMAIN ses[s].doc \cup {v} |-> IF u = v THEN h.op ELSE ses[s].doc[u]]
            line == [version |-> v, op |-> h.op]
            result == [id |-> h.op.id, verdict |-> v]
            queue == IF Due(v) THEN ses[s].queue ELSE Tail(ses[s].queue)
            running == IF Due(v) THEN "snapshotting" ELSE "none"
            q == ses[s].queue
            o == q[1].op
            N == Len(wal)
<1>. DEFINE next == [ses[s] EXCEPT !.version = v, !.doc = doc,
                     !.results = ses[s].results \cup {result}, !.running = running, !.queue = queue]
<1>1. /\ ses[s].running = "appending" /\ wal' = Append(wal, line) /\ room' = room
      /\ ses' = [ses EXCEPT ![s] = next]
      /\ told' = told \/ Tell(h, v)
  <2>1. /\ ses[s].running = "appending" /\ wal' = Append(wal, line) /\ room' = room
        /\ told' = told \/ Tell(h, v)
    BY ZenonT(40) DEF Appended, Due
  <2>2. ses' = [ses EXCEPT ![s] = next]
    BY ZenonT(40) DEF Appended, Due
  <2>. QED  BY <2>1, <2>2
<1>2. q # <<>>
  BY <1>1 DEF Inv, CacheInv, Coherent
<1>3. /\ s = room /\ room # 0 /\ Remembers(s) /\ HasLoaded(s) /\ ses[s] \in Session
      /\ h = q[1] /\ o \in Ops /\ q \in Seq(Entry) /\ Tail(q) \in Seq(Entry)
      /\ wal \in Seq(Line) /\ N \in Nat /\ ses \in [Sessions -> Session]
  BY <1>2, AtWork DEF Inv, TypeInv
<1>4. v = N + 1
  BY <1>3 DEF HasLoaded, Inv, DiskInv
<1>5. /\ ses'[s].queue = queue /\ ses'[s].running = running
      /\ ses'[s].results = ses[s].results \cup {result}
      /\ \A t \in Sessions \ {s} : ses'[t] = ses[t]
  BY <1>1, <1>3 DEF Session
<1>. HIDE DEF next, v, queue, running, line, result, doc, q, N
<1>6. line \in Line
  BY <1>3, <1>4 DEF Line, line, q
<1>7. /\ Len(wal') = N + 1 /\ wal'[N + 1] = line /\ line.op = o
      /\ \A i \in 1 .. N : wal'[i] = wal[i]
      /\ 1 .. N + 1 = 1 .. N \cup {N + 1}
  BY <1>1, <1>3, <1>6, PrefixGrows DEF N, line, q
<1>8. Prior(s, o) = {} /\ ~IdInWal(o)
  BY <1>1, <1>3, VerdictTrue DEF Remembers, q
<1>9. ~InWal(o)
  BY <1>8 DEF InWal, IdInWal
<1>10. told[o] = {} /\ told \in [Ops -> SUBSET Nat]
  <2>1. 1 \in DOMAIN q
    BY <1>2, <1>3
  <2>2. 0 \notin told[o] /\ \A u \in told[o] : SaysTrue(o, u)
    BY <1>3, <2>1 DEF LogInv, AnswersInv, q
  <2>3. told \in [Ops -> SUBSET Nat]
    BY DEF LogInv, AnswersInv
  <2>. QED  BY <1>9, <2>2, <2>3 DEF SaysTrue, InWal
<1>11. told' = told \/ told' = [told EXCEPT ![o] = {v}]
  BY <1>1, <1>3, <1>10 DEF Tell, q
<1>12. Accepted(o)
  BY <1>1, <1>3, <1>4, <1>8, <1>10, <1>11 DEF Accepted, line, N, q
<1>13. AnswersInv'
  <2>1. ASSUME NEW p \in Ops, NEW u \in told'[p] PROVE SaysTrue(p, u)'
    <3>1. (u \in told[p] /\ (u = 0 => p # o)) \/ (p = o /\ u = v)
      BY <1>3, <1>10, <1>11, <2>1
    <3>2. u \in told[p] => SaysTrue(p, u)
      BY DEF LogInv, AnswersInv
    <3>3. CASE u \in told[p] /\ (u = 0 => p # o)
      BY <1>7, <3>2, <3>3 DEF SaysTrue, InWal, N
    <3>4. CASE p = o /\ u = v
      BY <1>3, <1>4, <1>7, <3>4 DEF SaysTrue
    <3>. QED  BY <3>1, <3>3, <3>4
  <2>2. \A i, j \in 1 .. Len(wal') : wal'[i].op.id = wal'[j].op.id => i = j
    <3>1. \A i \in 1 .. N : wal'[i].op.id # o.id
      BY <1>7, <1>8 DEF IdInWal, N
    <3>2. \A i, j \in 1 .. N : wal'[i].op.id = wal'[j].op.id => i = j
      BY <1>7 DEF LogInv, AnswersInv, N
    <3>. QED  BY <1>7, <3>1, <3>2
  <2>3. ASSUME NEW t \in Sessions, NEW i \in DOMAIN ses'[t].queue
        PROVE  0 \notin told'[ses'[t].queue[i].op]
    <3>1. \E j \in DOMAIN ses[t].queue : ses'[t].queue[i] = ses[t].queue[j]
      <4>1. CASE t # s
        BY <1>5, <2>3, <4>1
      <4>2. CASE t = s
        <5>1. q \in Seq(Entry) /\ q # <<>> /\ (queue = q \/ queue = Tail(q)) /\ i \in DOMAIN queue
          BY <1>2, <1>3, <1>5, <2>3, <4>2 DEF queue, q
        <5>2. CASE queue = q
          BY <1>5, <4>2, <5>1, <5>2 DEF q
        <5>3. CASE queue = Tail(q)
          <6>1. i + 1 \in DOMAIN q /\ queue[i] = q[i + 1]
            BY <5>1, <5>3
          <6>. QED  BY <1>5, <4>2, <6>1 DEF q
        <5>. QED  BY <5>1, <5>2, <5>3
      <4>. QED  BY <4>1, <4>2
    <3>2. PICK j \in DOMAIN ses[t].queue : ses'[t].queue[i] = ses[t].queue[j]
      BY <3>1
    <3>3. 0 \notin told[ses[t].queue[j].op]
      BY DEF LogInv, AnswersInv
    <3>4. ses[t].queue[j].op \in Ops
      <4>1. ses[t].queue[j] \in Entry
        BY DEF Inv, TypeInv, Session
      <4>. QED  BY <4>1 DEF Entry
    <3>5. \A p \in Ops : told'[p] = told[p] \/ told'[p] = {v}
      BY <1>3, <1>10, <1>11
    <3>6. 0 \notin {v}
      BY <1>3, <1>4
    <3>. QED  BY <3>2, <3>3, <3>4, <3>5, <3>6
  <2>4. told' \in [Ops -> SUBSET Nat]
    BY <1>3, <1>4, <1>10, <1>11
  <2>. QED  BY <2>1, <2>2, <2>3, <2>4 DEF AnswersInv
<1>14. MemoryInv'
  <2>1. ASSUME NEW r \in ses'[s].results
        PROVE  IF r.verdict = 0 THEN \A i \in 1 .. Len(wal') : wal'[i].op.id # r.id
               ELSE r.verdict \in 1 .. Len(wal') /\ wal'[r.verdict].op.id = r.id
    <3>1. CASE r = result
      BY <1>3, <1>4, <1>7, <3>1 DEF result, q
    <3>2. CASE r \in ses[s].results
      <4>1. r.id # o.id
        BY <1>8, <3>2 DEF Prior
      <4>. QED  BY <1>3, <1>7, <3>2, <4>1 DEF Remembers, N
    <3>. QED  BY <1>5, <2>1, <3>1, <3>2
  <2>2. \A i \in 1 .. Len(wal') : \E r \in ses'[s].results : r.id = wal'[i].op.id
    <3>1. result \in ses'[s].results /\ result.id = wal'[N + 1].op.id
      BY <1>3, <1>5, <1>7 DEF result, q
    <3>2. \A i \in 1 .. N : \E r \in ses'[s].results : r.id = wal'[i].op.id
      BY <1>3, <1>5, <1>7 DEF Remembers, N
    <3>. QED  BY <1>7, <3>1, <3>2
  <2>3. ses'[s].running = "snapshotting" => ses'[s].queue[1].op = o
    <3>1. ses'[s].running = "snapshotting" => ses'[s].queue = q
      BY <1>5 DEF queue, running, q
    <3>. QED  BY <3>1
  <2>4. ses'[s].running # "appending"
    BY <1>5 DEF running
  <2>5. Len(wal') > 0 /\ wal'[Len(wal')].op = o
    BY <1>3, <1>7
  <2>6. Remembers(s)'
    BY <2>1, <2>2, <2>3, <2>4, <2>5 DEF Remembers
  <2>. QED  BY <1>1, <1>3, <2>6 DEF MemoryInv
<1>. QED  BY <1>3, <1>12, <1>13, <1>14 DEF LogInv

\* A load remembers the WAL: ResultsOfWal has every id with the version it has.
LEMMA WalRemembered ==
    ASSUME TypeInv, \A i \in 1 .. Len(wal) : wal[i].version = i,
           \A i, j \in 1 .. Len(wal) : wal[i].op.id = wal[j].op.id => i = j
    PROVE  ResultsOfWal = {[id |-> wal[i].op.id, verdict |-> i] : i \in 1 .. Len(wal)}
<1>1. Len(wal) \in Nat /\ DOMAIN wal = 1 .. Len(wal)
  BY DEF TypeInv
<1>2. {i \in DOMAIN wal : \A j \in DOMAIN wal :
           wal[j].op.id = wal[i].op.id => wal[j].version <= wal[i].version} = 1 .. Len(wal)
  BY <1>1
<1>3. \A i \in 1 .. Len(wal) : [id |-> wal[i].op.id, verdict |-> wal[i].version] =
                               [id |-> wal[i].op.id, verdict |-> i]
  OBVIOUS
<1>. QED  BY <1>2, <1>3 DEF ResultsOfWal

LEMMA LoadWalKeeps ==
    ASSUME Inv, TypeInv', LogInv, NEW s \in Sessions, LoadWal(s)
    PROVE  LogInv' /\ UNCHANGED <<wal, told>>
<1>1. s = room /\ room # 0
  BY BusyIsRoom DEF LoadWal
<1>2. ses[s].stage = "snapRead" /\ UNCHANGED <<wal, told, room>>
  BY DEF LoadWal, diskVars, clientVars
<1>3. ses[s].queue = <<>> /\ ses[s].running = "none" /\ ses[s] \in Session
  BY <1>2 DEF Inv, TypeInv, Session, CacheInv, Coherent
<1>4. /\ ses'[s].results = ResultsOfWal /\ ses'[s].queue = <<>> /\ ses'[s].running = "none"
      /\ \A t \in Sessions \ {s} : ses'[t] = ses[t]
  <2>1. \E st, d, n, h : ses' = [ses EXCEPT ![s].stage = st, ![s].doc = d, ![s].version = n,
                                          ![s].results = ResultsOfWal, ![s].horizon = h]
    BY Zenon DEF LoadWal
  <2>2. PICK st, d, n, h : ses' = [ses EXCEPT ![s].stage = st, ![s].doc = d, ![s].version = n,
                                          ![s].results = ResultsOfWal, ![s].horizon = h]
    BY <2>1
  <2>. DEFINE r == [ses[s] EXCEPT !.stage = st, !.doc = d, !.version = n,
                                  !.results = ResultsOfWal, !.horizon = h]
  <2>3. r.results = ResultsOfWal /\ r.queue = ses[s].queue /\ r.running = ses[s].running
    BY <1>3 DEF Session
  <2>4. ses' = [ses EXCEPT ![s] = r]
    BY <2>2
  <2>. HIDE DEF r
  <2>5. ses'[s] = r /\ \A t \in Sessions \ {s} : ses'[t] = ses[t]
    BY <2>4 DEF Inv, TypeInv
  <2>. QED  BY <1>3, <2>3, <2>5
<1>5. AnswersInv'
  <2>1. ASSUME NEW t \in Sessions, NEW i \in DOMAIN ses'[t].queue
        PROVE  t # s /\ 0 \notin told[ses'[t].queue[i].op]
    BY <1>4, <2>1 DEF LogInv, AnswersInv
  <2>2. \A o \in Ops : \A v \in told[o] : SaysTrue(o, v)'
    BY <1>2 DEF LogInv, AnswersInv, SaysTrue, InWal
  <2>3. /\ told \in [Ops -> SUBSET Nat]
        /\ \A i, j \in 1 .. Len(wal) : wal[i].op.id = wal[j].op.id => i = j
    BY DEF LogInv, AnswersInv
  <2>. QED  BY <1>2, <2>1, <2>2, <2>3 DEF AnswersInv
<1>6. ResultsOfWal = {[id |-> wal[i].op.id, verdict |-> i] : i \in 1 .. Len(wal)}
  BY WalRemembered DEF Inv, DiskInv, LogInv, AnswersInv
<1>7. Remembers(s)'
  <2>1. Len(wal) \in Nat
    BY DEF Inv, TypeInv
  <2>2. \A r \in ResultsOfWal : \E i \in 1 .. Len(wal) : r.verdict = i /\ r.id = wal[i].op.id
    BY <1>6
  <2>3. \A r \in ResultsOfWal : /\ r.verdict # 0 /\ r.verdict \in 1 .. Len(wal)
                                 /\ wal[r.verdict].op.id = r.id
    BY <2>1, <2>2
  <2>4. \A i \in 1 .. Len(wal) : \E r \in ResultsOfWal : r.id = wal[i].op.id
    <3>1. ASSUME NEW i \in 1 .. Len(wal)
          PROVE  [id |-> wal[i].op.id, verdict |-> i] \in ResultsOfWal
      BY <1>6
    <3>2. \A i \in 1 .. Len(wal) : [id |-> wal[i].op.id, verdict |-> i].id = wal[i].op.id
      OBVIOUS
    <3>. QED  BY <3>1, <3>2, Zenon
  <2>. QED  BY <1>2, <1>4, <2>3, <2>4 DEF Remembers
<1>. QED  BY <1>1, <1>2, <1>5, <1>7 DEF LogInv, MemoryInv

\* deleteDocument finds no operation on its way, so nothing outlives the promises.
LEMMA EvictDeletedKeeps ==
    ASSUME Inv, NEW s \in Sessions, EvictDeleted(s)
    PROVE  LogInv' /\ Erase
<1>1. Erase /\ ses[s].evicting = "deleting"
  BY DEF EvictDeleted
<1>2. s = room /\ room' = 0
  BY <1>1, BusyIsRoom DEF EvictDeleted
<1>3. \A t \in Sessions : ses[t].queue = <<>>
  BY <1>1, <1>2 DEF Inv, CacheInv, Coherent, AtRest
<1>4. \A t \in Sessions : ses'[t].queue = <<>>
  <2>. DEFINE r == [ses[s] EXCEPT !.evicting = "no"]
  <2>1. ses[s] \in Session /\ ses' = [ses EXCEPT ![s] = r]
    BY DEF EvictDeleted, Inv, TypeInv
  <2>2. r.queue = <<>>
    BY <1>3, <2>1 DEF Session
  <2>. HIDE DEF r
  <2>3. ses'[s] = r /\ \A t \in Sessions \ {s} : ses'[t] = ses[t]
    BY <2>1 DEF Inv, TypeInv
  <2>. QED  BY <1>3, <2>2, <2>3
<1>5. AnswersInv'
  BY <1>1, <1>4 DEF Erase, AnswersInv
<1>6. MemoryInv'
  BY <1>2 DEF MemoryInv
<1>. QED  BY <1>1, <1>5, <1>6 DEF LogInv

LEMMA LogInit ==
    ASSUME Init
    PROVE  LogInv /\ Log!Init
<1>1. DurableLog = <<>>
  <2>1. DurableLog = Prefix(wal, Len(wal)) /\ wal = <<>>
    BY InvInit, DurableIsWal DEF Init, InitRooms
  <2>2. Prefix(wal, 0) = <<>>
    BY DEF Prefix
  <2>. QED  BY <2>1, <2>2
<1>2. AnswersInv
  BY DEF Init, InitRooms, NewSession, AnswersInv
<1>3. MemoryInv
  BY DEF Init, InitRooms, MemoryInv
<1>. QED  BY <1>1, <1>2, <1>3 DEF LogInv, Log!Init, Init, InitRooms

\* Every step keeps the invariant, and does one of four things to the log.
LEMMA LogNext ==
    ASSUME NoOverlap, Inv, LogInv, OneCopyQueued, [Next]_vars
    PROVE  /\ LogInv'
           /\ \/ UNCHANGED <<wal, told>>
              \/ \E o \in Ops, v \in Nat : Answered(o, v)
              \/ \E o \in Ops : Accepted(o)
              \/ Erase
<1>1. TypeInv'
  BY InvNext DEF Inv
<1>2. ASSUME NEW c \in Clients,
             \/ HelloElsewhere(c) \/ Recover(c) \/ Close(c)
             \/ \E k \in Slots[c] : Hello(c, k)
      PROVE  LogInv' /\ UNCHANGED <<wal, told>>
  BY <1>1, <1>2, SocketsKeep
<1>3. ASSUME NEW c \in Clients, NEW o \in Ops, Submit(c, o)
      PROVE  LogInv' /\ UNCHANGED <<wal, told>>
  BY <1>3, SubmitKeeps
<1>4. ASSUME NEW q \in Callers, HelloDone(q) \/ LookAgain(q) \/ SweepDone(q)
      PROVE  LogInv' /\ UNCHANGED <<wal, told>>
  BY <1>1, <1>4, CallersKeep
<1>5. ASSUME NEW s \in Sessions,
             \/ LoadSnapshot(s) \/ LoadWal(s) \/ MigrationSaved(s)
             \/ EvictBegin(s) \/ EvictSaved(s) \/ EvictFails(s)
      PROVE  LogInv' /\ UNCHANGED <<wal, told>>
  BY <1>1, <1>5, EntriesKeep, LoadWalKeeps
<1>6. ASSUME NEW s \in Sessions, Process(s) \/ AppendFails(s) \/ Snapshotted(s) \/ SnapshotFails(s)
      PROVE  LogInv' /\ (UNCHANGED <<wal, told>> \/ \E o \in Ops, v \in Nat : Answered(o, v))
  BY <1>6, ProcessKeeps, EndOfOperationKeeps
<1>7. ASSUME NEW s \in Sessions, Appended(s)
      PROVE  LogInv' /\ \E o \in Ops : Accepted(o)
  BY <1>7, AppendedKeeps
<1>8. ASSUME NEW s \in Sessions, EvictDeleted(s)
      PROVE  LogInv' /\ Erase
  BY <1>8, EvictDeletedKeeps
<1>9. CASE Crash \/ Shutdown
  BY <1>1, <1>9, EndKeeps
<1>10. CASE UNCHANGED vars
  <2>1. UNCHANGED <<wal, told, ses, room>>
    BY <1>10 DEF vars, roomVars, diskVars, clientVars
  <2>2. \A s \in Sessions : Kept(ses[s], ses'[s])
    BY <2>1 DEF Kept
  <2>. QED  BY <1>1, <2>1, <2>2, Undisturbed
<1>. QED  BY <1>2, <1>3, <1>4, <1>5, <1>6, <1>7, <1>8, <1>9, <1>10 DEF Next, RoomStep

\* The same said of the log that the two files hold.
LEMMA LogStep ==
    ASSUME NoOverlap, Inv, LogInv, OneCopyQueued, [Next]_vars
    PROVE  [Log!Next \/ Erase]_<<DurableLog, told>>
<1>1. Inv'
  BY InvNext
<1>2. DurableLog = Prefix(wal, Len(wal)) /\ DurableLog' = Prefix(wal', Len(wal'))
  <2>1. Inv => DurableLog = Prefix(wal, Len(wal))
    BY DurableIsWal
  <2>2. (Inv => DurableLog = Prefix(wal, Len(wal)))'
    BY <2>1, DurableIsWal, PTL
  <2>. QED  BY <1>1, <2>1, <2>2
<1>3. /\ DurableLog \in Seq(Ops) /\ Len(DurableLog) = Len(wal) /\ Len(wal) \in Nat
      /\ \A i \in 1 .. Len(wal) : DurableLog[i] = wal[i].op
  <2>1. Len(wal) \in 0 .. Len(wal) /\ Len(wal) \in Nat
    BY DEF Inv, TypeInv
  <2>2. Prefix(wal, Len(wal)) \in Seq(Ops) /\ DOMAIN Prefix(wal, Len(wal)) = 1 .. Len(wal)
    BY <2>1, PrefixType DEF Inv
  <2>3. \A i \in 1 .. Len(wal) : Prefix(wal, Len(wal))[i] = wal[i].op
    BY DEF Prefix
  <2>4. Len(Prefix(wal, Len(wal))) = Len(wal)
    BY <2>1, <2>2
  <2>. QED  BY <1>2, <2>1, <2>2, <2>3, <2>4
<1>4. CASE UNCHANGED <<wal, told>>
  BY <1>2, <1>4
<1>5. ASSUME NEW o \in Ops, NEW v \in Nat, Answered(o, v) PROVE UNCHANGED <<DurableLog, told>> \/ Log!Next
  <2>1. UNCHANGED DurableLog
    BY <1>2, <1>5 DEF Answered
  <2>2. v \in 0 .. Len(DurableLog)
    BY <1>3, <1>5 DEF Answered
  <2>3. \/ v \in 1 .. Len(DurableLog) /\ DurableLog[v] = o
        \/ v = 0 /\ ~Log!Committed(o)
    <3>1. CASE v = 0
      <4>1. ~InWal(o)
        BY <1>5, <3>1 DEF Answered, SaysTrue
      <4>2. \A i \in 1 .. Len(DurableLog) : DurableLog[i] # o
        BY <1>3, <4>1 DEF InWal
      <4>. QED  BY <3>1, <4>2 DEF Log!Committed
    <3>2. CASE v # 0
      BY <1>3, <1>5, <3>2 DEF Answered, SaysTrue
    <3>. QED  BY <3>1, <3>2
  <2>4. told' = told \/ Log!Answer(o, v)
    BY <1>5, <2>1, <2>3 DEF Answered, Log!Answer
  <2>. QED  BY <2>1, <2>2, <2>4 DEF Log!Next
<1>6. ASSUME NEW o \in Ops, Accepted(o) PROVE Log!Next
  <2>1. ~Log!IdUsed(o)
    BY <1>3, <1>6 DEF Accepted, IdInWal, Log!IdUsed
  <2>2. DurableLog' = Append(DurableLog, o)
    <3>. DEFINE N == Len(wal)
                line == [version |-> N + 1, op |-> o]
    <3>1. wal' = Append(wal, line) /\ line \in Line /\ wal \in Seq(Line)
      BY <1>3, <1>6 DEF Accepted, Line, Inv, TypeInv
    <3>2. /\ Len(wal') = N + 1 /\ wal'[N + 1] = line /\ line.op = o
          /\ \A i \in 1 .. N : wal'[i] = wal[i]
      BY <1>3, <3>1, PrefixGrows
    <3>3. DurableLog' = [i \in 1 .. N + 1 |-> wal'[i].op]
      BY <1>2, <3>2 DEF Prefix
    <3>4. \A i \in 1 .. N + 1 : wal'[i].op \in Ops /\ wal'[i].op = Append(DurableLog, o)[i]
      <4>1. \A i \in 1 .. N + 1 : i = N + 1 \/ i \in 1 .. N
        BY <1>3
      <4>2. \A i \in 1 .. N : DurableLog[i] \in Ops /\ Append(DurableLog, o)[i] = DurableLog[i]
        BY <1>3
      <4>3. Append(DurableLog, o)[N + 1] = o
        BY <1>3
      <4>. QED  BY <1>3, <3>2, <4>1, <4>2, <4>3
    <3>5. DurableLog' \in Seq(Ops) /\ Len(DurableLog') = N + 1
      BY <1>3, <3>3, <3>4, SeqDef
    <3>6. Append(DurableLog, o) \in Seq(Ops) /\ Len(Append(DurableLog, o)) = N + 1
      BY <1>3
    <3>7. \A i \in 1 .. N + 1 : DurableLog'[i] = Append(DurableLog, o)[i]
      BY <3>3, <3>4
    <3>. QED  BY <3>5, <3>6, <3>7, SeqEqual
  <2>3. Log!Accept(o)
    BY <1>3, <1>6, <2>1, <2>2 DEF Accepted, Log!Accept
  <2>. QED  BY <2>3 DEF Log!Next
<1>. QED  BY <1>4, <1>5, <1>6, LogNext

\* Between two deletions of the room, the WAL and snapshot files of the standalone
\* server are the canonical log, and every verdict sent to a client is the log's
\* (process, appendWal, load): an operation is accepted once and keeps its version
\* through evictions, migrations, failed snapshots and restarts, and none is told
\* both "rejected" and "accepted".  It is assumed that no operation is queued twice
\* at a time; of an operation that is, a copy may commit after the other has failed.
THEOREM StandaloneImplementsCanonicalLog ==
    NoOverlap => (Spec /\ []OneCopyQueued => ImplementsCanonicalLog)
<1>. SUFFICES ASSUME NoOverlap PROVE Spec /\ []OneCopyQueued => ImplementsCanonicalLog
  OBVIOUS
<1>1. Init => Inv /\ LogInv /\ Log!Init
  BY InvInit, LogInit
<1>2. Inv /\ LogInv /\ OneCopyQueued /\ [Next]_vars =>
        Inv' /\ LogInv' /\ [Log!Next \/ Erase]_<<DurableLog, told>>
  BY InvNext, LogNext, LogStep
<1>. QED  BY <1>1, <1>2, PTL DEF Spec, ImplementsCanonicalLog
====
