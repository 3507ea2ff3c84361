---- MODULE OwnershipProofs ----
(***************************************************************************)
(* Proofs about Ownership, for any workers, Gateways and faults: no event  *)
(* leaves the outbox unpublished, as a dispatcher marks a row only after   *)
(* it has published the event and nobody takes that back; and its types.   *)
(***************************************************************************)
EXTENDS Ownership, FiniteSetTheorems, TLAPS

----------------------------------------------------------------------------
(* The outbox *)

OutboxInvariant ==
    /\ dispatch \in [Workers -> {"idle", "publish", "mark"}]
    /\ row = "delivered" => published
    /\ \A w \in Workers : dispatch[w] = "mark" => published

LEMMA InitOutbox == Init => OutboxInvariant
BY DEF Init, OutboxInvariant

\* The steps that leave the outbox alone, but may add the row.
LEMMA RowAdded ==
    ASSUME OutboxInvariant, UNCHANGED <<published, dispatch>>, row' = row \/ row' \in Followed
    PROVE  OutboxInvariant'
BY DEF OutboxInvariant, Followed

LEMMA GatewayOutbox ==
    ASSUME OutboxInvariant, NEW g \in Gateways,
           Ask(g) \/ CallFails(g) \/ GatewaySteps(g) \/ \E w \in Workers : HealthyAgain(g, w)
    PROVE  OutboxInvariant'
<1>1. CASE Ask(g) \/ CallFails(g) \/ \E w \in Workers : HealthyAgain(g, w)
  BY <1>1, RowAdded DEF Ask, CallFails, HealthyAgain, outboxVars
<1>2. CASE AskAgain(g) \/ Refused(g) \/ Invalidate(g)
  BY <1>2, RowAdded DEF AskAgain, Refused, Invalidate, outboxVars
<1>3. CASE FindSession(g) \/ JoinActivation(g) \/ Claim(g)
  BY <1>3, RowAdded DEF FindSession, JoinActivation, Claim, Claimed, outboxVars
<1>4. CASE Process(g)
  <2>1. UNCHANGED <<published, dispatch>> /\ (row' = row \/ row' \in Followed)
    BY <1>4 DEF Process
  <2>. QED BY <2>1, RowAdded
<1>. QED BY <1>1, <1>2, <1>3, <1>4 DEF GatewaySteps

LEMMA WorkerOutbox ==
    ASSUME OutboxInvariant, NEW w \in Workers, WorkerSteps(w)
    PROVE  OutboxInvariant'
<1>1. CASE Load(w) \/ PublishOwner(w) \/ DropUnrenewed(w)
  BY <1>1, RowAdded DEF Load, PublishOwner, DropUnrenewed, outboxVars
<1>2. CASE DropSession(w) \/ Unregister(w) \/ Exit(w)
  BY <1>2, RowAdded DEF DropSession, Unregister, Exit, outboxVars
<1>3. ASSUME NEW e \in Numbers, ProcessOrphan(w, e) PROVE OutboxInvariant'
  <2>1. UNCHANGED <<published, dispatch>> /\ (row' = row \/ row' \in Followed)
    BY <1>3 DEF ProcessOrphan
  <2>. QED BY <2>1, RowAdded
<1>. QED BY <1>1, <1>2, <1>3 DEF WorkerSteps

LEMMA DispatchingOutbox ==
    ASSUME OutboxInvariant, NEW w \in Workers, Dispatching(w)
    PROVE  OutboxInvariant'
<1> USE DEF OutboxInvariant
<1>1. CASE ClaimOutbox(w)
  BY <1>1 DEF ClaimOutbox
<1>2. CASE PublishEvent(w)
  BY <1>2 DEF PublishEvent
<1>3. CASE MarkDelivered(w)
  BY <1>3 DEF MarkDelivered
<1>. QED BY <1>1, <1>2, <1>3 DEF Dispatching

LEMMA FaultOutbox ==
    ASSUME OutboxInvariant, NEW w \in Workers,
           \/ ClaimForOther(w) \/ ActivationFails(w) \/ RenewFails(w) \/ Evict(w) \/ Crash(w) \/ Drain(w)
           \/ Restart(w) \/ RegistrationExpires(w) \/ Heartbeat(w) \/ DispatchFails(w)
    PROVE  OutboxInvariant'
<1>1. CASE ClaimForOther(w) \/ ActivationFails(w) \/ RenewFails(w)
  BY <1>1, RowAdded DEF ClaimForOther, Claimed, ActivationFails, RenewFails, outboxVars
<1>2. CASE Evict(w) \/ Drain(w) \/ Restart(w)
  BY <1>2, RowAdded DEF Evict, Drain, Restart, outboxVars
<1>3. CASE RegistrationExpires(w) \/ Heartbeat(w)
  BY <1>3, RowAdded DEF RegistrationExpires, Heartbeat, outboxVars
<1>4. CASE Crash(w) \/ DispatchFails(w)
  <2>1. UNCHANGED <<row, published>> /\ dispatch' = [dispatch EXCEPT ![w] = "idle"]
    BY <1>4 DEF Crash, DispatchFails
  <2>. QED BY <2>1 DEF OutboxInvariant
<1>. QED BY <1>1, <1>2, <1>3, <1>4

LEMMA NextOutbox == OutboxInvariant /\ [Next]_vars => OutboxInvariant'
<1> SUFFICES ASSUME OutboxInvariant, [Next]_vars PROVE OutboxInvariant'
  OBVIOUS
<1>1. CASE UNCHANGED vars
  BY <1>1, RowAdded DEF vars, outboxVars
<1>2. CASE RouteExpires \/ RedisForgets \/ LockExpires
  BY <1>2, RowAdded DEF RouteExpires, RedisForgets, LockExpires, outboxVars
<1>. QED BY <1>1, <1>2, GatewayOutbox, WorkerOutbox, DispatchingOutbox, FaultOutbox DEF Next

\* For any number of workers, Gateways and faults, an event is never marked delivered
\* that no dispatcher has published.
THEOREM EventsAreNotDropped == Spec => []DeliveredWasPublished
<1>1. OutboxInvariant => DeliveredWasPublished
  BY DEF OutboxInvariant, DeliveredWasPublished
<1>. QED BY <1>1, InitOutbox, NextOutbox, PTL DEF Spec

----------------------------------------------------------------------------
(* Types.  What is not a type in the invariant: a worker never has more    *)
(* tasks whose caller gave up than there were faults.  So the numbers that *)
(* are in use are never all of them, and a claim finds a new one.          *)

States  == {"idle", "activate", "activating", "call", "joining", "queued", "invalidate", "failed"}
Called  == [worker : Workers, epoch : Numbers \cup {0}]
Request == [at : States, kind : {"submit", "snapshot"}, attempt : {0, 1},
            rec : Called \cup {Nobody}, ses : Numbers \cup {0}]

\* A request in a state where it knows whom it called.
Consistent(r) ==
    /\ r.at \in {"idle", "failed"} <=> r.rec = Nobody
    /\ r.at \in {"activate", "activating"} <=> r.rec # Nobody /\ r.rec.epoch = 0
    /\ r.at = "queued" <=> r.ses # 0
Requests == {r \in Request : Consistent(r)}

Activation == [at : {"loading", "publishing"}, epoch : Numbers] \cup {NotActive}

WorkerTypes ==
    /\ up \in [Workers -> {"up", "draining", "closing", "down"}]
    /\ ses \in [Workers -> Numbers \cup {0}]
    /\ act \in [Workers -> Activation]
    /\ lost \in [Workers -> BOOLEAN]
    /\ orphans \in [Workers -> SUBSET Numbers]

OutboxTypes ==
    /\ row \in {"none", "pending", "delivered"} /\ lock \in Workers \cup {Nobody}
    /\ published \in BOOLEAN
    /\ dispatch \in [Workers -> {"idle", "publish", "mark"}]

TypeInv ==
    /\ head \in OwnerRecord \cup {Nobody} /\ route \in OwnerRecord \cup {Nobody}
    /\ registered \subseteq Workers
    /\ WorkerTypes
    /\ req \in [Gateways -> Requests]
    /\ avoid \in [Gateways -> SUBSET Workers]
    /\ OutboxTypes
    /\ faults \in 0 .. MaxFaults
    /\ \A w \in Workers : Cardinality(orphans[w]) <= faults

\* A finite set has an element with the greatest value.
LEMMA GreatestExists ==
    ASSUME NEW S, IsFiniteSet(S), S # {}, NEW f \in [S -> Int]
    PROVE  \E x \in S : \A y \in S : f[y] <= f[x]
<1>. DEFINE above(x) == {y \in S : f[y] > f[x]}
            T == {above(x) : x \in S}
<1>1. T \subseteq FiniteSubsetsOf(S) /\ T # {}
  <2>1. \A x \in S : above(x) \in SUBSET S /\ IsFiniteSet(above(x))
    BY FS_Subset
  <2>2. \A t \in T : t \in SUBSET S /\ IsFiniteSet(t)
    BY <2>1, Zenon
  <2>3. PICK x \in S : TRUE
    OBVIOUS
  <2>4. above(x) \in T
    OBVIOUS
  <2>. HIDE DEF T
  <2>. QED  BY <2>2, <2>4 DEF FiniteSubsetsOf
<1>2. IsWellFoundedOn(StrictSubsetOrdering(S), FiniteSubsetsOf(S))
  BY FS_StrictSubsetOrderingWellFounded
<1>3. PICK t \in T : \A r \in T : <<r, t>> \notin StrictSubsetOrdering(S)
  <2>. HIDE DEF T
  <2>. QED  BY <1>1, <1>2, WFMin, Zenon
<1>4. PICK x \in S : t = above(x)
  OBVIOUS
<1>5. ASSUME NEW y \in S, f[y] > f[x] PROVE FALSE
  <2>1. f[x] \in Int /\ f[y] \in Int /\ \A z \in S : f[z] \in Int
    OBVIOUS
  <2>2. y \in above(x) /\ y \notin above(y)
    BY <1>5, <2>1
  <2>3. above(y) \subseteq above(x)
    BY <1>5, <2>1
  <2>4. <<above(y), above(x)>> \in StrictSubsetOrdering(S)
    BY <2>2, <2>3 DEF StrictSubsetOrdering
  <2>. QED  BY <1>3, <1>4, <2>4
<1>6. \A y \in S : f[y] \in Int /\ f[x] \in Int
  OBVIOUS
<1>. QED  BY <1>5, <1>6

LEMMA BestType ==
    ASSUME NEW ws \in SUBSET Workers, ws # {}
    PROVE  Best(ws) \in ws
<1>1. IsFiniteSet(ws)
  BY ProcessesAssumption, FS_Subset
<1>. DEFINE f == [w \in ws |-> Score[w]]
<1>2. f \in [ws -> Int]
  BY ScoreAssumption
<1>3. \E w \in ws : \A v \in ws : f[v] <= f[w]
  <2>. HIDE DEF f
  <2>. QED  BY <1>1, <1>2, GreatestExists
<1>4. \E w \in ws : \A v \in ws : Score[v] <= Score[w]
  BY <1>3
<1>. QED  BY <1>4 DEF Best

LEMMA MinType ==
    ASSUME NEW S \in SUBSET Nat, IsFiniteSet(S), S # {}
    PROVE  Min(S) \in S
<1>. DEFINE f == [n \in S |-> -n]
<1>1. f \in [S -> Int]
  OBVIOUS
<1>2. \E x \in S : \A y \in S : f[y] <= f[x]
  <2>. HIDE DEF f
  <2>. QED  BY <1>1, GreatestExists, Zenon
<1>3. \E x \in S : \A y \in S : x <= y
  BY <1>2
<1>. QED  BY <1>3 DEF Min

LEMMA NumbersType ==
    /\ Cardinality(Gateways) \in Nat
    /\ Numbers \in SUBSET Nat /\ 0 \notin Numbers
    /\ IsFiniteSet(Numbers)
    /\ Cardinality(Numbers) = 2 + 3 * Cardinality(Gateways) + MaxFaults
<1>1. Cardinality(Gateways) \in Nat
  BY ProcessesAssumption, FS_CardinalityType
<1>2. PICK n \in Nat : n = 2 + 3 * Cardinality(Gateways) + MaxFaults
  BY <1>1, FaultsAssumption
<1>3. Numbers = 1 .. n
  BY <1>2 DEF Numbers
<1>4. IsFiniteSet(1 .. n) /\ Cardinality(1 .. n) = n
  BY FS_Interval
<1>. QED  BY <1>1, <1>2, <1>3, <1>4

\* The union of two finite sets is no larger than both together.
LEMMA UnionSize ==
    ASSUME NEW S, IsFiniteSet(S), NEW T, IsFiniteSet(T),
           NEW m \in Nat, Cardinality(S) <= m, NEW n \in Nat, Cardinality(T) <= n
    PROVE  IsFiniteSet(S \cup T) /\ Cardinality(S \cup T) <= m + n
<1>1. IsFiniteSet(S \cap T)
  BY FS_Subset
<1>2. Cardinality(S) \in Nat /\ Cardinality(T) \in Nat /\ Cardinality(S \cap T) \in Nat
  BY <1>1, FS_CardinalityType
<1>. QED  BY <1>2, FS_Union

LEMMA PairSize ==
    ASSUME NEW a, NEW b
    PROVE  IsFiniteSet({a, b}) /\ Cardinality({a, b}) <= 2
<1>1. /\ IsFiniteSet({a}) /\ Cardinality({a}) = 1
      /\ IsFiniteSet({b}) /\ Cardinality({b}) = 1
  BY FS_Singleton, Zenon
<1>2. Cardinality({a}) <= 1 /\ Cardinality({b}) <= 1 /\ 1 \in Nat
  BY <1>1
<1>3. IsFiniteSet({a} \cup {b}) /\ Cardinality({a} \cup {b}) <= 1 + 1
  BY <1>1, <1>2, UnionSize
<1>4. {a, b} = {a} \cup {b}
  OBVIOUS
<1>. QED  BY <1>3, <1>4

LEMMA AddedSize ==
    ASSUME NEW S, IsFiniteSet(S), NEW x
    PROVE  Cardinality(S \cup {x}) \in Nat /\ Cardinality(S \cup {x}) <= Cardinality(S) + 1
<1>1. Cardinality(S \cup {x}) = IF x \in S THEN Cardinality(S) ELSE Cardinality(S) + 1
  BY FS_AddElement
<1>2. Cardinality(S) \in Nat
  BY FS_CardinalityType
<1>3. CASE x \in S
  <2>1. Cardinality(S \cup {x}) = Cardinality(S)
    BY <1>1, <1>3
  <2>. QED  BY <2>1, <1>2
<1>4. CASE x \notin S
  <2>1. Cardinality(S \cup {x}) = Cardinality(S) + 1
    BY <1>1, <1>4
  <2>. QED  BY <2>1, <1>2
<1>. QED  BY <1>3, <1>4

\* Fewer numbers refer to a session of w than there are.
LEMMA NumberLeft ==
    ASSUME TypeInv, NEW w \in Workers, ses[w] = 0, act[w].at = "none",
           Gateways # {} \/ faults < MaxFaults
    PROVE  Min(Numbers \ InUse(w)) \in Numbers
<1>. DEFINE G == Cardinality(Gateways)
            leased == {route.epoch, head.epoch}
            called == {req[g].rec.epoch : g \in Gateways}
            queued == {req[g].ses : g \in Gateways}
            used == (orphans[w] \cup leased) \cup (called \cup queued)
<1>1. G \in Nat /\ faults \in Nat /\ faults <= MaxFaults /\ MaxFaults \in Nat
  BY NumbersType, FaultsAssumption DEF TypeInv
<1>2. IsFiniteSet(orphans[w]) /\ Cardinality(orphans[w]) <= faults
  <2>1. orphans[w] \in SUBSET Numbers /\ Cardinality(orphans[w]) <= faults
    BY DEF TypeInv, WorkerTypes
  <2>. QED  BY <2>1, NumbersType, FS_Subset
<1>3. IsFiniteSet(leased) /\ Cardinality(leased) <= 2
  BY PairSize
<1>4. IsFiniteSet(called) /\ Cardinality(called) <= G
  <2>. DEFINE f == [g \in Gateways |-> req[g].rec.epoch]
  <2>1. f \in Surjection(Gateways, called)
    BY DEF Surjection
  <2>. HIDE DEF f, called
  <2>. QED  BY <2>1, ProcessesAssumption, FS_Surjection
<1>5. IsFiniteSet(queued) /\ Cardinality(queued) <= G
  <2>. DEFINE f == [g \in Gateways |-> req[g].ses]
  <2>1. f \in Surjection(Gateways, queued)
    BY DEF Surjection
  <2>. HIDE DEF f, queued
  <2>. QED  BY <2>1, ProcessesAssumption, FS_Surjection
<1>6. IsFiniteSet(used) /\ Cardinality(used) <= (faults + 2) + (G + G)
  <2>. HIDE DEF G, leased, called, queued
  <2>1. IsFiniteSet(orphans[w] \cup leased) /\ Cardinality(orphans[w] \cup leased) <= faults + 2
    BY <1>1, <1>2, <1>3, UnionSize
  <2>2. IsFiniteSet(called \cup queued) /\ Cardinality(called \cup queued) <= G + G
    BY <1>1, <1>4, <1>5, UnionSize
  <2>3. faults + 2 \in Nat /\ G + G \in Nat
    BY <1>1
  <2>. QED  BY <2>1, <2>2, <2>3, UnionSize
<1>7. InUse(w) \subseteq used \cup {0}
  <2>1. act[w].epoch = 0
    BY DEF TypeInv, WorkerTypes, Activation, NotActive
  <2>2. {r.epoch : r \in Records(w)} \subseteq leased \cup called
    BY DEF Records
  <2>3. {req[g].ses : g \in Queued(w)} \subseteq queued
    BY DEF Queued
  <2>. QED  BY <2>1, <2>2, <2>3 DEF InUse
<1>8. Gateways # {} => G >= 1
  <2>1. G = 0 <=> Gateways = {}
    BY ProcessesAssumption, FS_EmptySet
  <2>. QED  BY <2>1, <1>1
<1>9. Numbers \ InUse(w) # {}
  <2>1. SUFFICES ASSUME Numbers \subseteq InUse(w) PROVE FALSE
    OBVIOUS
  <2>2. Numbers \subseteq used
    BY <1>7, <2>1, NumbersType
  <2>3. Cardinality(Numbers) <= Cardinality(used)
    <3>. HIDE DEF used
    <3>. QED  BY <1>6, <2>2, FS_Subset
  <2>4. Cardinality(used) \in Nat
    <3>. HIDE DEF used
    <3>. QED  BY <1>6, FS_CardinalityType
  <2>5. Cardinality(Numbers) = 2 + 3 * G + MaxFaults
    BY NumbersType
  <2>. HIDE DEF G, used
  <2>. QED  BY <1>1, <1>6, <1>8, <2>3, <2>4, <2>5
<1>10. Numbers \ InUse(w) \in SUBSET Nat /\ IsFiniteSet(Numbers \ InUse(w))
  BY NumbersType, FS_Difference
<1>11. Min(Numbers \ InUse(w)) \in Numbers \ InUse(w)
  BY <1>9, <1>10, MinType
<1>. QED  BY <1>11

----------------------------------------------------------------------------
(* Every step keeps the types *)

LEMMA RecordType ==
    /\ \A w \in Workers : \A e \in Numbers : Rec(w, e) \in OwnerRecord
    /\ \A w \in Workers : Rec(w, 0) \in Called /\ Rec(w, 0).epoch = 0
    /\ OwnerRecord \subseteq Called /\ Nobody \notin Called
    /\ \A r \in OwnerRecord : r.epoch \in Numbers /\ r.epoch # 0 /\ r.worker \in Workers
<1>1. ASSUME NEW w \in Workers, NEW e \in Numbers PROVE Rec(w, e) \in OwnerRecord
  BY DEF Rec, OwnerRecord
<1>2. ASSUME NEW w \in Workers PROVE Rec(w, 0) \in Called /\ Rec(w, 0).epoch = 0
  BY DEF Rec, Called
<1>3. OwnerRecord \subseteq Called
  BY DEF OwnerRecord, Called
<1>4. Called \subseteq [worker : Workers, epoch : Nat]
  <2>1. Numbers \cup {0} \subseteq Nat
    BY NumbersType
  <2>. QED  BY <2>1 DEF Called
<1>5. Nobody \notin Called
  BY <1>4, NobodyAssumption
<1>6. ASSUME NEW r \in OwnerRecord PROVE r.epoch \in Numbers /\ r.epoch # 0 /\ r.worker \in Workers
  BY NumbersType DEF OwnerRecord
<1>. QED  BY <1>1, <1>2, <1>3, <1>5, <1>6

\* What an operator makes of a request is one again.
LEMMA IdleType == Idle \in Requests
BY RecordType DEF Idle, Requests, Request, Consistent, States

LEMMA ResolvedType ==
    ASSUME registered \subseteq Workers, NEW g,
           NEW r \in Request, r.ses = 0, NEW owner \in OwnerRecord \cup {Nobody}
    PROVE  Resolved(g, r, owner) \in Requests
<1>. DEFINE healthy == registered \ avoid'[g]
<1>1. CASE owner # Nobody /\ owner.worker \notin avoid'[g]
  <2>1. Resolved(g, r, owner) = [r EXCEPT !.at = "call", !.rec = owner]
    BY <1>1 DEF Resolved
  <2>. QED  BY <1>1, <2>1, RecordType DEF Requests, Request, Consistent, States
<1>2. CASE ~(owner # Nobody /\ owner.worker \notin avoid'[g]) /\ healthy = {}
  <2>1. Resolved(g, r, owner) = [r EXCEPT !.at = "failed", !.rec = Nobody]
    BY <1>2 DEF Resolved
  <2>. QED  BY <2>1, RecordType DEF Requests, Request, Consistent, States
<1>3. CASE ~(owner # Nobody /\ owner.worker \notin avoid'[g]) /\ healthy # {}
  <2>1. Resolved(g, r, owner) = [r EXCEPT !.at = "activate", !.rec = Rec(Best(healthy), 0)]
    BY <1>3 DEF Resolved
  <2>2. Best(healthy) \in Workers
    BY <1>3, BestType
  <2>3. PICK called \in Called : called = Rec(Best(healthy), 0) /\ called.epoch = 0 /\ called # Nobody
    BY <2>2, RecordType
  <2>. QED  BY <2>1, <2>3 DEF Requests, Request, Consistent, States
<1>. QED  BY <1>1, <1>2, <1>3

LEMMA FailedType ==
    ASSUME NEW r \in Requests, r.at \notin {"idle", "failed"}
    PROVE  Failed(r) \in Requests
<1>. USE DEF Requests, Request, Consistent, States
<1>1. CASE r.at \in {"activate", "activating"}
  <2>1. Failed(r) = [r EXCEPT !.at = "failed", !.rec = Nobody]
    BY <1>1 DEF Failed
  <2>. QED  BY <1>1, <2>1, RecordType
<1>2. CASE r.at \notin {"activate", "activating"}
  <2>1. Failed(r) = [r EXCEPT !.at = "invalidate", !.ses = 0]
    BY <1>2 DEF Failed
  <2>. QED  BY <1>2, <2>1, RecordType
<1>. QED  BY <1>1, <1>2

LEMMA ServedType ==
    ASSUME NEW r \in Requests, r.at \in {"activate", "activating", "call", "joining"}, NEW e \in Numbers
    PROVE  Served(r, e) \in Requests
<1>. USE DEF Requests, Request, Consistent, States
<1>1. e # 0 /\ r.rec \in Called /\ r.rec.worker \in Workers
  BY NumbersType DEF Called
<1>2. CASE r.at \in {"activate", "activating"}
  <2>1. PICK owner \in OwnerRecord : owner = Rec(r.rec.worker, e)
    BY <1>1, RecordType
  <2>2. Served(r, e) = [r EXCEPT !.at = "call", !.rec = Rec(r.rec.worker, e)]
    BY <1>2, Zenon DEF Served
  <2>3. Served(r, e) = [r EXCEPT !.at = "call", !.rec = owner]
    BY <2>1, <2>2, Zenon
  <2>. QED  BY <1>2, <2>3, RecordType
<1>3. CASE r.at \notin {"activate", "activating"} /\ r.kind = "submit"
  <2>1. Served(r, e) = [r EXCEPT !.at = "queued", !.ses = e]
    BY <1>3 DEF Served
  <2>. QED  BY <1>1, <1>3, <2>1
<1>4. CASE r.at \notin {"activate", "activating"} /\ r.kind # "submit"
  BY <1>4, IdleType DEF Served
<1>. QED  BY <1>2, <1>3, <1>4

LEMMA JoinedType ==
    ASSUME NEW r \in Requests, r.at \in {"activate", "call"}
    PROVE  Joined(r) \in Requests
<1>. USE DEF Requests, Request, Consistent, States
<1>1. CASE r.at = "activate"
  <2>1. Joined(r) = [r EXCEPT !.at = "activating"]
    BY <1>1 DEF Joined
  <2>. QED  BY <1>1, <2>1
<1>2. CASE r.at = "call"
  <2>1. Joined(r) = [r EXCEPT !.at = "joining"]
    BY <1>2 DEF Joined
  <2>. QED  BY <1>2, <2>1
<1>. QED  BY <1>1, <1>2

\* Whom an active request called.
LEMMA CalledType ==
    ASSUME NEW r \in Requests, r.at \notin {"idle", "failed"}
    PROVE  r.rec \in Called /\ r.rec.worker \in Workers
BY DEF Requests, Request, Consistent, Called

LEMMA InitTypes == Init => TypeInv
<1>. SUFFICES ASSUME Init PROVE TypeInv
  OBVIOUS
<1>1. \A g \in Gateways : Idle \in Requests
  BY IdleType
<1>2. WorkerTypes /\ OutboxTypes
  BY DEF Init, WorkerTypes, OutboxTypes, Activation
<1>3. \A w \in Workers : Cardinality(orphans[w]) <= faults
  BY FS_EmptySet DEF Init
<1>. QED  BY <1>1, <1>2, <1>3, FaultsAssumption DEF Init, TypeInv

FaultsStep == UNCHANGED faults \/ Fault

LEMMA FaultsType ==
    ASSUME TypeInv, FaultsStep
    PROVE  faults' \in 0 .. MaxFaults /\ faults <= faults' /\ (Fault => faults' = faults + 1)
BY FaultsAssumption DEF TypeInv, FaultsStep, Fault

LEMMA OrphansType ==
    ASSUME TypeInv, NEW w \in Workers
    PROVE  IsFiniteSet(orphans[w]) /\ Cardinality(orphans[w]) \in Nat /\ Cardinality(orphans[w]) <= faults
<1>1. orphans[w] \in SUBSET Numbers /\ Cardinality(orphans[w]) <= faults
  BY DEF TypeInv, WorkerTypes
<1>. QED  BY <1>1, NumbersType, FS_Subset, FS_CardinalityType

\* A step that gives up no task.
LEMMA StepTypes ==
    ASSUME TypeInv, FaultsStep,
           head' \in OwnerRecord \cup {Nobody}, route' \in OwnerRecord \cup {Nobody},
           registered' \subseteq Workers, WorkerTypes', OutboxTypes',
           req' \in [Gateways -> Requests], avoid' \in [Gateways -> SUBSET Workers],
           \A w \in Workers : orphans'[w] \subseteq orphans[w]
    PROVE  TypeInv'
<1>1. ASSUME NEW w \in Workers PROVE Cardinality(orphans'[w]) <= faults'
  <2>1. IsFiniteSet(orphans[w]) /\ Cardinality(orphans[w]) \in Nat /\ Cardinality(orphans[w]) <= faults
    BY OrphansType
  <2>2. orphans'[w] \in SUBSET orphans[w]
    OBVIOUS
  <2>3. IsFiniteSet(orphans'[w]) /\ Cardinality(orphans'[w]) <= Cardinality(orphans[w])
    BY <2>1, <2>2, FS_Subset
  <2>4. Cardinality(orphans'[w]) \in Nat
    BY <2>3, FS_CardinalityType
  <2>5. faults \in Nat /\ faults' \in Nat /\ faults <= faults'
    BY FaultsType, FaultsAssumption DEF TypeInv
  <2>. QED  BY <2>1, <2>3, <2>4, <2>5
<1>. QED  BY <1>1, FaultsType DEF TypeInv

\* A step that changes requests, routes and avoided workers only.
LEMMA RequestsStep ==
    ASSUME TypeInv, UNCHANGED <<head, workerVars, outboxVars>>, FaultsStep,
           route' \in OwnerRecord \cup {Nobody}, registered' \subseteq Workers,
           req' \in [Gateways -> Requests], avoid' \in [Gateways -> SUBSET Workers]
    PROVE  TypeInv'
<1>1. WorkerTypes'
  BY DEF TypeInv, WorkerTypes, workerVars
<1>2. OutboxTypes'
  BY DEF TypeInv, OutboxTypes, outboxVars
<1>. QED  BY <1>1, <1>2, StepTypes DEF TypeInv, workerVars

\* One request changes.
LEMMA OneRequest ==
    ASSUME TypeInv, NEW g \in Gateways, NEW r \in Requests, req' = [req EXCEPT ![g] = r]
    PROVE  req' \in [Gateways -> Requests]
BY DEF TypeInv

LEMMA AskTypes ==
    ASSUME TypeInv, NEW g \in Gateways, Ask(g) \/ AskAgain(g)
    PROVE  TypeInv'
<1>1. PICK k \in {"submit", "snapshot"} : req' = [req EXCEPT ![g] = Resolved(g, [Idle EXCEPT !.kind = k], route)]
  <2>1. CASE Ask(g)
    BY <2>1, AsksAssumption DEF Ask
  <2>2. CASE AskAgain(g)
    <3>1. req[g].kind \in {"submit", "snapshot"}
      BY DEF TypeInv, Requests, Request
    <3>. QED  BY <2>2, <3>1 DEF AskAgain
  <2>. QED  BY <2>1, <2>2
<1>2. [Idle EXCEPT !.kind = k] \in Request /\ [Idle EXCEPT !.kind = k].ses = 0
  BY DEF Idle, Request, States
<1>3. Resolved(g, [Idle EXCEPT !.kind = k], route) \in Requests
  BY <1>2, ResolvedType DEF TypeInv
<1>4. req' \in [Gateways -> Requests]
  BY <1>1, <1>3, OneRequest
<1>5. UNCHANGED <<head, redisVars, workerVars, outboxVars, avoid, faults>>
  BY DEF Ask, AskAgain
<1>. QED  BY <1>4, <1>5, RequestsStep DEF TypeInv, redisVars, FaultsStep

LEMMA InvalidateTypes ==
    ASSUME TypeInv, NEW g \in Gateways, Invalidate(g)
    PROVE  TypeInv'
<1>. DEFINE r == req[g]
<1>1. r \in Requests /\ r.at = "invalidate"
  BY DEF TypeInv, Invalidate
<1>2. r.rec.worker \in Workers /\ r.ses = 0 /\ r.rec # Nobody
  BY <1>1, CalledType DEF Requests, Request, Consistent
<1>3. avoid' \in [Gateways -> SUBSET Workers]
  BY <1>2 DEF TypeInv, Invalidate
<1>4. route' \in OwnerRecord \cup {Nobody}
  BY DEF TypeInv, Invalidate, Released
<1>5. PICK owner \in OwnerRecord \cup {Nobody} : owner = route'
  BY <1>4
<1>6. CASE r.attempt = 0
  <2>1. req' = [req EXCEPT ![g] = Resolved(g, [r EXCEPT !.attempt = 1], owner)]
    BY <1>5, <1>6 DEF Invalidate
  <2>2. [r EXCEPT !.attempt = 1] \in Request /\ [r EXCEPT !.attempt = 1].ses = 0
    BY <1>1, <1>2 DEF Requests, Request
  <2>3. Resolved(g, [r EXCEPT !.attempt = 1], owner) \in Requests
    BY <2>2, ResolvedType DEF TypeInv
  <2>. QED  BY <2>1, <2>3, <1>3, <1>4, OneRequest, RequestsStep DEF Invalidate, TypeInv, FaultsStep
<1>7. CASE r.attempt # 0
  <2>1. req' = [req EXCEPT ![g] = [r EXCEPT !.at = "failed", !.rec = Nobody]]
    BY <1>7 DEF Invalidate
  <2>2. [r EXCEPT !.at = "failed", !.rec = Nobody] \in Requests
    BY <1>1, <1>2 DEF Requests, Request, Consistent, States
  <2>. QED  BY <2>1, <2>2, <1>3, <1>4, OneRequest, RequestsStep DEF Invalidate, TypeInv, FaultsStep
<1>. QED  BY <1>6, <1>7

LEMMA RefusedTypes ==
    ASSUME TypeInv, NEW g \in Gateways, Refused(g)
    PROVE  TypeInv'
<1>1. req[g] \in Requests /\ req[g].at \in {"activate", "call"}
  BY DEF TypeInv, Refused
<1>2. Failed(req[g]) \in Requests
  BY <1>1, FailedType
<1>3. req' = [req EXCEPT ![g] = Failed(req[g])]
  BY DEF Refused
<1>. QED  BY <1>2, <1>3, OneRequest, RequestsStep DEF Refused, TypeInv, redisVars, FaultsStep

LEMMA HealthyAgainTypes ==
    ASSUME TypeInv, NEW g \in Gateways, NEW w \in Workers, HealthyAgain(g, w)
    PROVE  TypeInv'
BY RequestsStep DEF HealthyAgain, TypeInv, redisVars, FaultsStep

LEMMA FindSessionTypes ==
    ASSUME TypeInv, NEW g \in Gateways, FindSession(g) \/ JoinActivation(g)
    PROVE  TypeInv'
<1>. DEFINE w == req[g].rec.worker
<1>1. req[g] \in Requests /\ req[g].at \in {"activate", "call"}
  BY DEF TypeInv, FindSession, JoinActivation
<1>2. w \in Workers
  BY <1>1, CalledType
<1>3. PICK r \in Requests : req' = [req EXCEPT ![g] = r]
  <2>1. CASE FindSession(g)
    <3>1. ses[w] \in Numbers
      BY <1>2, <2>1 DEF TypeInv, WorkerTypes, FindSession
    <3>2. Served(req[g], ses[w]) \in Requests
      BY <1>1, <3>1, ServedType
    <3>3. req' = [req EXCEPT ![g] = Served(req[g], ses[w])]
      BY <2>1 DEF FindSession
    <3>. QED  BY <3>2, <3>3
  <2>2. CASE JoinActivation(g)
    <3>1. Joined(req[g]) \in Requests
      BY <1>1, JoinedType
    <3>2. req' = [req EXCEPT ![g] = Joined(req[g])]
      BY <2>2 DEF JoinActivation
    <3>. QED  BY <3>1, <3>2
  <2>. QED  BY <2>1, <2>2
<1>4. UNCHANGED <<head, redisVars, workerVars, avoid, outboxVars, faults>>
  BY DEF FindSession, JoinActivation
<1>. QED  BY <1>3, <1>4, OneRequest, RequestsStep DEF TypeInv, redisVars, FaultsStep

LEMMA CallFailsTypes ==
    ASSUME TypeInv, NEW g \in Gateways, CallFails(g)
    PROVE  TypeInv'
<1>. DEFINE w == req[g].rec.worker
<1>1. req[g] \in Requests /\ req[g].at \notin {"idle", "failed"}
  BY DEF TypeInv, CallFails
<1>2. w \in Workers
  BY <1>1, CalledType
<1>3. Failed(req[g]) \in Requests
  BY <1>1, FailedType
<1>4. req' \in [Gateways -> Requests]
  BY <1>3, OneRequest DEF CallFails
<1>5. FaultsStep /\ Fault /\ OutboxTypes'
  BY DEF CallFails, FaultsStep, TypeInv, OutboxTypes, outboxVars
<1>6. CASE req[g].at # "queued"
  <2>1. orphans' = orphans
    BY <1>6 DEF CallFails
  <2>2. WorkerTypes'
    BY <2>1 DEF TypeInv, WorkerTypes, CallFails
  <2>. QED  BY <2>1, <2>2, <1>4, <1>5, StepTypes DEF TypeInv, CallFails, redisVars
<1>7. CASE req[g].at = "queued"
  <2>1. orphans' = [orphans EXCEPT ![w] = @ \cup {req[g].ses}] /\ req[g].ses \in Numbers
    BY <1>1, <1>7 DEF CallFails, Requests, Request, Consistent
  <2>2. WorkerTypes'
    BY <1>2, <2>1 DEF TypeInv, WorkerTypes, CallFails
  <2>3. ASSUME NEW v \in Workers PROVE Cardinality(orphans'[v]) <= faults'
    <3>1. IsFiniteSet(orphans[v]) /\ Cardinality(orphans[v]) \in Nat /\ Cardinality(orphans[v]) <= faults
      BY OrphansType
    <3>2. faults \in Nat /\ faults' = faults + 1
      BY <1>5, FaultsAssumption DEF TypeInv, Fault
    <3>3. orphans'[v] = orphans[v] \/ orphans'[v] = orphans[v] \cup {req[g].ses}
      BY <2>1 DEF TypeInv, WorkerTypes
    <3>4. PICK e : orphans'[v] = orphans[v] \/ orphans'[v] = orphans[v] \cup {e}
      BY <3>3
    <3>5. /\ Cardinality(orphans[v] \cup {e}) \in Nat
          /\ Cardinality(orphans[v] \cup {e}) <= Cardinality(orphans[v]) + 1
      BY <3>1, AddedSize
    <3>6. CASE orphans'[v] = orphans[v]
      BY <3>1, <3>2, <3>6
    <3>7. CASE orphans'[v] = orphans[v] \cup {e}
      BY <3>1, <3>2, <3>5, <3>7
    <3>. QED  BY <3>4, <3>6, <3>7
  <2>. QED  BY <2>2, <2>3, <1>4, <1>5, FaultsType DEF TypeInv, CallFails, redisVars
<1>. QED  BY <1>6, <1>7

\* A step of the workers that leaves the Gateways alone, or some of their requests fail
\* or are served.
LEMMA WorkersStep ==
    ASSUME TypeInv, FaultsStep, UNCHANGED <<head, avoid, outboxVars>>,
           route' \in OwnerRecord \cup {Nobody}, registered' \subseteq Workers, WorkerTypes',
           req' \in [Gateways -> Requests],
           \A w \in Workers : orphans'[w] \subseteq orphans[w]
    PROVE  TypeInv'
<1>1. OutboxTypes'
  BY DEF TypeInv, OutboxTypes, outboxVars
<1>. QED  BY <1>1, StepTypes DEF TypeInv

LEMMA ClaimedTypes ==
    ASSUME TypeInv, NEW w \in Workers, Claimed(w), FaultsStep,
           Gateways # {} \/ Fault, req' \in [Gateways -> Requests]
    PROVE  TypeInv'
<1>. DEFINE e == Min(Numbers \ InUse(w))
<1>1. Gateways # {} \/ faults < MaxFaults
  BY DEF Fault
<1>2. ses[w] = 0 /\ act[w].at = "none"
  BY DEF Claimed
<1>3. e \in Numbers
  BY <1>1, <1>2, NumberLeft
<1>4. head' = Rec(w, e) /\ act' = [act EXCEPT ![w] = [at |-> "loading", epoch |-> e]]
  BY DEF Claimed
<1>. HIDE DEF e
<1>5. head' \in OwnerRecord
  BY <1>3, <1>4, RecordType
<1>6. UNCHANGED <<redisVars, up, ses, lost, orphans, avoid, outboxVars>>
  BY DEF Claimed
<1>7. WorkerTypes'
  BY <1>3, <1>4, <1>6 DEF TypeInv, WorkerTypes, Activation
<1>8. OutboxTypes'
  BY <1>6 DEF TypeInv, OutboxTypes, outboxVars
<1>. QED  BY <1>5, <1>6, <1>7, <1>8, StepTypes DEF TypeInv, redisVars

LEMMA ClaimTypes ==
    ASSUME TypeInv, NEW g \in Gateways, Claim(g)
    PROVE  TypeInv'
<1>1. req[g] \in Requests /\ req[g].at \in {"activate", "call"}
  BY DEF TypeInv, Claim
<1>2. req[g].rec.worker \in Workers
  BY <1>1, CalledType
<1>3. Joined(req[g]) \in Requests
  BY <1>1, JoinedType
<1>4. req' \in [Gateways -> Requests]
  BY <1>3, OneRequest DEF Claim
<1>5. Claimed(req[g].rec.worker) /\ FaultsStep
  BY DEF Claim, FaultsStep
<1>. QED  BY <1>2, <1>4, <1>5, ClaimedTypes

LEMMA ClaimForOtherTypes ==
    ASSUME TypeInv, NEW w \in Workers, ClaimForOther(w)
    PROVE  TypeInv'
<1>1. Claimed(w) /\ Fault /\ FaultsStep /\ req' = req
  BY DEF ClaimForOther, FaultsStep
<1>. QED  BY <1>1, ClaimedTypes DEF TypeInv

\* A transaction drops the session of its worker or adds the row.
LEMMA DecidedTypes ==
    ASSUME TypeInv, NEW w \in Workers,
           ses' = [ses EXCEPT ![w] = 0] \/ ses' = ses,
           row' \in Followed \cup {row},
           req' \in [Gateways -> Requests],
           orphans' \in [Workers -> SUBSET Numbers],
           \A v \in Workers : orphans'[v] \subseteq orphans[v],
           UNCHANGED <<head, redisVars, up, act, lost, avoid, lock, published, dispatch, faults>>
    PROVE  TypeInv'
<1>1. WorkerTypes'
  BY DEF TypeInv, WorkerTypes
<1>2. OutboxTypes'
  BY DEF TypeInv, OutboxTypes, Followed
<1>. QED  BY <1>1, <1>2, StepTypes DEF TypeInv, redisVars, FaultsStep

LEMMA ProcessTypes ==
    ASSUME TypeInv, NEW g \in Gateways, Process(g)
    PROVE  TypeInv'
<1>. DEFINE r == req[g]
            w == r.rec.worker
<1>1. r \in Requests /\ r.at = "queued"
  BY DEF TypeInv, Process
<1>2. w \in Workers /\ r.rec \in Called /\ r.rec # Nobody /\ r.rec.epoch # 0
  BY <1>1, CalledType DEF Requests, Consistent
<1>3. PICK next \in Requests : req' = [req EXCEPT ![g] = next]
  <2>1. [r EXCEPT !.at = "invalidate", !.ses = 0] \in Requests
    BY <1>1, <1>2 DEF Requests, Request, Consistent, States
  <2>2. [r EXCEPT !.at = "failed", !.rec = Nobody, !.ses = 0] \in Requests
    BY <1>1, <1>2 DEF Requests, Request, Consistent, States
  <2>3. \/ req' = [req EXCEPT ![g] = [r EXCEPT !.at = "invalidate", !.ses = 0]]
        \/ req' = [req EXCEPT ![g] = [r EXCEPT !.at = "failed", !.rec = Nobody, !.ses = 0]]
        \/ req' = [req EXCEPT ![g] = Idle]
    BY DEF Process
  <2>. QED  BY <2>1, <2>2, <2>3, IdleType
<1>4. req' \in [Gateways -> Requests]
  BY <1>3, OneRequest
<1>5. (ses' = [ses EXCEPT ![w] = 0] \/ ses' = ses) /\ row' \in Followed \cup {row}
  BY DEF Process
<1>6. UNCHANGED <<head, redisVars, up, act, lost, orphans, avoid, lock, published, dispatch, faults>>
  BY DEF Process
<1>. QED  BY <1>2, <1>4, <1>5, <1>6, DecidedTypes DEF TypeInv, WorkerTypes

LEMMA ProcessOrphanTypes ==
    ASSUME TypeInv, NEW w \in Workers, NEW e, ProcessOrphan(w, e)
    PROVE  TypeInv'
<1>1. orphans' = [orphans EXCEPT ![w] = @ \ {e}]
  BY DEF ProcessOrphan
<1>2. orphans' \in [Workers -> SUBSET Numbers] /\ \A v \in Workers : orphans'[v] \subseteq orphans[v]
  BY <1>1 DEF TypeInv, WorkerTypes
<1>3. (ses' = [ses EXCEPT ![w] = 0] \/ ses' = ses) /\ row' \in Followed \cup {row}
  BY DEF ProcessOrphan
<1>4. UNCHANGED <<head, redisVars, up, act, lost, req, avoid, lock, published, dispatch, faults>>
  BY DEF ProcessOrphan
<1>. QED  BY <1>2, <1>3, <1>4, DecidedTypes DEF TypeInv

LEMMA LoadTypes ==
    ASSUME TypeInv, NEW w \in Workers, Load(w)
    PROVE  TypeInv'
<1>1. act[w] \in Activation /\ act[w].at = "loading"
  BY DEF TypeInv, WorkerTypes, Load
<1>2. act[w].epoch \in Numbers /\ [act[w] EXCEPT !.at = "publishing"] \in Activation
  BY <1>1 DEF Activation, NotActive
<1>3. act' = [act EXCEPT ![w] = [act[w] EXCEPT !.at = "publishing"]]
  BY DEF Load
<1>4. WorkerTypes'
  BY <1>2, <1>3 DEF Load, TypeInv, WorkerTypes
<1>. QED  BY <1>4, WorkersStep DEF Load, TypeInv, redisVars, FaultsStep

\* The requests that wait at w are all served, or all fail.
LEMMA PublishOwnerTypes ==
    ASSUME TypeInv, NEW w \in Workers, PublishOwner(w)
    PROVE  TypeInv'
<1>1. act[w] \in Activation /\ act[w].at = "publishing"
  BY DEF TypeInv, WorkerTypes, PublishOwner
<1>2. act[w].epoch \in Numbers
  BY <1>1 DEF Activation, NotActive
<1>3. route' \in OwnerRecord
  BY <1>2, RecordType DEF PublishOwner
<1>4. ASSUME NEW g \in Waiting(w) PROVE Served(req[g], act[w].epoch) \in Requests
  BY <1>2, <1>4, ServedType DEF TypeInv, Waiting
<1>5. req' \in [Gateways -> Requests]
  BY <1>4 DEF PublishOwner, TypeInv
<1>6. WorkerTypes'
  BY DEF PublishOwner, TypeInv, WorkerTypes, Activation
<1>. QED  BY <1>3, <1>5, <1>6, WorkersStep DEF PublishOwner, TypeInv, FaultsStep

LEMMA FailedRequests ==
    ASSUME TypeInv, NEW w \in Workers, NEW G \in SUBSET (Waiting(w) \cup Queued(w)),
           req' = [g \in Gateways |-> IF g \in G THEN Failed(req[g]) ELSE req[g]]
    PROVE  req' \in [Gateways -> Requests]
<1>1. ASSUME NEW g \in G PROVE Failed(req[g]) \in Requests
  BY <1>1, FailedType DEF TypeInv, Waiting, Queued
<1>. QED  BY <1>1 DEF TypeInv

LEMMA ActivationFailsTypes ==
    ASSUME TypeInv, NEW w \in Workers, ActivationFails(w)
    PROVE  TypeInv'
<1>1. req' \in [Gateways -> Requests]
  BY FailedRequests DEF ActivationFails
<1>2. WorkerTypes'
  BY DEF ActivationFails, TypeInv, WorkerTypes, Activation
<1>. QED  BY <1>1, <1>2, WorkersStep DEF ActivationFails, TypeInv, redisVars, FaultsStep

LEMMA CrashTypes ==
    ASSUME TypeInv, NEW w \in Workers, Crash(w)
    PROVE  TypeInv'
<1>1. req' \in [Gateways -> Requests]
  BY FailedRequests DEF Crash
<1>2. WorkerTypes' /\ \A v \in Workers : orphans'[v] \subseteq orphans[v]
  BY DEF Crash, TypeInv, WorkerTypes, Activation
<1>3. OutboxTypes'
  BY DEF Crash, TypeInv, OutboxTypes
<1>. QED  BY <1>1, <1>2, <1>3, StepTypes DEF Crash, TypeInv, redisVars, FaultsStep

\* The other steps of a worker and of Redis put no number in place of another.
LEMMA SessionDroppedTypes ==
    ASSUME TypeInv, NEW w \in Workers, DropUnrenewed(w) \/ RenewFails(w) \/ DropSession(w) \/ Drain(w)
    PROVE  TypeInv'
<1>1. UNCHANGED <<head, redisVars, act, orphans, req, avoid, outboxVars>> /\ FaultsStep
  BY DEF DropUnrenewed, RenewFails, DropSession, Drain, FaultsStep
<1>2. WorkerTypes'
  BY DEF DropUnrenewed, RenewFails, DropSession, Drain, TypeInv, WorkerTypes
<1>. QED  BY <1>1, <1>2, WorkersStep DEF TypeInv, redisVars

LEMMA ReleasedTypes ==
    ASSUME TypeInv, NEW w \in Workers, Evict(w) \/ Unregister(w) \/ Exit(w) \/ Restart(w)
    PROVE  TypeInv'
<1>1. UNCHANGED <<head, act, orphans, req, avoid, outboxVars>> /\ FaultsStep
  BY DEF Evict, Unregister, Exit, Restart, FaultsStep, redisVars
<1>2. route' \in OwnerRecord \cup {Nobody} /\ registered' \subseteq Workers
  BY DEF Evict, Unregister, Exit, Restart, TypeInv, Released, redisVars
<1>3. WorkerTypes'
  BY DEF Evict, Unregister, Exit, Restart, TypeInv, WorkerTypes
<1>. QED  BY <1>1, <1>2, <1>3, WorkersStep DEF TypeInv

LEMMA RedisTypes ==
    ASSUME TypeInv,
           \/ RouteExpires \/ RedisForgets
           \/ \E w \in Workers : RegistrationExpires(w) \/ Heartbeat(w)
    PROVE  TypeInv'
<1>1. UNCHANGED <<head, workerVars, req, avoid, outboxVars>> /\ FaultsStep
  BY DEF RouteExpires, RedisForgets, RegistrationExpires, Heartbeat, FaultsStep
<1>2. route' \in OwnerRecord \cup {Nobody} /\ registered' \subseteq Workers
  BY DEF RouteExpires, RedisForgets, RegistrationExpires, Heartbeat, TypeInv
<1>. QED  BY <1>1, <1>2, RequestsStep DEF TypeInv

LEMMA DispatchTypes ==
    ASSUME TypeInv, LockExpires \/ \E w \in Workers : Dispatching(w) \/ DispatchFails(w)
    PROVE  TypeInv'
<1>1. UNCHANGED <<head, redisVars, workerVars, req, avoid>> /\ FaultsStep
  BY DEF LockExpires, Dispatching, ClaimOutbox, PublishEvent, MarkDelivered, DispatchFails, FaultsStep
<1>2. OutboxTypes'
  BY DEF LockExpires, Dispatching, ClaimOutbox, PublishEvent, MarkDelivered, DispatchFails,
         TypeInv, OutboxTypes
<1>3. WorkerTypes'
  BY <1>1 DEF TypeInv, WorkerTypes, workerVars
<1>. QED  BY <1>1, <1>2, <1>3, StepTypes DEF TypeInv, redisVars, workerVars

LEMMA NextTypes == TypeInv /\ [Next]_vars => TypeInv'
<1>. SUFFICES ASSUME TypeInv, [Next]_vars PROVE TypeInv'
  OBVIOUS
<1>1. CASE UNCHANGED vars
  BY <1>1, RequestsStep DEF TypeInv, vars, redisVars, FaultsStep
<1>2. ASSUME NEW g \in Gateways,
             Ask(g) \/ CallFails(g) \/ GatewaySteps(g) \/ \E w \in Workers : HealthyAgain(g, w)
      PROVE  TypeInv'
  BY <1>2, AskTypes, CallFailsTypes, RefusedTypes, InvalidateTypes, FindSessionTypes, ClaimTypes,
     ProcessTypes, HealthyAgainTypes DEF GatewaySteps
<1>3. ASSUME NEW w \in Workers, WorkerSteps(w) PROVE TypeInv'
  BY <1>3, LoadTypes, PublishOwnerTypes, SessionDroppedTypes, ReleasedTypes, ProcessOrphanTypes
     DEF WorkerSteps
<1>4. ASSUME NEW w \in Workers,
             \/ ClaimForOther(w) \/ ActivationFails(w) \/ RenewFails(w) \/ Evict(w) \/ Crash(w)
             \/ Drain(w) \/ Restart(w)
      PROVE  TypeInv'
  BY <1>4, ClaimForOtherTypes, ActivationFailsTypes, SessionDroppedTypes, ReleasedTypes, CrashTypes
<1>. QED  BY <1>1, <1>2, <1>3, <1>4, RedisTypes, DispatchTypes DEF Next

\* For any number of workers, Gateways and faults, everything keeps its type, a request
\* knows whom it called, and a claim finds an epoch nothing refers to.
THEOREM OwnershipTypes == Spec => []TypeOK
<1>1. TypeInv => TypeOK
  <2>1. ASSUME TypeInv, NEW g \in Gateways
        PROVE  /\ req[g].at \in {"idle", "activate", "activating", "call", "joining",
                                 "queued", "invalidate", "failed"}
               /\ req[g].at \in {"idle", "failed"} <=> req[g].rec = Nobody
               /\ req[g].at \in {"activate", "activating"} <=> req[g].rec # Nobody /\ req[g].rec.epoch = 0
               /\ req[g].at = "queued" <=> req[g].ses # 0
    BY <2>1 DEF TypeInv, Requests, Request, Consistent, States
  <2>. QED  BY <2>1 DEF TypeInv, TypeOK, WorkerTypes, OutboxTypes, Activation
<1>. QED  BY <1>1, InitTypes, NextTypes, PTL DEF Spec
====
