---- MODULE GatewayProofs ----
(***************************************************************************)
(* What holds of Gateway for every set of connections, page size, and      *)
(* number of calls under way.                                              *)
(*                                                                         *)
(*   TypeCorrect     the type invariant                                    *)
(*   SettledFresh    a settled connection has what was committed before it *)
(*                   asked                                                 *)
(*   HubReachesConn  what the hub counts as delivered was sent, with one   *)
(*                   connection at a time in the hub, and its calls not    *)
(*                   tangled                                               *)
(*                                                                         *)
(* Freshness rests on a call that is responsible for a connection that is  *)
(* behind: one whose next page starts no later than what was sent and ends *)
(* no earlier than the request.  The other property rests on holes: an     *)
(* event that does not continue what was sent exists only where compaction *)
(* has taken the rows between, so that the page fetched next shows the hole*)
(* and starts a synchronization.                                           *)
(***************************************************************************)
EXTENDS Gateway, FiniteSetTheorems, WellFoundedInduction, TLAPS

-----------------------------------------------------------------------------
(* The inductive invariant *)

\* Compaction keeps WalVersions rows below the head.
WalKept == walFloor = 0 \/ walFloor + WalVersions <= head

\* The next page of the call starts no later than what was sent, and if it is the
\* last one, it ends no earlier than the latest request.
Responsible(c, s) ==
    LET t == task[c][s] IN
    \/ t.at = "snapshot"
    \/ /\ t.at \in {"query", "page"}
       /\ t.after <= lastSent[c]
       /\ t.at = "page" /\ Last(t.page) => \E v \in t.page : v >= since[c]

\* A connection behind its request has a call that will notice.
Fresh(c) == lastSent[c] >= since[c] \/ \E s \in Slots : Responsible(c, s)

FreshInv == \A c \in open \ failed : Fresh(c)

\* A connection that said hello is in the hub.
Joined == \A c \in open : stage[c] = "in" => c \in members /\ hubOpen

\* Versions a page of the hub passes over have been compacted away.
HubRow(s) ==
    LET t == hubTask[s] IN
    t.at # "idle" =>
       /\ hubOpen /\ t.after <= cursor
       /\ t.at = "page" =>
             \A v \in 1 .. head :
                v > t.after /\ v \notin t.page /\ (\E w \in t.page : w > v)
                   => v <= walFloor

HubRows == \A s \in HubSlots : HubRow(s)

\* The page ends at version v or later, or everything up to it was sent.
Reaches(c, t, v) == v <= lastSent[c] \/ \E w \in t.page : v <= w

\* The only call of a connection that is being synchronized: what the hub was
\* told since its last query is in the queue, or beyond a hole.
Synchronizing(c, t) ==
    /\ t.sync
    /\ \A v \in queued[c] : v <= cursor
    /\ \/ t.at = "snapshot"
       \/ /\ t.at \in {"query", "page"}
          /\ t.after = lastSent[c]
          /\ t.at = "page" =>
                /\ \A v \in t.page : v > lastSent[c]
                /\ Last(t.page) =>
                      /\ Reaches(c, t, cursor) \/ cursor \in queued[c]
                      /\ \A v \in 1 .. cursor :
                            Reaches(c, t, v) \/ v \in queued[c] \/ v <= walFloor

\* A catchup that meets a hole in the WAL.
MeetsHole(c, t) ==
    /\ lastSent[c] < walFloor /\ lastSent[c] < cursor
    /\ \/ t.at = "query" /\ t.after <= walFloor
       \/ /\ t.at = "page"
          /\ lastSent[c] + 1 \notin t.page
          /\ \E v \in t.page : v > lastSent[c]

\* A connection whose calls are not tangled is being synchronized by one call,
\* has everything, or has a catchup that will synchronize it.
KeepsUp(c) ==
    \/ /\ phase[c] = "syncing"
       /\ \E s \in SyncSlots :
             /\ \A t \in Slots \ {s} : task[c][t] = Idle
             /\ Synchronizing(c, task[c][s])
    \/ /\ phase[c] = "ready"
       /\ \A s \in SyncSlots : task[c][s] = Idle
       /\ \/ task[c][Catchup] = Idle /\ lastSent[c] >= cursor
          \/ MeetsHole(c, task[c][Catchup])

\* Nothing happens to a connection before its hello.
Greeted ==
    \A c \in Conns : stage[c] = "in" \/ (phase[c] = "new" /\ \A s \in Slots : task[c][s] = Idle)

\* One connection at a time is in the hub or has calls under way.
InHub(c) == c \in members \/ \E s \in Slots : task[c][s] # Idle
Alone    == \A c, d \in Conns : InHub(c) /\ InHub(d) => c = d

KeepInv ==
    \A c \in open \ (failed \cup tangled) : stage[c] = "in" => KeepsUp(c)

-----------------------------------------------------------------------------
(* Sets of versions *)

\* There is a least version among any.
LEMMA LeastVersion ==
    ASSUME NEW V \in SUBSET Nat, V # {}
    PROVE  \E v \in V : \A u \in V : v <= u
<1>. DEFINE T == {1 .. u : u \in V}
            N == FiniteSubsetsOf(Nat)
<1>1. T \subseteq N /\ T # {}
  <2>1. \A u \in V : IsFiniteSet(1 .. u) /\ 1 .. u \subseteq Nat
    BY FS_Interval
  <2>. QED  BY <2>1 DEF FiniteSubsetsOf
<1>2. IsWellFoundedOn(StrictSubsetOrdering(Nat), N)
  BY FS_StrictSubsetOrderingWellFounded
<1>3. PICK t \in T : \A r \in T : <<r, t>> \notin StrictSubsetOrdering(Nat)
  <2>. HIDE DEF T, N
  <2>. QED  BY <1>1, <1>2, WFMin, Zenon
<1>4. PICK v \in V : t = 1 .. v
  OBVIOUS
<1>5. ASSUME NEW u \in V, u < v PROVE FALSE
  <2>1. v \in 1 .. v /\ v \notin 1 .. u
    BY <1>5
  <2>2. 1 .. u \subseteq 1 .. v /\ 1 .. u # 1 .. v
    BY <1>5, <2>1
  <2>3. 1 .. u \in SUBSET Nat /\ 1 .. v \in SUBSET Nat
    OBVIOUS
  <2>4. <<1 .. u, 1 .. v>> \in StrictSubsetOrdering(Nat)
    BY <2>2, <2>3 DEF StrictSubsetOrdering
  <2>. QED  BY <1>3, <1>4, <2>4
<1>. QED  BY <1>5

\* Max is what its name says, on bounded sets of versions.
LEMMA MaxOfVersions ==
    ASSUME NEW u \in Nat, NEW V \in SUBSET (0 .. u), V # {}
    PROVE  Max(V) \in V /\ \A v \in V : v <= Max(V)
<1>. DEFINE B == {b \in 0 .. u : \A v \in V : v <= b}
<1>1. B \in SUBSET Nat /\ u \in B
  OBVIOUS
<1>2. PICK b \in B : \A a \in B : b <= a
  <2>. HIDE DEF B
  <2>. QED  BY <1>1, LeastVersion
<1>3. b \in V
  <2>1. SUFFICES ASSUME b \notin V PROVE FALSE
    OBVIOUS
  <2>2. \A v \in V : v <= b - 1
    BY <2>1
  <2>3. b - 1 \in B
    <3>1. PICK v \in V : TRUE
      OBVIOUS
    <3>2. v \in 0 .. u /\ v <= b - 1 /\ b \in 0 .. u
      BY <2>2
    <3>3. b - 1 \in 0 .. u
      BY <3>2
    <3>. QED  BY <2>2, <3>3
  <2>. QED  BY <1>2, <2>3
<1>4. \E m \in V : \A v \in V : m >= v
  BY <1>3
<1>. QED  BY <1>4 DEF Max

LEMMA MaxOfOne == ASSUME NEW v \in Nat PROVE Max({v}) = v
  BY MaxOfVersions

\* A page holds rows after version v that are in the WAL, and a last page holds
\* all of them.
LEMMA PageOfWal ==
    ASSUME head \in Nat, walFloor \in 0 .. head, NEW v \in 0 .. head
    PROVE  LET p == EventsAfter(v) IN
           /\ p \in SUBSET (1 .. head)
           /\ \A r \in p : r > v /\ r > walFloor
           /\ \A r \in 1 .. head : r > v /\ r \notin p /\ (\E q \in p : q > r) => r <= walFloor
           /\ Last(p) /\ v < head /\ walFloor < head => head \in p
           /\ v < head /\ walFloor < head => p # {}
<1>. DEFINE first == IF v > walFloor THEN v + 1 ELSE walFloor + 1
            p == EventsAfter(v)
<1>1. p = {row \in first .. head : row < first + PageSize}
  BY DEF EventsAfter
<1>2. first \in Nat /\ first > v /\ first > walFloor /\ first >= 1
  OBVIOUS
<1>3. v < head /\ walFloor < head => first <= head
  OBVIOUS
<1>4. \A r \in 1 .. head : r > v /\ r < first => r <= walFloor
  OBVIOUS
<1>5. PageSize \in Nat \ {0}
  BY LimitsAssumption
<1>. HIDE DEF first, p
<1>6. ASSUME Last(p), first <= head PROVE head \in p
  <2>1. SUFFICES ASSUME first + PageSize <= head PROVE FALSE
    BY <1>1, <1>2, <1>5, <1>6
  <2>2. p = first .. first + PageSize - 1
    BY <1>1, <1>2, <1>5, <2>1
  <2>3. Cardinality(p) = PageSize
    BY <1>2, <1>5, <2>2, FS_Interval
  <2>. QED  BY <1>5, <1>6, <2>3 DEF Last
<1>7. first <= head => first \in p
  BY <1>1, <1>2, <1>5
<1>8. \A r \in p : r \in 1 .. head /\ r >= first
  BY <1>1, <1>2
<1>9. ASSUME NEW r \in 1 .. head, r > v, r \notin p, NEW q \in p, q > r PROVE r <= walFloor
  BY <1>1, <1>2, <1>4, <1>5, <1>9
<1>. QED  BY <1>2, <1>3, <1>6, <1>7, <1>8, <1>9 DEF p

-----------------------------------------------------------------------------
(* Types *)

LEMMA IdleType == Idle.at = "idle" /\ ~Idle.sync /\ Idle.after = 0 /\ Idle.page = {}
  BY DEF Idle

LEMMA QueryingType ==
    ASSUME TypeOK, NEW v \in 0 .. head, NEW b \in BOOLEAN
    PROVE  Querying(v, b) \in TaskType
  BY DEF TypeOK, TaskType, Querying

LEMMA FixedTasks == TypeOK => Idle \in TaskType /\ AwaitSnapshot \in TaskType
  BY DEF TypeOK, TaskType, Idle, AwaitSnapshot

LEMMA TaskIsTyped ==
    ASSUME TypeOK, NEW c \in Conns, NEW s \in Slots
    PROVE  /\ task[c][s] \in TaskType
           /\ task[c][s].at \in {"idle", "snapshot", "query", "page"}
           /\ task[c][s].sync \in BOOLEAN
           /\ task[c][s].after \in 0 .. head
           /\ task[c][s].page \in SUBSET (1 .. head)
  BY DEF TypeOK, TaskType

LEMMA HubTaskIsTyped ==
    ASSUME TypeOK, NEW s \in HubSlots
    PROVE  /\ hubTask[s] \in TaskType
           /\ hubTask[s].after \in 0 .. head
           /\ hubTask[s].page \in SUBSET (1 .. head)
  BY DEF TypeOK, TaskType

\* One call of a connection changes.
LEMMA TaskReplaced ==
    ASSUME TypeOK, NEW c \in Conns, NEW s \in Slots, NEW r \in TaskType,
           task' = [task EXCEPT ![c][s] = r]
    PROVE  /\ task' \in [Conns -> [Slots -> TaskType]]
           /\ \A d \in Conns, t \in Slots :
                 task'[d][t] = IF d = c /\ t = s THEN r ELSE task[d][t]
  BY DEF TypeOK

LEMMA VersionsGrow ==
    ASSUME TypeOK, head' \in Nat, head <= head'
    PROVE  /\ TaskType \subseteq TaskType'
           /\ 0 .. head \subseteq 0 .. head'
           /\ 1 .. head \subseteq 1 .. head'
<1>1. 0 .. head \subseteq 0 .. head' /\ 1 .. head \subseteq 1 .. head'
  BY DEF TypeOK
<1>. QED  BY <1>1 DEF TaskType

\* What synchronize leaves of the connection.
LEMMA SynchronizeEffect ==
    ASSUME TypeOK, NEW c \in Conns, NEW s \in Slots, Synchronize(c, s)
    PROVE  /\ phase' \in [Conns -> {"new", "syncing", "ready"}]
           /\ queued' \in [Conns -> SUBSET (1 .. head)]
           /\ task' \in [Conns -> [Slots -> TaskType]]
           /\ since' \in [Conns -> 0 .. head]
           /\ failed' \subseteq Conns /\ tangled' \subseteq Conns
           /\ failed' = failed \ {c}
           /\ tangled' \ {c} = tangled \ {c}
           /\ c \notin tangled' => s # Catchup /\ \A t \in Slots \ {s} : task[c][t] = Idle
           /\ phase'[c] = "syncing" /\ queued'[c] = {} /\ since'[c] = head
           /\ \A d \in Conns \ {c} : /\ phase'[d] = phase[d]
                                    /\ queued'[d] = queued[d]
                                    /\ since'[d] = since[d]
           /\ \A d \in Conns, t \in Slots :
                 task'[d][t] = IF d = c /\ t = s THEN AwaitSnapshot ELSE task[d][t]
<1>1. AwaitSnapshot \in TaskType
  BY FixedTasks
<1>2. task' = [task EXCEPT ![c][s] = AwaitSnapshot]
  BY DEF Synchronize
<1>3. /\ task' \in [Conns -> [Slots -> TaskType]]
      /\ \A d \in Conns, t \in Slots :
            task'[d][t] = IF d = c /\ t = s THEN AwaitSnapshot ELSE task[d][t]
  BY <1>1, <1>2, TaskReplaced
<1>4. head \in 0 .. head
  BY DEF TypeOK
<1>5. /\ phase' \in [Conns -> {"new", "syncing", "ready"}]
      /\ phase'[c] = "syncing" /\ \A d \in Conns \ {c} : phase'[d] = phase[d]
  BY DEF TypeOK, Synchronize
<1>6. /\ queued' \in [Conns -> SUBSET (1 .. head)]
      /\ queued'[c] = {} /\ \A d \in Conns \ {c} : queued'[d] = queued[d]
  BY DEF TypeOK, Synchronize
<1>7. /\ since' \in [Conns -> 0 .. head]
      /\ since'[c] = head /\ \A d \in Conns \ {c} : since'[d] = since[d]
  BY <1>4 DEF TypeOK, Synchronize
<1>8. /\ failed' \subseteq Conns /\ tangled' \subseteq Conns
      /\ failed' = failed \ {c}
      /\ tangled' \ {c} = tangled \ {c}
      /\ c \notin tangled' => s # Catchup /\ \A t \in Slots \ {s} : task[c][t] = Idle
  BY DEF TypeOK, Synchronize
<1>. QED  BY <1>3, <1>5, <1>6, <1>7, <1>8

\* Where synchronize takes up the queue.
LEMMA QueueTaken ==
    ASSUME TypeOK, NEW c \in Conns, NEW v \in 0 .. head
    PROVE  LET upTo == Max({m \in v .. head : v + 1 .. m \subseteq queued[c]}) IN
           /\ upTo \in v .. head
           /\ upTo + 1 \notin queued[c]
<1>. DEFINE M == {m \in v .. head : v + 1 .. m \subseteq queued[c]}
<1>1. head \in Nat /\ queued[c] \subseteq 1 .. head
  BY DEF TypeOK
<1>2. v \in M /\ M \subseteq 0 .. head
  BY <1>1
<1>3. Max(M) \in M /\ \A m \in M : m <= Max(M)
  <2>. HIDE DEF M
  <2>. QED  BY <1>1, <1>2, MaxOfVersions
<1>4. ASSUME Max(M) + 1 \in queued[c] PROVE FALSE
  <2>. DEFINE u == Max(M)
  <2>1. u \in v .. head /\ v + 1 .. u \subseteq queued[c] /\ u + 1 \in queued[c]
    BY <1>3, <1>4
  <2>. HIDE DEF u
  <2>2. u + 1 \in v .. head /\ v + 1 .. u + 1 \subseteq queued[c]
    BY <1>1, <2>1
  <2>3. u + 1 \in M
    BY <2>2
  <2>. QED  BY <1>3, <2>1, <2>3 DEF u
<1>. QED  BY <1>3, <1>4

LEMMA ReadyEffect ==
    ASSUME TypeOK, NEW c \in Conns, NEW s \in Slots, NEW v \in 0 .. head, Ready(c, s, v)
    PROVE  /\ phase' \in [Conns -> {"new", "syncing", "ready"}]
           /\ lastSent' \in [Conns -> 0 .. head]
           /\ queued' \in [Conns -> SUBSET (1 .. head)]
           /\ task' \in [Conns -> [Slots -> TaskType]]
           /\ phase'[c] = "ready" /\ queued'[c] = {} /\ lastSent'[c] >= v
           /\ lastSent'[c] + 1 \notin queued[c]
           /\ \A d \in Conns \ {c} : /\ phase'[d] = phase[d]
                                    /\ lastSent'[d] = lastSent[d]
                                    /\ queued'[d] = queued[d]
                                    /\ \A t \in Slots : task'[d][t] = task[d][t]
           /\ task'[c][s] = Idle
           /\ \A t \in Slots \ {s} :
                 task'[c][t] = IF /\ t = Catchup /\ task[c][t] = Idle
                                  /\ \E e \in queued[c] : e > lastSent'[c]
                               THEN Querying(lastSent'[c], FALSE) ELSE task[c][t]
<1>. DEFINE upTo == Max({m \in v .. head : v + 1 .. m \subseteq queued[c]})
            gap == \E e \in queued[c] : e > upTo
            calls == [t \in Slots |->
                        IF t = s THEN Idle
                        ELSE IF t = Catchup /\ gap /\ task[c][t] = Idle THEN Querying(upTo, FALSE)
                        ELSE task[c][t]]
<1>1. upTo \in v .. head /\ upTo + 1 \notin queued[c]
  BY QueueTaken
<1>2. /\ phase' = [phase EXCEPT ![c] = "ready"]
      /\ lastSent' = [lastSent EXCEPT ![c] = upTo]
      /\ queued' = [queued EXCEPT ![c] = {}]
      /\ task' = [task EXCEPT ![c] = calls]
  BY DEF Ready
<1>3. upTo \in 0 .. head
  BY <1>1
<1>4. Querying(upTo, FALSE) \in TaskType /\ Idle \in TaskType
  <2>. HIDE DEF upTo
  <2>. QED  BY <1>3, QueryingType, FixedTasks
<1>5. calls \in [Slots -> TaskType]
  <2>. HIDE DEF upTo, gap
  <2>1. \A t \in Slots : task[c][t] \in TaskType
    BY TaskIsTyped
  <2>. QED  BY <1>4, <2>1
<1>6. /\ phase' \in [Conns -> {"new", "syncing", "ready"}]
      /\ phase'[c] = "ready" /\ \A d \in Conns \ {c} : phase'[d] = phase[d]
  <2>. HIDE DEF upTo, calls
  <2>. QED  BY <1>2 DEF TypeOK
<1>7. /\ lastSent' \in [Conns -> 0 .. head]
      /\ lastSent'[c] = upTo /\ \A d \in Conns \ {c} : lastSent'[d] = lastSent[d]
  <2>. HIDE DEF upTo, calls
  <2>. QED  BY <1>2, <1>3 DEF TypeOK
<1>8. /\ queued' \in [Conns -> SUBSET (1 .. head)]
      /\ queued'[c] = {} /\ \A d \in Conns \ {c} : queued'[d] = queued[d]
  <2>. HIDE DEF upTo, calls
  <2>. QED  BY <1>2 DEF TypeOK
<1>9. /\ task' \in [Conns -> [Slots -> TaskType]]
      /\ task'[c] = calls /\ \A d \in Conns \ {c} : task'[d] = task[d]
  <2>. HIDE DEF upTo, calls
  <2>. QED  BY <1>2, <1>5 DEF TypeOK
<1>10. task'[c][s] = Idle
  <2>. HIDE DEF upTo, gap
  <2>. QED  BY <1>9
<1>11. ASSUME NEW t \in Slots \ {s}
       PROVE  task'[c][t] = IF /\ t = Catchup /\ task[c][t] = Idle
                               /\ \E e \in queued[c] : e > lastSent'[c]
                            THEN Querying(lastSent'[c], FALSE) ELSE task[c][t]
  <2>1. gap <=> \E e \in queued[c] : e > lastSent'[c]
    <3>. HIDE DEF upTo
    <3>. QED  BY <1>7
  <2>. HIDE DEF upTo, gap
  <2>. QED  BY <1>7, <1>9, <2>1
<1>12. lastSent'[c] >= v /\ lastSent'[c] + 1 \notin queued[c]
  <2>. HIDE DEF upTo
  <2>. QED  BY <1>1, <1>7
<1>. QED  BY <1>6, <1>7, <1>8, <1>9, <1>10, <1>11, <1>12

\* What the delivery of a stretch of events changes, and what it does not.
LEMMA DeliverEffect ==
    ASSUME TypeOK, NEW E \in SUBSET (1 .. head), E # {}, Deliver(E)
    PROVE  /\ lastSent' \in [Conns -> 0 .. head]
           /\ queued' \in [Conns -> SUBSET (1 .. head)]
           /\ task' \in [Conns -> [Slots -> TaskType]]
           /\ \A c \in Conns :
                 /\ lastSent'[c] = IF c \in members /\ phase[c] = "ready" /\ lastSent[c] + 1 \in E
                                   THEN Max(E) ELSE lastSent[c]
                 /\ lastSent'[c] >= lastSent[c]
                 /\ queued'[c] = IF c \in members /\ phase[c] = "syncing"
                                 THEN queued[c] \cup E ELSE queued[c]
                 /\ \A s \in SyncSlots : task'[c][s] = task[c][s]
                 /\ task[c][Catchup] # Idle => task'[c][Catchup] = task[c][Catchup]
                 /\ task'[c][Catchup] = task[c][Catchup]
                       \/ /\ phase[c] = "ready" /\ lastSent[c] + 1 \notin E
                          /\ \E v \in E : v > lastSent[c]
                          /\ lastSent'[c] = lastSent[c]
                          /\ task'[c][Catchup] = Querying(lastSent[c], FALSE)
                 /\ c \in members /\ phase[c] = "ready" /\ lastSent[c] + 1 \notin E
                       /\ (\E v \in E : v > lastSent[c]) /\ task[c][Catchup] = Idle
                       => task'[c][Catchup] = Querying(lastSent[c], FALSE)
<1>1. Max(E) \in E /\ \A v \in E : v <= Max(E)
  <2>1. head \in Nat /\ E \in SUBSET (0 .. head)
    BY DEF TypeOK
  <2>. QED  BY <2>1, MaxOfVersions
<1>. DEFINE top == Max(E)
            missed(c) == /\ c \in members /\ phase[c] = "ready" /\ lastSent[c] + 1 \notin E
                         /\ \E v \in E : v > lastSent[c]
<1>2. top \in 0 .. head
  <2>1. top \in 1 .. head
    BY <1>1
  <2>. HIDE DEF top
  <2>. QED  BY <2>1
<1>3. /\ lastSent' = [c \in Conns |-> IF c \in members /\ phase[c] = "ready" /\ lastSent[c] + 1 \in E
                                      THEN top ELSE lastSent[c]]
      /\ queued' = [c \in Conns |-> IF c \in members /\ phase[c] = "syncing"
                                    THEN queued[c] \cup E ELSE queued[c]]
      /\ task' = [c \in Conns |->
                    IF missed(c) /\ task[c][Catchup] = Idle
                    THEN [task[c] EXCEPT ![Catchup] = Querying(lastSent[c], FALSE)]
                    ELSE task[c]]
  BY Zenon DEF Deliver
<1>. HIDE DEF top
<1>4. /\ lastSent' \in [Conns -> 0 .. head]
      /\ queued' \in [Conns -> SUBSET (1 .. head)]
  BY <1>2, <1>3 DEF TypeOK
<1>5. \A c \in Conns :
         /\ lastSent'[c] = IF c \in members /\ phase[c] = "ready" /\ lastSent[c] + 1 \in E
                           THEN top ELSE lastSent[c]
         /\ queued'[c] = IF c \in members /\ phase[c] = "syncing"
                         THEN queued[c] \cup E ELSE queued[c]
  BY <1>3
<1>6. \A c \in Conns : lastSent'[c] >= lastSent[c]
  <2>. TAKE c \in Conns
  <2>1. lastSent[c] \in 0 .. head /\ head \in Nat
    BY DEF TypeOK
  <2>2. lastSent'[c] = lastSent[c] \/ (lastSent'[c] = top /\ lastSent[c] + 1 <= top)
    BY <1>1, <1>5 DEF top
  <2>. QED  BY <1>2, <2>1, <2>2
<1>7. ASSUME NEW c \in Conns
      PROVE  /\ task'[c] \in [Slots -> TaskType]
             /\ \A s \in SyncSlots : task'[c][s] = task[c][s]
             /\ IF missed(c) /\ task[c][Catchup] = Idle
                THEN task'[c][Catchup] = Querying(lastSent[c], FALSE)
                ELSE task'[c][Catchup] = task[c][Catchup]
  <2>. DEFINE q == Querying(lastSent[c], FALSE)
              hit == missed(c) /\ task[c][Catchup] = Idle
  <2>1. q \in TaskType
    <3>1. lastSent[c] \in 0 .. head
      BY DEF TypeOK
    <3>. QED  BY <3>1, QueryingType
  <2>2. task'[c] = IF hit THEN [task[c] EXCEPT ![Catchup] = q] ELSE task[c]
    BY <1>3
  <2>3. task[c] \in [Slots -> TaskType] /\ Catchup \in Slots /\ SyncSlots \subseteq Slots \ {Catchup}
    BY SlotsAssumption DEF TypeOK, Slots
  <2>. HIDE DEF q, hit
  <2>4. /\ task'[c] \in [Slots -> TaskType]
        /\ \A s \in SyncSlots : task'[c][s] = task[c][s]
        /\ IF hit THEN task'[c][Catchup] = q ELSE task'[c][Catchup] = task[c][Catchup]
    <3>1. CASE hit
      BY <2>1, <2>2, <2>3, <3>1
    <3>2. CASE ~hit
      BY <2>2, <2>3, <3>2
    <3>. QED  BY <3>1, <3>2
  <2>. QED  BY <2>4 DEF q, hit
<1>8. task' \in [Conns -> [Slots -> TaskType]]
  <2>1. \A c \in Conns : task'[c] \in [Slots -> TaskType]
    BY <1>7
  <2>2. DOMAIN task' = Conns /\ task' = [c \in Conns |-> task'[c]]
    BY <1>3
  <2>. QED  BY <2>1, <2>2
<1>. QED
  <2>. SUFFICES ASSUME NEW c \in Conns
       PROVE  /\ task[c][Catchup] # Idle => task'[c][Catchup] = task[c][Catchup]
              /\ task'[c][Catchup] = task[c][Catchup]
                    \/ /\ phase[c] = "ready" /\ lastSent[c] + 1 \notin E
                       /\ \E v \in E : v > lastSent[c]
                       /\ lastSent'[c] = lastSent[c]
                       /\ task'[c][Catchup] = Querying(lastSent[c], FALSE)
              /\ c \in members /\ phase[c] = "ready" /\ lastSent[c] + 1 \notin E
                    /\ (\E v \in E : v > lastSent[c]) /\ task[c][Catchup] = Idle
                    => task'[c][Catchup] = Querying(lastSent[c], FALSE)
    BY <1>4, <1>5, <1>6, <1>7, <1>8 DEF top
  <2>1. CASE missed(c) /\ task[c][Catchup] = Idle
    BY <1>5, <1>7, <2>1
  <2>2. CASE ~(missed(c) /\ task[c][Catchup] = Idle)
    BY <1>7, <2>2
  <2>. QED  BY <2>1, <2>2

-----------------------------------------------------------------------------
(* The steps of a call that move what was sent *)

\* What a page adds to what was sent, and how far that gets.
NewOf(c, t)  == {v \in t.page : v > lastSent[c]}
SentBy(c, t) == IF NewOf(c, t) = {} THEN lastSent[c] ELSE Max(NewOf(c, t))
Hole(c, t)   == NewOf(c, t) # {} /\ lastSent[c] + 1 \notin NewOf(c, t)

LEMMA SentByPage ==
    ASSUME TypeOK, NEW c \in Conns, NEW s \in Slots
    PROVE  LET t == task[c][s] IN
           /\ SentBy(c, t) \in 0 .. head
           /\ SentBy(c, t) >= lastSent[c]
           /\ SentBy(c, t) \in t.page \/ (SentBy(c, t) = lastSent[c] /\ NewOf(c, t) = {})
           /\ \A v \in t.page : v <= SentBy(c, t)
<1>. DEFINE t == task[c][s]
            new == NewOf(c, t)
<1>1. t.page \in SUBSET (1 .. head) /\ lastSent[c] \in 0 .. head /\ head \in Nat
  BY TaskIsTyped DEF TypeOK
<1>2. new = {v \in t.page : v > lastSent[c]}
  BY DEF NewOf
<1>. HIDE DEF t
<1>3. new \in SUBSET (0 .. head)
  BY <1>1, <1>2
<1>4. CASE new = {}
  <2>1. SentBy(c, t) = lastSent[c]
    BY <1>4 DEF SentBy
  <2>. QED  BY <1>1, <1>2, <1>4, <2>1 DEF t
<1>5. CASE new # {}
  <2>. DEFINE top == Max(new)
  <2>1. SentBy(c, t) = top
    BY <1>5 DEF SentBy
  <2>2. top \in new /\ \A v \in new : v <= top
    BY <1>1, <1>3, <1>5, MaxOfVersions
  <2>. HIDE DEF top, new
  <2>. QED  BY <1>1, <1>2, <2>1, <2>2 DEF t, new
<1>. QED  BY <1>4, <1>5

\* The outcomes of Page: a hole, another query, the end of a synchronize, or
\* that of a catchup.
LEMMA PageCases ==
    ASSUME TypeOK, NEW c \in Conns, NEW s \in Slots, Page(c, s)
    PROVE  LET t == task[c][s] IN
           /\ t.at = "page"
           /\ UNCHANGED <<storeVars, hubVars, hubTask, open, stage>>
           /\ \/ Hole(c, t) /\ Synchronize(c, s) /\ lastSent' = lastSent
              \/ /\ ~Hole(c, t) /\ ~Last(t.page) /\ UNCHANGED <<historyVars, phase, queued>>
                 /\ lastSent' = [lastSent EXCEPT ![c] = SentBy(c, t)]
                 /\ task' = [task EXCEPT ![c][s] =
                               Querying(IF NewOf(c, t) = {} THEN t.after ELSE SentBy(c, t), t.sync)]
              \/ /\ ~Hole(c, t) /\ Last(t.page) /\ UNCHANGED historyVars
                 /\ t.sync /\ Ready(c, s, SentBy(c, t))
              \/ /\ ~Hole(c, t) /\ Last(t.page) /\ UNCHANGED <<historyVars, phase, queued>>
                 /\ ~t.sync /\ lastSent' = [lastSent EXCEPT ![c] = SentBy(c, t)]
                 /\ task' = [task EXCEPT ![c][s] = Idle]
<1>. DEFINE t == task[c][s]
            new == {v \in t.page : v > lastSent[c]}
            sent == IF new = {} THEN lastSent[c] ELSE Max(new)
<1>1. new = NewOf(c, t) /\ sent = SentBy(c, t)
  BY DEF NewOf, SentBy
<1>2. /\ t.at = "page"
      /\ UNCHANGED <<storeVars, hubVars, hubTask, open, stage>>
      /\ IF new # {} /\ lastSent[c] + 1 \notin new
         THEN Synchronize(c, s) /\ UNCHANGED lastSent
         ELSE /\ UNCHANGED historyVars
              /\ \/ /\ ~Last(t.page)
                    /\ lastSent' = [lastSent EXCEPT ![c] = sent]
                    /\ task' = [task EXCEPT ![c][s] =
                                  Querying(IF new = {} THEN t.after ELSE sent, t.sync)]
                    /\ UNCHANGED <<phase, queued>>
                 \/ /\ Last(t.page) /\ t.sync
                    /\ Ready(c, s, sent)
                 \/ /\ Last(t.page) /\ ~t.sync
                    /\ lastSent' = [lastSent EXCEPT ![c] = sent]
                    /\ task' = [task EXCEPT ![c][s] = Idle]
                    /\ UNCHANGED <<phase, queued>>
  BY Zenon DEF Page
<1>. HIDE DEF t, new, sent
<1>3. CASE new # {} /\ lastSent[c] + 1 \notin new
  <2>1. Hole(c, t) /\ Synchronize(c, s) /\ lastSent' = lastSent
    BY <1>1, <1>2, <1>3 DEF Hole
  <2>. QED  BY <1>2, <2>1 DEF t
<1>4. CASE ~(new # {} /\ lastSent[c] + 1 \notin new)
  <2>1. ~Hole(c, t) /\ UNCHANGED historyVars
    BY <1>1, <1>2, <1>4 DEF Hole
  <2>2. CASE /\ ~Last(t.page)
             /\ lastSent' = [lastSent EXCEPT ![c] = sent]
             /\ task' = [task EXCEPT ![c][s] =
                           Querying(IF new = {} THEN t.after ELSE sent, t.sync)]
             /\ UNCHANGED <<phase, queued>>
    <3>1. UNCHANGED <<historyVars, phase, queued>>
      BY <2>1, <2>2
    <3>. QED  BY <1>1, <1>2, <2>1, <2>2, <3>1 DEF t
  <2>3. CASE Last(t.page) /\ t.sync /\ Ready(c, s, sent)
    BY <1>1, <1>2, <2>1, <2>3 DEF t
  <2>4. CASE /\ Last(t.page) /\ ~t.sync
             /\ lastSent' = [lastSent EXCEPT ![c] = sent]
             /\ task' = [task EXCEPT ![c][s] = Idle]
             /\ UNCHANGED <<phase, queued>>
    <3>1. UNCHANGED <<historyVars, phase, queued>>
      BY <2>1, <2>4
    <3>. QED  BY <1>1, <1>2, <2>1, <2>4, <3>1 DEF t
  <2>. QED  BY <1>2, <1>4, <2>2, <2>3, <2>4
<1>. QED  BY <1>3, <1>4

\* The stretch that a page adds to the cursor of the hub.
LEMMA HubPageEffect ==
    ASSUME TypeOK, NEW s \in HubSlots, HubPage(s)
    PROVE  LET t   == hubTask[s]
               new == {v \in t.page : v > cursor}
           IN
           /\ t.at = "page"
           /\ UNCHANGED <<storeVars, hubOpen, members, open, stage, phase, historyVars>>
           /\ cursor' \in 0 .. head /\ cursor' >= cursor
           /\ hubTask' \in [HubSlots -> TaskType]
           /\ \A r \in HubSlots \ {s} : hubTask'[r] = hubTask[r]
           /\ \/ hubTask'[s] = Idle
              \/ \E v \in 0 .. head : /\ hubTask'[s] = Querying(v, FALSE)
                                      /\ v = t.after \/ v = cursor'
           /\ \/ /\ new = {} /\ UNCHANGED <<cursor, lastSent, queued, task>>
              \/ /\ new # {} /\ Deliver(new) /\ new \in SUBSET (1 .. head)
                 /\ cursor' \in new /\ cursor' = Max(new) /\ \A v \in new : v <= cursor'
<1>. DEFINE t == hubTask[s]
            new == {v \in t.page : v > cursor}
            next == IF Last(t.page) THEN Idle
                    ELSE Querying(IF new = {} THEN t.after ELSE cursor', FALSE)
<1>1. /\ t.at = "page"
      /\ UNCHANGED <<storeVars, hubOpen, members, open, stage, phase, historyVars>>
      /\ hubTask' = [hubTask EXCEPT ![s] = next]
      /\ IF new = {} THEN UNCHANGED <<cursor, lastSent, queued, task>>
         ELSE cursor' = Max(new) /\ Deliver(new)
  BY Zenon DEF HubPage
<1>2. t.page \in SUBSET (1 .. head) /\ t.after \in 0 .. head /\ cursor \in 0 .. head /\ head \in Nat
  BY HubTaskIsTyped DEF TypeOK
<1>3. new \in SUBSET (1 .. head) /\ new \in SUBSET (0 .. head) /\ \A v \in new : v > cursor
  BY <1>2
<1>. HIDE DEF new, t
<1>4. /\ cursor' \in 0 .. head /\ cursor' >= cursor
      /\ new # {} => cursor' \in new /\ cursor' = Max(new) /\ \A v \in new : v <= cursor'
  <2>1. CASE new = {}
    BY <1>1, <1>2, <2>1
  <2>2. CASE new # {}
    <3>1. Max(new) \in new /\ \A v \in new : v <= Max(new)
      BY <1>2, <1>3, <2>2, MaxOfVersions
    <3>2. cursor' \in new /\ \A v \in new : v <= cursor'
      BY <1>1, <2>2, <3>1
    <3>. QED  BY <1>1, <1>2, <1>3, <2>2, <3>2
  <2>. QED  BY <2>1, <2>2
<1>5. /\ next \in TaskType
      /\ \/ next = Idle
         \/ \E v \in 0 .. head : next = Querying(v, FALSE) /\ (v = t.after \/ v = cursor')
  <2>1. CASE Last(t.page)
    BY <2>1, FixedTasks
  <2>2. CASE ~Last(t.page)
    <3>. DEFINE v == IF new = {} THEN t.after ELSE cursor'
    <3>1. v \in 0 .. head /\ (v = t.after \/ v = cursor')
      BY <1>2, <1>4
    <3>. HIDE DEF v
    <3>2. Querying(v, FALSE) \in TaskType
      BY <3>1, QueryingType
    <3>3. next = Querying(v, FALSE)
      BY <2>2 DEF v
    <3>. QED  BY <3>1, <3>2, <3>3
  <2>. QED  BY <2>1, <2>2
<1>. HIDE DEF next
<1>6. /\ hubTask' \in [HubSlots -> TaskType]
      /\ hubTask'[s] = next
      /\ \A r \in HubSlots \ {s} : hubTask'[r] = hubTask[r]
  BY <1>1, <1>5 DEF TypeOK
<1>7. \/ new = {} /\ UNCHANGED <<cursor, lastSent, queued, task>>
      \/ new # {} /\ Deliver(new)
  BY <1>1
<1>. QED  BY <1>1, <1>3, <1>4, <1>5, <1>6, <1>7 DEF t, new

\* PostgreSQL runs the query of a connection's call, or of the hub's.
LEMMA QueryEffect ==
    ASSUME TypeOK, NEW c \in Conns, NEW s \in Slots, Query(c, s)
    PROVE  /\ task' \in [Conns -> [Slots -> TaskType]]
           /\ \A d \in Conns, r \in Slots : ~(d = c /\ r = s) => task'[d][r] = task[d][r]
           /\ task'[c][s].at = "page" /\ task'[c][s].after = task[c][s].after
           /\ task'[c][s].sync = task[c][s].sync
           /\ task'[c][s].page = EventsAfter(task[c][s].after)
<1>. DEFINE p == EventsAfter(task[c][s].after)
            r == [task[c][s] EXCEPT !.at = "page", !.page = p]
<1>1. task[c][s] \in TaskType /\ task[c][s].after \in 0 .. head
  BY TaskIsTyped
<1>2. p \in SUBSET (1 .. head)
  <2>1. head \in Nat /\ walFloor \in 0 .. head
    BY LimitsAssumption DEF TypeOK
  <2>. QED  BY <1>1, <2>1, PageOfWal
<1>. HIDE DEF p
<1>3. /\ r \in TaskType /\ r.at = "page" /\ r.page = p
      /\ r.after = task[c][s].after /\ r.sync = task[c][s].sync
  BY <1>1, <1>2 DEF TaskType
<1>4. task' = [task EXCEPT ![c][s] = r]
  BY DEF Query, TypeOK, p
<1>. HIDE DEF r
<1>5. /\ task' \in [Conns -> [Slots -> TaskType]]
      /\ \A d \in Conns, t \in Slots :
            task'[d][t] = IF d = c /\ t = s THEN r ELSE task[d][t]
  BY <1>3, <1>4, TaskReplaced
<1>. QED  BY <1>3, <1>5 DEF p

LEMMA HubQueryEffect ==
    ASSUME TypeOK, NEW s \in HubSlots, HubQuery(s)
    PROVE  /\ hubTask' \in [HubSlots -> TaskType]
           /\ \A r \in HubSlots \ {s} : hubTask'[r] = hubTask[r]
           /\ hubTask'[s].at = "page" /\ hubTask'[s].after = hubTask[s].after
           /\ hubTask'[s].page = EventsAfter(hubTask[s].after)
<1>. DEFINE p == EventsAfter(hubTask[s].after)
            r == [hubTask[s] EXCEPT !.at = "page", !.page = p]
<1>1. hubTask[s] \in TaskType /\ hubTask[s].after \in 0 .. head
  BY HubTaskIsTyped
<1>2. p \in SUBSET (1 .. head)
  <2>1. head \in Nat /\ walFloor \in 0 .. head
    BY LimitsAssumption DEF TypeOK
  <2>. QED  BY <1>1, <2>1, PageOfWal
<1>. HIDE DEF p
<1>3. r \in TaskType /\ r.at = "page" /\ r.page = p /\ r.after = hubTask[s].after
  BY <1>1, <1>2 DEF TaskType
<1>4. hubTask' = [hubTask EXCEPT ![s] = r]
  BY DEF HubQuery, TypeOK, p
<1>. HIDE DEF r
<1>5. hubTask' \in [HubSlots -> TaskType] /\ hubTask'[s] = r
      /\ \A d \in HubSlots \ {s} : hubTask'[d] = hubTask[d]
  BY <1>3, <1>4 DEF TypeOK
<1>. QED  BY <1>3, <1>5 DEF p

LEMMA OpenHubEffect ==
    ASSUME TypeOK, NEW v \in 0 .. head, OpenHub(v)
    PROVE  /\ hubOpen' = TRUE /\ cursor' \in 0 .. head /\ cursor' >= v
           /\ hubOpen => cursor' >= cursor /\ cursor' \in {cursor, v}
  BY DEF TypeOK, OpenHub

-----------------------------------------------------------------------------
(* The type invariant *)

LEMMA TypeInit == ASSUME Init PROVE TypeOK
<1>1. 0 \in 0 .. MaxHead
  BY LimitsAssumption
<1>2. head = 0
  BY DEF Init
<1>3. Idle \in TaskType
  BY <1>2 DEF TaskType, Idle
<1>. HIDE DEF TaskType
<1>4. hubTask \in [HubSlots -> TaskType] /\ task \in [Conns -> [Slots -> TaskType]]
  BY <1>3 DEF Init
<1>5. 0 \in 0 .. head
  BY <1>2
<1>6. /\ stage \in [Conns -> {"new", "auth", "in"}]
      /\ phase \in [Conns -> {"new", "syncing", "ready"}]
      /\ lastSent \in [Conns -> 0 .. head] /\ since \in [Conns -> 0 .. head]
      /\ queued \in [Conns -> SUBSET (1 .. head)]
  BY <1>5 DEF Init
<1>7. head \in 0 .. MaxHead /\ walFloor \in 0 .. head /\ cursor \in 0 .. head
  BY <1>1, <1>5 DEF Init
<1>8. hubOpen \in BOOLEAN /\ members \subseteq Conns /\ open \subseteq Conns
      /\ failed \subseteq Conns /\ tangled \subseteq Conns
  BY DEF Init
<1>. QED  BY <1>4, <1>6, <1>7, <1>8 DEF TypeOK

LEMMA OnlyCommits == ASSUME Next, ~Committed PROVE head' = head
<1>1. Compacted \/ Exit => head' = head
  BY DEF Compacted, Exit, storeVars
<1>2. ASSUME NEW c \in Conns, ConnStep(c) PROVE head' = head
  <2>1. Hello(c) \/ Close(c) => head' = head
    BY Zenon DEF Hello, Close, storeVars
  <2>2. ASSUME NEW s \in SyncSlots, Authenticated(c, s) \/ Recover(c, s) \/ SyncFails(c, s)
        PROVE  head' = head
    BY <2>2, Zenon DEF Authenticated, Recover, SyncFails, storeVars
  <2>3. ASSUME NEW s \in Slots, SnapshotArrives(c, s) \/ Query(c, s) \/ Page(c, s)
        PROVE  head' = head
    BY <2>3, Zenon DEF SnapshotArrives, Query, Page, storeVars
  <2>. QED  BY <1>2, <2>1, <2>2, <2>3 DEF ConnStep
<1>3. ASSUME NEW v \in 1 .. head, Event(v) PROVE head' = head
  BY <1>3, Zenon DEF Event, storeVars
<1>4. ASSUME NEW s \in HubSlots, CheckWatermarks(s) \/ HubQuery(s) \/ HubPage(s) \/ HubQueryFails(s)
      PROVE  head' = head
  BY <1>4, Zenon DEF CheckWatermarks, HubQuery, HubPage, HubQueryFails, storeVars
<1>. QED  BY <1>1, <1>2, <1>3, <1>4 DEF Next

LEMMA TypeStep == ASSUME TypeOK, [Next]_vars PROVE TypeOK'
<1>1. CASE UNCHANGED vars
  <2>1. TaskType' = TaskType
    BY <1>1 DEF TaskType, vars, storeVars
  <2>. QED  BY <1>1, <2>1 DEF TypeOK, vars, storeVars, hubVars, connVars, historyVars
<1>2. CASE Committed
  <2>1. head' = head + 1 /\ head' \in 0 .. MaxHead /\ head \in Nat
    BY <1>2, LimitsAssumption DEF TypeOK, Committed
  <2>2. /\ TaskType \subseteq TaskType'
        /\ 0 .. head \subseteq 0 .. head' /\ 1 .. head \subseteq 1 .. head'
    BY <2>1, VersionsGrow
  <2>. HIDE DEF TaskType
  <2>3. UNCHANGED <<walFloor, hubVars, hubTask, connVars, task, historyVars>>
    BY <1>2 DEF Committed
  <2>4. hubTask' \in [HubSlots -> TaskType'] /\ task' \in [Conns -> [Slots -> TaskType']]
    BY <2>2, <2>3 DEF TypeOK
  <2>5. lastSent' \in [Conns -> 0 .. head'] /\ since' \in [Conns -> 0 .. head']
    BY <2>2, <2>3 DEF TypeOK, connVars, historyVars
  <2>6. queued' \in [Conns -> SUBSET (1 .. head')]
    BY <2>2, <2>3 DEF TypeOK, connVars
  <2>7. walFloor' \in 0 .. head' /\ cursor' \in 0 .. head'
    BY <2>2, <2>3 DEF TypeOK, hubVars
  <2>. QED  BY <2>1, <2>3, <2>4, <2>5, <2>6, <2>7 DEF TypeOK, hubVars, connVars, historyVars
<1>. SUFFICES ASSUME Next, ~Committed, head' = head, TaskType' = TaskType PROVE TypeOK'
  <2>1. ~Committed /\ Next => head' = head
    BY OnlyCommits
  <2>2. head' = head => TaskType' = TaskType
    BY DEF TaskType
  <2>. QED  BY <1>1, <1>2, <2>1, <2>2
<1>. USE DEF storeVars, hubVars, connVars, historyVars
<1>3. CASE Compacted
  <2>1. walFloor' \in 0 .. head
    BY <1>3, LimitsAssumption DEF TypeOK, Compacted
  <2>. QED  BY <1>3, <2>1 DEF TypeOK, Compacted
<1>4. CASE Exit
  <2>1. Idle \in TaskType
    BY FixedTasks
  <2>. HIDE DEF TaskType
  <2>2. 0 \in 0 .. head
    BY DEF TypeOK
  <2>. QED  BY <1>4, <2>1, <2>2 DEF TypeOK, Exit
<1>5. ASSUME NEW c \in Conns, Hello(c) PROVE TypeOK'
  BY <1>5 DEF TypeOK, Hello
<1>6. ASSUME NEW c \in Conns, Close(c) PROVE TypeOK'
  <2>1. Idle \in TaskType /\ 0 \in 0 .. head
    BY FixedTasks DEF TypeOK
  <2>2. /\ hubOpen' \in BOOLEAN /\ cursor' \in 0 .. head /\ members' \subseteq Conns
        /\ hubTask' \in [HubSlots -> TaskType]
    BY <1>6, <2>1 DEF TypeOK, Close
  <2>. QED  BY <1>6, <2>2 DEF TypeOK, Close
<1>7. ASSUME NEW c \in Conns, NEW s \in SyncSlots, Authenticated(c, s) PROVE TypeOK'
  <2>1. s \in Slots /\ Synchronize(c, s) /\ OpenHub(0) /\ 0 \in 0 .. head
    BY <1>7 DEF Slots, Authenticated, TypeOK
  <2>2. hubOpen' = TRUE /\ cursor' \in 0 .. head
    BY <2>1, OpenHubEffect
  <2>. HIDE DEF TaskType
  <2>3. /\ phase' \in [Conns -> {"new", "syncing", "ready"}]
        /\ queued' \in [Conns -> SUBSET (1 .. head)]
        /\ task' \in [Conns -> [Slots -> TaskType]]
        /\ since' \in [Conns -> 0 .. head]
        /\ failed' \subseteq Conns /\ tangled' \subseteq Conns
    BY <2>1, SynchronizeEffect
  <2>. QED  BY <1>7, <2>2, <2>3 DEF TypeOK, Authenticated
<1>8. ASSUME NEW c \in Conns, NEW s \in SyncSlots, Recover(c, s) PROVE TypeOK'
  <2>1. s \in Slots /\ Synchronize(c, s)
    BY <1>8 DEF Slots, Recover
  <2>2. /\ phase' \in [Conns -> {"new", "syncing", "ready"}]
        /\ queued' \in [Conns -> SUBSET (1 .. head)]
        /\ task' \in [Conns -> [Slots -> TaskType]]
        /\ since' \in [Conns -> 0 .. head]
        /\ failed' \subseteq Conns /\ tangled' \subseteq Conns
    BY <2>1, SynchronizeEffect
  <2>. QED  BY <1>8, <2>2 DEF TypeOK, Recover
<1>9. ASSUME NEW c \in Conns, NEW s \in SyncSlots, SyncFails(c, s) PROVE TypeOK'
  <2>1. task' \in [Conns -> [Slots -> TaskType]]
    BY <1>9, FixedTasks, TaskReplaced DEF SyncFails, Slots
  <2>. QED  BY <1>9, <2>1 DEF TypeOK, SyncFails
<1>10. ASSUME NEW c \in Conns, NEW s \in Slots, SnapshotArrives(c, s) PROVE TypeOK'
  <2>1. PICK v \in 0 .. head :
           /\ lastSent' = [lastSent EXCEPT ![c] = v]
           /\ OpenHub(v)
           /\ task' = [task EXCEPT ![c][s] = Querying(v, TRUE)]
    BY <1>10 DEF SnapshotArrives
  <2>2. hubOpen' = TRUE /\ cursor' \in 0 .. head
    BY <2>1, OpenHubEffect
  <2>3. task' \in [Conns -> [Slots -> TaskType]]
    BY <2>1, QueryingType, TaskReplaced
  <2>. QED  BY <1>10, <2>1, <2>2, <2>3 DEF TypeOK, SnapshotArrives
<1>11. ASSUME NEW c \in Conns, NEW s \in Slots, Query(c, s) PROVE TypeOK'
  <2>1. task' \in [Conns -> [Slots -> TaskType]]
    BY <1>11, QueryEffect
  <2>. QED  BY <1>11, <2>1 DEF TypeOK, Query
<1>12. ASSUME NEW c \in Conns, NEW s \in Slots, Page(c, s) PROVE TypeOK'
  <2>. DEFINE t == task[c][s]
              k == IF NewOf(c, t) = {} THEN t.after ELSE SentBy(c, t)
  <2>1. SentBy(c, t) \in 0 .. head /\ t.after \in 0 .. head /\ t.sync \in BOOLEAN
    BY SentByPage, TaskIsTyped
  <2>2. k \in 0 .. head
    BY <2>1
  <2>3. Idle \in TaskType /\ Querying(k, t.sync) \in TaskType
    BY <2>1, <2>2, QueryingType, FixedTasks
  <2>4. UNCHANGED <<storeVars, hubVars, hubTask, open, stage>>
    BY <1>12, PageCases
  <2>5. CASE Synchronize(c, s) /\ lastSent' = lastSent
    <3>1. /\ phase' \in [Conns -> {"new", "syncing", "ready"}]
          /\ queued' \in [Conns -> SUBSET (1 .. head)]
          /\ task' \in [Conns -> [Slots -> TaskType]]
          /\ since' \in [Conns -> 0 .. head]
          /\ failed' \subseteq Conns /\ tangled' \subseteq Conns
      BY <2>5, SynchronizeEffect
    <3>. QED  BY <2>4, <2>5, <3>1 DEF TypeOK
  <2>6. CASE /\ UNCHANGED <<historyVars, phase, queued>>
             /\ lastSent' = [lastSent EXCEPT ![c] = SentBy(c, t)]
             /\ task' = [task EXCEPT ![c][s] = Querying(k, t.sync)]
    <3>. HIDE DEF t, k
    <3>1. task' \in [Conns -> [Slots -> TaskType]]
      BY <2>3, <2>6, TaskReplaced
    <3>2. lastSent' \in [Conns -> 0 .. head]
      BY <2>1, <2>6 DEF TypeOK
    <3>. QED  BY <2>4, <2>6, <3>1, <3>2 DEF TypeOK
  <2>7. CASE UNCHANGED historyVars /\ Ready(c, s, SentBy(c, t))
    <3>1. /\ phase' \in [Conns -> {"new", "syncing", "ready"}]
          /\ lastSent' \in [Conns -> 0 .. head]
          /\ queued' \in [Conns -> SUBSET (1 .. head)]
          /\ task' \in [Conns -> [Slots -> TaskType]]
      BY <2>1, <2>7, ReadyEffect
    <3>. QED  BY <2>4, <2>7, <3>1 DEF TypeOK
  <2>8. CASE /\ UNCHANGED <<historyVars, phase, queued>>
             /\ lastSent' = [lastSent EXCEPT ![c] = SentBy(c, t)]
             /\ task' = [task EXCEPT ![c][s] = Idle]
    <3>1. task' \in [Conns -> [Slots -> TaskType]]
      BY <2>3, <2>8, TaskReplaced
    <3>2. lastSent' \in [Conns -> 0 .. head]
      BY <2>1, <2>8 DEF TypeOK
    <3>. QED  BY <2>4, <2>8, <3>1, <3>2 DEF TypeOK
  <2>. QED  BY <1>12, <2>5, <2>6, <2>7, <2>8, PageCases
<1>13. ASSUME NEW v \in 1 .. head, Event(v) PROVE TypeOK'
  <2>1. CASE v = cursor + 1 /\ cursor' = v /\ Deliver({v}) /\ UNCHANGED hubTask
    <3>1. /\ lastSent' \in [Conns -> 0 .. head]
          /\ queued' \in [Conns -> SUBSET (1 .. head)]
          /\ task' \in [Conns -> [Slots -> TaskType]]
      BY <2>1, DeliverEffect
    <3>2. cursor' \in 0 .. head
      BY <2>1
    <3>. QED  BY <1>13, <2>1, <3>1, <3>2 DEF TypeOK, Event
  <2>2. CASE /\ \E s \in HubSlots : hubTask' = [hubTask EXCEPT ![s] = Querying(cursor, FALSE)]
             /\ UNCHANGED <<cursor, lastSent, queued, task>>
    <3>1. Querying(cursor, FALSE) \in TaskType
      BY QueryingType DEF TypeOK
    <3>2. hubTask' \in [HubSlots -> TaskType]
      BY <2>2, <3>1 DEF TypeOK
    <3>. QED  BY <1>13, <2>2, <3>2 DEF TypeOK, Event
  <2>. QED  BY <1>13, <2>1, <2>2 DEF Event
<1>14. ASSUME NEW s \in HubSlots, CheckWatermarks(s) PROVE TypeOK'
  <2>1. Querying(cursor, FALSE) \in TaskType
    BY QueryingType DEF TypeOK
  <2>. QED  BY <1>14, <2>1 DEF TypeOK, CheckWatermarks
<1>15. ASSUME NEW s \in HubSlots, HubQuery(s) PROVE TypeOK'
  <2>1. hubTask' \in [HubSlots -> TaskType]
    BY <1>15, HubQueryEffect
  <2>. QED  BY <1>15, <2>1 DEF TypeOK, HubQuery
<1>16. ASSUME NEW s \in HubSlots, HubPage(s) PROVE TypeOK'
  <2>. DEFINE new == {v \in hubTask[s].page : v > cursor}
  <2>1. /\ UNCHANGED <<storeVars, hubOpen, members, open, stage, phase, historyVars>>
        /\ cursor' \in 0 .. head
        /\ hubTask' \in [HubSlots -> TaskType]
    BY <1>16, HubPageEffect
  <2>2. /\ lastSent' \in [Conns -> 0 .. head]
        /\ queued' \in [Conns -> SUBSET (1 .. head)]
        /\ task' \in [Conns -> [Slots -> TaskType]]
    <3>1. CASE UNCHANGED <<cursor, lastSent, queued, task>>
      BY <3>1 DEF TypeOK
    <3>2. CASE new # {} /\ Deliver(new) /\ new \in SUBSET (1 .. head)
      BY <3>2, DeliverEffect
    <3>. QED  BY <1>16, <3>1, <3>2, HubPageEffect
  <2>. QED  BY <2>1, <2>2 DEF TypeOK
<1>17. ASSUME NEW s \in HubSlots, HubQueryFails(s) PROVE TypeOK'
  BY <1>17, FixedTasks DEF TypeOK, HubQueryFails
<1>. QED
  BY <1>3, <1>4, <1>5, <1>6, <1>7, <1>8, <1>9, <1>10, <1>11, <1>12, <1>13, <1>14, <1>15, <1>16, <1>17
     DEF Next, ConnStep

\* The hub, its connections and the calls under way have their types, for every
\* number of connections and of calls.
THEOREM TypeCorrect == Spec => []TypeOK
  BY TypeInit, TypeStep, PTL DEF Spec

-----------------------------------------------------------------------------
(* Settled connections are fresh *)

LEMMA WalKeptStep == ASSUME TypeOK, WalKept, [Next]_vars PROVE WalKept'
<1>1. head \in Nat /\ walFloor \in Nat /\ WalVersions \in Nat
  BY LimitsAssumption DEF TypeOK
<1>2. CASE Committed
  BY <1>1, <1>2 DEF Committed, WalKept
<1>3. CASE Compacted
  BY <1>1, <1>3 DEF Compacted, WalKept
<1>4. CASE UNCHANGED storeVars
  BY <1>4 DEF WalKept, storeVars
<1>5. ASSUME Next, ~Committed, ~Compacted PROVE UNCHANGED storeVars
  <2>1. Exit => UNCHANGED storeVars
    BY DEF Exit
  <2>2. ASSUME NEW c \in Conns, ConnStep(c) PROVE UNCHANGED storeVars
    <3>1. Hello(c) \/ Close(c) => UNCHANGED storeVars
      BY Zenon DEF Hello, Close
    <3>2. ASSUME NEW s \in SyncSlots, Authenticated(c, s) \/ Recover(c, s) \/ SyncFails(c, s)
          PROVE  UNCHANGED storeVars
      BY <3>2, Zenon DEF Authenticated, Recover, SyncFails
    <3>3. ASSUME NEW s \in Slots, SnapshotArrives(c, s) \/ Query(c, s) \/ Page(c, s)
          PROVE  UNCHANGED storeVars
      BY <3>3, Zenon DEF SnapshotArrives, Query, Page
    <3>. QED  BY <2>2, <3>1, <3>2, <3>3 DEF ConnStep
  <2>3. ASSUME NEW v \in 1 .. head, Event(v) PROVE UNCHANGED storeVars
    BY <2>3, Zenon DEF Event
  <2>4. ASSUME NEW s \in HubSlots,
               CheckWatermarks(s) \/ HubQuery(s) \/ HubPage(s) \/ HubQueryFails(s)
        PROVE  UNCHANGED storeVars
    BY <2>4, Zenon DEF CheckWatermarks, HubQuery, HubPage, HubQueryFails
  <2>. QED  BY <1>5, <2>1, <2>2, <2>3, <2>4 DEF Next
<1>6. UNCHANGED vars => UNCHANGED storeVars
  BY DEF vars
<1>. QED  BY <1>2, <1>3, <1>4, <1>5, <1>6

LEMMA StaysResponsible ==
    ASSUME TypeOK, TypeOK', NEW c \in Conns, NEW s \in Slots, Responsible(c, s),
           lastSent'[c] >= lastSent[c], since'[c] = since[c], task'[c][s] = task[c][s]
    PROVE  Responsible(c, s)'
<1>. DEFINE t == task[c][s]
<1>1. lastSent[c] \in Nat /\ lastSent'[c] \in Nat /\ t.after \in Nat
  BY TaskIsTyped DEF TypeOK
<1>2. \/ t.at = "snapshot"
      \/ /\ t.at \in {"query", "page"}
         /\ t.after <= lastSent[c]
         /\ t.at = "page" /\ Last(t.page) => \E v \in t.page : v >= since[c]
  BY DEF Responsible
<1>3. \/ t.at = "snapshot"
      \/ /\ t.at \in {"query", "page"}
         /\ t.after <= lastSent'[c]
         /\ t.at = "page" /\ Last(t.page) => \E v \in t.page : v >= since'[c]
  BY <1>1, <1>2
<1>. QED  BY <1>3 DEF Responsible

\* A step that takes nothing back and changes only calls that were not under way.
LEMMA StaysFresh ==
    ASSUME TypeOK, TypeOK', NEW c \in Conns, Fresh(c),
           lastSent'[c] >= lastSent[c], since'[c] = since[c],
           \A s \in Slots : task[c][s].at # "idle" => task'[c][s] = task[c][s]
    PROVE  Fresh(c)'
<1>1. CASE lastSent[c] >= since[c]
  <2>1. lastSent[c] \in Nat /\ lastSent'[c] \in Nat /\ since[c] \in Nat
    BY DEF TypeOK
  <2>. QED  BY <1>1, <2>1 DEF Fresh
<1>2. CASE \E s \in Slots : Responsible(c, s)
  <2>1. PICK s \in Slots : Responsible(c, s)
    BY <1>2
  <2>2. task[c][s].at # "idle"
    BY <2>1 DEF Responsible
  <2>3. Responsible(c, s)'
    BY <2>1, <2>2, StaysResponsible
  <2>. QED  BY <2>3 DEF Fresh
<1>. QED  BY <1>1, <1>2 DEF Fresh

LEMMA DeliverKeepsFresh ==
    ASSUME TypeOK, TypeOK', NEW E \in SUBSET (1 .. head), E # {}, Deliver(E),
           UNCHANGED historyVars, NEW c \in Conns, Fresh(c)
    PROVE  Fresh(c)'
<1>1. /\ lastSent'[c] >= lastSent[c]
      /\ \A s \in SyncSlots : task'[c][s] = task[c][s]
      /\ task[c][Catchup] # Idle => task'[c][Catchup] = task[c][Catchup]
  BY DeliverEffect
<1>2. \A s \in Slots : task[c][s].at # "idle" => task'[c][s] = task[c][s]
  BY <1>1, IdleType DEF Slots
<1>3. since'[c] = since[c]
  BY DEF historyVars
<1>. QED  BY <1>1, <1>2, <1>3, StaysFresh

LEMMA SynchronizeMakesFresh ==
    ASSUME TypeOK, NEW c \in Conns, NEW s \in Slots, Synchronize(c, s)
    PROVE  Fresh(c)'
<1>1. task'[c][s] = AwaitSnapshot
  BY SynchronizeEffect
<1>. QED  BY <1>1 DEF Fresh, Responsible, AwaitSnapshot

\* With at least one row kept, a query that starts where the connection is, or
\* below, ends at the head.
LEMMA QueryKeepsFresh ==
    ASSUME TypeOK, TypeOK', WalKept, WalVersions >= 1,
           NEW c \in Conns, NEW s \in Slots, Query(c, s), Fresh(c)
    PROVE  Fresh(c)'
<1>. DEFINE a == task[c][s].after
            p == EventsAfter(a)
<1>1. /\ \A d \in Conns, r \in Slots : ~(d = c /\ r = s) => task'[d][r] = task[d][r]
      /\ task'[c][s].at = "page" /\ task'[c][s].after = a
      /\ task'[c][s].page = p
  BY QueryEffect
<1>2. lastSent' = lastSent /\ since' = since /\ task[c][s].at = "query"
  BY DEF Query, connVars, historyVars
<1>3. /\ lastSent[c] \in Nat /\ since[c] \in 0 .. head /\ head \in Nat
      /\ walFloor \in 0 .. head /\ a \in 0 .. head
  BY TaskIsTyped, LimitsAssumption DEF TypeOK
<1>4. CASE lastSent[c] >= since[c]
  BY <1>2, <1>4 DEF Fresh
<1>5. ASSUME NEW r \in Slots \ {s}, Responsible(c, r) PROVE Fresh(c)'
  <2>1. task'[c][r] = task[c][r]
    BY <1>1
  <2>2. lastSent'[c] >= lastSent[c] /\ since'[c] = since[c]
    BY <1>2, <1>3
  <2>. QED  BY <1>5, <2>1, <2>2, StaysResponsible DEF Fresh
<1>6. CASE Responsible(c, s) /\ ~(lastSent[c] >= since[c])
  <2>1. a <= lastSent[c]
    BY <1>2, <1>6 DEF Responsible
  <2>2. a < head
    BY <1>3, <1>6, <2>1
  <2>3. walFloor < head
    BY <1>3, <2>2, LimitsAssumption DEF WalKept
  <2>. HIDE DEF a
  <2>4. Last(p) => head \in p
    BY <1>3, <2>2, <2>3, PageOfWal
  <2>. HIDE DEF p
  <2>5. Last(p) => \E v \in p : v >= since[c]
    BY <1>3, <2>4
  <2>6. task'[c][s].after <= lastSent'[c]
    BY <1>1, <1>2, <2>1
  <2>7. Last(task'[c][s].page) => \E v \in task'[c][s].page : v >= since'[c]
    BY <1>1, <1>2, <2>5
  <2>8. Responsible(c, s)'
    BY <1>1, <2>6, <2>7 DEF Responsible
  <2>. QED  BY <2>8 DEF Fresh
<1>. QED  BY <1>4, <1>5, <1>6 DEF Fresh

LEMMA PageKeepsFresh ==
    ASSUME TypeOK, TypeOK', NEW c \in Conns, NEW s \in Slots, Page(c, s), Fresh(c)
    PROVE  Fresh(c)'
<1>. DEFINE t == task[c][s]
            k == IF NewOf(c, t) = {} THEN t.after ELSE SentBy(c, t)
            sent == SentBy(c, t)
<1>1. /\ sent \in 0 .. head /\ sent >= lastSent[c]
      /\ \A v \in t.page : v <= sent
      /\ t.at = "page" /\ t.page \in SUBSET (1 .. head) /\ t.after \in 0 .. head
      /\ lastSent[c] \in 0 .. head /\ since[c] \in 0 .. head /\ head \in Nat
      /\ lastSent'[c] \in Nat
  BY SentByPage, PageCases, TaskIsTyped DEF TypeOK
<1>. HIDE DEF sent
<1>2. CASE Synchronize(c, s)
  BY <1>2, SynchronizeMakesFresh
\* The last page of a call that was responsible brings the connection up to date.
<1>3. ASSUME UNCHANGED historyVars, lastSent'[c] >= sent, Last(t.page),
             \A r \in Slots \ {s} : task[c][r].at # "idle" => task'[c][r] = task[c][r]
      PROVE  Fresh(c)'
  <2>1. since'[c] = since[c] /\ lastSent'[c] >= lastSent[c]
    BY <1>1, <1>3 DEF historyVars
  <2>2. CASE lastSent[c] >= since[c]
    BY <1>1, <2>1, <2>2 DEF Fresh
  <2>3. ASSUME NEW r \in Slots \ {s}, Responsible(c, r) PROVE Fresh(c)'
    <3>1. task'[c][r] = task[c][r]
      BY <1>3, <2>3 DEF Responsible
    <3>. QED  BY <2>1, <2>3, <3>1, StaysResponsible DEF Fresh
  <2>4. CASE Responsible(c, s)
    <3>1. PICK v \in t.page : v >= since[c]
      BY <1>1, <1>3, <2>4 DEF Responsible
    <3>2. v \in 1 .. head
      BY <1>1
    <3>3. lastSent'[c] >= since'[c]
      BY <1>1, <1>3, <2>1, <3>1, <3>2
    <3>. QED  BY <3>3 DEF Fresh
  <2>. QED  BY <2>2, <2>3, <2>4 DEF Fresh
<1>4. CASE /\ UNCHANGED historyVars /\ lastSent' = [lastSent EXCEPT ![c] = sent]
           /\ task' = [task EXCEPT ![c][s] = Querying(k, t.sync)]
  <2>1. since'[c] = since[c] /\ lastSent'[c] = sent
    BY <1>4 DEF historyVars, TypeOK
  <2>2. /\ task'[c][s] = Querying(k, t.sync)
        /\ \A r \in Slots \ {s} : task'[c][r] = task[c][r]
    <3>1. k \in 0 .. head /\ t.sync \in BOOLEAN
      BY <1>1, TaskIsTyped DEF sent
    <3>. HIDE DEF k, t
    <3>2. Querying(k, t.sync) \in TaskType
      BY <3>1, QueryingType
    <3>. QED  BY <1>4, <3>2, TaskReplaced
  <2>3. CASE lastSent[c] >= since[c]
    BY <1>1, <2>1, <2>3 DEF Fresh
  <2>4. ASSUME NEW r \in Slots \ {s}, Responsible(c, r) PROVE Fresh(c)'
    BY <1>1, <2>1, <2>2, <2>4, StaysResponsible DEF Fresh
  <2>5. CASE Responsible(c, s)
    <3>1. t.after <= lastSent[c]
      BY <1>1, <2>5 DEF Responsible
    <3>2. k <= lastSent'[c]
      BY <1>1, <2>1, <3>1 DEF sent
    <3>. HIDE DEF k
    <3>3. Responsible(c, s)'
      BY <2>2, <3>2 DEF Responsible, Querying
    <3>. QED  BY <3>3 DEF Fresh
  <2>. QED  BY <2>3, <2>4, <2>5 DEF Fresh
<1>5. CASE UNCHANGED historyVars /\ Last(t.page) /\ Ready(c, s, sent)
  <2>1. /\ lastSent'[c] >= sent
        /\ \A r \in Slots \ {s} :
              task'[c][r] = IF /\ r = Catchup /\ task[c][r] = Idle
                               /\ \E e \in queued[c] : e > lastSent'[c]
                            THEN Querying(lastSent'[c], FALSE) ELSE task[c][r]
    <3>1. sent \in 0 .. head /\ Ready(c, s, sent)
      BY <1>1, <1>5
    <3>. QED  BY <3>1, ReadyEffect
  <2>2. \A r \in Slots \ {s} : task[c][r].at # "idle" => task'[c][r] = task[c][r]
    BY <2>1, IdleType
  <2>. QED  BY <1>3, <1>5, <2>1, <2>2
<1>6. CASE /\ UNCHANGED historyVars /\ Last(t.page) /\ lastSent' = [lastSent EXCEPT ![c] = sent]
           /\ task' = [task EXCEPT ![c][s] = Idle]
  <2>1. lastSent'[c] >= sent
    BY <1>1, <1>6 DEF TypeOK
  <2>2. \A r \in Slots \ {s} : task'[c][r] = task[c][r]
    BY <1>6, FixedTasks, TaskReplaced
  <2>. QED  BY <1>3, <1>6, <2>1, <2>2
<1>. QED  BY <1>2, <1>4, <1>5, <1>6, PageCases DEF sent

\* A step of one connection is none of the others' business.
LEMMA ConnStepElsewhere ==
    ASSUME TypeOK, NEW c \in Conns, NEW d \in Conns \ {c}, ConnStep(c)
    PROVE  /\ lastSent'[d] = lastSent[d] /\ since'[d] = since[d]
           /\ phase'[d] = phase[d] /\ stage'[d] = stage[d] /\ queued'[d] = queued[d]
           /\ \A s \in Slots : task'[d][s] = task[d][s]
           /\ d \in open' <=> d \in open
           /\ d \in failed' <=> d \in failed
           /\ d \in tangled' <=> d \in tangled
<1>. DEFINE Same == /\ lastSent'[d] = lastSent[d] /\ since'[d] = since[d]
                    /\ phase'[d] = phase[d] /\ stage'[d] = stage[d] /\ queued'[d] = queued[d]
                    /\ \A s \in Slots : task'[d][s] = task[d][s]
                    /\ d \in open' <=> d \in open
                    /\ d \in failed' <=> d \in failed
                    /\ d \in tangled' <=> d \in tangled
<1>. USE DEF connVars, historyVars
<1>1. Hello(c) => Same
  BY DEF Hello, TypeOK
<1>2. Close(c) => Same
  BY DEF Close, TypeOK
<1>3. ASSUME NEW s \in Slots, Synchronize(c, s), lastSent' = lastSent, open' = open,
             stage'[d] = stage[d]
      PROVE  Same
  <2>1. /\ phase'[d] = phase[d] /\ queued'[d] = queued[d] /\ since'[d] = since[d]
        /\ \A t \in Slots : task'[d][t] = task[d][t]
        /\ failed' = failed \ {c} /\ tangled' \ {c} = tangled \ {c}
    BY <1>3, SynchronizeEffect
  <2>2. d \in failed' <=> d \in failed
    BY <2>1
  <2>3. d \in tangled' <=> d \in tangled
    BY <2>1
  <2>. QED  BY <1>3, <2>1, <2>2, <2>3
<1>4. ASSUME NEW s \in SyncSlots, Authenticated(c, s) \/ Recover(c, s) PROVE Same
  <2>1. s \in Slots /\ Synchronize(c, s) /\ lastSent' = lastSent /\ open' = open
    BY <1>4 DEF Authenticated, Recover, Slots
  <2>2. stage'[d] = stage[d]
    BY <1>4 DEF Authenticated, Recover, TypeOK
  <2>. QED  BY <1>3, <2>1, <2>2
<1>5. ASSUME NEW s \in SyncSlots, SyncFails(c, s) PROVE Same
  <2>1. \A t \in Slots : task'[d][t] = task[d][t]
    BY <1>5, FixedTasks, TaskReplaced DEF SyncFails, Slots
  <2>. QED  BY <1>5, <2>1 DEF SyncFails
<1>6. ASSUME NEW s \in Slots, SnapshotArrives(c, s) PROVE Same
  <2>1. PICK v \in 0 .. head : /\ lastSent' = [lastSent EXCEPT ![c] = v]
                               /\ task' = [task EXCEPT ![c][s] = Querying(v, TRUE)]
    BY <1>6 DEF SnapshotArrives
  <2>2. \A t \in Slots : task'[d][t] = task[d][t]
    BY <2>1, QueryingType, TaskReplaced
  <2>3. lastSent'[d] = lastSent[d]
    BY <2>1 DEF TypeOK
  <2>. QED  BY <1>6, <2>2, <2>3 DEF SnapshotArrives
<1>7. ASSUME NEW s \in Slots, Query(c, s) PROVE Same
  <2>1. \A t \in Slots : task'[d][t] = task[d][t]
    BY <1>7, QueryEffect
  <2>. QED  BY <1>7, <2>1 DEF Query
<1>8. ASSUME NEW s \in Slots, Page(c, s) PROVE Same
  <2>. DEFINE t == task[c][s]
              k == IF NewOf(c, t) = {} THEN t.after ELSE SentBy(c, t)
  <2>1. SentBy(c, t) \in 0 .. head /\ k \in 0 .. head /\ t.sync \in BOOLEAN
    BY SentByPage, TaskIsTyped
  <2>2. UNCHANGED <<open, stage>>
    BY <1>8, PageCases
  <2>3. CASE Synchronize(c, s) /\ lastSent' = lastSent
    BY <1>3, <2>2, <2>3
  <2>4. CASE /\ UNCHANGED <<historyVars, phase, queued>>
             /\ lastSent' = [lastSent EXCEPT ![c] = SentBy(c, t)]
             /\ \/ task' = [task EXCEPT ![c][s] = Querying(k, t.sync)]
                \/ task' = [task EXCEPT ![c][s] = Idle]
    <3>. HIDE DEF t, k
    <3>1. Querying(k, t.sync) \in TaskType /\ Idle \in TaskType
      BY <2>1, QueryingType, FixedTasks
    <3>2. \A r \in Slots : task'[d][r] = task[d][r]
      BY <2>4, <3>1, TaskReplaced
    <3>3. lastSent'[d] = lastSent[d]
      BY <2>4 DEF TypeOK
    <3>. QED  BY <2>2, <2>4, <3>2, <3>3
  <2>5. CASE UNCHANGED historyVars /\ Ready(c, s, SentBy(c, t))
    <3>1. /\ phase'[d] = phase[d] /\ lastSent'[d] = lastSent[d] /\ queued'[d] = queued[d]
          /\ \A r \in Slots : task'[d][r] = task[d][r]
      BY <2>1, <2>5, ReadyEffect
    <3>. QED  BY <2>2, <2>5, <3>1
  <2>6. \/ Synchronize(c, s) /\ lastSent' = lastSent
        \/ /\ UNCHANGED <<historyVars, phase, queued>>
           /\ lastSent' = [lastSent EXCEPT ![c] = SentBy(c, t)]
           /\ \/ task' = [task EXCEPT ![c][s] = Querying(k, t.sync)]
              \/ task' = [task EXCEPT ![c][s] = Idle]
        \/ UNCHANGED historyVars /\ Ready(c, s, SentBy(c, t))
    BY <1>8, PageCases
  <2>. HIDE DEF t, k, Same
  <2>. QED  BY <2>3, <2>4, <2>5, <2>6
<1>. QED  BY <1>1, <1>2, <1>4, <1>5, <1>6, <1>7, <1>8 DEF ConnStep

\* Steps of the hub: they move no connection back, begin no synchronization and
\* start catchups only where none is under way.
LEMMA HubStepEffect ==
    ASSUME TypeOK, NEW c \in Conns,
           \/ \E v \in 1 .. head : Event(v)
           \/ \E s \in HubSlots : CheckWatermarks(s) \/ HubQuery(s) \/ HubPage(s) \/ HubQueryFails(s)
    PROVE  /\ UNCHANGED <<storeVars, members, hubOpen, open, stage, phase, historyVars>>
           /\ \/ /\ UNCHANGED <<cursor, lastSent, queued, task>>
              \/ \E E \in SUBSET (1 .. head) :
                    /\ E # {} /\ Deliver(E)
                    /\ cursor' \in E /\ \A v \in E : cursor < v /\ v <= cursor'
                    /\ \/ E = {cursor + 1}
                       \/ \E s \in HubSlots : HubPage(s) /\ E = {u \in hubTask[s].page : u > cursor}
<1>. DEFINE Quiet == UNCHANGED <<storeVars, members, hubOpen, open, stage, phase, historyVars>>
            Stays == UNCHANGED <<cursor, lastSent, queued, task>>
            Moves == \E E \in SUBSET (1 .. head) :
                        /\ E # {} /\ Deliver(E)
                        /\ cursor' \in E /\ \A v \in E : cursor < v /\ v <= cursor'
                        /\ \/ E = {cursor + 1}
                           \/ \E s \in HubSlots : HubPage(s) /\ E = {u \in hubTask[s].page : u > cursor}
<1>1. cursor \in Nat /\ head \in Nat
  BY LimitsAssumption DEF TypeOK
<1>2. ASSUME NEW v \in 1 .. head, Event(v) PROVE Quiet /\ (Stays \/ Moves)
  <2>1. Quiet
    BY <1>2, Zenon DEF Event
  <2>2. CASE v = cursor + 1 /\ cursor' = v /\ Deliver({v})
    <3>1. {v} \in SUBSET (1 .. head) /\ {v} # {} /\ cursor' \in {v} /\ {v} = {cursor + 1}
      BY <2>2
    <3>2. \A w \in {v} : cursor < w /\ w <= cursor'
      BY <1>1, <2>2
    <3>3. Moves
      BY <2>2, <3>1, <3>2
    <3>. QED  BY <2>1, <3>3
  <2>3. CASE Stays
    BY <2>1, <2>3
  <2>. QED  BY <1>2, <2>2, <2>3 DEF Event
<1>3. ASSUME NEW s \in HubSlots, CheckWatermarks(s) \/ HubQuery(s) \/ HubQueryFails(s)
      PROVE  Quiet /\ Stays
  BY <1>3, Zenon DEF CheckWatermarks, HubQuery, HubQueryFails, hubVars, connVars
<1>4. ASSUME NEW s \in HubSlots, HubPage(s) PROVE Quiet /\ (Stays \/ Moves)
  <2>. DEFINE new == {v \in hubTask[s].page : v > cursor}
  <2>1. Quiet
    BY <1>4, HubPageEffect
  <2>2. \/ Stays
        \/ /\ new # {} /\ Deliver(new) /\ new \in SUBSET (1 .. head)
           /\ cursor' \in new /\ \A v \in new : v <= cursor'
    BY <1>4, HubPageEffect
  <2>3. \A v \in new : cursor < v
    <3>1. \A v \in hubTask[s].page : v \in Nat
      BY HubTaskIsTyped, <1>1
    <3>. QED  BY <1>1, <3>1
  <2>4. CASE new # {} /\ Deliver(new) /\ new \in SUBSET (1 .. head)
             /\ cursor' \in new /\ \A v \in new : v <= cursor'
    <3>1. \E r \in HubSlots : HubPage(r) /\ new = {v \in hubTask[r].page : v > cursor}
      BY <1>4
    <3>. HIDE DEF new
    <3>2. Moves
      BY <2>3, <2>4, <3>1
    <3>. QED  BY <2>1, <3>2
  <2>. HIDE DEF new, Moves, Stays, Quiet
  <2>. QED  BY <2>1, <2>2, <2>4
<1>. HIDE DEF Quiet, Stays, Moves
<1>5. Quiet /\ (Stays \/ Moves)
  BY <1>2, <1>3, <1>4
<1>. QED  BY <1>5 DEF Quiet, Stays, Moves

LEMMA FreshStep ==
    ASSUME TypeOK, TypeOK', WalKept, FreshInv, WalVersions >= 1, [Next]_vars
    PROVE  FreshInv'
<1>. SUFFICES ASSUME NEW c \in Conns, c \in open', c \notin failed' PROVE Fresh(c)'
  BY DEF FreshInv, TypeOK
<1>1. ASSUME c \in open, c \notin failed PROVE Fresh(c)
  BY <1>1 DEF FreshInv
<1>2. ASSUME UNCHANGED <<connVars, task, historyVars>> PROVE Fresh(c)'
  <2>1. Fresh(c) /\ lastSent' = lastSent /\ since' = since /\ task' = task
    BY <1>1, <1>2 DEF connVars, historyVars
  <2>2. lastSent'[c] >= lastSent[c]
    BY <2>1 DEF TypeOK
  <2>. QED  BY <2>1, <2>2, StaysFresh
<1>3. UNCHANGED vars \/ Committed \/ Compacted => Fresh(c)'
  BY <1>2, Zenon DEF vars, Committed, Compacted
<1>4. Exit => Fresh(c)'
  BY DEF Exit
<1>5. ASSUME NEW d \in Conns \ {c}, ConnStep(d) PROVE Fresh(c)'
  <2>1. /\ lastSent'[c] = lastSent[c] /\ since'[c] = since[c]
        /\ \A s \in Slots : task'[c][s] = task[c][s]
        /\ c \in open /\ c \notin failed
    BY <1>5, ConnStepElsewhere
  <2>2. lastSent'[c] >= lastSent[c]
    BY <2>1 DEF TypeOK
  <2>. QED  BY <1>1, <2>1, <2>2, StaysFresh
<1>6. ASSUME ConnStep(c) PROVE Fresh(c)'
  <2>1. Hello(c) => Fresh(c)'
    <3>1. Hello(c) => /\ lastSent' = lastSent /\ since' = since /\ task' = task
                      /\ open' = open /\ failed' = failed
      BY Zenon DEF Hello, historyVars
    <3>. QED  BY <1>1, <3>1, StaysFresh DEF TypeOK
  <2>2. Close(c) => Fresh(c)'
    BY DEF Close
  <2>3. ASSUME NEW s \in SyncSlots, Authenticated(c, s) \/ Recover(c, s) PROVE Fresh(c)'
    <3>1. s \in Slots /\ Synchronize(c, s)
      BY <2>3 DEF Authenticated, Recover, Slots
    <3>. QED  BY <3>1, SynchronizeMakesFresh
  <2>4. ASSUME NEW s \in SyncSlots, SyncFails(c, s) PROVE Fresh(c)'
    BY <2>4 DEF SyncFails
  <2>5. ASSUME NEW s \in Slots, SnapshotArrives(c, s) PROVE Fresh(c)'
    <3>1. PICK v \in 0 .. head : /\ lastSent' = [lastSent EXCEPT ![c] = v]
                                 /\ task' = [task EXCEPT ![c][s] = Querying(v, TRUE)]
      BY <2>5 DEF SnapshotArrives
    <3>2. task'[c][s] = Querying(v, TRUE)
      BY <3>1, QueryingType, TaskReplaced
    <3>3. lastSent'[c] = v /\ v <= v
      BY <3>1 DEF TypeOK
    <3>. QED  BY <3>2, <3>3 DEF Fresh, Responsible, Querying
  <2>6. ASSUME NEW s \in Slots, Query(c, s) PROVE Fresh(c)'
    <3>1. open' = open /\ failed' = failed
      BY <2>6 DEF Query, connVars, historyVars
    <3>. QED  BY <1>1, <2>6, <3>1, QueryKeepsFresh
  <2>7. ASSUME NEW s \in Slots, Page(c, s) PROVE Fresh(c)'
    <3>1. CASE Synchronize(c, s)
      BY <3>1, SynchronizeMakesFresh
    <3>2. CASE failed' = failed
      <4>1. open' = open
        BY <2>7, PageCases
      <4>. QED  BY <1>1, <2>7, <3>2, <4>1, PageKeepsFresh
    <3>. QED  BY <2>7, <3>1, <3>2, PageCases DEF historyVars
  <2>. QED  BY <1>6, <2>1, <2>2, <2>3, <2>4, <2>5, <2>6, <2>7 DEF ConnStep
<1>7. ASSUME \/ \E v \in 1 .. head : Event(v)
             \/ \E s \in HubSlots : CheckWatermarks(s) \/ HubQuery(s) \/ HubPage(s) \/ HubQueryFails(s)
      PROVE  Fresh(c)'
  <2>1. UNCHANGED <<open, stage, phase, historyVars>>
    BY <1>7, HubStepEffect
  <2>2. Fresh(c)
    BY <1>1, <2>1 DEF historyVars
  <2>3. CASE UNCHANGED <<cursor, lastSent, queued, task>>
    BY <1>2, <2>1, <2>3 DEF connVars
  <2>4. ASSUME NEW E \in SUBSET (1 .. head), E # {}, Deliver(E) PROVE Fresh(c)'
    BY <2>1, <2>2, <2>4, DeliverKeepsFresh
  <2>. QED  BY <1>7, <2>3, <2>4, HubStepEffect
<1>. QED  BY <1>3, <1>4, <1>5, <1>6, <1>7 DEF Next

LEMMA FreshSettles == TypeOK /\ FreshInv => SettledIsFresh
<1>. SUFFICES ASSUME TypeOK, FreshInv, NEW c \in Conns, Settled(c)
     PROVE  lastSent[c] >= since[c]
  BY DEF SettledIsFresh
<1>1. Fresh(c)
  BY DEF FreshInv, Settled
<1>2. \A s \in Slots : ~Responsible(c, s)
  BY IdleType DEF Settled, Responsible
<1>. QED  BY <1>1, <1>2 DEF Fresh

LEMMA FreshInit == ASSUME Init PROVE WalKept /\ FreshInv
  BY DEF Init, WalKept, FreshInv, Fresh

\* While compaction keeps a row (WAL_RETENTION_VERSIONS of at least 1), a client
\* that asked for a synchronization has, once its connection is settled, every
\* version committed before it asked: for any number of calls of the connection
\* under way, stale snapshots, page sizes and compactions between two pages.
THEOREM SettledFresh == WalVersions >= 1 /\ Spec => []SettledIsFresh
<1>. SUFFICES ASSUME WalVersions >= 1 PROVE Spec => []SettledIsFresh
  OBVIOUS
<1>. DEFINE I == TypeOK /\ WalKept /\ FreshInv
<1>1. Init => I
  BY TypeInit, FreshInit
<1>2. I /\ [Next]_vars => I'
  BY TypeStep, WalKeptStep, FreshStep
<1>3. I => SettledIsFresh
  BY FreshSettles
<1>. QED  BY <1>1, <1>2, <1>3, PTL DEF Spec

-----------------------------------------------------------------------------
(* What the hub counts as delivered was sent *)

LEMMA JoinedStep == ASSUME TypeOK, Joined, [Next]_vars PROVE Joined'
<1>. SUFFICES ASSUME NEW c \in Conns, c \in open', stage'[c] = "in" PROVE c \in members' /\ hubOpen'
  <2>1. open' \subseteq Conns
    BY TypeStep DEF TypeOK
  <2>. QED  BY <2>1 DEF Joined
<1>1. ASSUME c \in open, stage[c] = "in" PROVE c \in members /\ hubOpen
  BY <1>1 DEF Joined
<1>2. ASSUME UNCHANGED <<members, hubOpen, open, stage>> PROVE c \in members' /\ hubOpen'
  BY <1>1, <1>2
<1>3. UNCHANGED vars \/ Committed \/ Compacted => c \in members' /\ hubOpen'
  BY <1>2, Zenon DEF vars, Committed, Compacted, hubVars, connVars
<1>4. Exit => c \in members' /\ hubOpen'
  BY DEF Exit
<1>5. ASSUME NEW d \in Conns, ConnStep(d) PROVE c \in members' /\ hubOpen'
  <2>1. Hello(d) => c \in members' /\ hubOpen'
    BY <1>1 DEF Hello, TypeOK, hubVars
  <2>2. Close(d) => c \in members' /\ hubOpen'
    <3>1. SUFFICES ASSUME Close(d) PROVE c \in members' /\ hubOpen'
      OBVIOUS
    <3>2. c # d /\ c \in members /\ hubOpen
      BY <1>1, <3>1 DEF Close
    <3>. QED  BY <3>1, <3>2 DEF Close, hubVars
  <2>3. ASSUME NEW s \in SyncSlots, Authenticated(d, s) PROVE c \in members' /\ hubOpen'
    <3>1. hubOpen' = TRUE /\ members' = members \cup {d} /\ open' = open
          /\ stage' = [stage EXCEPT ![d] = "in"]
      BY <2>3 DEF Authenticated, OpenHub
    <3>2. c # d => c \in members
      BY <1>1, <3>1 DEF TypeOK
    <3>. QED  BY <3>1, <3>2
  <2>4. ASSUME NEW s \in SyncSlots, Recover(d, s) \/ SyncFails(d, s) PROVE c \in members' /\ hubOpen'
    BY <1>2, <2>4, Zenon DEF Recover, SyncFails, hubVars, connVars
  <2>5. ASSUME NEW s \in Slots, SnapshotArrives(d, s) PROVE c \in members' /\ hubOpen'
    <3>1. hubOpen' = TRUE /\ UNCHANGED <<members, open, stage>>
      BY <2>5 DEF SnapshotArrives, OpenHub
    <3>. QED  BY <1>1, <3>1
  <2>6. ASSUME NEW s \in Slots, Query(d, s) PROVE c \in members' /\ hubOpen'
    BY <1>2, <2>6, Zenon DEF Query, hubVars, connVars
  <2>7. ASSUME NEW s \in Slots, Page(d, s) PROVE c \in members' /\ hubOpen'
    BY <1>2, <2>7, PageCases DEF hubVars
  <2>. QED  BY <1>5, <2>1, <2>2, <2>3, <2>4, <2>5, <2>6, <2>7 DEF ConnStep
<1>6. ASSUME \/ \E v \in 1 .. head : Event(v)
             \/ \E s \in HubSlots : CheckWatermarks(s) \/ HubQuery(s) \/ HubPage(s) \/ HubQueryFails(s)
      PROVE  c \in members' /\ hubOpen'
  <2>1. UNCHANGED <<members, hubOpen, open, stage>>
    BY <1>6, HubStepEffect
  <2>. QED  BY <1>2, <2>1
<1>. QED  BY <1>3, <1>4, <1>5, <1>6 DEF Next

LEMMA GreetedStep == ASSUME TypeOK, TypeOK', Greeted, [Next]_vars PROVE Greeted'
<1>. SUFFICES ASSUME NEW c \in Conns, stage'[c] # "in"
              PROVE  phase'[c] = "new" /\ \A s \in Slots : task'[c][s] = Idle
  BY DEF Greeted
<1>1. ASSUME stage[c] # "in" PROVE phase[c] = "new" /\ \A s \in Slots : task[c][s] = Idle
  BY <1>1 DEF Greeted
<1>2. ASSUME UNCHANGED <<stage, phase, task>>
      PROVE  phase'[c] = "new" /\ \A s \in Slots : task'[c][s] = Idle
  BY <1>1, <1>2
<1>3. CASE UNCHANGED vars \/ Committed \/ Compacted
  BY <1>2, <1>3, Zenon DEF vars, Committed, Compacted, connVars
<1>4. CASE Exit
  <2>1. /\ phase' = phase /\ \A s \in Slots : task'[c][s] = Idle
        /\ stage'[c] = IF stage[c] = "auth" THEN "new" ELSE stage[c]
    BY <1>4 DEF Exit
  <2>. QED  BY <1>1, <2>1
<1>5. ASSUME NEW d \in Conns \ {c}, ConnStep(d)
      PROVE  phase'[c] = "new" /\ \A s \in Slots : task'[c][s] = Idle
  <2>1. phase'[c] = phase[c] /\ stage'[c] = stage[c] /\ \A s \in Slots : task'[c][s] = task[c][s]
    BY <1>5, ConnStepElsewhere
  <2>. QED  BY <1>1, <2>1
<1>6. CASE ConnStep(c)
  <2>1. ASSUME Hello(c) PROVE stage[c] # "in" /\ UNCHANGED <<phase, task>>
    BY <2>1, Zenon DEF Hello
  <2>2. ASSUME Close(c) PROVE UNCHANGED <<stage, phase, task>>
    BY <2>2, Zenon DEF Close
  <2>3. ASSUME NEW s \in SyncSlots PROVE ~Authenticated(c, s)
    BY DEF Authenticated, TypeOK
  <2>4. ASSUME stage[c] # "in", NEW s \in Slots
        PROVE  /\ ~Recover(c, s) /\ ~SyncFails(c, s)
               /\ ~SnapshotArrives(c, s) /\ ~Query(c, s) /\ ~Page(c, s)
    BY <1>1, <2>4, IdleType DEF Recover, SyncFails, SnapshotArrives, Query, Page
  <2>5. ASSUME NEW s \in Slots,
               \/ Recover(c, s) \/ SyncFails(c, s)
               \/ SnapshotArrives(c, s) \/ Query(c, s) \/ Page(c, s)
        PROVE  stage' = stage
    <3>1. Page(c, s) => stage' = stage
      BY PageCases, Zenon
    <3>. QED  BY <2>5, <3>1, Zenon DEF Recover, SyncFails, SnapshotArrives, Query, connVars
  <2>6. SyncSlots \subseteq Slots
    BY DEF Slots
  <2>7. Hello(c) \/ Close(c)
    <3>1. ASSUME NEW s \in Slots,
                 \/ Recover(c, s) \/ SyncFails(c, s)
                 \/ SnapshotArrives(c, s) \/ Query(c, s) \/ Page(c, s)
          PROVE  FALSE
      BY <2>4, <2>5, <3>1
    <3>. QED  BY <1>6, <2>3, <2>6, <3>1 DEF ConnStep
  <2>. QED  BY <1>1, <1>2, <2>1, <2>2, <2>7
<1>7. CASE \/ \E v \in 1 .. head : Event(v)
           \/ \E s \in HubSlots : CheckWatermarks(s) \/ HubQuery(s) \/ HubPage(s) \/ HubQueryFails(s)
  <2>1. UNCHANGED <<stage, phase>>
    BY <1>7, HubStepEffect
  <2>2. phase[c] = "new" /\ \A s \in Slots : task[c][s] = Idle
    BY <1>1, <2>1
  <2>3. ASSUME NEW E \in SUBSET (1 .. head), E # {}, Deliver(E)
        PROVE  \A s \in Slots : task'[c][s] = Idle
    <3>1. /\ \A s \in SyncSlots : task'[c][s] = task[c][s]
          /\ task'[c][Catchup] = task[c][Catchup] \/ phase[c] = "ready"
      BY <2>3, DeliverEffect
    <3>. QED  BY <2>2, <3>1 DEF Slots
  <2>4. CASE UNCHANGED task
    BY <2>1, <2>2, <2>4
  <2>5. UNCHANGED task \/ \E E \in SUBSET (1 .. head) : E # {} /\ Deliver(E)
    BY <1>7, HubStepEffect
  <2>. QED  BY <2>1, <2>2, <2>3, <2>4, <2>5
<1>. QED  BY <1>3, <1>4, <1>5, <1>6, <1>7 DEF Next

\* A call of the hub that does not move, while the hub and the WAL go on.
LEMMA HubRowStays ==
    ASSUME TypeOK, NEW s \in HubSlots, HubRow(s), hubTask'[s] = hubTask[s],
           hubOpen => hubOpen' /\ cursor' >= cursor,
           cursor' \in Nat, walFloor' \in Nat, walFloor' >= walFloor
    PROVE  HubRow(s)'
<1>. DEFINE t == hubTask[s]
<1>1. SUFFICES ASSUME t.at # "idle"
      PROVE  /\ hubOpen' /\ t.after <= cursor'
             /\ t.at = "page" =>
                   \A v \in 1 .. head' :
                      v > t.after /\ v \notin t.page /\ (\E w \in t.page : w > v)
                         => v <= walFloor'
  BY DEF HubRow
<1>2. /\ hubOpen /\ t.after <= cursor
      /\ t.at = "page" =>
            \A v \in 1 .. head :
               v > t.after /\ v \notin t.page /\ (\E w \in t.page : w > v)
                  => v <= walFloor
  BY <1>1 DEF HubRow
<1>3. /\ t.after \in 0 .. head /\ t.page \in SUBSET (1 .. head)
      /\ cursor \in Nat /\ walFloor \in Nat /\ head \in Nat
  BY HubTaskIsTyped, LimitsAssumption DEF TypeOK
<1>. HIDE DEF t
<1>4. hubOpen' /\ t.after <= cursor'
  BY <1>2, <1>3
<1>5. ASSUME t.at = "page", NEW v \in 1 .. head', v > t.after, v \notin t.page,
             NEW w \in t.page, w > v
      PROVE  v <= walFloor'
  <2>1. v \in 1 .. head
    BY <1>3, <1>5
  <2>2. v <= walFloor
    BY <1>2, <1>5, <2>1
  <2>. QED  BY <1>3, <2>1, <2>2
<1>. QED  BY <1>4, <1>5 DEF t

LEMMA HubRowsStep == ASSUME TypeOK, TypeOK', HubRows, [Next]_vars PROVE HubRows'
<1>. SUFFICES ASSUME NEW s \in HubSlots PROVE HubRow(s)'
  BY DEF HubRows
<1>1. HubRow(s)
  BY DEF HubRows
<1>2. /\ cursor \in Nat /\ cursor' \in Nat /\ walFloor \in 0 .. head /\ walFloor' \in Nat
      /\ head \in Nat /\ cursor \in 0 .. head
  BY LimitsAssumption DEF TypeOK
<1>3. ASSUME UNCHANGED <<hubTask, hubOpen, cursor>>, walFloor' >= walFloor PROVE HubRow(s)'
  BY <1>1, <1>2, <1>3, HubRowStays
<1>4. UNCHANGED vars \/ Committed \/ Compacted => HubRow(s)'
  <2>1. UNCHANGED vars \/ Committed \/ Compacted => UNCHANGED <<hubTask, hubOpen, cursor>>
    BY Zenon DEF vars, Committed, Compacted, hubVars
  <2>2. UNCHANGED vars \/ Committed \/ Compacted => walFloor' >= walFloor
    BY <1>2 DEF vars, Committed, Compacted, storeVars
  <2>. QED  BY <1>3, <2>1, <2>2
<1>5. ASSUME hubTask'[s] = Idle PROVE HubRow(s)'
  BY <1>5, IdleType DEF HubRow
<1>6. Exit => HubRow(s)'
  BY <1>5 DEF Exit
<1>7. ASSUME NEW d \in Conns, ConnStep(d) PROVE HubRow(s)'
  <2>1. Hello(d) => HubRow(s)'
    BY <1>2, <1>3 DEF Hello, hubVars, storeVars
  <2>2. Close(d) => HubRow(s)'
    <3>1. Close(d) => UNCHANGED <<hubTask, hubOpen, cursor>> \/ hubTask'[s] = Idle
      BY DEF Close, hubVars
    <3>2. Close(d) => walFloor' >= walFloor
      BY <1>2 DEF Close, storeVars
    <3>. QED  BY <1>3, <1>5, <3>1, <3>2
  <2>3. ASSUME NEW v \in 0 .. head, OpenHub(v), UNCHANGED <<storeVars, hubTask>> PROVE HubRow(s)'
    <3>1. hubOpen' /\ (hubOpen => cursor' >= cursor)
      BY <2>3, OpenHubEffect
    <3>2. walFloor' >= walFloor
      BY <1>2, <2>3 DEF storeVars
    <3>. QED  BY <1>1, <1>2, <2>3, <3>1, <3>2, HubRowStays
  <2>4. ASSUME NEW r \in SyncSlots, Authenticated(d, r) PROVE HubRow(s)'
    <3>1. 0 \in 0 .. head
      BY <1>2
    <3>. QED  BY <2>3, <2>4, <3>1 DEF Authenticated
  <2>5. ASSUME NEW r \in SyncSlots, Recover(d, r) \/ SyncFails(d, r) PROVE HubRow(s)'
    <3>1. UNCHANGED <<hubTask, hubOpen, cursor, walFloor>>
      BY <2>5, Zenon DEF Recover, SyncFails, hubVars, storeVars
    <3>. QED  BY <1>2, <1>3, <3>1
  <2>6. ASSUME NEW r \in Slots, SnapshotArrives(d, r) PROVE HubRow(s)'
    BY <2>3, <2>6 DEF SnapshotArrives
  <2>7. ASSUME NEW r \in Slots, Query(d, r) PROVE HubRow(s)'
    <3>1. UNCHANGED <<hubTask, hubOpen, cursor, walFloor>>
      BY <2>7, Zenon DEF Query, hubVars, storeVars
    <3>. QED  BY <1>2, <1>3, <3>1
  <2>8. ASSUME NEW r \in Slots, Page(d, r) PROVE HubRow(s)'
    <3>1. UNCHANGED <<hubTask, hubOpen, cursor, walFloor>>
      BY <2>8, PageCases DEF hubVars, storeVars
    <3>. QED  BY <1>2, <1>3, <3>1
  <2>. QED  BY <1>7, <2>1, <2>2, <2>4, <2>5, <2>6, <2>7, <2>8 DEF ConnStep
\* A call of the hub that starts, or goes on, after version v.
<1>8. ASSUME NEW v \in 0 .. head, v <= cursor', hubOpen', hubTask'[s] = Querying(v, FALSE)
      PROVE  HubRow(s)'
  BY <1>8 DEF HubRow, Querying
<1>9. ASSUME NEW v \in 1 .. head, Event(v) PROVE HubRow(s)'
  <2>1. hubOpen /\ hubOpen' = hubOpen /\ walFloor' = walFloor
    BY <1>9, Zenon DEF Event, storeVars
  <2>2. CASE cursor' = v /\ v = cursor + 1 /\ UNCHANGED hubTask
    <3>1. cursor' >= cursor /\ walFloor' >= walFloor
      BY <1>2, <2>1, <2>2
    <3>. QED  BY <1>1, <1>2, <2>1, <2>2, <3>1, HubRowStays
  <2>3. CASE /\ cursor' = cursor
             /\ \E r \in HubSlots : hubTask' = [hubTask EXCEPT ![r] = Querying(cursor, FALSE)]
    <3>1. hubTask'[s] = hubTask[s] \/ hubTask'[s] = Querying(cursor, FALSE)
      BY <2>3 DEF TypeOK
    <3>2. cursor' >= cursor /\ walFloor' >= walFloor
      BY <1>2, <2>1, <2>3
    <3>. QED  BY <1>1, <1>2, <1>8, <2>1, <2>3, <3>1, <3>2, HubRowStays
  <2>. QED  BY <1>9, <2>2, <2>3 DEF Event
<1>10. ASSUME NEW r \in HubSlots, CheckWatermarks(r) PROVE HubRow(s)'
  <2>1. /\ hubOpen /\ hubOpen' = hubOpen /\ cursor' = cursor /\ walFloor' = walFloor
        /\ hubTask' = [hubTask EXCEPT ![r] = Querying(cursor, FALSE)]
    BY <1>10, Zenon DEF CheckWatermarks, storeVars, hubVars
  <2>2. hubTask'[s] = hubTask[s] \/ hubTask'[s] = Querying(cursor, FALSE)
    BY <2>1 DEF TypeOK
  <2>3. cursor' >= cursor /\ walFloor' >= walFloor
    BY <1>2, <2>1
  <2>. QED  BY <1>1, <1>2, <1>8, <2>1, <2>2, <2>3, HubRowStays
<1>11. ASSUME NEW r \in HubSlots, HubQuery(r) PROVE HubRow(s)'
  <2>1. UNCHANGED <<hubOpen, cursor, walFloor, head>> /\ hubTask[r].at = "query"
    BY <1>11, Zenon DEF HubQuery, storeVars, hubVars
  <2>2. CASE r # s
    <3>1. hubTask'[s] = hubTask[s]
      BY <1>11, <2>2, HubQueryEffect
    <3>2. cursor' >= cursor /\ walFloor' >= walFloor
      BY <1>2, <2>1
    <3>. QED  BY <1>1, <1>2, <2>1, <3>1, <3>2, HubRowStays
  <2>3. CASE r = s
    <3>. DEFINE a == hubTask[s].after
                p == EventsAfter(a)
    <3>1. /\ hubTask'[s].at = "page" /\ hubTask'[s].after = a /\ hubTask'[s].page = p
      BY <1>11, <2>3, HubQueryEffect
    <3>2. hubOpen /\ a <= cursor /\ a \in 0 .. head
      BY <1>1, <2>1, <2>3, HubTaskIsTyped DEF HubRow
    <3>. HIDE DEF a
    <3>3. \A v \in 1 .. head : v > a /\ v \notin p /\ (\E w \in p : w > v) => v <= walFloor
      BY <1>2, <3>2, PageOfWal
    <3>. HIDE DEF p
    <3>. QED  BY <2>1, <3>1, <3>2, <3>3 DEF HubRow
  <2>. QED  BY <2>2, <2>3
<1>12. ASSUME NEW r \in HubSlots, HubPage(r) PROVE HubRow(s)'
  <2>1. /\ hubTask[r].at = "page" /\ hubOpen' = hubOpen /\ walFloor' = walFloor
        /\ cursor' >= cursor
    BY <1>12, HubPageEffect DEF storeVars
  <2>2. CASE r # s
    <3>1. hubTask'[s] = hubTask[s]
      <4>1. s \in HubSlots \ {r}
        BY <2>2
      <4>2. \A q \in HubSlots \ {r} : hubTask'[q] = hubTask[q]
        BY <1>12, HubPageEffect
      <4>. QED  BY <4>1, <4>2
    <3>2. walFloor' >= walFloor
      BY <1>2, <2>1
    <3>. QED  BY <1>1, <1>2, <2>1, <3>1, <3>2, HubRowStays
  <2>3. CASE r = s
    <3>1. \/ hubTask'[s] = Idle
          \/ \E v \in 0 .. head : /\ hubTask'[s] = Querying(v, FALSE)
                                  /\ v = hubTask[s].after \/ v = cursor'
      BY <1>12, <2>3, HubPageEffect
    <3>2. hubOpen /\ hubTask[s].after <= cursor /\ hubTask[s].after \in 0 .. head
      BY <1>1, <2>1, <2>3, HubTaskIsTyped DEF HubRow
    <3>3. CASE hubTask'[s] = Idle
      BY <1>5, <3>3
    <3>4. ASSUME NEW v \in 0 .. head, hubTask'[s] = Querying(v, FALSE),
                 v = hubTask[s].after \/ v = cursor'
          PROVE  HubRow(s)'
      <4>1. v <= cursor'
        BY <1>2, <2>1, <3>2, <3>4
      <4>. QED  BY <1>8, <2>1, <3>2, <3>4, <4>1
    <3>. QED  BY <3>1, <3>3, <3>4
  <2>. QED  BY <2>2, <2>3
<1>13. ASSUME NEW r \in HubSlots, HubQueryFails(r) PROVE HubRow(s)'
  <2>1. UNCHANGED <<hubOpen, cursor, walFloor>> /\ hubTask' = [hubTask EXCEPT ![r] = Idle]
    BY <1>13, Zenon DEF HubQueryFails, storeVars, hubVars
  <2>2. hubTask'[s] = hubTask[s] \/ hubTask'[s] = Idle
    BY <2>1 DEF TypeOK
  <2>3. cursor' >= cursor /\ walFloor' >= walFloor
    BY <1>2, <2>1
  <2>. QED  BY <1>1, <1>2, <1>5, <2>1, <2>2, <2>3, HubRowStays
<1>. QED  BY <1>4, <1>6, <1>7, <1>9, <1>10, <1>11, <1>12, <1>13 DEF Next

\* Between the cursor and its next value the hub delivers everything but what
\* compaction has removed.
LEMMA DeliveredRows ==
    ASSUME TypeOK, HubRows, NEW s \in HubSlots, HubPage(s), NEW E \in SUBSET (1 .. head),
           E = {v \in hubTask[s].page : v > cursor}, cursor' \in E, \A v \in E : v <= cursor',
           NEW v \in 1 .. head, v > cursor, v <= cursor'
    PROVE  v \in E \/ v <= walFloor
<1>. DEFINE t == hubTask[s]
<1>1. /\ t.at = "page" /\ t.after \in 0 .. head /\ t.page \in SUBSET (1 .. head)
      /\ cursor \in Nat /\ head \in Nat
  <2>1. t.at = "page"
    BY HubPageEffect
  <2>2. t.after \in 0 .. head /\ t.page \in SUBSET (1 .. head)
    BY HubTaskIsTyped
  <2>3. cursor \in Nat /\ head \in Nat
    BY LimitsAssumption DEF TypeOK
  <2>. QED  BY <2>1, <2>2, <2>3
<1>2. /\ t.after <= cursor
      /\ \A u \in 1 .. head :
            u > t.after /\ u \notin t.page /\ (\E w \in t.page : w > u) => u <= walFloor
  BY <1>1 DEF HubRows, HubRow
<1>3. cursor' \in t.page /\ cursor' \in 1 .. head
  BY <1>1
<1>4. SUFFICES ASSUME v \notin E PROVE v <= walFloor
  OBVIOUS
<1>5. v \notin t.page
  BY <1>4
<1>6. cursor' > v
  BY <1>3, <1>4
<1>. HIDE DEF t
<1>. QED  BY <1>1, <1>2, <1>3, <1>5, <1>6

\* A step that leaves the connection and the cursor alone.
LEMMA KeepsUpStays ==
    ASSUME TypeOK, TypeOK', NEW c \in Conns, KeepsUp(c), walFloor' >= walFloor, cursor' = cursor,
           lastSent'[c] = lastSent[c], phase'[c] = phase[c], queued'[c] = queued[c],
           \A s \in Slots : task'[c][s] = task[c][s]
    PROVE  KeepsUp(c)'
<1>1. cursor \in Nat /\ walFloor \in Nat /\ walFloor' \in Nat /\ lastSent[c] \in Nat
  BY LimitsAssumption DEF TypeOK
<1>2. ASSUME NEW s \in Slots, Synchronizing(c, task[c][s]) PROVE Synchronizing(c, task[c][s])'
  <2>. DEFINE t == task[c][s]
  <2>1. \A v \in 1 .. cursor : v <= walFloor => v <= walFloor'
    BY <1>1
  <2>2. \A v : Reaches(c, t, v)' <=> Reaches(c, t, v)
    BY DEF Reaches
  <2>. HIDE DEF t
  <2>3. t' = t
    BY DEF t
  <2>. QED  BY <1>2, <2>1, <2>2, <2>3 DEF Synchronizing, t
<1>3. ASSUME MeetsHole(c, task[c][Catchup]) PROVE (MeetsHole(c, task[c][Catchup]))'
  <2>1. Catchup \in Slots
    BY DEF Slots
  <2>2. task[c][Catchup].after \in 0 .. head /\ head \in Nat
    BY <2>1, TaskIsTyped, LimitsAssumption DEF TypeOK
  <2>. DEFINE t == task[c][Catchup]
  <2>3. t' = t /\ t.after \in Nat
    BY <2>1, <2>2
  <2>. HIDE DEF t
  <2>4. (MeetsHole(c, t))' <=>
          /\ lastSent[c] < walFloor' /\ lastSent[c] < cursor
          /\ \/ t.at = "query" /\ t.after <= walFloor'
             \/ /\ t.at = "page"
                /\ lastSent[c] + 1 \notin t.page
                /\ \E v \in t.page : v > lastSent[c]
    BY <2>3 DEF MeetsHole
  <2>5. MeetsHole(c, t)
    BY <1>3 DEF t
  <2>6. (MeetsHole(c, t))'
    BY <1>1, <2>3, <2>4, <2>5 DEF MeetsHole
  <2>. QED  BY <2>6 DEF t
<1>4. SyncSlots \subseteq Slots /\ Catchup \in Slots
  BY DEF Slots
<1>5. CASE /\ phase[c] = "ready" /\ \A s \in SyncSlots : task[c][s] = Idle
           /\ \/ task[c][Catchup] = Idle /\ lastSent[c] >= cursor
              \/ MeetsHole(c, task[c][Catchup])
  BY <1>3, <1>4, <1>5 DEF KeepsUp
<1>6. ASSUME phase[c] = "syncing", NEW s \in SyncSlots, \A t \in Slots \ {s} : task[c][t] = Idle,
             Synchronizing(c, task[c][s])
      PROVE  KeepsUp(c)'
  <2>1. Synchronizing(c, task[c][s])'
    BY <1>2, <1>4, <1>6
  <2>. QED  BY <1>6, <2>1 DEF KeepsUp
<1>. QED  BY <1>5, <1>6 DEF KeepsUp

\* A delivery to the only connection of the hub.
LEMMA DeliverKeepsUp ==
    ASSUME TypeOK, TypeOK', NEW c \in Conns, c \in members, KeepsUp(c),
           NEW E \in SUBSET (1 .. head), E # {}, Deliver(E),
           cursor' \in E, \A v \in E : cursor < v /\ v <= cursor',
           \A v \in 1 .. head : v > cursor /\ v <= cursor' => v \in E \/ v <= walFloor,
           UNCHANGED <<storeVars, phase>>
    PROVE  KeepsUp(c)'
<1>. DEFINE last == lastSent[c]
<1>1. /\ cursor \in Nat /\ cursor' \in 1 .. head /\ cursor' \in Nat /\ head \in Nat
      /\ walFloor \in Nat /\ walFloor' = walFloor /\ last \in Nat
      /\ queued[c] \in SUBSET (1 .. head)
  BY LimitsAssumption DEF TypeOK, storeVars
<1>2. /\ cursor < cursor'
      /\ \A v \in E : v \in Nat /\ v \in 1 .. head /\ cursor < v /\ v <= cursor'
  BY <1>1
<1>3. Max(E) = cursor'
  <2>1. E \in SUBSET (0 .. head)
    BY <1>1
  <2>2. Max(E) \in E /\ \A v \in E : v <= Max(E)
    BY <1>1, <2>1, MaxOfVersions
  <2>. DEFINE top == Max(E)
  <2>3. top \in E /\ \A v \in E : v <= top
    BY <2>2
  <2>. HIDE DEF top
  <2>4. top \in 1 .. head /\ top <= cursor' /\ cursor' <= top
    BY <2>3
  <2>5. top = cursor'
    BY <1>1, <2>4
  <2>. QED  BY <2>5 DEF top
<1>4. /\ lastSent'[c] = IF phase[c] = "ready" /\ last + 1 \in E THEN cursor' ELSE last
      /\ queued'[c] = IF phase[c] = "syncing" THEN queued[c] \cup E ELSE queued[c]
      /\ \A s \in SyncSlots : task'[c][s] = task[c][s]
      /\ task[c][Catchup] # Idle => task'[c][Catchup] = task[c][Catchup]
  BY <1>3, DeliverEffect
<1>5. \/ task'[c][Catchup] = task[c][Catchup]
      \/ /\ phase[c] = "ready" /\ last + 1 \notin E /\ \E v \in E : v > last
         /\ task'[c][Catchup] = Querying(last, FALSE)
  BY DeliverEffect
<1>6. /\ phase[c] = "ready" /\ last + 1 \notin E
      /\ (\E v \in E : v > last) /\ task[c][Catchup] = Idle
      => task'[c][Catchup] = Querying(last, FALSE)
  BY DeliverEffect
<1>7. SyncSlots \subseteq Slots /\ Slots = {Catchup} \cup SyncSlots
  BY DEF Slots
<1>8. phase'[c] = phase[c]
  OBVIOUS
<1>9. ASSUME phase[c] = "syncing", NEW s \in SyncSlots, \A t \in Slots \ {s} : task[c][t] = Idle,
             Synchronizing(c, task[c][s])
      PROVE  KeepsUp(c)'
  <2>. DEFINE t == task[c][s]
  <2>1. lastSent'[c] = last /\ queued'[c] = queued[c] \cup E
    BY <1>4, <1>9
  <2>2. \A r \in Slots : task'[c][r] = task[c][r]
    BY <1>4, <1>5, <1>7, <1>9
  <2>3. task'[c][s] = t /\ t.page \in SUBSET (1 .. head)
    BY <1>7, <2>2, TaskIsTyped
  <2>. HIDE DEF t
  <2>4. /\ t.sync
        /\ \A v \in queued[c] : v <= cursor
        /\ \/ t.at = "snapshot"
           \/ /\ t.at \in {"query", "page"}
              /\ t.after = last
              /\ t.at = "page" =>
                    /\ \A v \in t.page : v > last
                    /\ Last(t.page) =>
                          \A v \in 1 .. cursor :
                             Reaches(c, t, v) \/ v \in queued[c] \/ v <= walFloor
    BY <1>9 DEF Synchronizing, t
  <2>5. \A v \in queued'[c] : v <= cursor'
    <3>1. SUFFICES ASSUME NEW v \in queued[c] \cup E PROVE v <= cursor'
      BY <2>1
    <3>2. CASE v \in queued[c]
      <4>1. v \in Nat /\ v <= cursor
        BY <1>1, <2>4, <3>2
      <4>. QED  BY <1>1, <1>2, <4>1
    <3>3. CASE v \in E
      BY <1>2, <3>3
    <3>. QED  BY <3>2, <3>3
  <2>6. \A v : (v <= lastSent'[c] \/ \E w \in t.page : v <= w) <=> Reaches(c, t, v)
    BY <2>1 DEF Reaches
  <2>7. ASSUME \A v \in 1 .. cursor : Reaches(c, t, v) \/ v \in queued[c] \/ v <= walFloor,
               NEW v \in 1 .. cursor'
        PROVE  Reaches(c, t, v) \/ v \in queued'[c] \/ v <= walFloor'
    <3>1. CASE v <= cursor
      BY <1>1, <2>1, <2>7, <3>1
    <3>2. CASE v > cursor
      <4>1. v \in 1 .. head /\ v <= cursor'
        BY <1>1
      <4>2. v \in E \/ v <= walFloor
        BY <3>2, <4>1
      <4>. QED  BY <1>1, <2>1, <4>2
    <3>. QED  BY <1>1, <3>1, <3>2
  <2>8. cursor' \in queued'[c]
    BY <2>1
  <2>9. Synchronizing(c, task[c][s])'
    <3>1. (Synchronizing(c, task[c][s]))' <=>
            /\ t.sync
            /\ \A v \in queued'[c] : v <= cursor'
            /\ \/ t.at = "snapshot"
               \/ /\ t.at \in {"query", "page"}
                  /\ t.after = lastSent'[c]
                  /\ t.at = "page" =>
                        /\ \A v \in t.page : v > lastSent'[c]
                        /\ Last(t.page) =>
                              /\ Reaches(c, t, cursor') \/ cursor' \in queued'[c]
                              /\ \A v \in 1 .. cursor' :
                                    Reaches(c, t, v) \/ v \in queued'[c] \/ v <= walFloor'
      BY <2>3, <2>6, Zenon DEF Synchronizing, Reaches
    <3>. QED  BY <2>1, <2>4, <2>5, <2>7, <2>8, <3>1
  <2>10. \A r \in Slots \ {s} : task'[c][r] = Idle
    BY <1>9, <2>2
  <2>. QED  BY <1>8, <1>9, <2>9, <2>10 DEF KeepsUp
<1>10. CASE /\ phase[c] = "ready" /\ \A s \in SyncSlots : task[c][s] = Idle
            /\ task[c][Catchup] = Idle /\ last >= cursor
  <2>1. \A s \in SyncSlots : task'[c][s] = Idle
    BY <1>4, <1>10
  <2>2. CASE last + 1 \in E
    <3>1. lastSent'[c] = cursor' /\ task'[c][Catchup] = Idle
      BY <1>4, <1>5, <1>10, <2>2
    <3>. QED  BY <1>1, <1>8, <1>10, <2>1, <3>1 DEF KeepsUp
  <2>3. ASSUME last + 1 \notin E, NEW v \in E, v > last PROVE KeepsUp(c)'
    <3>1. task'[c][Catchup] = Querying(last, FALSE) /\ lastSent'[c] = last
      BY <1>4, <1>6, <1>10, <2>3
    <3>2. last + 1 \in 1 .. head /\ last + 1 > cursor /\ last + 1 <= cursor'
      <4>. HIDE DEF last
      <4>1. v \in 1 .. head /\ v <= cursor'
        BY <1>2, <2>3
      <4>. QED  BY <1>1, <1>10, <2>3, <4>1
    <3>3. last + 1 <= walFloor
      BY <2>3, <3>2
    <3>4. MeetsHole(c, task[c][Catchup])'
      BY <1>1, <3>1, <3>2, <3>3 DEF MeetsHole, Querying
    <3>. QED  BY <1>8, <1>10, <2>1, <3>4 DEF KeepsUp
  <2>4. CASE \A v \in E : ~(v > last)
    <3>0. last + 1 \notin E
      BY <1>1, <2>4
    <3>1. lastSent'[c] = last /\ task'[c][Catchup] = Idle
      BY <1>4, <1>5, <1>10, <2>4, <3>0
    <3>2. last >= cursor'
      BY <1>1, <2>4
    <3>. QED  BY <1>8, <1>10, <2>1, <3>1, <3>2 DEF KeepsUp
  <2>. QED  BY <2>2, <2>3, <2>4
<1>11. CASE /\ phase[c] = "ready" /\ \A s \in SyncSlots : task[c][s] = Idle
            /\ MeetsHole(c, task[c][Catchup])
  <2>1. \A s \in SyncSlots : task'[c][s] = Idle
    BY <1>4, <1>11
  <2>2. last + 1 \notin E
    BY <1>1, <1>11 DEF MeetsHole
  <2>3. task[c][Catchup] # Idle
    BY <1>11, IdleType DEF MeetsHole
  <2>4. lastSent'[c] = last /\ task'[c][Catchup] = task[c][Catchup]
    BY <1>4, <2>2, <2>3
  <2>5. last < cursor'
    BY <1>1, <1>2, <1>11 DEF MeetsHole
  <2>6. MeetsHole(c, task[c][Catchup])'
    BY <1>1, <1>11, <2>4, <2>5 DEF MeetsHole
  <2>. QED  BY <1>8, <1>11, <2>1, <2>6 DEF KeepsUp
<1>. QED  BY <1>9, <1>10, <1>11 DEF KeepsUp

\* A synchronize that begins while no other call is under way.
LEMMA SynchronizeKeepsUp ==
    ASSUME TypeOK, NEW c \in Conns, NEW s \in Slots, Synchronize(c, s), c \notin tangled'
    PROVE  KeepsUp(c)'
<1>1. /\ s # Catchup /\ \A t \in Slots \ {s} : task[c][t] = Idle
      /\ phase'[c] = "syncing" /\ queued'[c] = {}
      /\ \A d \in Conns, t \in Slots :
            task'[d][t] = IF d = c /\ t = s THEN AwaitSnapshot ELSE task[d][t]
  BY SynchronizeEffect
<1>2. s \in SyncSlots
  BY <1>1 DEF Slots
<1>3. task'[c][s] = AwaitSnapshot /\ \A t \in Slots \ {s} : task'[c][t] = Idle
  BY <1>1
<1>4. Synchronizing(c, task[c][s])'
  BY <1>1, <1>3 DEF Synchronizing, AwaitSnapshot
<1>. QED  BY <1>1, <1>2, <1>3, <1>4 DEF KeepsUp

\* A call that is neither idle nor a catchup is the only one.
LEMMA OnlyCall ==
    ASSUME TypeOK, NEW c \in Conns, NEW s \in Slots, KeepsUp(c), task[c][s].at # "idle"
    PROVE  \/ /\ phase[c] = "syncing" /\ s \in SyncSlots
              /\ \A t \in Slots \ {s} : task[c][t] = Idle
              /\ Synchronizing(c, task[c][s])
           \/ /\ phase[c] = "ready" /\ s = Catchup
              /\ \A t \in SyncSlots : task[c][t] = Idle
              /\ MeetsHole(c, task[c][s])
<1>1. task[c][s] # Idle
  BY IdleType
<1>2. CASE /\ phase[c] = "ready"
           /\ \A r \in SyncSlots : task[c][r] = Idle
           /\ \/ task[c][Catchup] = Idle /\ lastSent[c] >= cursor
              \/ MeetsHole(c, task[c][Catchup])
  <2>1. s = Catchup
    BY <1>1, <1>2 DEF Slots
  <2>. QED  BY <1>1, <1>2, <2>1
<1>3. ASSUME phase[c] = "syncing", NEW r \in SyncSlots, \A t \in Slots \ {r} : task[c][t] = Idle,
             Synchronizing(c, task[c][r])
      PROVE  /\ phase[c] = "syncing" /\ s \in SyncSlots
             /\ \A t \in Slots \ {s} : task[c][t] = Idle
             /\ Synchronizing(c, task[c][s])
  <2>1. s = r
    BY <1>1, <1>3
  <2>. QED  BY <1>3, <2>1
<1>. QED  BY <1>2, <1>3 DEF KeepsUp

LEMMA SnapshotKeepsUp ==
    ASSUME TypeOK, TypeOK', NEW c \in Conns, NEW s \in Slots, SnapshotArrives(c, s), KeepsUp(c), hubOpen
    PROVE  KeepsUp(c)'
<1>1. /\ task[c][s].at = "snapshot" /\ phase' = phase /\ queued' = queued
      /\ \E v \in 0 .. head : /\ lastSent' = [lastSent EXCEPT ![c] = v]
                              /\ OpenHub(v)
                              /\ task' = [task EXCEPT ![c][s] = Querying(v, TRUE)]
  BY Zenon DEF SnapshotArrives
<1>2. PICK v \in 0 .. head : /\ lastSent' = [lastSent EXCEPT ![c] = v]
                             /\ OpenHub(v)
                             /\ task' = [task EXCEPT ![c][s] = Querying(v, TRUE)]
  BY <1>1
<1>3. /\ phase[c] = "syncing" /\ s \in SyncSlots
      /\ \A t \in Slots \ {s} : task[c][t] = Idle
      /\ Synchronizing(c, task[c][s])
  <2>1. ~MeetsHole(c, task[c][s])
    BY <1>1 DEF MeetsHole
  <2>. QED  BY <1>1, <2>1, OnlyCall
<1>4. /\ task'[c][s] = Querying(v, TRUE) /\ \A t \in Slots \ {s} : task'[c][t] = Idle
  <2>1. \A t \in Slots : task'[c][t] = IF t = s THEN Querying(v, TRUE) ELSE task[c][t]
    BY <1>2, QueryingType, TaskReplaced
  <2>. QED  BY <1>3, <2>1
<1>5. lastSent'[c] = v
  BY <1>2 DEF TypeOK
<1>6. \A u \in queued'[c] : u <= cursor'
  <2>0. cursor' >= cursor
    BY <1>2, OpenHubEffect
  <2>1. cursor' >= cursor /\ cursor \in Nat /\ cursor' \in Nat /\ queued[c] \in SUBSET (1 .. head)
        /\ head \in Nat
    BY <2>0, LimitsAssumption DEF TypeOK
  <2>2. \A u \in queued[c] : u <= cursor /\ u \in Nat
    BY <1>3, <2>1 DEF Synchronizing
  <2>. QED  BY <1>1, <2>1, <2>2
<1>7. Synchronizing(c, task[c][s])'
  BY <1>4, <1>5, <1>6 DEF Synchronizing, Querying
<1>. QED  BY <1>1, <1>3, <1>4, <1>7 DEF KeepsUp

LEMMA QueryKeepsUp ==
    ASSUME TypeOK, TypeOK', WalKept, WalVersions >= 1,
           NEW c \in Conns, NEW s \in Slots, Query(c, s), KeepsUp(c)
    PROVE  KeepsUp(c)'
<1>. DEFINE a == task[c][s].after
            p == EventsAfter(a)
<1>1. /\ \A r \in Slots \ {s} : task'[c][r] = task[c][r]
      /\ task'[c][s].at = "page" /\ task'[c][s].after = a
      /\ task'[c][s].sync = task[c][s].sync /\ task'[c][s].page = p
  BY QueryEffect
<1>2. /\ task[c][s].at = "query"
      /\ UNCHANGED <<head, walFloor, cursor, lastSent, phase, queued>>
  BY Zenon DEF Query, storeVars, hubVars, connVars
<1>3. /\ a \in 0 .. head /\ head \in Nat /\ walFloor \in 0 .. head /\ cursor \in 0 .. head
      /\ lastSent[c] \in 0 .. head
  BY TaskIsTyped, LimitsAssumption DEF TypeOK
<1>4. /\ p \in SUBSET (1 .. head)
      /\ \A r \in p : r > a /\ r > walFloor
      /\ Last(p) /\ a < head /\ walFloor < head => head \in p
      /\ a < head /\ walFloor < head => p # {}
  <2>. HIDE DEF a
  <2>. QED  BY <1>3, PageOfWal
<1>5. a < head => walFloor < head
  BY <1>3, LimitsAssumption DEF WalKept
<1>6. CASE /\ phase[c] = "syncing" /\ s \in SyncSlots
           /\ \A t \in Slots \ {s} : task[c][t] = Idle
           /\ Synchronizing(c, task[c][s])
  <2>1. a = lastSent[c] /\ task[c][s].sync /\ \A v \in queued[c] : v <= cursor
    BY <1>2, <1>6 DEF Synchronizing
  <2>. HIDE DEF a, p
  <2>2. ASSUME Last(p), NEW v \in 0 .. cursor PROVE v <= lastSent[c] \/ \E w \in p : v <= w
    <3>1. CASE a < head
      <4>1. head \in p /\ v <= head
        BY <1>3, <1>4, <1>5, <2>2, <3>1
      <4>. QED  BY <4>1
    <3>2. CASE ~(a < head)
      BY <1>3, <2>1, <3>2
    <3>. QED  BY <3>1, <3>2
  <2>3. cursor \in 0 .. cursor /\ 1 .. cursor \subseteq 0 .. cursor
    BY <1>3
  <2>4. \A v \in p : v > lastSent[c]
    BY <1>4, <2>1
  <2>5. Synchronizing(c, task[c][s])'
    <3>1. (Synchronizing(c, task[c][s]))' <=>
            /\ task'[c][s].sync
            /\ \A v \in queued'[c] : v <= cursor'
            /\ \/ task'[c][s].at = "snapshot"
               \/ /\ task'[c][s].at \in {"query", "page"}
                  /\ task'[c][s].after = lastSent'[c]
                  /\ task'[c][s].at = "page" =>
                        /\ \A v \in task'[c][s].page : v > lastSent'[c]
                        /\ Last(task'[c][s].page) =>
                              /\ \/ cursor' <= lastSent'[c] \/ \E w \in task'[c][s].page : cursor' <= w
                                 \/ cursor' \in queued'[c]
                              /\ \A v \in 1 .. cursor' :
                                    \/ v <= lastSent'[c] \/ \E w \in task'[c][s].page : v <= w
                                    \/ v \in queued'[c]
                                    \/ v <= walFloor'
      BY Zenon DEF Synchronizing, Reaches
    <3>. QED  BY <1>1, <1>2, <2>1, <2>2, <2>3, <2>4, <3>1
  <2>6. \A t \in Slots \ {s} : task'[c][t] = Idle
    BY <1>1, <1>6
  <2>. QED  BY <1>2, <1>6, <2>5, <2>6 DEF KeepsUp
<1>7. CASE /\ phase[c] = "ready" /\ s = Catchup
           /\ \A t \in SyncSlots : task[c][t] = Idle
           /\ MeetsHole(c, task[c][s])
  <2>1. lastSent[c] < walFloor /\ lastSent[c] < cursor /\ a <= walFloor
    BY <1>2, <1>7 DEF MeetsHole
  <2>. HIDE DEF a, p
  <2>2. a < head /\ walFloor < head
    BY <1>3, <1>5, <2>1, LimitsAssumption DEF WalKept
  <2>3. PICK v \in p : TRUE
    BY <1>4, <2>2
  <2>4. v > lastSent[c] /\ lastSent[c] + 1 \notin p
    BY <1>3, <1>4, <2>1, <2>3
  <2>5. MeetsHole(c, task[c][s])'
    BY <1>1, <1>2, <2>1, <2>3, <2>4 DEF MeetsHole
  <2>6. \A t \in SyncSlots : task'[c][t] = Idle
    BY <1>1, <1>7, SlotsAssumption DEF Slots
  <2>. QED  BY <1>2, <1>7, <2>5, <2>6 DEF KeepsUp
<1>. QED  BY <1>2, <1>6, <1>7, OnlyCall

\* The rows of a page: a catchup that met a hole finds it, and the synchronize
\* goes on or hands over what was queued.
LEMMA PageKeepsUp ==
    ASSUME TypeOK, TypeOK', NEW c \in Conns, NEW s \in Slots, Page(c, s), KeepsUp(c), c \notin tangled'
    PROVE  KeepsUp(c)'
<1>. DEFINE t == task[c][s]
<1>1. /\ t.at = "page"
      /\ UNCHANGED <<head, walFloor, cursor>>
  BY PageCases, Zenon DEF storeVars, hubVars
<1>2. /\ t.after \in 0 .. head /\ t.page \in SUBSET (1 .. head) /\ head \in Nat /\ walFloor \in Nat
      /\ cursor \in Nat /\ lastSent[c] \in Nat /\ queued[c] \in SUBSET (1 .. head)
      /\ lastSent'[c] \in Nat /\ lastSent[c] \in 0 .. head /\ t.sync \in BOOLEAN
  BY TaskIsTyped, LimitsAssumption DEF TypeOK
<1>3. /\ SentBy(c, t) \in 0 .. head
      /\ SentBy(c, t) >= lastSent[c]
      /\ SentBy(c, t) \in t.page \/ (SentBy(c, t) = lastSent[c] /\ NewOf(c, t) = {})
      /\ \A v \in t.page : v <= SentBy(c, t)
  BY SentByPage
<1>4. \/ Synchronize(c, s)
      \/ /\ ~Hole(c, t) /\ ~Last(t.page) /\ UNCHANGED <<phase, queued>>
         /\ lastSent' = [lastSent EXCEPT ![c] = SentBy(c, t)]
         /\ task' = [task EXCEPT ![c][s] =
                       Querying(IF NewOf(c, t) = {} THEN t.after ELSE SentBy(c, t), t.sync)]
      \/ /\ ~Hole(c, t) /\ Last(t.page) /\ t.sync /\ Ready(c, s, SentBy(c, t))
      \/ ~Hole(c, t) /\ Last(t.page) /\ ~t.sync
  <2>. HIDE DEF t
  <2>. QED  BY PageCases, Zenon DEF t
<1>5. CASE Synchronize(c, s)
  BY <1>5, SynchronizeKeepsUp
<1>6. ASSUME MeetsHole(c, t) PROVE Hole(c, t)
  BY <1>1, <1>6 DEF MeetsHole, Hole, NewOf
<1>7. ASSUME ~Hole(c, t)
      PROVE  /\ phase[c] = "syncing" /\ s \in SyncSlots
             /\ \A r \in Slots \ {s} : task[c][r] = Idle
             /\ t.sync /\ t.after = lastSent[c] /\ \A v \in t.page : v > lastSent[c]
             /\ \A v \in queued[c] : v <= cursor
             /\ Last(t.page) =>
                   /\ Reaches(c, t, cursor) \/ cursor \in queued[c]
                   /\ \A v \in 1 .. cursor : Reaches(c, t, v) \/ v \in queued[c] \/ v <= walFloor
  <2>1. /\ phase[c] = "syncing" /\ s \in SyncSlots
        /\ \A r \in Slots \ {s} : task[c][r] = Idle
        /\ Synchronizing(c, t)
    BY <1>1, <1>6, <1>7, OnlyCall
  <2>. QED  BY <1>1, <2>1 DEF Synchronizing
<1>8. CASE /\ ~Hole(c, t) /\ ~Last(t.page) /\ UNCHANGED <<phase, queued>>
           /\ lastSent' = [lastSent EXCEPT ![c] = SentBy(c, t)]
           /\ task' = [task EXCEPT ![c][s] =
                         Querying(IF NewOf(c, t) = {} THEN t.after ELSE SentBy(c, t), t.sync)]
  <2>. DEFINE v == IF NewOf(c, t) = {} THEN t.after ELSE SentBy(c, t)
  <2>1. v \in 0 .. head
    BY <1>2, <1>3
  <2>2. v = SentBy(c, t)
    <3>1. t.after = lastSent[c]
      BY <1>7, <1>8
    <3>. HIDE DEF t
    <3>. QED  BY <3>1 DEF SentBy
  <2>3. t.sync = TRUE
    BY <1>2, <1>7, <1>8
  <2>. HIDE DEF t, v
  <2>4. task' = [task EXCEPT ![c][s] = Querying(v, TRUE)]
    BY <1>8, <2>3 DEF v
  <2>5. \A r \in Slots : task'[c][r] = IF r = s THEN Querying(v, TRUE) ELSE task[c][r]
    BY <2>1, <2>4, QueryingType, TaskReplaced
  <2>6. lastSent'[c] = v
    BY <1>8, <2>2 DEF TypeOK
  <2>7. task'[c][s] = Querying(v, TRUE) /\ \A r \in Slots \ {s} : task'[c][r] = Idle
    BY <1>7, <1>8, <2>5
  <2>8. phase'[c] = phase[c] /\ queued'[c] = queued[c] /\ cursor' = cursor
    BY <1>1, <1>8
  <2>9. Synchronizing(c, task[c][s])'
    BY <1>7, <1>8, <2>6, <2>7, <2>8 DEF Synchronizing, Querying
  <2>. QED  BY <1>7, <1>8, <2>7, <2>8, <2>9 DEF KeepsUp
<1>9. CASE ~Hole(c, t) /\ Last(t.page) /\ t.sync /\ Ready(c, s, SentBy(c, t))
  <2>. DEFINE u == lastSent'[c]
  <2>1. /\ phase'[c] = "ready" /\ u >= SentBy(c, t)
        /\ u + 1 \notin queued[c]
        /\ task'[c][s] = Idle
        /\ \A r \in Slots \ {s} :
              task'[c][r] = IF /\ r = Catchup /\ task[c][r] = Idle
                               /\ \E e \in queued[c] : e > lastSent'[c]
                            THEN Querying(lastSent'[c], FALSE) ELSE task[c][r]
    <3>. HIDE DEF t
    <3>. QED  BY <1>3, <1>9, ReadyEffect
  <2>2. Catchup \in Slots \ {s} /\ SyncSlots \subseteq Slots /\ Catchup \notin SyncSlots
    BY <1>7, <1>9, SlotsAssumption DEF Slots
  <2>3. \A r \in SyncSlots : task'[c][r] = Idle
    BY <1>7, <1>9, <2>1, <2>2
  <2>. HIDE DEF t, u
  <2>4. u \in Nat
    BY <1>2 DEF u
  <2>5. \A v \in 0 .. head : Reaches(c, t, v) => v <= u
    <3>1. SUFFICES ASSUME NEW v \in 0 .. head, Reaches(c, t, v) PROVE v <= u
      OBVIOUS
    <3>2. CASE v <= lastSent[c]
      BY <1>2, <1>3, <2>1, <2>4, <3>2
    <3>3. ASSUME NEW w \in t.page, v <= w PROVE v <= u
      <4>1. w <= SentBy(c, t) /\ w \in 1 .. head
        BY <1>2, <1>3
      <4>. QED  BY <1>2, <1>3, <2>1, <2>4, <3>3, <4>1
    <3>. QED  BY <3>1, <3>2, <3>3 DEF Reaches
  <2>6. CASE \E e \in queued[c] : e > u
    <3>1. PICK e \in queued[c] : e > u
      BY <2>6
    <3>2. task'[c][Catchup] = Querying(u, FALSE)
      BY <1>7, <1>9, <2>1, <2>2, <2>6 DEF u
    <3>3. e \in 1 .. head /\ e <= cursor
      BY <1>2, <1>7, <1>9
    <3>4. u + 1 \in 1 .. cursor /\ u + 1 \in 0 .. head /\ u < cursor
      BY <1>2, <2>4, <3>1, <3>3
    <3>5. ~Reaches(c, t, u + 1)
      BY <2>4, <2>5, <3>4
    <3>6. u + 1 <= walFloor
      BY <1>7, <1>9, <2>1, <3>4, <3>5
    <3>7. MeetsHole(c, task[c][Catchup])'
      BY <1>1, <1>2, <2>4, <3>2, <3>4, <3>6 DEF MeetsHole, Querying, u
    <3>. QED  BY <2>1, <2>3, <3>7 DEF KeepsUp
  <2>7. CASE ~\E e \in queued[c] : e > u
    <3>1. task'[c][Catchup] = Idle
      BY <1>7, <1>9, <2>1, <2>2, <2>7 DEF u
    <3>2. cursor <= u
      <4>1. CASE cursor \in queued[c]
        BY <1>2, <2>4, <2>7, <4>1
      <4>2. CASE Reaches(c, t, cursor)
        <5>1. cursor \in 0 .. head
          BY DEF TypeOK
        <5>. QED  BY <2>5, <4>2, <5>1
      <4>. QED  BY <1>7, <1>9, <4>1, <4>2
    <3>3. lastSent'[c] >= cursor'
      BY <1>1, <1>2, <2>4, <3>2 DEF u
    <3>. QED  BY <2>1, <2>3, <3>1, <3>3 DEF KeepsUp
  <2>. QED  BY <2>6, <2>7
<1>10. CASE ~Hole(c, t) /\ Last(t.page) /\ ~t.sync
  BY <1>7, <1>10
<1>. QED  BY <1>4, <1>5, <1>8, <1>9, <1>10

-----------------------------------------------------------------------------
(* One connection in the hub keeps up with it *)

\* A step of the connection.
LEMMA ConnKeepsUp ==
    ASSUME TypeOK, TypeOK', WalKept, WalVersions >= 1, Joined, KeepInv,
           NEW c \in Conns, ConnStep(c),
           c \in open', c \notin failed' \cup tangled', stage'[c] = "in"
    PROVE  KeepsUp(c)'
<1>1. CASE Hello(c)
  <2>1. stage' = [stage EXCEPT ![c] = "auth"]
    BY <1>1, Zenon DEF Hello
  <2>2. stage'[c] = "auth"
    BY <2>1 DEF TypeOK
  <2>. QED  BY <2>2
<1>2. CASE Close(c)
  <2>1. open' = open \ {c}
    BY <1>2, Zenon DEF Close
  <2>. QED  BY <2>1
<1>3. ASSUME NEW s \in SyncSlots, Authenticated(c, s) \/ Recover(c, s) PROVE KeepsUp(c)'
  <2>1. Synchronize(c, s) /\ s \in Slots
    BY <1>3, Zenon DEF Authenticated, Recover, Slots
  <2>. QED  BY <2>1, SynchronizeKeepsUp
<1>4. ASSUME NEW s \in SyncSlots, SyncFails(c, s) PROVE KeepsUp(c)'
  <2>1. failed' = failed \cup {c}
    BY <1>4, Zenon DEF SyncFails
  <2>. QED  BY <2>1
<1>5. ASSUME NEW s \in Slots, SnapshotArrives(c, s) \/ Query(c, s) PROVE KeepsUp(c)'
  <2>1. UNCHANGED <<open, stage, failed, tangled>>
    BY <1>5, Zenon DEF SnapshotArrives, Query, connVars, historyVars
  <2>2. KeepsUp(c) /\ hubOpen
    BY <2>1 DEF KeepInv, Joined
  <2>. QED  BY <1>5, <2>2, SnapshotKeepsUp, QueryKeepsUp
<1>6. ASSUME NEW s \in Slots, Page(c, s) PROVE KeepsUp(c)'
  <2>. DEFINE t == task[c][s]
  <2>1. \/ Synchronize(c, s)
        \/ UNCHANGED historyVars
    <3>. HIDE DEF t
    <3>. QED  BY <1>6, PageCases, Zenon DEF t
  <2>2. CASE Synchronize(c, s)
    BY <2>2, SynchronizeKeepsUp
  <2>3. CASE UNCHANGED historyVars
    <3>1. UNCHANGED <<open, stage>>
      BY <1>6, PageCases, Zenon
    <3>2. KeepsUp(c)
      BY <2>3, <3>1 DEF KeepInv, historyVars
    <3>. QED  BY <1>6, <3>2, PageKeepsUp
  <2>. QED  BY <2>1, <2>2, <2>3
<1>. QED  BY <1>1, <1>2, <1>3, <1>4, <1>5, <1>6, Zenon DEF ConnStep

\* A step of another connection: it has no call under way and is not in the hub.
LEMMA OtherKeepsUp ==
    ASSUME TypeOK, TypeOK', Joined, Joined', KeepInv, Alone, Alone',
           NEW c \in Conns, NEW d \in Conns \ {c}, ConnStep(d),
           c \in open', c \notin failed' \cup tangled', stage'[c] = "in"
    PROVE  KeepsUp(c)'
<1>1. /\ c \in open /\ c \notin failed \cup tangled /\ stage[c] = "in"
      /\ lastSent'[c] = lastSent[c] /\ phase'[c] = phase[c] /\ queued'[c] = queued[c]
      /\ \A s \in Slots : task'[c][s] = task[c][s]
  BY ConnStepElsewhere
<1>2. c \in members /\ c \in members' /\ KeepsUp(c)
  BY <1>1 DEF Joined, KeepInv
<1>3. /\ d \notin members' /\ \A s \in Slots : task[d][s] = Idle /\ task'[d][s] = Idle
  BY <1>2 DEF Alone, InHub
<1>4. SyncSlots \subseteq Slots
  BY DEF Slots
<1>5. ASSUME UNCHANGED <<walFloor, cursor>> PROVE KeepsUp(c)'
  <2>1. walFloor' >= walFloor
    BY <1>5, LimitsAssumption DEF TypeOK
  <2>. QED  BY <1>1, <1>2, <1>5, <2>1, KeepsUpStays
<1>6. CASE Hello(d)
  BY <1>5, <1>6, Zenon DEF Hello, storeVars, hubVars
<1>7. CASE Close(d)
  BY <1>2, <1>5, <1>7 DEF Close, storeVars, hubVars
<1>8. ASSUME NEW s \in SyncSlots PROVE ~Authenticated(d, s) /\ ~Recover(d, s) /\ ~SyncFails(d, s)
  <2>1. ~Authenticated(d, s)
    BY <1>3 DEF Authenticated
  <2>2. ~Recover(d, s)
    <3>1. SUFFICES ASSUME Synchronize(d, s) PROVE FALSE
      BY DEF Recover
    <3>2. task'[d][s] = AwaitSnapshot
      BY <1>4, <3>1, SynchronizeEffect
    <3>3. AwaitSnapshot # Idle
      BY IdleType DEF AwaitSnapshot
    <3>. QED  BY <1>3, <1>4, <3>2, <3>3
  <2>3. ~SyncFails(d, s)
    BY <1>3, <1>4, IdleType DEF SyncFails
  <2>. QED  BY <2>1, <2>2, <2>3
<1>9. ASSUME NEW s \in Slots PROVE ~SnapshotArrives(d, s) /\ ~Query(d, s) /\ ~Page(d, s)
  BY <1>3, IdleType DEF SnapshotArrives, Query, Page
<1>. QED  BY <1>6, <1>7, <1>8, <1>9, Zenon DEF ConnStep

LEMMA KeepStep ==
    ASSUME TypeOK, TypeOK', WalKept, WalVersions >= 1, Joined, Joined', HubRows, KeepInv,
           Alone, Alone', [Next]_vars
    PROVE  KeepInv'
<1>. SUFFICES ASSUME NEW c \in Conns, c \in open', c \notin failed' \cup tangled', stage'[c] = "in"
              PROVE  KeepsUp(c)'
  BY DEF KeepInv, TypeOK
<1>1. /\ walFloor \in Nat /\ walFloor' \in Nat /\ head \in Nat /\ head' \in Nat
      /\ cursor \in Nat
  BY LimitsAssumption DEF TypeOK
<1>2. CASE Committed \/ Compacted \/ UNCHANGED vars
  <2>1. /\ walFloor' >= walFloor
        /\ UNCHANGED <<cursor, lastSent, phase, queued, task>>
        /\ UNCHANGED <<open, stage, failed, tangled>>
    <3>1. CASE Committed
      BY <1>1, <3>1 DEF Committed, hubVars, connVars, historyVars
    <3>2. CASE Compacted
      BY <1>1, <3>2 DEF Compacted, hubVars, connVars, historyVars
    <3>3. CASE UNCHANGED vars
      BY <1>1, <3>3 DEF vars, storeVars, hubVars, connVars, historyVars
    <3>. QED  BY <1>2, <3>1, <3>2, <3>3
  <2>2. KeepsUp(c)
    BY <2>1 DEF KeepInv
  <2>. QED  BY <2>1, <2>2, KeepsUpStays, Zenon
<1>3. CASE Exit
  <2>1. open' = {}
    BY <1>3, Zenon DEF Exit
  <2>. QED  BY <2>1
<1>4. ASSUME NEW d \in Conns, ConnStep(d) PROVE KeepsUp(c)'
  <2>1. CASE c = d
    BY <1>4, <2>1, ConnKeepsUp
  <2>2. CASE c # d
    BY <1>4, <2>2, OtherKeepsUp
  <2>. QED  BY <2>1, <2>2
<1>5. CASE \/ \E v \in 1 .. head : Event(v)
           \/ \E s \in HubSlots : CheckWatermarks(s) \/ HubQuery(s) \/ HubPage(s) \/ HubQueryFails(s)
  <2>1. UNCHANGED <<storeVars, members, hubOpen, open, stage, phase, historyVars>>
    BY <1>5, HubStepEffect
  <2>2. KeepsUp(c) /\ c \in members
    BY <2>1 DEF KeepInv, Joined, historyVars
  <2>3. CASE UNCHANGED <<cursor, lastSent, queued, task>>
    <3>1. walFloor' >= walFloor /\ UNCHANGED <<cursor, lastSent, phase, queued, task>>
      BY <1>1, <2>1, <2>3 DEF storeVars
    <3>. QED  BY <2>2, <3>1, KeepsUpStays, Zenon
  <2>4. ASSUME NEW E \in SUBSET (1 .. head), E # {}, Deliver(E),
               cursor' \in E, \A v \in E : cursor < v /\ v <= cursor',
               \/ E = {cursor + 1}
               \/ \E s \in HubSlots : HubPage(s) /\ E = {v \in hubTask[s].page : v > cursor}
        PROVE  KeepsUp(c)'
    <3>1. ASSUME NEW v \in 1 .. head, v > cursor, v <= cursor' PROVE v \in E \/ v <= walFloor
      <4>1. CASE E = {cursor + 1}
        <5>1. cursor' = cursor + 1
          BY <2>4, <4>1
        <5>. QED  BY <1>1, <3>1, <4>1, <5>1
      <4>2. ASSUME NEW s \in HubSlots, HubPage(s), E = {u \in hubTask[s].page : u > cursor}
            PROVE  v \in E \/ v <= walFloor
        BY <2>4, <3>1, <4>2, DeliveredRows
      <4>. QED  BY <2>4, <4>1, <4>2
    <3>2. UNCHANGED <<storeVars, phase>>
      BY <2>1
    <3>. QED  BY <2>2, <2>4, <3>1, <3>2, DeliverKeepsUp
  <2>. QED  BY <1>5, <2>3, <2>4, HubStepEffect
<1>. QED  BY <1>2, <1>3, <1>4, <1>5, Zenon DEF Next

LEMMA KeepSettles == TypeOK /\ Greeted /\ KeepInv => KeepsUpWithHub
<1>. SUFFICES ASSUME TypeOK, Greeted, KeepInv, NEW c \in Conns \ tangled, Settled(c)
              PROVE  lastSent[c] >= cursor
  BY DEF KeepsUpWithHub
<1>1. /\ c \in open \ (failed \cup tangled) /\ phase[c] = "ready"
      /\ \A s \in Slots : task[c][s] = Idle
  BY DEF Settled
<1>2. KeepsUp(c)
  BY <1>1 DEF KeepInv, Greeted
<1>3. Catchup \in Slots
  BY DEF Slots
<1>4. ~MeetsHole(c, task[c][Catchup])
  BY <1>1, <1>3, IdleType DEF MeetsHole
<1>. QED  BY <1>1, <1>2, <1>4 DEF KeepsUp

LEMMA KeepInit == ASSUME Init PROVE Joined /\ Greeted /\ HubRows /\ KeepInv
<1>1. \A c \in Conns : stage[c] = "new" /\ phase[c] = "new"
  BY DEF Init
<1>2. \A s \in HubSlots : hubTask[s] = Idle
  BY DEF Init
<1>3. open \subseteq Conns
  BY DEF Init
<1>4. HubRows
  BY <1>2, IdleType DEF HubRows, HubRow
<1>5. \A c \in Conns, s \in Slots : task[c][s] = Idle
  BY DEF Init
<1>. QED  BY <1>1, <1>3, <1>4, <1>5 DEF Joined, Greeted, KeepInv

\* What the hub counts as delivered was sent to every settled connection, while
\* one at a time is in the hub or has calls under way and compaction keeps the
\* head row: the events queued while it was synchronized, those that did not
\* continue what was sent, and those whose rows compaction took meanwhile.  Two
\* connections in one hub refute it (KeepsUpWithHub in gateway_shared_hub.cfg).
THEOREM HubReachesConn == WalVersions >= 1 /\ Spec /\ []Alone => []KeepsUpWithHub
<1>. SUFFICES ASSUME WalVersions >= 1 PROVE Spec /\ []Alone => []KeepsUpWithHub
  OBVIOUS
<1>. DEFINE I == TypeOK /\ WalKept /\ Joined /\ Greeted /\ HubRows /\ KeepInv
<1>1. Init => I
  BY TypeInit, FreshInit, KeepInit
<1>2. I /\ Alone /\ Alone' /\ [Next]_vars => I'
  <2>. SUFFICES ASSUME I, Alone, Alone', [Next]_vars PROVE I'
    OBVIOUS
  <2>1. TypeOK' /\ WalKept' /\ Joined' /\ Greeted'
    BY TypeStep, WalKeptStep, JoinedStep, GreetedStep
  <2>. QED  BY <2>1, HubRowsStep, KeepStep
<1>3. I => KeepsUpWithHub
  BY KeepSettles
<1>. QED  BY <1>1, <1>2, <1>3, PTL DEF Spec
====
