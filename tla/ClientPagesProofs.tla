---- MODULE ClientPagesProofs ----
(***************************************************************************)
(* What holds of ClientPages for every set of pages, operations and        *)
(* faults.                                                                 *)
(*                                                                         *)
(*   PagesShowPrefixes  a page shows the canonical document of its version *)
(*   QueuesAreDurable   a stored operation is not lost                     *)
(*   AnswersAreTrue     what an operation is settled with is true for      *)
(*                      ever, if all pages have one client id              *)
(*   PagesRemember      a connected page forgets no operation, if no       *)
(*                      synchronization fails                              *)
(*                                                                         *)
(* Each has an inductive invariant of its own over the types of the state. *)
(***************************************************************************)
EXTENDS ClientPages, SequenceTheorems, TLAPS

-----------------------------------------------------------------------------
(* The inductive invariants *)

Messages == [kind : {"accepted", "rejected", "resync", "retry", "snapshot", "event", "ready"},
             id : Ids \cup {Other}, version : Nat]
Items     == [sent : BOOLEAN, accepted : Nat, resync : BOOLEAN, timers : Nat]
Queues    == UNION {[S -> Items] : S \in SUBSET Ids}
Mutations == [add : SUBSET Ids, remove : SUBSET Ids]
Links     == [joined : BOOLEAN, syncs : Nat, readies : Nat, lastSent : Nat]
Entries   == [id : Ids \cup {Other}, by : Clients \cup {Other}]

ServiceTypes ==
    /\ log \in Seq(Entries)
    /\ denied \subseteq [id : Ids, by : Clients]
    /\ copies \in [Pages -> [Ids -> Nat]]
    /\ stray \subseteq Ids \X Clients
    /\ link \in [Pages -> Links]
    /\ inbox \in [Pages -> Seq(Messages)]

PageTypes ==
    /\ page \in [Pages -> {"new", "loading", "open", "closed"}]
    /\ socket \in [Pages -> {"none", "opening", "open"}]
    /\ conn \in [Pages -> {"offline", "connecting", "online", "resyncing"}]
    /\ version \in [Pages -> Nat]
    /\ doc \in [Pages -> Seq(Nat)]
    /\ pending \in [Pages -> Queues]
    /\ chain \in [Pages -> Seq(Mutations)]

ProfileTypes ==
    /\ storage \in SUBSET Ids
    /\ origin \in [Ids -> [page : Pages \cup {NoPage}, base : Nat]]
    /\ durable \in SUBSET Ids
    /\ settled \in [Ids -> SUBSET Messages]
    /\ faults \in Nat

TypeInv == ServiceTypes /\ PageTypes /\ ProfileTypes

\* What the durable queue is about to drop has an answer.
RemovalsSettled ==
    \A p \in Pages : \A k \in 1 .. Len(chain[p]) : \A i \in chain[p][k].remove : settled[i] # {}

\* The receipts of an operation.
InLog(i, v) == v \in 1 .. Len(log) /\ log[v].id = i
Committed(i) == \E v \in 1 .. Len(log) : log[v].id = i
Denied(i)   == \E r \in denied : r.id = i

\* No page, socket or store has the operation, nor has the log.
Unheld(p, i) ==
    /\ copies[p][i] = 0
    /\ i \notin Queue(p)
    /\ \A k \in 1 .. Len(chain[p]) : i \notin chain[p][k].add

Nowhere(i) ==
    /\ i \notin storage
    /\ ~Committed(i)
    /\ \A c \in Clients : <<i, c>> \notin stray
    /\ \A p \in Pages : Unheld(p, i)

\* All that pages, messages and the application have heard is covered by receipts.
ReceiptsHold ==
    /\ \A i \in Ids : Committed(i) => ~Denied(i)
    /\ \A v \in 1 .. Len(log) : log[v].id # Other => log[v].by \in Clients

HeardTrue(m) ==
    /\ m.kind = "accepted" => InLog(m.id, m.version)
    /\ m.kind = "rejected" => Denied(m.id)

MessagesTrue == \A p \in Pages : \A k \in 1 .. Len(inbox[p]) : HeardTrue(inbox[p][k])

ItemsTrue ==
    \A p \in Pages : \A i \in Queue(p) :
        pending[p][i].accepted # 0 => InLog(i, pending[p][i].accepted)

AnswerTrue(i, a) ==
    /\ a.kind = "accepted" => InLog(i, a.version)
    /\ a.kind = "rejected" => Denied(i) \/ (origin[i] # NoOp /\ Nowhere(i))

AnswersTrue == \A i \in Ids : \A a \in settled[i] : AnswerTrue(i, a)

NewUnknown == \A i \in Ids : origin[i] = NoOp => Nowhere(i) /\ settled[i] = {}

TruthInv == ReceiptsHold /\ MessagesTrue /\ ItemsTrue /\ AnswersTrue /\ NewUnknown

\* A snapshot is on its way, or will be.
Syncing(p) == link[p].syncs > 0 \/ Coming(p, {"snapshot"}, Other)

ReadyComing(p) == link[p].readies > 0 \/ Coming(p, {"ready"}, Other)

Answering(p, i) ==
    \/ copies[p][i] > 0
    \/ pending[p][i].timers > 0
    \/ Coming(p, {"retry", "resync", "accepted", "rejected"}, i)

\* The ready that belongs to a snapshot comes after it.
ReadyFollows(p) ==
    \A k \in 1 .. Len(inbox[p]) :
        inbox[p][k].kind = "snapshot" =>
            \/ link[p].readies > 0
            \/ \E l \in 1 .. Len(inbox[p]) :
                  l > k /\ inbox[p][l].kind = "ready" /\ inbox[p][l].id = Other

\* An operation submitted now would be sent, or wait for a message that comes.
Attentive(p) ==
    \/ Syncing(p)
    \/ conn[p] = "online"
    \/ conn[p] = "connecting" /\ ReadyComing(p)

Remembered(p, i) ==
    \/ Syncing(p)
    \/ pending[p][i].sent /\ Answering(p, i)
    \/ conn[p] = "connecting" /\ ReadyComing(p) /\ ~pending[p][i].sent

Memory(p) ==
    /\ ReadyFollows(p)
    /\ page[p] = "new" => socket[p] = "none"
    /\ socket[p] = "open" => Attentive(p) /\ \A i \in Queue(p) : Remembered(p, i)

MemoryInv == \A p \in Pages : Memory(p)

-----------------------------------------------------------------------------
(* Types *)

LEMMA ClientType == \A p \in Pages : ClientId[p] \in Clients
  BY DEF Clients

LEMMA OtherNoId == Other \notin Ids
  BY IdsAssumption

\* A queue is a function from some ids to items.
LEMMA QueueType ==
  ASSUME PageTypes, NEW p \in Pages
  PROVE  /\ Queue(p) \subseteq Ids
         /\ pending[p] \in [Queue(p) -> Items]
         /\ \A i \in Queue(p) : pending[p][i] \in Items
<1>1. pending[p] \in Queues
  BY DEF PageTypes
<1>2. PICK S \in SUBSET Ids : pending[p] \in [S -> Items]
  BY <1>1 DEF Queues
<1>3. Queue(p) = S
  BY <1>2 DEF Queue
<1> QED
  BY <1>2, <1>3

LEMMA NewQueue ==
  ASSUME NEW S, S \subseteq Ids, NEW f \in [S -> Items]
  PROVE  f \in Queues
  BY DEF Queues

LEMMA EmptyQueue == <<>> \in Queues
<1>1. <<>> \in [{} -> Items]
  OBVIOUS
<1> QED
  BY <1>1, NewQueue

LEMMA MessageType ==
  ASSUME NEW kind \in {"accepted", "rejected", "resync", "retry", "snapshot", "event", "ready"},
         NEW i \in Ids \cup {Other}, NEW v \in Nat
  PROVE  Message(kind, i, v) \in Messages
  BY DEF Message, Messages

\* What a flush changes.
FlushEffect(p, items, connection) ==
    /\ pending' \in [Pages -> Queues] /\ copies' \in [Pages -> [Ids -> Nat]]
    /\ conn' = [conn EXCEPT ![p] = connection]
    /\ \A q \in Pages \ {p} : pending'[q] = pending[q] /\ copies'[q] = copies[q]
    /\ DOMAIN pending'[p] = DOMAIN items
    /\ \A i \in DOMAIN items :
          \/ pending'[p][i] = items[i] /\ copies'[p][i] = copies[p][i]
             /\ ~(connection = "online" /\ socket[p] = "open" /\ ~items[i].sent)
          \/ pending'[p][i] = [items[i] EXCEPT !.sent = TRUE] /\ copies'[p][i] = copies[p][i] + 1
    /\ \A i \in Ids \ DOMAIN items : copies'[p][i] = copies[p][i]

LEMMA FlushType ==
  ASSUME ServiceTypes, PageTypes, NEW p \in Pages, NEW S, S \subseteq Ids, NEW items \in [S -> Items],
         NEW connection, Flush(p, items, connection)
  PROVE  FlushEffect(p, items, connection)
<1> DEFINE due == IF connection = "online" /\ socket[p] = "open"
                  THEN {i \in DOMAIN items : ~items[i].sent} ELSE {}
           sentItems == [i \in DOMAIN items |->
                           IF i \in due THEN [items[i] EXCEPT !.sent = TRUE] ELSE items[i]]
           moreCopies == [i \in Ids |-> IF i \in due THEN copies[p][i] + 1 ELSE copies[p][i]]
<1>1. /\ pending' = [pending EXCEPT ![p] = sentItems]
      /\ copies' = [copies EXCEPT ![p] = moreCopies]
      /\ conn' = [conn EXCEPT ![p] = connection]
  BY DEF Flush, ServiceTypes
<1>2. pending \in [Pages -> Queues] /\ copies \in [Pages -> [Ids -> Nat]]
  BY DEF PageTypes, ServiceTypes
<1>3. sentItems \in [S -> Items]
  <2>1. \A i \in S : items[i] \in Items /\ [items[i] EXCEPT !.sent = TRUE] \in Items
    BY DEF Items
  <2> QED
    BY <2>1
<1>4. moreCopies \in [Ids -> Nat]
  BY <1>2
<1>5. sentItems \in Queues
  BY <1>3, NewQueue
<1>6. pending'[p] = sentItems /\ copies'[p] = moreCopies
  BY <1>1, <1>2
<1>7. pending' \in [Pages -> Queues] /\ copies' \in [Pages -> [Ids -> Nat]]
  BY <1>1, <1>2, <1>4, <1>5
<1>8. \A q \in Pages \ {p} : pending'[q] = pending[q] /\ copies'[q] = copies[q]
  BY <1>1, <1>2
<1>9. \A i \in DOMAIN items :
          \/ sentItems[i] = items[i] /\ moreCopies[i] = copies[p][i]
             /\ ~(connection = "online" /\ socket[p] = "open" /\ ~items[i].sent)
          \/ sentItems[i] = [items[i] EXCEPT !.sent = TRUE] /\ moreCopies[i] = copies[p][i] + 1
  OBVIOUS
<1>10. \A i \in Ids \ DOMAIN items : moreCopies[i] = copies[p][i]
  OBVIOUS
<1>11. DOMAIN sentItems = DOMAIN items
  OBVIOUS
<1> QED
  BY <1>1, <1>6, <1>7, <1>8, <1>9, <1>10, <1>11 DEF FlushEffect

\* What the end of a socket changes.
LEMMA UnlinkType ==
  ASSUME ServiceTypes, NEW p \in Pages, Unlink(p), socket \in [Pages -> {"none", "opening", "open"}]
  PROVE  /\ link' \in [Pages -> Links] /\ inbox' \in [Pages -> Seq(Messages)]
         /\ copies' \in [Pages -> [Ids -> Nat]] /\ stray' \subseteq Ids \X Clients
         /\ socket' \in [Pages -> {"none", "opening", "open"}]
<1>1. NoLink \in Links
  BY DEF NoLink, Links
<1>2. <<>> \in Seq(Messages)
  OBVIOUS
<1>3. [i \in Ids |-> 0] \in [Ids -> Nat]
  OBVIOUS
<1>4. {<<i, ClientId[p]>> : i \in {j \in Ids : copies[p][j] > 0}} \subseteq Ids \X Clients
  BY ClientType
<1> QED
  BY <1>1, <1>2, <1>3, <1>4 DEF Unlink, ServiceTypes

LEMMA TypesStutter == TypeInv /\ UNCHANGED vars => TypeInv'
  BY DEF TypeInv, ServiceTypes, PageTypes, ProfileTypes, vars, serviceVars, linkVars, pageVars,
         queueVars, historyVars, Queue

LEMMA TypesDecide ==
  ASSUME TypeInv, NEW i \in Ids, NEW by \in Clients, Decide(i, by)
  PROVE  TypeInv'
<1>1. [id |-> i, by |-> by] \in Entries /\ [id |-> i, by |-> by] \in [id : Ids, by : Clients]
  BY DEF Entries
<1>2. log \in Seq(Entries) /\ denied \subseteq [id : Ids, by : Clients]
  BY DEF TypeInv, ServiceTypes
<1>3. log' \in Seq(Entries) /\ denied' \subseteq [id : Ids, by : Clients]
  <2>1. CASE log' = Append(log, [id |-> i, by |-> by]) /\ UNCHANGED denied
    BY <1>1, <1>2, <2>1
  <2>2. CASE denied' = denied \cup {[id |-> i, by |-> by]} /\ UNCHANGED log
    BY <1>1, <1>2, <2>2
  <2> QED
    BY <2>1, <2>2 DEF Decide
<1> QED
  BY <1>3 DEF Decide, TypeInv, ServiceTypes, PageTypes, ProfileTypes, linkVars, pageVars, queueVars,
              historyVars, Queue

LEMMA TypesOthersCommit ==
  ASSUME TypeInv, OthersCommit
  PROVE  TypeInv'
<1>1. log' \in Seq(Entries)
  BY DEF OthersCommit, TypeInv, ServiceTypes, Entries
<1> QED
  BY <1>1 DEF OthersCommit, TypeInv, ServiceTypes, PageTypes, ProfileTypes, linkVars, pageVars,
              queueVars, historyVars, Queue

\* A message is added to an inbox.
LEMMA ReplyType ==
  ASSUME ServiceTypes, NEW p \in Pages, NEW m \in Messages, Reply(p, m)
  PROVE  /\ inbox' \in [Pages -> Seq(Messages)]
         /\ inbox' = [inbox EXCEPT ![p] = Append(inbox[p], m)]
         /\ inbox'[p] = Append(inbox[p], m)
         /\ \A q \in Pages \ {p} : inbox'[q] = inbox[q]
  BY DEF Reply, ServiceTypes

LEMMA VerdictType ==
  ASSUME ServiceTypes, NEW i \in Ids, NEW by
  PROVE  Verdict(i, by) \in Messages
<1> DEFINE v == CHOOSE w \in 1 .. Len(log) : log[w].id = i
<1>1. CASE \E w \in 1 .. Len(log) : log[w] = [id |-> i, by |-> by]
  <2>1. \E w \in 1 .. Len(log) : log[w].id = i
    BY <1>1
  <2>2. v \in 1 .. Len(log)
    BY <2>1
  <2>3. v \in Nat
    BY <2>2
  <2> HIDE DEF v
  <2>4. Message("accepted", i, v) \in Messages
    BY <2>3, MessageType
  <2> QED
    BY <1>1, <2>4 DEF Verdict, v
<1>2. CASE ~\E w \in 1 .. Len(log) : log[w] = [id |-> i, by |-> by]
  BY <1>2, MessageType DEF Verdict
<1> QED
  BY <1>1, <1>2

\* The message that answers a copy.
LEMMA AnswerMessage ==
  ASSUME ServiceTypes, NEW p \in Pages, NEW i \in Ids, Answer(p, i)
  PROVE  \E m \in Messages :
            /\ Reply(p, m) /\ m.id = i /\ m.kind \in {"retry", "resync", "accepted", "rejected"}
            /\ m.kind \in {"accepted", "rejected"} =>
                  HasReceipt(i) /\ m = Verdict(i, ClientId[p])
<1>1. CASE HasReceipt(i) /\ Reply(p, Verdict(i, ClientId[p]))
  <2>1. Verdict(i, ClientId[p]) \in Messages
    BY VerdictType
  <2>2. /\ Verdict(i, ClientId[p]).id = i
        /\ Verdict(i, ClientId[p]).kind \in {"accepted", "rejected"}
    BY DEF Verdict, Message
  <2> QED
    BY <1>1, <2>1, <2>2
<1>2. CASE Reply(p, Message("resync", i, 0))
  BY <1>2, MessageType DEF Message
<1>3. CASE Reply(p, Message("retry", i, 0))
  BY <1>3, MessageType DEF Message
<1> QED
  BY <1>1, <1>2, <1>3 DEF Answer

LEMMA FaultType ==
  ASSUME ProfileTypes, Fault
  PROVE  faults' \in Nat
  BY DEF Fault, ProfileTypes

LEMMA TypesAnswer ==
  ASSUME TypeInv, NEW p \in Pages, NEW i \in Ids, Answer(p, i)
  PROVE  TypeInv'
<1>1. PICK m \in Messages : Reply(p, m)
  BY AnswerMessage DEF TypeInv
<1>2. inbox' \in [Pages -> Seq(Messages)]
  BY <1>1, ReplyType DEF TypeInv
<1>3. copies' \in [Pages -> [Ids -> Nat]]
  <2>1. copies[p] \in [Ids -> Nat] /\ copies[p][i] \in Nat /\ copies[p][i] > 0
    BY DEF TypeInv, ServiceTypes, Answer
  <2>2. copies' = [copies EXCEPT ![p] = [copies[p] EXCEPT ![i] = copies[p][i] - 1]]
    BY DEF Answer
  <2>3. [copies[p] EXCEPT ![i] = copies[p][i] - 1] \in [Ids -> Nat]
    BY <2>1
  <2> QED
    BY <2>2, <2>3 DEF TypeInv, ServiceTypes
<1>4. faults' \in Nat
  BY FaultType DEF Answer, TypeInv, ProfileTypes
<1> QED
  BY <1>2, <1>3, <1>4 DEF Answer, TypeInv, ServiceTypes, PageTypes, ProfileTypes, serviceVars, pageVars

LEMMA TypesSendSnapshot ==
  ASSUME TypeInv, NEW p \in Pages, SendSnapshot(p)
  PROVE  TypeInv'
<1>1. PICK v \in 0 .. Len(log) :
         /\ Reply(p, Message("snapshot", Other, v))
         /\ link' = [link EXCEPT ![p] = [joined |-> TRUE, syncs |-> link[p].syncs - 1,
                                         readies |-> link[p].readies + 1, lastSent |-> v]]
         /\ IF v = Len(log) THEN UNCHANGED faults ELSE Fault
  BY DEF SendSnapshot
<1>2. Len(log) \in Nat
  BY DEF TypeInv, ServiceTypes
<1>3. v \in Nat
  BY <1>2
<1>4. inbox' \in [Pages -> Seq(Messages)]
  BY <1>1, <1>3, MessageType, ReplyType DEF TypeInv
<1>5. link[p] \in Links /\ link[p].syncs > 0
  BY DEF SendSnapshot, TypeInv, ServiceTypes
<1>6. [joined |-> TRUE, syncs |-> link[p].syncs - 1,
       readies |-> link[p].readies + 1, lastSent |-> v] \in Links
  BY <1>3, <1>5 DEF Links
<1>7. link' \in [Pages -> Links]
  BY <1>1, <1>6 DEF TypeInv, ServiceTypes
<1>8. faults' \in Nat
  BY <1>1, FaultType DEF TypeInv, ProfileTypes
<1> QED
  BY <1>4, <1>7, <1>8 DEF SendSnapshot, TypeInv, ServiceTypes, PageTypes, ProfileTypes, serviceVars,
                          pageVars, queueVars, Queue

\* Changes of one field of a link.
LEMMA LinkType ==
  ASSUME ServiceTypes, NEW p \in Pages, NEW n \in Nat
  PROVE  /\ [link EXCEPT ![p].syncs = n] \in [Pages -> Links]
         /\ [link EXCEPT ![p].readies = n] \in [Pages -> Links]
         /\ [link EXCEPT ![p].lastSent = n] \in [Pages -> Links]
<1>1. link \in [Pages -> Links] /\ link[p] \in Links
  BY DEF ServiceTypes
<1>2. /\ [link[p] EXCEPT !.syncs = n] \in Links
      /\ [link[p] EXCEPT !.readies = n] \in Links
      /\ [link[p] EXCEPT !.lastSent = n] \in Links
  BY <1>1 DEF Links
<1> QED
  BY <1>1, <1>2

LEMMA TypesSendEvent ==
  ASSUME TypeInv, NEW p \in Pages, SendEvent(p)
  PROVE  TypeInv'
<1>1. link[p].lastSent + 1 \in Nat
  BY DEF TypeInv, ServiceTypes, Links
<1>2. inbox' \in [Pages -> Seq(Messages)]
  BY <1>1, MessageType, ReplyType DEF TypeInv, SendEvent
<1>3. link' \in [Pages -> Links]
  BY <1>1, LinkType DEF TypeInv, SendEvent
<1> QED
  BY <1>2, <1>3 DEF SendEvent, TypeInv, ServiceTypes, PageTypes, ProfileTypes, serviceVars, pageVars,
                    queueVars, historyVars, Queue

LEMMA TypesSendReady ==
  ASSUME TypeInv, NEW p \in Pages, SendReady(p)
  PROVE  TypeInv'
<1>1. link[p].lastSent \in Nat /\ link[p].readies - 1 \in Nat
  BY DEF TypeInv, ServiceTypes, Links, SendReady
<1>2. inbox' \in [Pages -> Seq(Messages)]
  BY <1>1, MessageType, ReplyType DEF TypeInv, SendReady
<1>3. link' \in [Pages -> Links]
  BY <1>1, LinkType DEF TypeInv, SendReady
<1> QED
  BY <1>2, <1>3 DEF SendReady, TypeInv, ServiceTypes, PageTypes, ProfileTypes, serviceVars, pageVars,
                    queueVars, historyVars, Queue

LEMMA TypesSyncFails ==
  ASSUME TypeInv, NEW p \in Pages, SyncFails(p)
  PROVE  TypeInv'
<1>1. link[p].syncs - 1 \in Nat
  BY DEF TypeInv, ServiceTypes, Links, SyncFails
<1>2. inbox' \in [Pages -> Seq(Messages)]
  BY MessageType, ReplyType DEF TypeInv, SyncFails
<1>3. link' \in [Pages -> Links] /\ faults' \in Nat
  BY <1>1, LinkType, FaultType DEF TypeInv, SyncFails
<1> QED
  BY <1>2, <1>3 DEF SyncFails, TypeInv, ServiceTypes, PageTypes, ProfileTypes, serviceVars, pageVars,
                    queueVars, Queue

LEMMA TypesLoad ==
  ASSUME TypeInv, NEW p \in Pages, Load(p) \/ Connect(p) \/ Hello(p)
  PROVE  TypeInv'
<1>1. CASE Load(p)
  BY <1>1 DEF Load, TypeInv, ServiceTypes, PageTypes, ProfileTypes, serviceVars, linkVars,
              queueVars, historyVars, Queue
<1>2. CASE Connect(p)
  BY <1>2 DEF Connect, TypeInv, ServiceTypes, PageTypes, ProfileTypes, serviceVars, linkVars,
              queueVars, historyVars, Queue
<1>3. CASE Hello(p)
  <2>1. link' \in [Pages -> Links]
    BY <1>3, LinkType DEF Hello, TypeInv
  <2> QED
    BY <1>3, <2>1 DEF Hello, TypeInv, ServiceTypes, PageTypes, ProfileTypes, serviceVars,
                      queueVars, historyVars, Queue
<1> QED
  BY <1>1, <1>2, <1>3

LEMMA UnsentType == Unsent \in Items
  BY DEF Unsent, Items

\* A step that changes the items of one page's queue.
LEMMA PendingType ==
  ASSUME PageTypes, NEW p \in Pages, NEW S, S \subseteq Ids, NEW f \in [S -> Items],
         pending' = [pending EXCEPT ![p] = f]
  PROVE  /\ pending' \in [Pages -> Queues] /\ pending'[p] = f
         /\ \A q \in Pages \ {p} : pending'[q] = pending[q]
<1>1. f \in Queues /\ pending \in [Pages -> Queues]
  BY NewQueue DEF PageTypes
<1> QED
  BY <1>1

LEMMA TypesRestore ==
  ASSUME TypeInv, NEW p \in Pages, Restore(p)
  PROVE  TypeInv'
<1>1. pending' \in [Pages -> Queues] /\ faults' \in Nat
  <2>1. CASE /\ pending' = [pending EXCEPT ![p] = [i \in Queue(p) \cup storage |->
                               IF i \in Queue(p) THEN pending[p][i] ELSE Unsent]]
             /\ UNCHANGED faults
    <3>1. storage \subseteq Ids /\ faults \in Nat /\ Queue(p) \subseteq Ids
          /\ \A i \in Queue(p) : pending[p][i] \in Items
      BY QueueType DEF TypeInv, ProfileTypes
    <3>2. [i \in Queue(p) \cup storage |->
                 IF i \in Queue(p) THEN pending[p][i] ELSE Unsent] \in [Queue(p) \cup storage -> Items]
      BY <3>1, UnsentType
    <3> QED
      BY <2>1, <3>1, <3>2, PendingType DEF TypeInv
  <2>2. CASE Fault /\ UNCHANGED pending
    BY <2>2, FaultType DEF TypeInv, PageTypes
  <2> QED
    BY <2>1, <2>2 DEF Restore
<1> QED
  BY <1>1 DEF Restore, TypeInv, ServiceTypes, PageTypes, ProfileTypes, serviceVars, linkVars

LEMMA TypesLose ==
  ASSUME TypeInv, NEW p \in Pages, Lose(p)
  PROVE  TypeInv'
<1>1. /\ link' \in [Pages -> Links] /\ inbox' \in [Pages -> Seq(Messages)]
      /\ copies' \in [Pages -> [Ids -> Nat]] /\ stray' \subseteq Ids \X Clients
      /\ socket' \in [Pages -> {"none", "opening", "open"}]
  BY UnlinkType DEF Lose, TypeInv, PageTypes
<1>2. pending' \in [Pages -> Queues]
  <2>1. Queue(p) \subseteq Ids /\ \A i \in Queue(p) : pending[p][i] \in Items
    BY QueueType DEF TypeInv
  <2>2. \A i \in Queue(p) : [pending[p][i] EXCEPT !.sent = FALSE] \in Items
    BY <2>1 DEF Items
  <2>3. [i \in Queue(p) |-> [pending[p][i] EXCEPT !.sent = FALSE]] \in [Queue(p) -> Items]
    BY <2>2
  <2>4. pending \in [Pages -> Queues]
    BY DEF TypeInv, PageTypes
  <2>5. \/ pending' = [pending EXCEPT ![p] = [i \in Queue(p) |-> [pending[p][i] EXCEPT !.sent = FALSE]]]
        \/ pending' = pending
    BY <2>4 DEF Lose
  <2> QED
    BY <2>1, <2>3, <2>4, <2>5, PendingType DEF TypeInv
<1>3. faults' \in Nat
  BY FaultType DEF Lose, TypeInv
<1> QED
  BY <1>1, <1>2, <1>3 DEF Lose, TypeInv, ServiceTypes, PageTypes, ProfileTypes, serviceVars

LEMMA TypesClose ==
  ASSUME TypeInv, NEW p \in Pages, Close(p)
  PROVE  TypeInv'
<1>1. /\ link' \in [Pages -> Links] /\ inbox' \in [Pages -> Seq(Messages)]
      /\ copies' \in [Pages -> [Ids -> Nat]] /\ stray' \subseteq Ids \X Clients
      /\ socket' \in [Pages -> {"none", "opening", "open"}]
  BY UnlinkType DEF Close, TypeInv, PageTypes
<1>2. pending' \in [Pages -> Queues]
  BY EmptyQueue DEF Close, TypeInv, PageTypes
<1>3. doc' \in [Pages -> Seq(Nat)] /\ chain' \in [Pages -> Seq(Mutations)]
  BY DEF Close, TypeInv, PageTypes, NoDoc
<1> QED
  BY <1>1, <1>2, <1>3 DEF Close, TypeInv, ServiceTypes, PageTypes, ProfileTypes, serviceVars,
                          historyVars

\* A mutation is added to a page's chain.
LEMMA PersistType ==
  ASSUME PageTypes, NEW p \in Pages, NEW add \in SUBSET Ids, NEW remove \in SUBSET Ids,
         Persist(p, Mutation(add, remove))
  PROVE  /\ chain' \in [Pages -> Seq(Mutations)]
         /\ chain'[p] = Append(chain[p], [add |-> add, remove |-> remove])
         /\ \A q \in Pages \ {p} : chain'[q] = chain[q]
<1>1. [add |-> add, remove |-> remove] \in Mutations
  BY DEF Mutations
<1> QED
  BY <1>1 DEF Persist, Mutation, PageTypes

\* The queue of a page that submits.
LEMMA SubmitQueue ==
  ASSUME TypeInv, NEW p \in Pages, NEW i \in Ids
  PROVE  /\ Queue(p) \cup {i} \subseteq Ids
         /\ [j \in Queue(p) \cup {i} |-> IF j = i THEN Unsent ELSE pending[p][j]]
               \in [Queue(p) \cup {i} -> Items]
  BY QueueType, UnsentType DEF TypeInv

LEMMA TypesSubmit ==
  ASSUME TypeInv, NEW p \in Pages, NEW i \in Ids, Submit(p, i)
  PROVE  TypeInv'
<1>1. origin' \in [Ids -> [page : Pages \cup {NoPage}, base : Nat]]
  BY DEF Submit, TypeInv, ProfileTypes, PageTypes
<1>2. conn[p] \in {"offline", "connecting", "online", "resyncing"}
  BY DEF TypeInv, PageTypes
<1>3. CASE /\ Flush(p, [j \in Queue(p) \cup {i} |-> IF j = i THEN Unsent ELSE pending[p][j]], conn[p])
           /\ Persist(p, Mutation({i}, {}))
           /\ UNCHANGED settled
  <2>1. FlushEffect(p, [j \in Queue(p) \cup {i} |-> IF j = i THEN Unsent ELSE pending[p][j]], conn[p])
    BY <1>3, SubmitQueue, FlushType DEF TypeInv
  <2>2. pending' \in [Pages -> Queues] /\ copies' \in [Pages -> [Ids -> Nat]]
        /\ conn' = [conn EXCEPT ![p] = conn[p]]
    BY <2>1 DEF FlushEffect
  <2>3. chain' \in [Pages -> Seq(Mutations)]
    <3>1. {i} \in SUBSET Ids /\ {} \in SUBSET Ids /\ Persist(p, Mutation({i}, {}))
      BY <1>3
    <3> QED
      BY <3>1, PersistType DEF TypeInv
  <2> QED
    BY <1>1, <1>2, <1>3, <2>2, <2>3 DEF Submit, TypeInv, ServiceTypes, PageTypes, ProfileTypes,
                                        serviceVars, linkVars
<1>4. CASE /\ settled' = [settled EXCEPT ![i] = @ \cup {Message("rejected", i, 0)}]
           /\ UNCHANGED <<pending, copies, conn, chain>>
  <2>1. settled' \in [Ids -> SUBSET Messages]
    BY <1>4, MessageType DEF TypeInv, ProfileTypes
  <2> QED
    BY <1>1, <1>4, <2>1 DEF Submit, TypeInv, ServiceTypes, PageTypes, ProfileTypes,
                            serviceVars, linkVars
<1> QED
  BY <1>3, <1>4 DEF Submit

\* The queue of a page whose timer fires.
LEMMA RetryQueue ==
  ASSUME NEW S, NEW q \in [S -> Items], NEW i \in S, q[i].timers > 0
  PROVE  LET f == [q EXCEPT ![i].timers = @ - 1, ![i].sent = FALSE] IN
         /\ f \in [S -> Items]
         /\ \A j \in S \ {i} : f[j] = q[j]
         /\ f[i] = [q[i] EXCEPT !.timers = @ - 1, !.sent = FALSE]
<1> DEFINE item == [q[i] EXCEPT !.timers = @ - 1, !.sent = FALSE]
           f    == [q EXCEPT ![i].timers = @ - 1, ![i].sent = FALSE]
<1>1. q[i] \in Items
  OBVIOUS
<1>2. item \in Items
  <2>1. \A r \in Items, n \in Nat : [r EXCEPT !.timers = n, !.sent = FALSE] \in Items
    BY DEF Items
  <2>2. q[i].timers - 1 \in Nat
    BY <1>1 DEF Items
  <2>3. item = [q[i] EXCEPT !.timers = q[i].timers - 1, !.sent = FALSE]
    OBVIOUS
  <2> QED
    BY <1>1, <2>1, <2>2, <2>3
<1>3. [q EXCEPT ![i] = item] \in [S -> Items]
  BY <1>1, <1>2
<1>4. f = [q EXCEPT ![i] = item]
  <2>1. f = [[q EXCEPT ![i] = [q[i] EXCEPT !.timers = @ - 1]] EXCEPT ![i] = [@ EXCEPT !.sent = FALSE]]
    OBVIOUS
  <2> QED
    BY <2>1, <1>1
<1> QED
  BY <1>3, <1>4

LEMMA TypesRetry ==
  ASSUME TypeInv, NEW p \in Pages, NEW i \in Ids, Retry(p, i)
  PROVE  TypeInv'
<1>1. FlushEffect(p, [pending[p] EXCEPT ![i].timers = @ - 1, ![i].sent = FALSE], conn[p])
  <2>1. Queue(p) \subseteq Ids /\ pending[p] \in [Queue(p) -> Items] /\ i \in Queue(p)
        /\ pending[p][i].timers > 0
    BY QueueType DEF Retry, TypeInv
  <2>2. [pending[p] EXCEPT ![i].timers = @ - 1, ![i].sent = FALSE] \in [Queue(p) -> Items]
    BY <2>1, RetryQueue
  <2> QED
    BY <2>1, <2>2, FlushType DEF Retry, TypeInv
<1>2. pending' \in [Pages -> Queues] /\ copies' \in [Pages -> [Ids -> Nat]]
      /\ conn' = [conn EXCEPT ![p] = conn[p]]
  BY <1>1 DEF FlushEffect
<1> QED
  BY <1>2 DEF Retry, TypeInv, ServiceTypes, PageTypes, ProfileTypes, serviceVars, linkVars, historyVars

LEMMA TypesStore ==
  ASSUME TypeInv, NEW p \in Pages, Store(p)
  PROVE  TypeInv'
<1>1. /\ chain[p] \in Seq(Mutations) /\ chain[p] # <<>>
      /\ chain' = [chain EXCEPT ![p] = Tail(chain[p])]
  BY DEF Store, TypeInv, PageTypes
<1>2. Head(chain[p]) \in Mutations /\ Tail(chain[p]) \in Seq(Mutations)
  BY <1>1
<1>3. chain' \in [Pages -> Seq(Mutations)]
  BY <1>1, <1>2 DEF TypeInv, PageTypes
<1>4. storage' \in SUBSET Ids /\ durable' \in SUBSET Ids /\ faults' \in Nat
  BY <1>2, FaultType DEF Store, TypeInv, ProfileTypes, Mutations
<1> QED
  BY <1>3, <1>4 DEF Store, TypeInv, ServiceTypes, PageTypes, ProfileTypes, serviceVars, linkVars,
                    pageVars, Queue

-----------------------------------------------------------------------------
(* What the handlers of messages change *)

LEMMA ReceiveType ==
  ASSUME ServiceTypes, NEW p \in Pages, NEW kind, Receive(p, kind)
  PROVE  /\ inbox' \in [Pages -> Seq(Messages)]
         /\ \A q \in Pages \ {p} : inbox'[q] = inbox[q]
         /\ Head(inbox[p]) \in Messages /\ Head(inbox[p]).kind = kind
         /\ Len(inbox[p]) \in Nat /\ Len(inbox'[p]) \in Nat
         /\ Len(inbox[p]) = Len(inbox'[p]) + 1 /\ inbox[p][1] = Head(inbox[p])
         /\ \A k \in 1 .. Len(inbox'[p]) :
               inbox'[p][k] = inbox[p][k + 1] /\ inbox'[p][k] \in Messages
<1>1. inbox \in [Pages -> Seq(Messages)] /\ inbox[p] \in Seq(Messages) /\ inbox[p] # <<>>
  BY DEF ServiceTypes, Receive
<1>2. inbox' = [inbox EXCEPT ![p] = Tail(inbox[p])] /\ Head(inbox[p]).kind = kind
  BY DEF Receive
<1>3. Tail(inbox[p]) \in Seq(Messages) /\ Head(inbox[p]) \in Messages
  BY <1>1
<1>4. inbox'[p] = Tail(inbox[p])
  BY <1>1, <1>2
<1>5. Len(inbox[p]) \in Nat \ {0} /\ Len(Tail(inbox[p])) = Len(inbox[p]) - 1
  BY <1>1
<1>6. \A k \in 1 .. Len(Tail(inbox[p])) :
        Tail(inbox[p])[k] = inbox[p][k + 1] /\ Tail(inbox[p])[k] \in Messages
  BY <1>1, <1>3
<1>7. Head(inbox[p]) = inbox[p][1]
  BY <1>1
<1>8. inbox' \in [Pages -> Seq(Messages)] /\ \A q \in Pages \ {p} : inbox'[q] = inbox[q]
  BY <1>1, <1>2, <1>3
<1>9. Len(inbox'[p]) \in Nat /\ Len(inbox[p]) = Len(inbox'[p]) + 1
  BY <1>4, <1>5
<1> QED
  BY <1>2, <1>3, <1>4, <1>5, <1>6, <1>7, <1>8, <1>9

LEMMA RecoverType ==
  ASSUME ServiceTypes, PageTypes, NEW p \in Pages, Recover(p)
  PROVE  /\ conn' \in [Pages -> {"offline", "connecting", "online", "resyncing"}]
         /\ conn' = [conn EXCEPT ![p] = "resyncing"]
         /\ link' \in [Pages -> Links]
         /\ link'[p].syncs > 0 /\ \A q \in Pages \ {p} : link'[q] = link[q]
<1>1. link[p].syncs + 1 \in Nat /\ link[p].syncs + 1 > 0
  BY DEF ServiceTypes, Links
<1>2. link' = [link EXCEPT ![p].syncs = link[p].syncs + 1]
  BY DEF Recover
<1>3. link' \in [Pages -> Links]
  BY <1>1, <1>2, LinkType
<1>4. link \in [Pages -> Links] /\ link[p] \in Links
  BY DEF ServiceTypes
<1>5. link'[p].syncs = link[p].syncs + 1 /\ \A q \in Pages \ {p} : link'[q] = link[q]
  BY <1>2, <1>4 DEF Links
<1> QED
  BY <1>1, <1>3, <1>5 DEF Recover, PageTypes

LEMMA SettleType ==
  ASSUME PageTypes, ProfileTypes, NEW p \in Pages, NEW S, S \subseteq Ids,
         NEW answers \in [S -> Messages], Settle(p, answers)
  PROVE  /\ settled' \in [Ids -> SUBSET Messages]
         /\ \A i \in S : settled'[i] = settled[i] \cup {answers[i]}
         /\ \A i \in Ids \ S : settled'[i] = settled[i]
         /\ chain' \in [Pages -> Seq(Mutations)]
         /\ \A q \in Pages \ {p} : chain'[q] = chain[q]
         /\ \/ S = {} /\ chain' = chain
            \/ chain'[p] = Append(chain[p], [add |-> {}, remove |-> S])
<1>1. settled \in [Ids -> SUBSET Messages] /\ DOMAIN answers = S
      /\ \A i \in S : answers[i] \in Messages
  BY DEF ProfileTypes
<1>2. settled' = [i \in Ids |-> IF i \in S THEN settled[i] \cup {answers[i]} ELSE settled[i]]
  BY <1>1 DEF Settle
<1>3. /\ settled' \in [Ids -> SUBSET Messages]
      /\ \A i \in S : settled'[i] = settled[i] \cup {answers[i]}
      /\ \A i \in Ids \ S : settled'[i] = settled[i]
  BY <1>1, <1>2
<1>4. CASE S = {}
  <2>1. chain' = chain
    BY <1>1, <1>4 DEF Settle
  <2> QED
    BY <1>3, <1>4, <2>1 DEF PageTypes
<1>5. CASE S # {}
  <2>1. Persist(p, Mutation({}, S)) /\ {} \in SUBSET Ids /\ S \in SUBSET Ids
    BY <1>1, <1>5 DEF Settle
  <2> QED
    BY <1>3, <2>1, PersistType
<1> QED
  BY <1>4, <1>5

\* The operations a snapshot settles, and the queue it leaves.
Done(p, v) == {i \in Queue(p) : pending[p][i].resync \/ pending[p][i].accepted \in 1 .. v}
SnapshotAnswer(p, i) ==
    IF pending[p][i].resync THEN Message("resync", i, 0)
    ELSE Message("accepted", i, pending[p][i].accepted)
Left(p, v) == [i \in Queue(p) \ Done(p, v) |-> [pending[p][i] EXCEPT !.sent = FALSE]]
AfterSnapshot(p) == IF conn[p] = "connecting" THEN "connecting" ELSE "online"

LEMMA SnapshotEffect ==
  ASSUME TypeInv, NEW p \in Pages, HandleSnapshot(p)
  PROVE  LET v == Head(inbox[p]).version IN
         /\ v \in Nat
         /\ Receive(p, "snapshot")
         /\ version' = [version EXCEPT ![p] = v] /\ doc' = [doc EXCEPT ![p] = UpTo(v)]
         /\ Done(p, v) \subseteq Ids
         /\ [i \in Done(p, v) |-> SnapshotAnswer(p, i)] \in [Done(p, v) -> Messages]
         /\ Settle(p, [i \in Done(p, v) |-> SnapshotAnswer(p, i)])
         /\ Queue(p) \ Done(p, v) \subseteq Ids
         /\ Left(p, v) \in [Queue(p) \ Done(p, v) -> Items]
         /\ FlushEffect(p, Left(p, v), AfterSnapshot(p))
         /\ UNCHANGED <<serviceVars, link, page, socket, stray, storage, origin, durable, faults>>
<1> DEFINE v == Head(inbox[p]).version
<1>1. v \in Nat /\ Receive(p, "snapshot")
  <2>1. Receive(p, "snapshot")
    BY DEF HandleSnapshot
  <2> QED
    BY <2>1, ReceiveType DEF TypeInv, Messages
<1>2. Queue(p) \subseteq Ids /\ \A i \in Queue(p) : pending[p][i] \in Items
  BY QueueType DEF TypeInv
<1>3. Done(p, v) \subseteq Ids /\ Queue(p) \ Done(p, v) \subseteq Ids
  BY <1>2 DEF Done
<1>4. \A i \in Done(p, v) : SnapshotAnswer(p, i) \in Messages
  BY <1>2, MessageType DEF Done, SnapshotAnswer, Items
<1>5. \A i \in Queue(p) \ Done(p, v) : [pending[p][i] EXCEPT !.sent = FALSE] \in Items
  BY <1>2 DEF Items
<1>6. Left(p, v) \in [Queue(p) \ Done(p, v) -> Items]
  BY <1>5 DEF Left
<1>7. /\ Settle(p, [i \in Done(p, v) |-> SnapshotAnswer(p, i)])
      /\ Flush(p, Left(p, v), AfterSnapshot(p))
  BY DEF HandleSnapshot, Done, SnapshotAnswer, Left, AfterSnapshot
<1>8. FlushEffect(p, Left(p, v), AfterSnapshot(p))
  BY <1>3, <1>6, <1>7, FlushType DEF TypeInv
<1>9. [i \in Done(p, v) |-> SnapshotAnswer(p, i)] \in [Done(p, v) -> Messages]
  BY <1>4
<1>10. /\ version' = [version EXCEPT ![p] = v] /\ doc' = [doc EXCEPT ![p] = UpTo(v)]
       /\ UNCHANGED <<serviceVars, link, page, socket, stray, storage, origin, durable, faults>>
  BY DEF HandleSnapshot
<1> QED
  BY <1>1, <1>3, <1>6, <1>7, <1>8, <1>9, <1>10

LEMMA TypesSnapshot ==
  ASSUME TypeInv, NEW p \in Pages, HandleSnapshot(p)
  PROVE  TypeInv'
<1> DEFINE v == Head(inbox[p]).version
<1>0. v \in Nat /\ Receive(p, "snapshot")
      /\ version' = [version EXCEPT ![p] = v] /\ doc' = [doc EXCEPT ![p] = UpTo(v)]
  BY SnapshotEffect
<1>1. inbox' \in [Pages -> Seq(Messages)]
  BY <1>0, ReceiveType DEF TypeInv
<1>2. UpTo(v) \in Seq(Nat)
  BY <1>0 DEF UpTo
<1>3. version' \in [Pages -> Nat] /\ doc' \in [Pages -> Seq(Nat)]
  BY <1>0, <1>2 DEF TypeInv, PageTypes
<1>4. settled' \in [Ids -> SUBSET Messages] /\ chain' \in [Pages -> Seq(Mutations)]
  <2>1. /\ Done(p, v) \subseteq Ids
        /\ [i \in Done(p, v) |-> SnapshotAnswer(p, i)] \in [Done(p, v) -> Messages]
        /\ Settle(p, [i \in Done(p, v) |-> SnapshotAnswer(p, i)])
    BY SnapshotEffect
  <2> QED
    BY <2>1, SettleType DEF TypeInv
<1>5. FlushEffect(p, Left(p, v), AfterSnapshot(p))
  BY SnapshotEffect
<1>6. AfterSnapshot(p) \in {"connecting", "online"}
  BY DEF AfterSnapshot
<1>7. /\ pending' \in [Pages -> Queues] /\ copies' \in [Pages -> [Ids -> Nat]]
      /\ conn' \in [Pages -> {"offline", "connecting", "online", "resyncing"}]
  BY <1>5, <1>6 DEF FlushEffect, TypeInv, PageTypes
<1>8. UNCHANGED <<serviceVars, link, page, socket, stray, storage, origin, durable, faults>>
  BY SnapshotEffect
<1> QED
  BY <1>1, <1>3, <1>4, <1>7, <1>8 DEF TypeInv, ServiceTypes, PageTypes, ProfileTypes, serviceVars

LEMMA ReadyEffect ==
  ASSUME TypeInv, NEW p \in Pages, HandleReady(p)
  PROVE  /\ Receive(p, "ready")
         /\ \/ Recover(p) /\ UNCHANGED <<pending, copies>>
            \/ FlushEffect(p, pending[p], "online") /\ UNCHANGED link
         /\ UNCHANGED <<serviceVars, page, socket, version, doc, stray, chain, storage, historyVars>>
<1>1. Queue(p) \subseteq Ids /\ pending[p] \in [Queue(p) -> Items]
  BY QueueType DEF TypeInv
<1>2. Flush(p, pending[p], "online") => FlushEffect(p, pending[p], "online")
  BY <1>1, FlushType DEF TypeInv
<1> QED
  BY <1>2 DEF HandleReady

LEMMA TypesReady ==
  ASSUME TypeInv, NEW p \in Pages, HandleReady(p)
  PROVE  TypeInv'
<1>1. /\ Receive(p, "ready")
      /\ UNCHANGED <<serviceVars, page, socket, version, doc, stray, chain, storage, historyVars>>
  BY ReadyEffect
<1>2. inbox' \in [Pages -> Seq(Messages)]
  BY <1>1, ReceiveType DEF TypeInv
<1>3. /\ pending' \in [Pages -> Queues] /\ copies' \in [Pages -> [Ids -> Nat]]
      /\ conn' \in [Pages -> {"offline", "connecting", "online", "resyncing"}]
      /\ link' \in [Pages -> Links]
  <2>1. CASE Recover(p) /\ UNCHANGED <<pending, copies>>
    BY <2>1, RecoverType DEF TypeInv, ServiceTypes, PageTypes
  <2>2. CASE FlushEffect(p, pending[p], "online") /\ UNCHANGED link
    BY <2>2 DEF FlushEffect, TypeInv, ServiceTypes, PageTypes
  <2> QED
    BY <2>1, <2>2, ReadyEffect
<1> QED
  BY <1>1, <1>2, <1>3 DEF TypeInv, ServiceTypes, PageTypes, ProfileTypes, serviceVars, historyVars

LEMMA AdvanceType ==
  ASSUME PageTypes, NEW p \in Pages, NEW v \in Nat, Advance(p, v)
  PROVE  version' \in [Pages -> Nat] /\ doc' \in [Pages -> Seq(Nat)]
  BY DEF PageTypes, Advance

LEMMA TypesEvent ==
  ASSUME TypeInv, NEW p \in Pages, HandleEvent(p)
  PROVE  TypeInv'
<1>1. Receive(p, "event") /\ UNCHANGED <<serviceVars, page, socket, queueVars, historyVars>>
  BY DEF HandleEvent
<1>2. inbox' \in [Pages -> Seq(Messages)] /\ Head(inbox[p]).version \in Nat
  BY <1>1, ReceiveType DEF TypeInv, Messages
<1>3. /\ conn' \in [Pages -> {"offline", "connecting", "online", "resyncing"}]
      /\ link' \in [Pages -> Links] /\ version' \in [Pages -> Nat] /\ doc' \in [Pages -> Seq(Nat)]
  <2>1. CASE Recover(p) /\ UNCHANGED <<version, doc>>
    BY <2>1, RecoverType DEF TypeInv, PageTypes
  <2>2. CASE UNCHANGED <<conn, link, version, doc>>
    BY <2>2 DEF TypeInv, ServiceTypes, PageTypes
  <2>3. CASE Advance(p, Head(inbox[p]).version) /\ UNCHANGED <<conn, link>>
    BY <1>2, <2>3, AdvanceType DEF TypeInv, ServiceTypes, PageTypes
  <2> QED
    BY <2>1, <2>2, <2>3 DEF HandleEvent
<1> QED
  BY <1>1, <1>2, <1>3 DEF TypeInv, ServiceTypes, PageTypes, ProfileTypes, serviceVars, queueVars,
                          historyVars, Queue

\* A step that changes one item of one page's queue.
ItemEffect(p, i, item) ==
    /\ pending' \in [Pages -> Queues]
    /\ \A q \in Pages \ {p} : pending'[q] = pending[q]
    /\ DOMAIN pending'[p] = Queue(p)
    /\ pending'[p][i] = item
    /\ \A j \in Queue(p) \ {i} : pending'[p][j] = pending[p][j]

LEMMA ItemType ==
  ASSUME PageTypes, NEW p \in Pages, NEW i \in Queue(p), NEW item \in Items,
         pending' = [pending EXCEPT ![p][i] = item]
  PROVE  ItemEffect(p, i, item)
<1>1. Queue(p) \subseteq Ids /\ pending[p] \in [Queue(p) -> Items]
  BY QueueType
<1>2. pending' = [pending EXCEPT ![p] = [pending[p] EXCEPT ![i] = item]]
  OBVIOUS
<1>3. [pending[p] EXCEPT ![i] = item] \in [Queue(p) -> Items]
  BY <1>1
<1>4. /\ pending' \in [Pages -> Queues] /\ pending'[p] = [pending[p] EXCEPT ![i] = item]
      /\ \A q \in Pages \ {p} : pending'[q] = pending[q]
  BY <1>1, <1>2, <1>3, PendingType
<1> QED
  BY <1>1, <1>4 DEF ItemEffect

LEMMA ResyncEffect ==
  ASSUME TypeInv, NEW p \in Pages, HandleResync(p)
  PROVE  LET i == Head(inbox[p]).id IN
         /\ Receive(p, "resync") /\ Recover(p)
         /\ \/ i \notin Queue(p) /\ UNCHANGED pending
            \/ i \in Queue(p) /\ ItemEffect(p, i, [pending[p][i] EXCEPT !.resync = TRUE])
         /\ UNCHANGED <<serviceVars, page, socket, version, doc, copies, stray, chain, storage,
                        historyVars>>
<1> DEFINE i == Head(inbox[p]).id
<1>1. CASE i \in Queue(p)
  <2>1. pending[p][i] \in Items
    BY <1>1, QueueType DEF TypeInv
  <2>2. [pending[p][i] EXCEPT !.resync = TRUE] \in Items
    BY <2>1 DEF Items
  <2>3. pending' = [pending EXCEPT ![p][i].resync = TRUE]
    BY <1>1 DEF HandleResync
  <2>4. pending' = [pending EXCEPT ![p][i] = [pending[p][i] EXCEPT !.resync = TRUE]]
    BY <2>3
  <2>5. ItemEffect(p, i, [pending[p][i] EXCEPT !.resync = TRUE])
    BY <1>1, <2>2, <2>4, ItemType DEF TypeInv
  <2> QED
    BY <1>1, <2>5 DEF HandleResync
<1>2. CASE i \notin Queue(p)
  BY <1>2 DEF HandleResync
<1> QED
  BY <1>1, <1>2

LEMMA TypesResync ==
  ASSUME TypeInv, NEW p \in Pages, HandleResync(p)
  PROVE  TypeInv'
<1>1. /\ Receive(p, "resync") /\ Recover(p)
      /\ UNCHANGED <<serviceVars, page, socket, version, doc, copies, stray, chain, storage,
                     historyVars>>
  BY ResyncEffect
<1>2. inbox' \in [Pages -> Seq(Messages)]
  BY <1>1, ReceiveType DEF TypeInv
<1>3. /\ conn' \in [Pages -> {"offline", "connecting", "online", "resyncing"}]
      /\ link' \in [Pages -> Links]
  BY <1>1, RecoverType DEF TypeInv
<1>4. pending' \in [Pages -> Queues]
  BY ResyncEffect DEF ItemEffect, TypeInv, PageTypes
<1> QED
  BY <1>1, <1>2, <1>3, <1>4 DEF TypeInv, ServiceTypes, PageTypes, ProfileTypes, serviceVars, historyVars

LEMMA RetryEffect ==
  ASSUME TypeInv, NEW p \in Pages, HandleRetry(p)
  PROVE  LET i == Head(inbox[p]).id IN
         /\ Receive(p, "retry")
         /\ \/ i \notin Queue(p) /\ UNCHANGED pending
            \/ i \in Queue(p) /\ ItemEffect(p, i, [pending[p][i] EXCEPT !.sent = TRUE,
                                                   !.timers = pending[p][i].timers + 1])
         /\ UNCHANGED <<serviceVars, link, page, socket, conn, version, doc, copies, stray, chain,
                        storage, historyVars>>
<1> DEFINE i == Head(inbox[p]).id
           item == [pending[p][i] EXCEPT !.sent = TRUE, !.timers = pending[p][i].timers + 1]
<1>1. CASE i \in Queue(p)
  <2>1. pending[p] \in [Queue(p) -> Items] /\ pending[p][i] \in Items
    BY <1>1, QueueType DEF TypeInv
  <2>2. item \in Items
    <3>1. \A r \in Items, n \in Nat : [r EXCEPT !.sent = TRUE, !.timers = n] \in Items
      BY DEF Items
    <3>2. pending[p][i].timers + 1 \in Nat
      BY <2>1 DEF Items
    <3> QED
      BY <2>1, <3>1, <3>2
  <2>3. pending' = [pending EXCEPT ![p][i].sent = TRUE, ![p][i].timers = @ + 1]
    BY <1>1 DEF HandleRetry
  <2>4. pending' = [pending EXCEPT ![p][i] = item]
    <3>1. pending' = [[pending EXCEPT ![p] = [pending[p] EXCEPT ![i] = [pending[p][i] EXCEPT !.sent = TRUE]]]
                        EXCEPT ![p][i].timers = @ + 1]
      BY <2>3
    <3> QED
      BY <2>1, <3>1 DEF TypeInv, PageTypes, Items
  <2>5. ItemEffect(p, i, item)
    BY <1>1, <2>2, <2>4, ItemType DEF TypeInv
  <2> QED
    BY <1>1, <2>5 DEF HandleRetry
<1>2. CASE i \notin Queue(p)
  BY <1>2 DEF HandleRetry
<1> QED
  BY <1>1, <1>2

LEMMA TypesRetryLater ==
  ASSUME TypeInv, NEW p \in Pages, HandleRetry(p)
  PROVE  TypeInv'
<1>1. /\ Receive(p, "retry")
      /\ UNCHANGED <<serviceVars, link, page, socket, conn, version, doc, copies, stray, chain,
                     storage, historyVars>>
  BY RetryEffect
<1>2. inbox' \in [Pages -> Seq(Messages)]
  BY <1>1, ReceiveType DEF TypeInv
<1>3. pending' \in [Pages -> Queues]
  BY RetryEffect DEF ItemEffect, TypeInv, PageTypes
<1> QED
  BY <1>1, <1>2, <1>3 DEF TypeInv, ServiceTypes, PageTypes, ProfileTypes, serviceVars, historyVars

\* An operation leaves the queue with an answer.
RemoveEffect(p, m) ==
    /\ pending' \in [Pages -> Queues]
    /\ \A q \in Pages \ {p} : pending'[q] = pending[q]
    /\ DOMAIN pending'[p] = Queue(p) \ {m.id}
    /\ \A j \in Queue(p) \ {m.id} : pending'[p][j] = pending[p][j]
    /\ {m.id} \cap Queue(p) \subseteq Ids
    /\ [j \in {m.id} \cap Queue(p) |-> m] \in [{m.id} \cap Queue(p) -> Messages]
    /\ Settle(p, [j \in {m.id} \cap Queue(p) |-> m])

LEMMA RemoveType ==
  ASSUME PageTypes, NEW p \in Pages, NEW m \in Messages,
         pending' = [pending EXCEPT ![p] = Without(pending[p], {m.id})],
         Settle(p, [j \in {m.id} \cap Queue(p) |-> m])
  PROVE  RemoveEffect(p, m)
<1>1. Queue(p) \subseteq Ids /\ pending[p] \in [Queue(p) -> Items]
  BY QueueType
<1> DEFINE f == [j \in Queue(p) \ {m.id} |-> pending[p][j]]
<1>2. Without(pending[p], {m.id}) = f
  BY <1>1 DEF Without
<1>3. f \in [Queue(p) \ {m.id} -> Items] /\ Queue(p) \ {m.id} \subseteq Ids
  BY <1>1
<1>4. /\ pending' \in [Pages -> Queues] /\ pending'[p] = f
      /\ \A q \in Pages \ {p} : pending'[q] = pending[q]
  <2> HIDE DEF f
  <2> QED
    BY <1>2, <1>3, PendingType
<1> QED
  BY <1>1, <1>4 DEF RemoveEffect

LEMMA AcceptedEffect ==
  ASSUME TypeInv, NEW p \in Pages, HandleAccepted(p)
  PROVE  LET m == Head(inbox[p]) IN
         /\ Receive(p, "accepted") /\ m \in Messages
         /\ \/ /\ \/ m.id \notin Queue(p) /\ UNCHANGED pending
                  \/ m.id \in Queue(p)
                     /\ ItemEffect(p, m.id, [pending[p][m.id] EXCEPT !.accepted = m.version])
               /\ Recover(p)
               /\ UNCHANGED <<version, doc, chain, settled>>
            \/ /\ \/ UNCHANGED <<version, doc>>
                  \/ doc[p] # NoDoc /\ m.version = version[p] + 1 /\ Advance(p, m.version)
               /\ RemoveEffect(p, m)
               /\ UNCHANGED <<conn, link>>
         /\ UNCHANGED <<serviceVars, page, socket, copies, stray, storage, origin, durable, faults>>
<1> DEFINE m == Head(inbox[p])
<1>1. Receive(p, "accepted") /\ m \in Messages
  <2>1. Receive(p, "accepted")
    BY DEF HandleAccepted
  <2> QED
    BY <2>1, ReceiveType DEF TypeInv
<1>2. UNCHANGED <<serviceVars, page, socket, copies, stray, storage, origin, durable, faults>>
  BY DEF HandleAccepted
<1>3. CASE /\ pending' = IF m.id \in Queue(p) THEN [pending EXCEPT ![p][m.id].accepted = m.version]
                         ELSE pending
           /\ Recover(p)
           /\ UNCHANGED <<version, doc, chain, settled>>
  <2>1. CASE m.id \in Queue(p)
    <3>1. pending[p][m.id] \in Items /\ m.version \in Nat
      BY <1>1, <2>1, QueueType DEF TypeInv, Messages
    <3>2. [pending[p][m.id] EXCEPT !.accepted = m.version] \in Items
      BY <3>1 DEF Items
    <3>3. pending' = [pending EXCEPT ![p][m.id].accepted = m.version]
      BY <1>3, <2>1
    <3>4. pending' = [pending EXCEPT ![p][m.id] = [pending[p][m.id] EXCEPT !.accepted = m.version]]
      BY <3>3
    <3>5. ItemEffect(p, m.id, [pending[p][m.id] EXCEPT !.accepted = m.version])
      BY <2>1, <3>2, <3>4, ItemType DEF TypeInv
    <3> QED
      BY <1>1, <1>2, <1>3, <2>1, <3>5
  <2>2. CASE m.id \notin Queue(p)
    BY <1>1, <1>2, <1>3, <2>2
  <2> QED
    BY <2>1, <2>2
<1>4. CASE /\ doc[p] # NoDoc /\ m.version <= version[p] + 1
           /\ IF m.version = version[p] + 1 THEN Advance(p, m.version) ELSE UNCHANGED <<version, doc>>
           /\ pending' = [pending EXCEPT ![p] = Without(pending[p], {m.id})]
           /\ Settle(p, [j \in {m.id} \cap Queue(p) |-> m])
           /\ UNCHANGED <<conn, link>>
  <2>1. RemoveEffect(p, m)
    BY <1>1, <1>4, RemoveType DEF TypeInv
  <2> QED
    BY <1>1, <1>2, <1>4, <2>1
<1> QED
  BY <1>3, <1>4 DEF HandleAccepted

LEMMA RemovedType ==
  ASSUME TypeInv, NEW p \in Pages, NEW m, RemoveEffect(p, m)
  PROVE  /\ pending' \in [Pages -> Queues]
         /\ settled' \in [Ids -> SUBSET Messages] /\ chain' \in [Pages -> Seq(Mutations)]
  BY SettleType DEF RemoveEffect, TypeInv

LEMMA TypesAccepted ==
  ASSUME TypeInv, NEW p \in Pages, HandleAccepted(p)
  PROVE  TypeInv'
<1> DEFINE m == Head(inbox[p])
<1>1. /\ Receive(p, "accepted") /\ m \in Messages
      /\ UNCHANGED <<serviceVars, page, socket, copies, stray, storage, origin, durable, faults>>
  BY AcceptedEffect
<1>2. inbox' \in [Pages -> Seq(Messages)] /\ m.version \in Nat
  BY <1>1, ReceiveType DEF TypeInv, Messages
<1>3. /\ conn' \in [Pages -> {"offline", "connecting", "online", "resyncing"}]
      /\ link' \in [Pages -> Links] /\ version' \in [Pages -> Nat] /\ doc' \in [Pages -> Seq(Nat)]
      /\ pending' \in [Pages -> Queues]
      /\ settled' \in [Ids -> SUBSET Messages] /\ chain' \in [Pages -> Seq(Mutations)]
  <2>1. CASE /\ \/ m.id \notin Queue(p) /\ UNCHANGED pending
                \/ m.id \in Queue(p)
                   /\ ItemEffect(p, m.id, [pending[p][m.id] EXCEPT !.accepted = m.version])
             /\ Recover(p)
             /\ UNCHANGED <<version, doc, chain, settled>>
    BY <2>1, RecoverType DEF TypeInv, PageTypes, ProfileTypes, ItemEffect
  <2>2. CASE /\ UNCHANGED <<version, doc>> \/ Advance(p, m.version)
             /\ RemoveEffect(p, m)
             /\ UNCHANGED <<conn, link>>
    <3>1. version' \in [Pages -> Nat] /\ doc' \in [Pages -> Seq(Nat)]
      BY <1>2, <2>2, AdvanceType DEF TypeInv, PageTypes
    <3> QED
      BY <2>2, <3>1, RemovedType DEF TypeInv, PageTypes, ServiceTypes
  <2> QED
    BY <2>1, <2>2, AcceptedEffect
<1> QED
  BY <1>1, <1>2, <1>3 DEF TypeInv, ServiceTypes, PageTypes, ProfileTypes, serviceVars

LEMMA RejectedEffect ==
  ASSUME TypeInv, NEW p \in Pages, HandleRejected(p)
  PROVE  LET m == Head(inbox[p]) IN
         /\ Receive(p, "rejected") /\ m \in Messages
         /\ RemoveEffect(p, m)
         /\ UNCHANGED <<serviceVars, link, page, socket, conn, version, doc, copies, stray, storage,
                        origin, durable, faults>>
<1>1. Receive(p, "rejected")
  BY DEF HandleRejected
<1>2. Head(inbox[p]) \in Messages
  BY <1>1, ReceiveType DEF TypeInv
<1>3. RemoveEffect(p, Head(inbox[p]))
  BY <1>2, RemoveType DEF HandleRejected, TypeInv
<1> QED
  BY <1>1, <1>2, <1>3 DEF HandleRejected

LEMMA TypesRejected ==
  ASSUME TypeInv, NEW p \in Pages, HandleRejected(p)
  PROVE  TypeInv'
<1> DEFINE m == Head(inbox[p])
<1>1. /\ Receive(p, "rejected")
      /\ UNCHANGED <<serviceVars, link, page, socket, conn, version, doc, copies, stray, storage,
                     origin, durable, faults>>
  BY RejectedEffect
<1>2. inbox' \in [Pages -> Seq(Messages)]
  BY <1>1, ReceiveType DEF TypeInv
<1>3. /\ pending' \in [Pages -> Queues]
      /\ settled' \in [Ids -> SUBSET Messages] /\ chain' \in [Pages -> Seq(Mutations)]
  BY RejectedEffect, RemovedType
<1> QED
  BY <1>1, <1>2, <1>3 DEF TypeInv, ServiceTypes, PageTypes, ProfileTypes, serviceVars

LEMMA TypesInit == Init => TypeInv
<1> SUFFICES ASSUME Init PROVE TypeInv
  OBVIOUS
<1>1. /\ log \in Seq(Entries) /\ inbox \in [Pages -> Seq(Messages)]
      /\ chain \in [Pages -> Seq(Mutations)] /\ doc \in [Pages -> Seq(Nat)]
  BY DEF Init, NoDoc
<1>2. link \in [Pages -> Links]
  BY DEF Init, NoLink, Links
<1>3. pending \in [Pages -> Queues]
  BY EmptyQueue DEF Init
<1>4. origin \in [Ids -> [page : Pages \cup {NoPage}, base : Nat]]
  BY DEF Init, NoOp
<1> QED
  BY <1>1, <1>2, <1>3, <1>4 DEF Init, TypeInv, ServiceTypes, PageTypes, ProfileTypes

LEMMA TypesNext == TypeInv /\ [Next]_vars => TypeInv'
<1> SUFFICES ASSUME TypeInv, [Next]_vars PROVE TypeInv'
  OBVIOUS
<1>1. CASE UNCHANGED vars
  BY <1>1, TypesStutter
<1>2. CASE \E i \in Ids, by \in Clients : Decide(i, by)
  BY <1>2, TypesDecide
<1>3. CASE OthersCommit
  BY <1>3, TypesOthersCommit
<1>4. CASE \E p \in Pages : PageStep(p)
  <2> PICK p \in Pages : PageStep(p)
    BY <1>4
  <2>1. CASE Handle(p)
    BY <2>1, TypesSnapshot, TypesReady, TypesEvent, TypesResync, TypesRetryLater, TypesAccepted,
       TypesRejected DEF Handle
  <2>2. CASE \E i \in Ids : Submit(p, i) \/ Retry(p, i) \/ Answer(p, i)
    BY <2>2, TypesSubmit, TypesRetry, TypesAnswer
  <2> QED
    BY <2>1, <2>2, TypesLoad, TypesRestore, TypesLose, TypesClose, TypesStore, TypesSendSnapshot,
       TypesSendEvent, TypesSendReady, TypesSyncFails DEF PageStep
<1> QED
  BY <1>1, <1>2, <1>3, <1>4 DEF Next

\* The state of the pages, their queues, sockets and messages keeps its types.
THEOREM TypesCorrect == Spec => []TypeInv
  BY TypesInit, TypesNext, PTL DEF Spec

-----------------------------------------------------------------------------
(* Documents *)

LEMMA UpToNext == \A v \in Nat : Append(UpTo(v), v + 1) = UpTo(v + 1)
<1> TAKE v \in Nat
<1>1. UpTo(v) \in Seq(Nat) /\ UpTo(v + 1) \in Seq(Nat) /\ Len(UpTo(v)) = v /\ Len(UpTo(v + 1)) = v + 1
  BY DEF UpTo
<1>2. Append(UpTo(v), v + 1) \in Seq(Nat) /\ Len(Append(UpTo(v), v + 1)) = v + 1
  BY <1>1
<1>3. \A k \in 1 .. v + 1 : Append(UpTo(v), v + 1)[k] = UpTo(v + 1)[k]
  <2> TAKE k \in 1 .. v + 1
  <2>1. UpTo(v + 1)[k] = k
    BY DEF UpTo
  <2>2. CASE k = v + 1
    BY <1>1, <2>1, <2>2
  <2>3. CASE k \in 1 .. v
    <3>1. UpTo(v)[k] = k
      BY <2>3 DEF UpTo
    <3> QED
      BY <1>1, <2>1, <2>3, <3>1
  <2>4. k = v + 1 \/ k \in 1 .. v
    OBVIOUS
  <2> QED
    BY <2>2, <2>3, <2>4
<1> QED
  BY <1>1, <1>2, <1>3, SeqEqual

\* A page whose document grows by one version.
LEMMA AdvancePrefix ==
  ASSUME TypeInv, DocumentIsPrefix, NEW p \in Pages, Advance(p, version[p] + 1), doc[p] # NoDoc
  PROVE  DocumentIsPrefix'
<1>1. version[p] \in Nat /\ doc[p] = UpTo(version[p])
  BY DEF TypeInv, PageTypes, DocumentIsPrefix
<1>2. version' = [version EXCEPT ![p] = version[p] + 1]
      /\ doc' = [doc EXCEPT ![p] = Append(doc[p], version[p] + 1)]
  BY DEF Advance
<1>3. Append(doc[p], version[p] + 1) = UpTo(version[p] + 1)
  BY <1>1, UpToNext
<1>4. DOMAIN version = Pages /\ DOMAIN doc = Pages
  BY DEF TypeInv, PageTypes
<1> QED
  BY <1>2, <1>3, <1>4 DEF DocumentIsPrefix

\* Only these steps change what a page shows.
LEMMA PrefixNext == TypeInv /\ DocumentIsPrefix /\ [Next]_vars => DocumentIsPrefix'
<1> SUFFICES ASSUME TypeInv, DocumentIsPrefix, [Next]_vars PROVE DocumentIsPrefix'
  OBVIOUS
<1>1. ASSUME UNCHANGED <<version, doc>> PROVE DocumentIsPrefix'
  BY <1>1 DEF DocumentIsPrefix
<1>2. DOMAIN version = Pages /\ DOMAIN doc = Pages
  BY DEF TypeInv, PageTypes
<1>3. ASSUME NEW p \in Pages, Close(p) PROVE DocumentIsPrefix'
  BY <1>2, <1>3 DEF Close, DocumentIsPrefix
<1>4. ASSUME NEW p \in Pages, HandleSnapshot(p) PROVE DocumentIsPrefix'
  BY <1>2, <1>4 DEF HandleSnapshot, DocumentIsPrefix
<1>5. ASSUME NEW p \in Pages, HandleEvent(p) PROVE DocumentIsPrefix'
  <2>1. CASE UNCHANGED <<version, doc>>
    BY <1>1, <2>1
  <2>2. CASE doc[p] # NoDoc /\ Advance(p, version[p] + 1)
    BY <2>2, AdvancePrefix
  <2> QED
    BY <1>5, <2>1, <2>2 DEF HandleEvent
<1>6. ASSUME NEW p \in Pages, HandleAccepted(p) PROVE DocumentIsPrefix'
  <2>1. CASE UNCHANGED <<version, doc>>
    BY <1>1, <2>1
  <2>2. CASE doc[p] # NoDoc /\ Advance(p, version[p] + 1)
    BY <2>2, AdvancePrefix
  <2> QED
    BY <1>6, <2>1, <2>2 DEF HandleAccepted
<1>7. ASSUME NEW p \in Pages, PageStep(p),
             ~Close(p), ~HandleSnapshot(p), ~HandleEvent(p), ~HandleAccepted(p)
      PROVE  UNCHANGED <<version, doc>>
  <2>1. CASE Load(p) \/ Connect(p) \/ Hello(p) \/ Restore(p) \/ Lose(p) \/ Store(p)
    BY <2>1 DEF Load, Connect, Hello, Restore, Lose, Store, pageVars
  <2>2. CASE SendSnapshot(p) \/ SendEvent(p) \/ SendReady(p) \/ SyncFails(p)
    BY <2>2 DEF SendSnapshot, SendEvent, SendReady, SyncFails, pageVars
  <2>3. CASE \E i \in Ids : Submit(p, i) \/ Retry(p, i) \/ Answer(p, i)
    BY <2>3 DEF Submit, Retry, Answer, pageVars
  <2>4. CASE HandleReady(p) \/ HandleResync(p) \/ HandleRetry(p) \/ HandleRejected(p)
    BY <2>4 DEF HandleReady, HandleResync, HandleRetry, HandleRejected
  <2> QED
    BY <1>7, <2>1, <2>2, <2>3, <2>4 DEF PageStep, Handle
<1>8. CASE UNCHANGED vars
  BY <1>1, <1>8 DEF vars, pageVars
<1>9. CASE OthersCommit \/ \E i \in Ids, by \in Clients : Decide(i, by)
  BY <1>1, <1>9 DEF OthersCommit, Decide, pageVars
<1> QED
  BY <1>1, <1>3, <1>4, <1>5, <1>6, <1>7, <1>8, <1>9 DEF Next

\* The document a page shows is the canonical one of the version it says, for any
\* order of snapshots, events and results (client-core's handle).
THEOREM PagesShowPrefixes == Spec => []DocumentIsPrefix
<1>1. Init => DocumentIsPrefix
  BY DEF Init, DocumentIsPrefix
<1> QED
  BY <1>1, PrefixNext, TypesCorrect, PTL DEF Spec

-----------------------------------------------------------------------------
(* The durable queue *)

LostInv == NothingLost /\ RemovalsSettled

\* No answer is taken back, and what is removed has one.
LEMMA LostByChain ==
  ASSUME LostInv, UNCHANGED <<storage, durable>>, \A i \in Ids : settled[i] \subseteq settled'[i],
         durable \subseteq Ids, RemovalsSettled'
  PROVE  LostInv'
  BY DEF LostInv, NothingLost

LEMMA RemovalsGrow ==
  ASSUME TypeInv, RemovalsSettled, \A i \in Ids : settled[i] \subseteq settled'[i],
         NEW p \in Pages, \A q \in Pages \ {p} : chain'[q] = chain[q],
         \/ chain'[p] = chain[p] \/ chain'[p] = <<>>
         \/ \E m \in Mutations : /\ chain'[p] = Append(chain[p], m)
                                 /\ \A i \in m.remove : settled'[i] # {}
  PROVE  RemovalsSettled'
<1> SUFFICES ASSUME NEW q \in Pages, NEW k \in 1 .. Len(chain'[q]), NEW i \in chain'[q][k].remove
             PROVE  settled'[i] # {}
  BY DEF RemovalsSettled
<1>1. \A r \in Pages : chain[r] \in Seq(Mutations)
  BY DEF TypeInv, PageTypes
<1>2. ASSUME NEW r \in Pages, NEW l \in 1 .. Len(chain[r]), i \in chain[r][l].remove
      PROVE  settled'[i] # {}
  <2>1. chain[r][l] \in Mutations
    BY <1>1
  <2>2. i \in Ids /\ settled[i] # {}
    BY <1>2, <2>1 DEF Mutations, RemovalsSettled
  <2> QED
    BY <2>2
<1>3. CASE chain'[q] = chain[q]
  BY <1>2, <1>3
<1>4. CASE chain'[q] = <<>>
  BY <1>4
<1>5. CASE \E m \in Mutations : chain'[q] = Append(chain[q], m) /\ \A j \in m.remove : settled'[j] # {}
  <2> PICK m \in Mutations : chain'[q] = Append(chain[q], m) /\ \A j \in m.remove : settled'[j] # {}
    BY <1>5
  <2>1. Len(chain'[q]) = Len(chain[q]) + 1 /\ Len(chain[q]) \in Nat
    BY <1>1
  <2>2. CASE k \in 1 .. Len(chain[q])
    <3>1. chain'[q][k] = chain[q][k]
      BY <1>1, <2>2
    <3> QED
      BY <1>2, <2>2, <3>1
  <2>3. CASE k = Len(chain[q]) + 1
    <3>1. chain'[q][k] = m
      BY <1>1, <2>3
    <3> QED
      BY <3>1
  <2> QED
    BY <2>1, <2>2, <2>3
<1> QED
  BY <1>3, <1>4, <1>5

LEMMA LostStore ==
  ASSUME TypeInv, LostInv, NEW p \in Pages, Store(p)
  PROVE  LostInv'
<1>1. /\ chain[p] \in Seq(Mutations) /\ chain[p] # <<>>
      /\ chain' = [chain EXCEPT ![p] = Tail(chain[p])] /\ settled' = settled
      /\ DOMAIN chain = Pages
  BY DEF Store, TypeInv, PageTypes
<1> DEFINE m == Head(chain[p])
<1>2. m \in Mutations /\ Len(chain[p]) \in Nat \ {0} /\ m = chain[p][1]
  BY <1>1
<1>3. \A i \in m.remove : settled[i] # {}
  BY <1>2 DEF LostInv, RemovalsSettled
<1>4. NothingLost'
  <2>1. \/ storage' = (storage \ m.remove) \cup m.add /\ durable' = durable \cup m.add
        \/ UNCHANGED <<storage, durable>>
    BY DEF Store
  <2> QED
    BY <1>1, <1>3, <2>1 DEF LostInv, NothingLost
<1>5. RemovalsSettled'
  <2> SUFFICES ASSUME NEW q \in Pages, NEW k \in 1 .. Len(chain'[q]), NEW i \in chain'[q][k].remove
               PROVE  settled'[i] # {}
    BY DEF RemovalsSettled
  <2>1. CASE q # p
    BY <1>1, <2>1 DEF LostInv, RemovalsSettled
  <2>2. CASE q = p
    <3>1. chain'[p] = Tail(chain[p]) /\ Len(Tail(chain[p])) = Len(chain[p]) - 1
      BY <1>1
    <3>2. k + 1 \in 1 .. Len(chain[p]) /\ Tail(chain[p])[k] = chain[p][k + 1]
      BY <1>1, <1>2, <2>2, <3>1
    <3> QED
      BY <1>1, <2>2, <3>1, <3>2 DEF LostInv, RemovalsSettled
  <2> QED
    BY <2>1, <2>2
<1> QED
  BY <1>4, <1>5 DEF LostInv

\* Settling operations of the queue.
LEMMA LostSettle ==
  ASSUME TypeInv, LostInv, NEW p \in Pages, NEW S, S \subseteq Ids, NEW answers \in [S -> Messages],
         Settle(p, answers), UNCHANGED <<storage, durable>>
  PROVE  LostInv'
<1>1. /\ \A i \in S : settled'[i] = settled[i] \cup {answers[i]}
      /\ \A i \in Ids \ S : settled'[i] = settled[i]
      /\ \A q \in Pages \ {p} : chain'[q] = chain[q]
      /\ \/ S = {} /\ chain' = chain
         \/ chain'[p] = Append(chain[p], [add |-> {}, remove |-> S])
  BY SettleType DEF TypeInv
<1>2. \A i \in Ids : settled[i] \subseteq settled'[i]
  BY <1>1
<1>3. \A i \in S : settled'[i] # {}
  BY <1>1
<1>4. [add |-> {}, remove |-> S] \in Mutations
  BY DEF Mutations
<1>5. \/ chain'[p] = chain[p]
      \/ \E m \in Mutations : chain'[p] = Append(chain[p], m) /\ \A i \in m.remove : settled'[i] # {}
  <2>1. CASE chain'[p] = Append(chain[p], [add |-> {}, remove |-> S])
    BY <1>3, <1>4, <2>1
  <2> QED
    BY <1>1, <2>1
<1>6. RemovalsSettled'
  BY <1>1, <1>2, <1>5, RemovalsGrow DEF LostInv
<1>7. durable \subseteq Ids
  BY DEF TypeInv, ProfileTypes
<1> QED
  BY <1>2, <1>6, <1>7, LostByChain

LEMMA LostSubmit ==
  ASSUME TypeInv, LostInv, NEW p \in Pages, NEW i \in Ids, Submit(p, i)
  PROVE  LostInv'
<1>1. UNCHANGED <<storage, durable>> /\ durable \subseteq Ids
  BY DEF Submit, TypeInv, ProfileTypes
<1>2. CASE Persist(p, Mutation({i}, {})) /\ UNCHANGED settled
  <2>1. {i} \in SUBSET Ids /\ {} \in SUBSET Ids /\ [add |-> {i}, remove |-> {}] \in Mutations
    BY DEF Mutations
  <2>2. /\ chain'[p] = Append(chain[p], [add |-> {i}, remove |-> {}])
        /\ \A q \in Pages \ {p} : chain'[q] = chain[q]
    BY <1>2, <2>1, PersistType DEF TypeInv
  <2>3. \E m \in Mutations : chain'[p] = Append(chain[p], m) /\ \A j \in m.remove : settled'[j] # {}
    <3> DEFINE m == [add |-> {i}, remove |-> {}]
    <3>1. m \in Mutations /\ chain'[p] = Append(chain[p], m) /\ m.remove = {}
      BY <2>1, <2>2
    <3> HIDE DEF m
    <3> QED
      BY <3>1
  <2>4. RemovalsSettled'
    BY <1>2, <2>2, <2>3, RemovalsGrow DEF LostInv
  <2> QED
    BY <1>1, <1>2, <2>4, LostByChain
<1>3. CASE settled' = [settled EXCEPT ![i] = @ \cup {Message("rejected", i, 0)}] /\ UNCHANGED chain
  <2>1. \A j \in Ids : settled[j] \subseteq settled'[j]
    BY <1>3 DEF TypeInv, ProfileTypes
  <2>2. RemovalsSettled'
    BY <1>3, <2>1, RemovalsGrow DEF LostInv
  <2> QED
    BY <1>1, <2>1, <2>2, LostByChain
<1> QED
  BY <1>2, <1>3 DEF Submit

LEMMA LostNext == TypeInv /\ LostInv /\ [Next]_vars => LostInv'
<1> SUFFICES ASSUME TypeInv, LostInv, [Next]_vars PROVE LostInv'
  OBVIOUS
<1>1. ASSUME UNCHANGED <<chain, storage, durable, settled>> PROVE LostInv'
  BY <1>1 DEF LostInv, NothingLost, RemovalsSettled
<1>2. ASSUME NEW p \in Pages, Close(p) PROVE LostInv'
  <2>1. /\ chain' = [chain EXCEPT ![p] = <<>>] /\ UNCHANGED <<storage, durable, settled>>
        /\ DOMAIN chain = Pages /\ durable \subseteq Ids
    BY <1>2 DEF Close, historyVars, TypeInv, PageTypes, ProfileTypes
  <2>2. RemovalsSettled'
    BY <2>1, RemovalsGrow DEF LostInv
  <2> QED
    BY <2>1, <2>2, LostByChain
<1>3. ASSUME NEW p \in Pages, HandleSnapshot(p) PROVE LostInv'
  <2> DEFINE v == Head(inbox[p]).version
  <2>1. /\ Done(p, v) \subseteq Ids
        /\ [i \in Done(p, v) |-> SnapshotAnswer(p, i)] \in [Done(p, v) -> Messages]
        /\ Settle(p, [i \in Done(p, v) |-> SnapshotAnswer(p, i)])
        /\ UNCHANGED <<storage, durable>>
    BY <1>3, SnapshotEffect
  <2> QED
    BY <2>1, LostSettle
<1>4. ASSUME NEW p \in Pages, NEW m, RemoveEffect(p, m), UNCHANGED <<storage, durable>> PROVE LostInv'
  BY <1>4, LostSettle DEF RemoveEffect
<1>5. ASSUME NEW p \in Pages, HandleAccepted(p) PROVE LostInv'
  <2>1. UNCHANGED <<storage, durable>>
    BY <1>5 DEF HandleAccepted
  <2>2. RemoveEffect(p, Head(inbox[p])) \/ UNCHANGED <<chain, settled>>
    BY <1>5, AcceptedEffect
  <2> QED
    BY <1>1, <1>4, <2>1, <2>2
<1>6. ASSUME NEW p \in Pages, HandleRejected(p) PROVE LostInv'
  BY <1>4, <1>6, RejectedEffect
<1>7. ASSUME NEW p \in Pages, PageStep(p), ~Close(p), ~Store(p),
             ~HandleSnapshot(p), ~HandleAccepted(p), ~HandleRejected(p),
             \A i \in Ids : ~Submit(p, i)
      PROVE  UNCHANGED <<chain, storage, durable, settled>>
  <2>1. CASE Load(p) \/ Connect(p) \/ Hello(p) \/ Restore(p) \/ Lose(p)
    BY <2>1 DEF Load, Connect, Hello, Restore, Lose, queueVars, historyVars
  <2>2. CASE SendSnapshot(p) \/ SendEvent(p) \/ SendReady(p) \/ SyncFails(p)
    BY <2>2 DEF SendSnapshot, SendEvent, SendReady, SyncFails, queueVars, historyVars
  <2>3. CASE \E i \in Ids : Retry(p, i) \/ Answer(p, i)
    BY <2>3 DEF Retry, Answer, historyVars
  <2>4. CASE HandleReady(p) \/ HandleEvent(p) \/ HandleResync(p) \/ HandleRetry(p)
    BY <2>4 DEF HandleReady, HandleEvent, HandleResync, HandleRetry, queueVars, historyVars
  <2> QED
    BY <1>7, <2>1, <2>2, <2>3, <2>4 DEF PageStep, Handle
<1>8. CASE UNCHANGED vars
  BY <1>1, <1>8 DEF vars, queueVars, historyVars
<1>9. CASE OthersCommit \/ \E i \in Ids, by \in Clients : Decide(i, by)
  BY <1>1, <1>9 DEF OthersCommit, Decide, queueVars, historyVars
<1> QED
  BY <1>1, <1>2, <1>3, <1>5, <1>6, <1>7, <1>8, <1>9, LostStore, LostSubmit DEF Next

\* A stored operation stays in the durable queue until some page has an answer to
\* it, whatever other tabs store and whatever pages close (persistMutation).
THEOREM QueuesAreDurable == Spec => []NothingLost
<1>1. Init => LostInv
  BY DEF Init, LostInv, NothingLost, RemovalsSettled
<1>2. LostInv => NothingLost
  BY DEF LostInv
<1> QED
  BY <1>1, <1>2, LostNext, TypesCorrect, PTL DEF Spec

-----------------------------------------------------------------------------
(* What a connected page remembers *)

\* Messages on their way stay there until they are handled.
LEMMA ComingReply ==
  ASSUME ServiceTypes, NEW p \in Pages, NEW m \in Messages, Reply(p, m), NEW kinds, NEW i,
         Coming(p, kinds, i) \/ (m.kind \in kinds /\ m.id = i)
  PROVE  Coming(p, kinds, i)'
<1>1. /\ inbox[p] \in Seq(Messages) /\ inbox'[p] = Append(inbox[p], m)
      /\ Len(inbox[p]) \in Nat
  BY ReplyType DEF ServiceTypes
<1>2. Len(inbox'[p]) = Len(inbox[p]) + 1 /\ inbox'[p][Len(inbox[p]) + 1] = m
      /\ \A k \in 1 .. Len(inbox[p]) : inbox'[p][k] = inbox[p][k]
  BY <1>1
<1>3. CASE Coming(p, kinds, i)
  <2> PICK k \in 1 .. Len(inbox[p]) : inbox[p][k].kind \in kinds /\ inbox[p][k].id = i
    BY <1>3 DEF Coming
  <2>1. k \in 1 .. Len(inbox'[p]) /\ inbox'[p][k] = inbox[p][k]
    BY <1>1, <1>2
  <2> QED
    BY <2>1 DEF Coming
<1>4. CASE m.kind \in kinds /\ m.id = i
  <2>1. Len(inbox[p]) + 1 \in 1 .. Len(inbox'[p])
    BY <1>1, <1>2
  <2> QED
    BY <1>2, <1>4, <2>1 DEF Coming
<1> QED
  BY <1>3, <1>4

LEMMA ComingReceive ==
  ASSUME ServiceTypes, NEW p \in Pages, NEW kind, Receive(p, kind), NEW kinds, NEW i,
         Coming(p, kinds, i), kind \notin kinds \/ Head(inbox[p]).id # i
  PROVE  Coming(p, kinds, i)'
<1>1. /\ Head(inbox[p]).kind = kind
      /\ Len(inbox[p]) \in Nat /\ Len(inbox'[p]) \in Nat
      /\ Len(inbox[p]) = Len(inbox'[p]) + 1 /\ inbox[p][1] = Head(inbox[p])
      /\ \A k \in 1 .. Len(inbox'[p]) : inbox'[p][k] = inbox[p][k + 1]
  BY ReceiveType
<1>2. PICK k \in 1 .. Len(inbox[p]) : inbox[p][k].kind \in kinds /\ inbox[p][k].id = i
  BY DEF Coming
<1>3. k # 1
  BY <1>1, <1>2
<1>4. k - 1 \in 1 .. Len(inbox'[p]) /\ (k - 1) + 1 = k
  BY <1>1, <1>3
<1>5. inbox'[p][k - 1] = inbox[p][k]
  BY <1>1, <1>4
<1> QED
  BY <1>2, <1>4, <1>5 DEF Coming

LEMMA FollowsReply ==
  ASSUME ServiceTypes, NEW p \in Pages, NEW m \in Messages, Reply(p, m), ReadyFollows(p),
         m.kind = "snapshot" => link'[p].readies > 0,
         link[p].readies > 0 => link'[p].readies > 0 \/ (m.kind = "ready" /\ m.id = Other)
  PROVE  ReadyFollows(p)'
<1>1. /\ inbox[p] \in Seq(Messages) /\ inbox'[p] = Append(inbox[p], m)
      /\ Len(inbox[p]) \in Nat
  BY ReplyType DEF ServiceTypes
<1>2. Len(inbox'[p]) = Len(inbox[p]) + 1 /\ inbox'[p][Len(inbox[p]) + 1] = m
      /\ \A k \in 1 .. Len(inbox[p]) : inbox'[p][k] = inbox[p][k]
  BY <1>1
<1> SUFFICES ASSUME NEW k \in 1 .. Len(inbox'[p]), inbox'[p][k].kind = "snapshot"
             PROVE  \/ link'[p].readies > 0
                    \/ \E l \in 1 .. Len(inbox'[p]) :
                          l > k /\ inbox'[p][l].kind = "ready" /\ inbox'[p][l].id = Other
  BY DEF ReadyFollows
<1>3. CASE k = Len(inbox[p]) + 1
  BY <1>2, <1>3
<1>4. CASE k \in 1 .. Len(inbox[p])
  <2>1. inbox[p][k].kind = "snapshot"
    BY <1>2, <1>4
  <2>2. CASE link[p].readies > 0
    <3>1. Len(inbox[p]) + 1 \in 1 .. Len(inbox'[p]) /\ Len(inbox[p]) + 1 > k
      BY <1>1, <1>2, <1>4
    <3> QED
      BY <1>2, <2>2, <3>1
  <2>3. CASE \E l \in 1 .. Len(inbox[p]) :
                l > k /\ inbox[p][l].kind = "ready" /\ inbox[p][l].id = Other
    <3> PICK l \in 1 .. Len(inbox[p]) :
                l > k /\ inbox[p][l].kind = "ready" /\ inbox[p][l].id = Other
      BY <2>3
    <3>1. l \in 1 .. Len(inbox'[p]) /\ inbox'[p][l] = inbox[p][l]
      BY <1>1, <1>2
    <3> QED
      BY <3>1
  <2> QED
    BY <1>4, <2>1, <2>2, <2>3 DEF ReadyFollows
<1>5. k = Len(inbox[p]) + 1 \/ k \in 1 .. Len(inbox[p])
  BY <1>1, <1>2
<1> QED
  BY <1>3, <1>4, <1>5

LEMMA FollowsReceive ==
  ASSUME ServiceTypes, NEW p \in Pages, NEW kind, Receive(p, kind), ReadyFollows(p),
         link'[p].readies = link[p].readies
  PROVE  ReadyFollows(p)'
<1>1. /\ Len(inbox[p]) \in Nat /\ Len(inbox'[p]) \in Nat
      /\ Len(inbox[p]) = Len(inbox'[p]) + 1
      /\ \A k \in 1 .. Len(inbox'[p]) : inbox'[p][k] = inbox[p][k + 1]
  BY ReceiveType
<1> SUFFICES ASSUME NEW k \in 1 .. Len(inbox'[p]), inbox'[p][k].kind = "snapshot"
             PROVE  \/ link'[p].readies > 0
                    \/ \E l \in 1 .. Len(inbox'[p]) :
                          l > k /\ inbox'[p][l].kind = "ready" /\ inbox'[p][l].id = Other
  BY DEF ReadyFollows
<1>2. k + 1 \in 1 .. Len(inbox[p]) /\ inbox[p][k + 1].kind = "snapshot"
  BY <1>1
<1>3. \/ link[p].readies > 0
      \/ \E l \in 1 .. Len(inbox[p]) :
            l > k + 1 /\ inbox[p][l].kind = "ready" /\ inbox[p][l].id = Other
  BY <1>2 DEF ReadyFollows
<1>4. ASSUME NEW l \in 1 .. Len(inbox[p]), l > k + 1,
             inbox[p][l].kind = "ready", inbox[p][l].id = Other
      PROVE  \E n \in 1 .. Len(inbox'[p]) :
                n > k /\ inbox'[p][n].kind = "ready" /\ inbox'[p][n].id = Other
  <2>1. l - 1 \in 1 .. Len(inbox'[p]) /\ l - 1 > k /\ (l - 1) + 1 = l
    BY <1>1, <1>4
  <2>2. inbox'[p][l - 1] = inbox[p][l]
    BY <1>1, <2>1
  <2> QED
    BY <1>4, <2>1, <2>2
<1> QED
  BY <1>3, <1>4

LEMMA MemoryElsewhere ==
  ASSUME NEW q \in Pages, Memory(q), inbox'[q] = inbox[q], link'[q] = link[q], page'[q] = page[q],
         socket'[q] = socket[q], conn'[q] = conn[q], pending'[q] = pending[q], copies'[q] = copies[q]
  PROVE  Memory(q)'
<1>1. \A kinds, i : Coming(q, kinds, i)' <=> Coming(q, kinds, i)
  BY DEF Coming
<1>2. Syncing(q)' <=> Syncing(q)
  BY <1>1 DEF Syncing
<1>3. ReadyComing(q)' <=> ReadyComing(q)
  BY <1>1 DEF ReadyComing
<1>4. \A i : Answering(q, i)' <=> Answering(q, i)
  BY <1>1 DEF Answering
<1>5. ReadyFollows(q)' <=> ReadyFollows(q)
  BY DEF ReadyFollows
<1>6. Attentive(q)' <=> Attentive(q)
  BY <1>2, <1>3 DEF Attentive
<1>7. Queue(q)' = Queue(q)
  BY DEF Queue
<1>8. \A i : Remembered(q, i)' <=> Remembered(q, i)
  BY <1>2, <1>3, <1>4 DEF Remembered
<1> QED
  BY <1>5, <1>6, <1>7, <1>8 DEF Memory

\* A page whose snapshot is coming remembers everything.
LEMMA MemorySyncing ==
  ASSUME NEW p \in Pages, ReadyFollows(p)', Syncing(p)', page'[p] = "new" => socket'[p] = "none"
  PROVE  Memory(p)'
<1>1. Attentive(p)'
  BY DEF Attentive
<1>2. \A i : Remembered(p, i)'
  BY DEF Remembered
<1> QED
  BY <1>1, <1>2 DEF Memory

LEMMA MemoryUnconnected ==
  ASSUME NEW p \in Pages, ReadyFollows(p)', socket'[p] # "open", page'[p] = "new" => socket'[p] = "none"
  PROVE  Memory(p)'
  BY DEF Memory

\* What the page waits for is still coming, and no item is sent or reset.
LEMMA MemoryKept ==
  ASSUME NEW p \in Pages, Memory(p), ReadyFollows(p)', page'[p] = page[p],
         socket'[p] = socket[p], conn'[p] = conn[p],
         Syncing(p) => Syncing(p)', ReadyComing(p) => ReadyComing(p)',
         \A i \in Queue(p)' : /\ i \in Queue(p) /\ pending'[p][i].sent = pending[p][i].sent
                              /\ Answering(p, i) => Answering(p, i)'
  PROVE  Memory(p)'
<1>1. Attentive(p) => Attentive(p)'
  BY DEF Attentive
<1>2. \A i \in Queue(p)' : Remembered(p, i) => Remembered(p, i)'
  BY DEF Remembered
<1> QED
  BY <1>1, <1>2 DEF Memory

\* A step of one page leaves the others alone.
Elsewhere(p) ==
    \A q \in Pages \ {p} :
        /\ inbox'[q] = inbox[q] /\ link'[q] = link[q] /\ page'[q] = page[q]
        /\ socket'[q] = socket[q] /\ conn'[q] = conn[q] /\ pending'[q] = pending[q]
        /\ copies'[q] = copies[q]

LEMMA Domains ==
  ASSUME TypeInv
  PROVE  /\ DOMAIN inbox = Pages /\ DOMAIN link = Pages /\ DOMAIN page = Pages
         /\ DOMAIN socket = Pages /\ DOMAIN conn = Pages /\ DOMAIN pending = Pages
         /\ DOMAIN copies = Pages
  BY DEF TypeInv, ServiceTypes, PageTypes

LEMMA UnlinkElsewhere ==
  ASSUME TypeInv, NEW p \in Pages, Unlink(p)
  PROVE  /\ \A q \in Pages \ {p} :
               /\ inbox'[q] = inbox[q] /\ link'[q] = link[q] /\ socket'[q] = socket[q]
               /\ copies'[q] = copies[q]
         /\ socket'[p] = "none" /\ inbox'[p] = <<>>
  BY Domains DEF Unlink

LEMMA HandleElsewhere ==
  ASSUME TypeInv, NEW p \in Pages, Handle(p)
  PROVE  Elsewhere(p)
<1>1. \A kind : Receive(p, kind) => \A q \in Pages \ {p} : inbox'[q] = inbox[q]
  BY Domains DEF Receive
<1>2. \A items, connection : FlushEffect(p, items, connection) =>
         \A q \in Pages \ {p} : /\ conn'[q] = conn[q] /\ pending'[q] = pending[q]
                                /\ copies'[q] = copies[q]
  BY Domains DEF FlushEffect
<1>3. Recover(p) => \A q \in Pages \ {p} : conn'[q] = conn[q] /\ link'[q] = link[q]
  BY Domains DEF Recover
<1>4. \A i, item : ItemEffect(p, i, item) => \A q \in Pages \ {p} : pending'[q] = pending[q]
  BY DEF ItemEffect
<1>5. \A m : RemoveEffect(p, m) => \A q \in Pages \ {p} : pending'[q] = pending[q]
  BY DEF RemoveEffect
<1>6. CASE HandleSnapshot(p)
  <2>1. /\ Receive(p, "snapshot")
        /\ FlushEffect(p, Left(p, Head(inbox[p]).version), AfterSnapshot(p))
        /\ UNCHANGED <<serviceVars, link, page, socket, stray, storage, origin, durable, faults>>
    BY <1>6, SnapshotEffect
  <2> QED
    BY <1>1, <1>2, <2>1 DEF Elsewhere
<1>7. CASE HandleReady(p)
  BY <1>1, <1>2, <1>3, <1>7, ReadyEffect DEF Elsewhere
<1>8. CASE HandleEvent(p)
  BY <1>1, <1>3, <1>8 DEF HandleEvent, Elsewhere, queueVars
<1>9. CASE HandleResync(p)
  BY <1>1, <1>3, <1>4, <1>9, ResyncEffect DEF Elsewhere
<1>10. CASE HandleRetry(p)
  BY <1>1, <1>4, <1>10, RetryEffect DEF Elsewhere
<1>11. CASE HandleAccepted(p)
  <2>1. /\ Receive(p, "accepted") /\ UNCHANGED <<page, socket, copies>>
        /\ \/ UNCHANGED pending /\ Recover(p)
           \/ \E i, item : ItemEffect(p, i, item) /\ Recover(p)
           \/ \E m : RemoveEffect(p, m) /\ UNCHANGED <<conn, link>>
    BY <1>11, AcceptedEffect
  <2> QED
    BY <1>1, <1>3, <1>4, <1>5, <2>1 DEF Elsewhere
<1>12. CASE HandleRejected(p)
  BY <1>1, <1>5, <1>12, RejectedEffect DEF Elsewhere
<1> QED
  BY <1>6, <1>7, <1>8, <1>9, <1>10, <1>11, <1>12 DEF Handle

LEMMA OthersUntouched ==
  ASSUME TypeInv, NEW p \in Pages, PageStep(p)
  PROVE  Elsewhere(p)
<1>1. \A m : Reply(p, m) => \A q \in Pages \ {p} : inbox'[q] = inbox[q]
  BY Domains DEF Reply
<1>2. \A items, connection : Flush(p, items, connection) =>
         \A q \in Pages \ {p} : /\ conn'[q] = conn[q] /\ pending'[q] = pending[q]
                                /\ copies'[q] = copies[q]
  BY Domains DEF Flush
<1>3. CASE Load(p) \/ Connect(p) \/ Hello(p) \/ Restore(p) \/ Store(p)
  BY <1>3, Domains DEF Load, Connect, Hello, Restore, Store, Elsewhere, linkVars, queueVars, pageVars
<1>4. CASE Lose(p)
  BY <1>4, Domains, UnlinkElsewhere DEF Lose, Elsewhere
<1>5. CASE Close(p)
  BY <1>5, Domains, UnlinkElsewhere DEF Close, Elsewhere
<1>6. CASE SendSnapshot(p) \/ SendEvent(p) \/ SendReady(p) \/ SyncFails(p)
  BY <1>1, <1>6, Domains DEF SendSnapshot, SendEvent, SendReady, SyncFails, Elsewhere, pageVars, queueVars
<1>7. ASSUME NEW i \in Ids, Submit(p, i) PROVE Elsewhere(p)
  <2>1. \/ Flush(p, [j \in Queue(p) \cup {i} |-> IF j = i THEN Unsent ELSE pending[p][j]], conn[p])
        \/ UNCHANGED <<pending, copies, conn>>
    BY <1>7 DEF Submit
  <2>2. UNCHANGED <<linkVars, page, socket>>
    BY <1>7 DEF Submit
  <2> QED
    BY <1>2, <2>1, <2>2 DEF Elsewhere, linkVars
<1>8. ASSUME NEW i \in Ids, Retry(p, i) PROVE Elsewhere(p)
  BY <1>2, <1>8 DEF Retry, Elsewhere, linkVars
<1>9. ASSUME NEW i \in Ids, Answer(p, i) PROVE Elsewhere(p)
  <2>1. \E m : Reply(p, m)
    BY <1>9, AnswerMessage DEF TypeInv
  <2>2. \A q \in Pages \ {p} : copies'[q] = copies[q]
    BY <1>9, Domains DEF Answer
  <2> QED
    BY <1>1, <1>9, <2>1, <2>2 DEF Answer, Elsewhere, pageVars
<1> QED
  BY <1>3, <1>4, <1>5, <1>6, <1>7, <1>8, <1>9, HandleElsewhere DEF PageStep

-----------------------------------------------------------------------------
(* The steps of a page and its socket *)

LEMMA MemoryOfLife ==
  ASSUME TypeInv, NEW p \in Pages, Memory(p),
         Load(p) \/ Restore(p) \/ Connect(p) \/ Hello(p) \/ Lose(p) \/ Close(p)
  PROVE  Memory(p)'
<1>1. ASSUME UNCHANGED linkVars PROVE ReadyFollows(p)'
  BY <1>1 DEF Memory, ReadyFollows, linkVars
<1>2. CASE Load(p)
  <2>1. socket'[p] = "none" /\ UNCHANGED linkVars
    BY <1>2 DEF Load, Memory
  <2> QED
    BY <1>1, <2>1, MemoryUnconnected
<1>3. CASE Restore(p)
  <2>1. socket'[p] = "opening" /\ page'[p] = "open" /\ UNCHANGED linkVars
    BY <1>3, Domains DEF Restore
  <2> QED
    BY <1>1, <2>1, MemoryUnconnected
<1>4. CASE Connect(p)
  <2>1. socket'[p] = "opening" /\ page'[p] = "open" /\ UNCHANGED linkVars
    BY <1>4, Domains DEF Connect
  <2> QED
    BY <1>1, <2>1, MemoryUnconnected
<1>5. CASE Hello(p)
  <2>1. /\ link' = [link EXCEPT ![p].syncs = 1] /\ inbox' = inbox /\ page' = page
        /\ socket[p] = "opening"
    BY <1>5 DEF Hello
  <2>2. link[p] \in Links
    BY DEF TypeInv, ServiceTypes
  <2>3. link'[p].syncs = 1 /\ link'[p].readies = link[p].readies
    BY <2>1, <2>2, Domains DEF Links
  <2>4. ReadyFollows(p)'
    BY <2>1, <2>3 DEF Memory, ReadyFollows
  <2>5. Syncing(p)'
    BY <2>3 DEF Syncing
  <2>6. page'[p] # "new"
    BY <2>1 DEF Memory
  <2> QED
    BY <2>4, <2>5, <2>6, MemorySyncing
<1>6. CASE Lose(p) \/ Close(p)
  <2>1. Unlink(p)
    BY <1>6 DEF Lose, Close
  <2>2. socket'[p] = "none" /\ inbox'[p] = <<>>
    BY <2>1, UnlinkElsewhere
  <2>3. ReadyFollows(p)'
    BY <2>2 DEF ReadyFollows
  <2> QED
    BY <2>2, <2>3, MemoryUnconnected
<1> QED
  BY <1>2, <1>3, <1>4, <1>5, <1>6

LEMMA MemoryOfStore ==
  ASSUME NEW p \in Pages, Memory(p), Store(p)
  PROVE  Memory(p)'
  BY MemoryElsewhere DEF Store, linkVars, pageVars

LEMMA MemoryOfService ==
  ASSUME NEW p \in Pages, Memory(p), UNCHANGED <<linkVars, pageVars, queueVars>>
  PROVE  Memory(p)'
  BY MemoryElsewhere DEF linkVars, pageVars, queueVars

-----------------------------------------------------------------------------
(* What the Gateway sends *)

LEMMA MemoryOfSnapshotSent ==
  ASSUME TypeInv, NEW p \in Pages, Memory(p), SendSnapshot(p)
  PROVE  Memory(p)'
<1>1. PICK v \in 0 .. Len(log) :
         /\ Reply(p, Message("snapshot", Other, v))
         /\ link' = [link EXCEPT ![p] = [joined |-> TRUE, syncs |-> link[p].syncs - 1,
                                         readies |-> link[p].readies + 1, lastSent |-> v]]
  BY DEF SendSnapshot
<1> DEFINE m == Message("snapshot", Other, v)
<1>2. v \in Nat /\ link[p].readies \in Nat
  BY DEF TypeInv, ServiceTypes, Links
<1>3. m \in Messages /\ m.kind = "snapshot" /\ m.id = Other
  BY <1>2, MessageType DEF Message
<1>4. link'[p].readies > 0
  BY <1>1, <1>2, Domains
<1>5. ReadyFollows(p)'
  BY <1>1, <1>3, <1>4, FollowsReply DEF Memory, TypeInv
<1>6. m.kind \in {"snapshot"} /\ Reply(p, m)
  BY <1>1, <1>3
<1>7. Coming(p, {"snapshot"}, Other)'
  BY <1>3, <1>6, ComingReply DEF TypeInv
<1>8. Syncing(p)'
  BY <1>7 DEF Syncing
<1>9. page' = page /\ socket' = socket
  BY DEF SendSnapshot, pageVars
<1> QED
  BY <1>5, <1>8, <1>9, MemorySyncing DEF Memory

\* A message that is added takes nothing away.
LEMMA MemoryOfReply ==
  ASSUME TypeInv, NEW p \in Pages, Memory(p), NEW m \in Messages, Reply(p, m),
         UNCHANGED <<pageVars, pending>>, ReadyFollows(p)',
         link[p].syncs > 0 => link'[p].syncs > 0,
         link[p].readies > 0 => link'[p].readies > 0 \/ (m.kind = "ready" /\ m.id = Other),
         \A i \in Ids : copies'[p][i] = copies[p][i]
            \/ (m.kind \in {"retry", "resync", "accepted", "rejected"} /\ m.id = i)
  PROVE  Memory(p)'
<1>1. \A kinds, i : Coming(p, kinds, i) => Coming(p, kinds, i)'
  BY ComingReply DEF TypeInv
<1>2. Syncing(p) => Syncing(p)'
  BY <1>1 DEF Syncing
<1>3. ReadyComing(p) => ReadyComing(p)'
  <2>1. CASE m.kind = "ready" /\ m.id = Other
    <3>1. Coming(p, {"ready"}, Other)'
      BY <2>1, ComingReply DEF TypeInv
    <3> QED
      BY <3>1 DEF ReadyComing
  <2>2. CASE ~(m.kind = "ready" /\ m.id = Other)
    BY <1>1, <2>2 DEF ReadyComing
  <2> QED
    BY <2>1, <2>2
<1>4. Queue(p)' = Queue(p) /\ Queue(p) \subseteq Ids
  BY QueueType DEF Queue, TypeInv
<1>5. \A i \in Queue(p) : Answering(p, i) => Answering(p, i)'
  <2> TAKE i \in Queue(p)
  <2>1. CASE m.kind \in {"retry", "resync", "accepted", "rejected"} /\ m.id = i
    <3>1. Coming(p, {"retry", "resync", "accepted", "rejected"}, i)'
      BY <2>1, ComingReply DEF TypeInv
    <3> QED
      BY <3>1 DEF Answering
  <2>2. CASE copies'[p][i] = copies[p][i]
    <3>1. Coming(p, {"retry", "resync", "accepted", "rejected"}, i)
            => Coming(p, {"retry", "resync", "accepted", "rejected"}, i)'
      BY <1>1
    <3> QED
      BY <2>2, <3>1 DEF Answering
  <2> QED
    BY <1>4, <2>1, <2>2
<1>6. page'[p] = page[p] /\ socket'[p] = socket[p] /\ conn'[p] = conn[p] /\ pending' = pending
  BY DEF pageVars
<1>7. \A i \in Queue(p)' : /\ i \in Queue(p) /\ pending'[p][i].sent = pending[p][i].sent
                           /\ Answering(p, i) => Answering(p, i)'
  BY <1>4, <1>5, <1>6
<1> QED
  BY <1>2, <1>3, <1>6, <1>7, MemoryKept

LEMMA MemoryOfEventSent ==
  ASSUME TypeInv, NEW p \in Pages, Memory(p), SendEvent(p)
  PROVE  Memory(p)'
<1> DEFINE m == Message("event", Other, link[p].lastSent + 1)
<1>1. link[p] \in Links /\ link' = [link EXCEPT ![p].lastSent = @ + 1] /\ Reply(p, m)
      /\ UNCHANGED <<pageVars, pending, copies>>
  BY DEF SendEvent, TypeInv, ServiceTypes, queueVars
<1>2. link'[p].syncs = link[p].syncs /\ link'[p].readies = link[p].readies
  BY <1>1, Domains DEF Links
<1>3. m \in Messages /\ m.kind = "event"
  <2>1. link[p].lastSent + 1 \in Nat
    BY <1>1 DEF Links
  <2> QED
    BY <2>1, MessageType DEF Message
<1>4. ReadyFollows(p)'
  BY <1>1, <1>2, <1>3, FollowsReply DEF Memory, TypeInv
<1> QED
  BY <1>1, <1>2, <1>3, <1>4, MemoryOfReply

LEMMA MemoryOfReadySent ==
  ASSUME TypeInv, NEW p \in Pages, Memory(p), SendReady(p)
  PROVE  Memory(p)'
<1> DEFINE m == Message("ready", Other, link[p].lastSent)
<1>1. link[p] \in Links /\ link' = [link EXCEPT ![p].readies = @ - 1] /\ Reply(p, m)
      /\ UNCHANGED <<pageVars, pending, copies>>
  BY DEF SendReady, TypeInv, ServiceTypes, queueVars
<1>2. link'[p].syncs = link[p].syncs
  BY <1>1, Domains DEF Links
<1>3. m \in Messages /\ m.kind = "ready" /\ m.id = Other
  <2>1. link[p].lastSent \in Nat
    BY <1>1 DEF Links
  <2> QED
    BY <2>1, MessageType DEF Message
<1>4. ReadyFollows(p)'
  BY <1>1, <1>3, FollowsReply DEF Memory, TypeInv
<1> QED
  BY <1>1, <1>2, <1>3, <1>4, MemoryOfReply

LEMMA MemoryOfAnswer ==
  ASSUME TypeInv, NEW p \in Pages, Memory(p), NEW i \in Ids, Answer(p, i)
  PROVE  Memory(p)'
<1>1. PICK m \in Messages :
         Reply(p, m) /\ m.id = i /\ m.kind \in {"retry", "resync", "accepted", "rejected"}
  BY AnswerMessage DEF TypeInv
<1>2. UNCHANGED <<link, pageVars, pending>>
  BY DEF Answer
<1>3. \A j \in Ids \ {i} : copies'[p][j] = copies[p][j]
  BY DEF Answer, TypeInv, ServiceTypes
<1>4. ReadyFollows(p)'
  BY <1>1, <1>2, FollowsReply DEF Memory, TypeInv
<1>5. \A j \in Ids : copies'[p][j] = copies[p][j]
            \/ (m.kind \in {"retry", "resync", "accepted", "rejected"} /\ m.id = j)
  BY <1>1, <1>3
<1> QED
  BY <1>1, <1>2, <1>4, <1>5, MemoryOfReply

-----------------------------------------------------------------------------
(* The steps that flush the queue *)

\* A flush sends what is unsent, or leaves it to the ready that comes.
LEMMA MemoryOfFlush ==
  ASSUME TypeInv, NEW p \in Pages, NEW S, S \subseteq Ids, NEW items \in [S -> Items],
         NEW connection, FlushEffect(p, items, connection), ReadyFollows(p)',
         UNCHANGED <<page, socket>>, page[p] = "new" => socket[p] = "none",
         socket[p] = "open" => \/ Syncing(p)'
                               \/ connection = "online"
                               \/ connection = "connecting" /\ ReadyComing(p)',
         \A i \in S : socket[p] = "open" /\ items[i].sent =>
            \/ Syncing(p)' \/ items[i].timers > 0 \/ copies[p][i] > 0
            \/ Coming(p, {"retry", "resync", "accepted", "rejected"}, i)'
  PROVE  Memory(p)'
<1>1. conn'[p] = connection /\ Queue(p)' = S
  BY Domains DEF FlushEffect, Queue
<1>2. ASSUME NEW i \in S, socket[p] = "open", ~Syncing(p)' PROVE Remembered(p, i)'
  <2>1. items[i] \in Items /\ copies[p][i] \in Nat
    BY DEF TypeInv, ServiceTypes
  <2>2. CASE pending'[p][i] = [items[i] EXCEPT !.sent = TRUE] /\ copies'[p][i] = copies[p][i] + 1
    <3>1. pending'[p][i].sent /\ copies'[p][i] > 0
      BY <2>1, <2>2 DEF Items
    <3> QED
      BY <3>1 DEF Remembered, Answering
  <2>3. CASE /\ pending'[p][i] = items[i] /\ copies'[p][i] = copies[p][i]
             /\ ~(connection = "online" /\ socket[p] = "open" /\ ~items[i].sent)
    <3>1. CASE items[i].sent
      BY <1>2, <2>3, <3>1 DEF Remembered, Answering
    <3>2. CASE ~items[i].sent
      BY <1>1, <1>2, <2>3, <3>2 DEF Remembered
    <3> QED
      BY <3>1, <3>2
  <2> QED
    BY <2>2, <2>3 DEF FlushEffect
<1>3. CASE Syncing(p)'
  BY <1>3, MemorySyncing
<1>4. CASE ~Syncing(p)'
  <2>1. socket[p] = "open" => Attentive(p)'
    BY <1>1, <1>4 DEF Attentive
  <2> QED
    BY <1>1, <1>2, <1>4, <2>1 DEF Memory
<1> QED
  BY <1>3, <1>4

LEMMA MemoryOfSubmit ==
  ASSUME TypeInv, NEW p \in Pages, Memory(p), NEW i \in Ids, Submit(p, i)
  PROVE  Memory(p)'
<1> DEFINE items == [j \in Queue(p) \cup {i} |-> IF j = i THEN Unsent ELSE pending[p][j]]
<1>1. UNCHANGED <<inbox, link, page, socket>>
  BY DEF Submit, linkVars
<1>2. CASE UNCHANGED <<pending, copies, conn>>
  BY <1>1, <1>2, MemoryElsewhere
<1>3. CASE Flush(p, items, conn[p])
  <2>1. Queue(p) \cup {i} \subseteq Ids /\ items \in [Queue(p) \cup {i} -> Items]
    BY SubmitQueue
  <2>2. FlushEffect(p, items, conn[p])
    BY <1>3, <2>1, FlushType DEF TypeInv
  <2>3. ReadyFollows(p)' /\ (page[p] = "new" => socket[p] = "none")
    BY <1>1 DEF Memory, ReadyFollows
  <2>4. /\ \A kinds, j : Coming(p, kinds, j)' <=> Coming(p, kinds, j)
        /\ Syncing(p)' <=> Syncing(p)
        /\ ReadyComing(p)' <=> ReadyComing(p)
    BY <1>1 DEF Coming, Syncing, ReadyComing
  <2>5. socket[p] = "open" => \/ Syncing(p)'
                              \/ conn[p] = "online"
                              \/ conn[p] = "connecting" /\ ReadyComing(p)'
    BY <2>4 DEF Memory, Attentive
  <2>6. ASSUME NEW j \in Queue(p) \cup {i}, socket[p] = "open", items[j].sent
        PROVE  \/ Syncing(p)' \/ items[j].timers > 0 \/ copies[p][j] > 0
               \/ Coming(p, {"retry", "resync", "accepted", "rejected"}, j)'
    <3>1. j # i /\ j \in Queue(p) /\ items[j] = pending[p][j]
      BY <2>6 DEF Unsent
    <3>2. Remembered(p, j)
      BY <2>6, <3>1 DEF Memory
    <3> QED
      BY <2>4, <2>6, <3>1, <3>2 DEF Remembered, Answering
  <2> HIDE DEF items
  <2> QED
    BY <1>1, <2>1, <2>2, <2>3, <2>5, <2>6, MemoryOfFlush
<1> QED
  BY <1>2, <1>3 DEF Submit

LEMMA MemoryOfRetry ==
  ASSUME TypeInv, NEW p \in Pages, Memory(p), NEW i \in Ids, Retry(p, i)
  PROVE  Memory(p)'
<1> DEFINE items == [pending[p] EXCEPT ![i].timers = @ - 1, ![i].sent = FALSE]
<1>1. UNCHANGED <<inbox, link, page, socket>> /\ i \in Queue(p) /\ pending[p][i].timers > 0
      /\ Flush(p, items, conn[p])
  BY DEF Retry, linkVars
<1>2. Queue(p) \subseteq Ids /\ pending[p] \in [Queue(p) -> Items]
  BY QueueType DEF TypeInv
<1>3. /\ items \in [Queue(p) -> Items]
      /\ \A j \in Queue(p) \ {i} : items[j] = pending[p][j]
      /\ items[i] = [pending[p][i] EXCEPT !.timers = @ - 1, !.sent = FALSE]
  <2> DEFINE q == pending[p]
  <2>1. q \in [Queue(p) -> Items] /\ i \in Queue(p) /\ q[i].timers > 0
    BY <1>1, <1>2
  <2> HIDE DEF q
  <2>2. LET f == [q EXCEPT ![i].timers = @ - 1, ![i].sent = FALSE] IN
        /\ f \in [Queue(p) -> Items]
        /\ \A j \in Queue(p) \ {i} : f[j] = q[j]
        /\ f[i] = [q[i] EXCEPT !.timers = @ - 1, !.sent = FALSE]
    BY <2>1, RetryQueue
  <2> QED
    BY <2>2 DEF q
<1>4. ~items[i].sent
  <2>1. \A n : \A r \in Items : [r EXCEPT !.timers = n, !.sent = FALSE].sent = FALSE
    BY DEF Items
  <2>2. pending[p][i] \in Items
    BY <1>1, <1>2
  <2>3. items[i] = [pending[p][i] EXCEPT !.timers = pending[p][i].timers - 1, !.sent = FALSE]
    BY <1>3
  <2> HIDE DEF items
  <2> QED
    BY <2>1, <2>2, <2>3
<1>5. FlushEffect(p, items, conn[p])
  <2> HIDE DEF items
  <2> QED
    BY <1>1, <1>2, <1>3, FlushType DEF TypeInv
<1>6. ReadyFollows(p)' /\ (page[p] = "new" => socket[p] = "none")
  BY <1>1 DEF Memory, ReadyFollows
<1>7. /\ \A kinds, j : Coming(p, kinds, j)' <=> Coming(p, kinds, j)
      /\ Syncing(p)' <=> Syncing(p)
      /\ ReadyComing(p)' <=> ReadyComing(p)
  BY <1>1 DEF Coming, Syncing, ReadyComing
<1>8. socket[p] = "open" => \/ Syncing(p)'
                            \/ conn[p] = "online"
                            \/ conn[p] = "connecting" /\ ReadyComing(p)'
  BY <1>7 DEF Memory, Attentive
<1> HIDE DEF items
<1>9. ASSUME NEW j \in Queue(p), socket[p] = "open", items[j].sent
      PROVE  \/ Syncing(p)' \/ items[j].timers > 0 \/ copies[p][j] > 0
             \/ Coming(p, {"retry", "resync", "accepted", "rejected"}, j)'
  <2>1. items[j] = pending[p][j]
    BY <1>3, <1>4, <1>9
  <2>2. Remembered(p, j)
    BY <1>9 DEF Memory
  <2> QED
    BY <1>7, <1>9, <2>1, <2>2 DEF Remembered, Answering
<1> QED
  BY <1>1, <1>2, <1>3, <1>5, <1>6, <1>8, <1>9, MemoryOfFlush

LEMMA MemoryOfSnapshot ==
  ASSUME TypeInv, NEW p \in Pages, Memory(p), HandleSnapshot(p)
  PROVE  Memory(p)'
<1> DEFINE v == Head(inbox[p]).version
<1>1. /\ Receive(p, "snapshot")
      /\ Queue(p) \ Done(p, v) \subseteq Ids
      /\ Left(p, v) \in [Queue(p) \ Done(p, v) -> Items]
      /\ FlushEffect(p, Left(p, v), AfterSnapshot(p))
      /\ UNCHANGED <<link, page, socket>>
  BY SnapshotEffect
<1>2. ReadyFollows(p)' /\ (page[p] = "new" => socket[p] = "none")
  BY <1>1, FollowsReceive DEF Memory, TypeInv
<1>3. ReadyComing(p)'
  <2>1. /\ Head(inbox[p]).kind = "snapshot" /\ inbox[p][1] = Head(inbox[p])
        /\ 1 \in 1 .. Len(inbox[p])
        /\ Len(inbox'[p]) \in Nat /\ Len(inbox[p]) = Len(inbox'[p]) + 1
        /\ \A k \in 1 .. Len(inbox'[p]) : inbox'[p][k] = inbox[p][k + 1]
    BY <1>1, ReceiveType DEF TypeInv
  <2>2. \/ link[p].readies > 0
        \/ \E l \in 1 .. Len(inbox[p]) : l > 1 /\ inbox[p][l].kind = "ready" /\ inbox[p][l].id = Other
    BY <2>1 DEF Memory, ReadyFollows
  <2>3. ASSUME NEW l \in 1 .. Len(inbox[p]), l > 1, inbox[p][l].kind = "ready", inbox[p][l].id = Other
        PROVE  Coming(p, {"ready"}, Other)'
    <3>1. l - 1 \in 1 .. Len(inbox'[p]) /\ (l - 1) + 1 = l
      BY <2>1, <2>3
    <3>2. inbox'[p][l - 1] = inbox[p][l]
      BY <2>1, <3>1
    <3> QED
      BY <2>3, <3>1, <3>2 DEF Coming
  <2> QED
    BY <1>1, <2>2, <2>3 DEF ReadyComing
<1>4. AfterSnapshot(p) = "online" \/ (AfterSnapshot(p) = "connecting" /\ ReadyComing(p)')
  BY <1>3 DEF AfterSnapshot
<1>5. \A i \in Queue(p) \ Done(p, v) : ~Left(p, v)[i].sent
  <2>1. \A i \in Queue(p) : pending[p][i] \in Items
    BY QueueType DEF TypeInv
  <2> QED
    BY <2>1 DEF Left, Items
<1> QED
  BY <1>1, <1>2, <1>4, <1>5, MemoryOfFlush

\* What is not of the kind received is still coming.
LEMMA MemoryOfRecover ==
  ASSUME TypeInv, NEW p \in Pages, Memory(p), NEW kind, Receive(p, kind), Recover(p),
         UNCHANGED <<page, socket>>
  PROVE  Memory(p)'
<1>1. Syncing(p)'
  BY RecoverType DEF Syncing, TypeInv
<1>2. link'[p].readies = link[p].readies
  <2>1. link[p] \in Links /\ link' = [link EXCEPT ![p].syncs = @ + 1]
    BY DEF Recover, TypeInv, ServiceTypes
  <2> QED
    BY <2>1, Domains DEF Links
<1>3. ReadyFollows(p)'
  BY <1>2, FollowsReceive DEF Memory, TypeInv
<1> QED
  BY <1>1, <1>3, MemorySyncing DEF Memory

LEMMA MemoryOfReady ==
  ASSUME TypeInv, NEW p \in Pages, Memory(p), HandleReady(p)
  PROVE  Memory(p)'
<1>1. Receive(p, "ready") /\ UNCHANGED <<page, socket>>
  BY ReadyEffect
<1>2. CASE Recover(p)
  BY <1>1, <1>2, MemoryOfRecover
<1>3. CASE FlushEffect(p, pending[p], "online") /\ UNCHANGED link
  <2>1. Queue(p) \subseteq Ids /\ pending[p] \in [Queue(p) -> Items]
    BY QueueType DEF TypeInv
  <2>2. ReadyFollows(p)' /\ (page[p] = "new" => socket[p] = "none")
    BY <1>1, <1>3, FollowsReceive DEF Memory, TypeInv
  <2>3. \A kinds, i : Coming(p, kinds, i) /\ "ready" \notin kinds => Coming(p, kinds, i)'
    BY <1>1, ComingReceive DEF TypeInv
  <2>4. Syncing(p) => Syncing(p)'
    <3>1. Coming(p, {"snapshot"}, Other) => Coming(p, {"snapshot"}, Other)'
      BY <2>3
    <3> QED
      BY <1>3, <3>1 DEF Syncing
  <2>5. ASSUME NEW i \in Queue(p), socket[p] = "open", pending[p][i].sent
        PROVE  \/ Syncing(p)' \/ pending[p][i].timers > 0 \/ copies[p][i] > 0
               \/ Coming(p, {"retry", "resync", "accepted", "rejected"}, i)'
    <3>1. Remembered(p, i)
      BY <2>5 DEF Memory
    <3>2. Coming(p, {"retry", "resync", "accepted", "rejected"}, i)
            => Coming(p, {"retry", "resync", "accepted", "rejected"}, i)'
      BY <2>3
    <3> QED
      BY <2>4, <2>5, <3>1, <3>2 DEF Remembered, Answering
  <2> QED
    BY <1>1, <1>3, <2>1, <2>2, <2>5, MemoryOfFlush
<1> QED
  BY <1>2, <1>3, ReadyEffect
-----------------------------------------------------------------------------
(* The other messages *)

\* The answer to an item is received, and the item gone or waiting for a timer.
LEMMA MemoryOfReceive ==
  ASSUME TypeInv, NEW p \in Pages, Memory(p), NEW kind, Receive(p, kind),
         kind \notin {"snapshot", "ready"}, UNCHANGED <<link, page, socket, conn, copies>>,
         \A i \in Queue(p)' :
            \/ /\ i \in Queue(p) /\ pending'[p][i] = pending[p][i]
               /\ kind = "event" \/ Head(inbox[p]).id # i
            \/ pending'[p][i].sent /\ pending'[p][i].timers > 0
  PROVE  Memory(p)'
<1>1. ReadyFollows(p)'
  BY FollowsReceive DEF Memory, TypeInv
<1>2. Syncing(p) => Syncing(p)'
  <2>1. Coming(p, {"snapshot"}, Other) => Coming(p, {"snapshot"}, Other)'
    BY ComingReceive DEF TypeInv
  <2> QED
    BY <2>1 DEF Syncing
<1>3. ReadyComing(p) => ReadyComing(p)'
  <2>1. Coming(p, {"ready"}, Other) => Coming(p, {"ready"}, Other)'
    BY ComingReceive DEF TypeInv
  <2> QED
    BY <2>1 DEF ReadyComing
<1>4. Attentive(p) => Attentive(p)'
  BY <1>2, <1>3 DEF Attentive
<1>5. ASSUME NEW i \in Queue(p)', socket[p] = "open" PROVE Remembered(p, i)'
  <2>1. CASE pending'[p][i].sent /\ pending'[p][i].timers > 0
    BY <2>1 DEF Remembered, Answering
  <2>2. CASE /\ i \in Queue(p) /\ pending'[p][i] = pending[p][i]
             /\ kind = "event" \/ Head(inbox[p]).id # i
    <3>1. Coming(p, {"retry", "resync", "accepted", "rejected"}, i)
            => Coming(p, {"retry", "resync", "accepted", "rejected"}, i)'
      <4>1. kind \notin {"retry", "resync", "accepted", "rejected"} \/ Head(inbox[p]).id # i
        BY <2>2
      <4> QED
        BY <4>1, ComingReceive DEF TypeInv
    <3>2. Remembered(p, i)
      BY <1>5, <2>2 DEF Memory
    <3> QED
      BY <1>2, <1>3, <2>2, <3>1, <3>2 DEF Remembered, Answering
  <2> QED
    BY <1>5, <2>1, <2>2
<1> QED
  BY <1>1, <1>4, <1>5 DEF Memory

LEMMA MemoryOfRemove ==
  ASSUME TypeInv, NEW p \in Pages, Memory(p), NEW kind, Receive(p, kind),
         kind \notin {"snapshot", "ready"}, UNCHANGED <<link, page, socket, conn, copies>>,
         RemoveEffect(p, Head(inbox[p]))
  PROVE  Memory(p)'
<1>1. Queue(p)' = Queue(p) \ {Head(inbox[p]).id}
  BY DEF RemoveEffect, Queue
<1>2. \A i \in Queue(p)' :
         i \in Queue(p) /\ pending'[p][i] = pending[p][i] /\ Head(inbox[p]).id # i
  BY <1>1 DEF RemoveEffect
<1> QED
  BY <1>2, MemoryOfReceive

LEMMA MemoryOfEvent ==
  ASSUME TypeInv, NEW p \in Pages, Memory(p), HandleEvent(p)
  PROVE  Memory(p)'
<1>1. Receive(p, "event") /\ UNCHANGED <<page, socket, pending, copies>>
  BY DEF HandleEvent, queueVars
<1>2. CASE Recover(p)
  BY <1>1, <1>2, MemoryOfRecover
<1>3. CASE UNCHANGED <<conn, link>>
  <2>1. Queue(p)' = Queue(p)
    BY <1>1 DEF Queue
  <2> QED
    BY <1>1, <1>3, <2>1, MemoryOfReceive
<1> QED
  BY <1>2, <1>3 DEF HandleEvent

LEMMA MemoryOfRetryLater ==
  ASSUME TypeInv, NEW p \in Pages, Memory(p), HandleRetry(p)
  PROVE  Memory(p)'
<1> DEFINE i == Head(inbox[p]).id
<1>1. Receive(p, "retry") /\ UNCHANGED <<link, page, socket, conn, copies>>
  BY RetryEffect
<1>2. CASE i \notin Queue(p) /\ UNCHANGED pending
  <2>1. Queue(p)' = Queue(p)
    BY <1>2 DEF Queue
  <2> QED
    BY <1>1, <1>2, <2>1, MemoryOfReceive
<1>3. CASE i \in Queue(p) /\ ItemEffect(p, i, [pending[p][i] EXCEPT !.sent = TRUE,
                                                  !.timers = pending[p][i].timers + 1])
  <2>1. pending[p][i] \in Items
    BY <1>3, QueueType DEF TypeInv
  <2>2. pending'[p][i] = [pending[p][i] EXCEPT !.sent = TRUE, !.timers = pending[p][i].timers + 1]
    BY <1>3 DEF ItemEffect
  <2>3. pending'[p][i].sent /\ pending'[p][i].timers > 0
    BY <2>1, <2>2 DEF Items
  <2>4. Queue(p)' = Queue(p) /\ \A j \in Queue(p) \ {i} : pending'[p][j] = pending[p][j]
    BY <1>3 DEF ItemEffect, Queue
  <2> QED
    BY <1>1, <2>3, <2>4, MemoryOfReceive
<1> QED
  BY <1>2, <1>3, RetryEffect

LEMMA MemoryOfHandle ==
  ASSUME TypeInv, NEW p \in Pages, Memory(p), Handle(p)
  PROVE  Memory(p)'
<1>1. CASE HandleResync(p)
  BY <1>1, ResyncEffect, MemoryOfRecover
<1>2. CASE HandleAccepted(p)
  <2>1. /\ Receive(p, "accepted") /\ UNCHANGED <<page, socket, copies>>
        /\ \/ Recover(p)
           \/ RemoveEffect(p, Head(inbox[p])) /\ UNCHANGED <<conn, link>>
    BY <1>2, AcceptedEffect
  <2> QED
    BY <2>1, MemoryOfRecover, MemoryOfRemove
<1>3. CASE HandleRejected(p)
  <2>1. /\ Receive(p, "rejected") /\ RemoveEffect(p, Head(inbox[p]))
        /\ UNCHANGED <<link, page, socket, conn, copies>>
    BY <1>3, RejectedEffect
  <2> QED
    BY <2>1, MemoryOfRemove
<1> QED
  BY <1>1, <1>2, <1>3, MemoryOfSnapshot, MemoryOfReady, MemoryOfEvent, MemoryOfRetryLater DEF Handle

LEMMA MemoryNext ==
  ASSUME ~SyncMayFail, TypeInv, MemoryInv, [Next]_vars
  PROVE  MemoryInv'
<1> SUFFICES ASSUME NEW q \in Pages PROVE Memory(q)'
  BY DEF MemoryInv
<1>1. Memory(q)
  BY DEF MemoryInv
<1>2. CASE UNCHANGED <<linkVars, pageVars, queueVars>>
  BY <1>1, <1>2, MemoryOfService
<1>3. ASSUME NEW p \in Pages, PageStep(p), q # p PROVE Memory(q)'
  <2>1. q \in Pages \ {p} /\ Elsewhere(p)
    BY <1>3, OthersUntouched
  <2>2. /\ inbox'[q] = inbox[q] /\ link'[q] = link[q] /\ page'[q] = page[q]
        /\ socket'[q] = socket[q] /\ conn'[q] = conn[q] /\ pending'[q] = pending[q]
        /\ copies'[q] = copies[q]
    BY <2>1 DEF Elsewhere
  <2> QED
    BY <1>1, <2>2, MemoryElsewhere
<1>4. CASE PageStep(q)
  <2>1. CASE Load(q) \/ Restore(q) \/ Connect(q) \/ Hello(q) \/ Lose(q) \/ Close(q)
    BY <1>1, <2>1, MemoryOfLife
  <2>2. CASE SendSnapshot(q) \/ SendEvent(q) \/ SendReady(q)
    BY <1>1, <2>2, MemoryOfSnapshotSent, MemoryOfEventSent, MemoryOfReadySent
  <2>3. CASE \E i \in Ids : Submit(q, i) \/ Retry(q, i) \/ Answer(q, i)
    BY <1>1, <2>3, MemoryOfSubmit, MemoryOfRetry, MemoryOfAnswer
  <2>4. CASE Store(q) \/ Handle(q)
    BY <1>1, <2>4, MemoryOfStore, MemoryOfHandle
  <2>5. ~SyncFails(q)
    BY DEF SyncFails
  <2> QED
    BY <1>4, <2>1, <2>2, <2>3, <2>4, <2>5 DEF PageStep
<1>5. CASE OthersCommit \/ \E i \in Ids, by \in Clients : Decide(i, by)
  BY <1>2, <1>5 DEF OthersCommit, Decide
<1>6. CASE UNCHANGED vars
  BY <1>2, <1>6 DEF vars
<1> QED
  BY <1>3, <1>4, <1>5, <1>6 DEF Next

\* A connected page forgets no operation of its queue, as long as no synchronization
\* fails in the Gateway: an answer, a timer or a snapshot is under way for each
\* (flush, retryLater and the recovery of client-core).
THEOREM PagesRemember == ~SyncMayFail /\ Spec => []NothingForgotten
<1> SUFFICES ASSUME ~SyncMayFail PROVE Spec => []NothingForgotten
  OBVIOUS
<1>1. Init => MemoryInv
  <2> SUFFICES ASSUME Init, NEW p \in Pages PROVE Memory(p)
    BY DEF MemoryInv
  <2>1. inbox[p] = <<>> /\ socket[p] = "none"
    BY DEF Init
  <2> QED
    BY <2>1 DEF Memory, ReadyFollows
<1>2. MemoryInv => NothingForgotten
  <2> SUFFICES ASSUME MemoryInv, NEW p \in Pages, NEW i \in Queue(p), socket[p] = "open"
               PROVE  \/ link[p].syncs > 0 \/ Coming(p, {"snapshot"}, Other)
                      \/ conn[p] = "connecting" /\ (link[p].readies > 0 \/ Coming(p, {"ready"}, Other))
                      \/ pending[p][i].sent /\ \/ copies[p][i] > 0
                                               \/ pending[p][i].timers > 0
                                               \/ Coming(p, {"retry", "resync", "accepted", "rejected"}, i)
    BY DEF NothingForgotten
  <2>1. Remembered(p, i)
    BY DEF MemoryInv, Memory
  <2> QED
    BY <2>1 DEF Remembered, Syncing, ReadyComing, Answering
<1>3. TypeInv /\ MemoryInv /\ [Next]_vars => MemoryInv'
  BY MemoryNext
<1> QED
  BY <1>1, <1>2, <1>3, TypesCorrect, PTL DEF Spec
-----------------------------------------------------------------------------
(* Receipts *)

SameClient == \A p, q \in Pages : ClientId[p] = ClientId[q]

\* What is appended to the log.
Appended(e) == log' = Append(log, e)

LEMMA LogGrows ==
  ASSUME ServiceTypes, NEW e \in Entries, Appended(e)
  PROVE  /\ \A i, v : InLog(i, v) => InLog(i, v)'
         /\ \A i : Committed(i)' => Committed(i) \/ e.id = i
         /\ \A v \in 1 .. Len(log') : log'[v] = e \/ (v \in 1 .. Len(log) /\ log'[v] = log[v])
<1>1. /\ log \in Seq(Entries) /\ Len(log) \in Nat /\ Len(log') = Len(log) + 1
      /\ \A v \in 1 .. Len(log) : log'[v] = log[v]
      /\ log'[Len(log) + 1] = e
  BY DEF ServiceTypes, Appended
<1>2. \A v \in 1 .. Len(log) : v \in 1 .. Len(log')
  BY <1>1
<1>3. \A v \in 1 .. Len(log') : v \in 1 .. Len(log) \/ v = Len(log) + 1
  BY <1>1
<1>4. \A v \in 1 .. Len(log') : log'[v] = e \/ (v \in 1 .. Len(log) /\ log'[v] = log[v])
  BY <1>1, <1>3
<1> QED
  BY <1>1, <1>2, <1>4 DEF InLog, Committed

\* Pages and sockets decide nothing.
LEMMA PageStepService ==
  ASSUME NEW p \in Pages, PageStep(p)
  PROVE  UNCHANGED serviceVars
<1>1. CASE Load(p) \/ Restore(p) \/ Connect(p) \/ Hello(p) \/ Lose(p) \/ Close(p) \/ Store(p)
  BY <1>1 DEF Load, Restore, Connect, Hello, Lose, Close, Store
<1>2. CASE SendSnapshot(p) \/ SendEvent(p) \/ SendReady(p) \/ SyncFails(p)
  BY <1>2 DEF SendSnapshot, SendEvent, SendReady, SyncFails
<1>3. CASE \E i \in Ids : Submit(p, i) \/ Retry(p, i) \/ Answer(p, i)
  BY <1>3 DEF Submit, Retry, Answer
<1>4. CASE Handle(p)
  BY <1>4 DEF Handle, HandleSnapshot, HandleReady, HandleEvent, HandleResync, HandleRetry,
              HandleAccepted, HandleRejected
<1> QED
  BY <1>1, <1>2, <1>3, <1>4 DEF PageStep

LEMMA ServiceStep ==
  ASSUME [Next]_vars
  PROVE  \/ UNCHANGED serviceVars
         \/ \E i \in Ids, by \in Clients : Decide(i, by)
         \/ OthersCommit
  BY PageStepService DEF Next, vars

\* Receipts are for ever.
LEMMA ReceiptsStay ==
  ASSUME TypeInv, [Next]_vars
  PROVE  /\ \A i, v : InLog(i, v) => InLog(i, v)'
         /\ \A i : Denied(i) => Denied(i)'
<1>1. CASE UNCHANGED serviceVars
  BY <1>1 DEF serviceVars, InLog, Denied
<1>2. CASE OthersCommit
  <2>1. [id |-> Other, by |-> Other] \in Entries /\ Appended([id |-> Other, by |-> Other])
        /\ UNCHANGED denied
    BY <1>2 DEF Entries, OthersCommit, Appended
  <2>2. \A i, v : InLog(i, v) => InLog(i, v)'
    BY <2>1, LogGrows DEF TypeInv
  <2> QED
    BY <2>1, <2>2 DEF Denied
<1>3. ASSUME NEW i \in Ids, NEW by \in Clients, Decide(i, by)
      PROVE  /\ \A j, v : InLog(j, v) => InLog(j, v)'
             /\ \A j : Denied(j) => Denied(j)'
  <2>1. [id |-> i, by |-> by] \in Entries
    BY DEF Entries
  <2>2. CASE Appended([id |-> i, by |-> by]) /\ UNCHANGED denied
    <3>1. \A j, v : InLog(j, v) => InLog(j, v)'
      BY <2>1, <2>2, LogGrows DEF TypeInv
    <3> QED
      BY <2>2, <3>1 DEF Denied
  <2>3. CASE UNCHANGED log /\ denied' = denied \cup {[id |-> i, by |-> by]}
    BY <2>3 DEF InLog, Denied
  <2> QED
    BY <1>3, <2>2, <2>3 DEF Decide, Appended
<1> QED
  BY <1>1, <1>2, <1>3, ServiceStep

LEMMA ReceiptsHoldNext ==
  ASSUME TypeInv, ReceiptsHold, [Next]_vars
  PROVE  ReceiptsHold'
<1>1. CASE UNCHANGED serviceVars
  BY <1>1 DEF serviceVars, ReceiptsHold, Committed, Denied
<1>2. CASE OthersCommit
  <2> DEFINE e == [id |-> Other, by |-> Other]
  <2>1. e \in Entries /\ Appended(e) /\ UNCHANGED denied /\ e.id = Other
    BY <1>2 DEF Entries, OthersCommit, Appended
  <2> HIDE DEF e
  <2>2. /\ \A i : Committed(i)' => Committed(i) \/ e.id = i
        /\ \A v \in 1 .. Len(log') : log'[v] = e \/ (v \in 1 .. Len(log) /\ log'[v] = log[v])
    BY <2>1, LogGrows DEF TypeInv
  <2>3. \A i : Denied(i)' <=> Denied(i)
    BY <2>1 DEF Denied
  <2> QED
    BY <2>1, <2>2, <2>3, OtherNoId DEF ReceiptsHold
<1>3. ASSUME NEW i \in Ids, NEW by \in Clients, Decide(i, by) PROVE ReceiptsHold'
  <2> DEFINE e == [id |-> i, by |-> by]
  <2>1. e \in Entries /\ e.id = i /\ e.by = by
    BY DEF Entries
  <2>2. ~Committed(i) /\ ~Denied(i)
    BY <1>3 DEF Decide, Undecided, HasReceipt, Committed, Denied
  <2>3. CASE Appended(e) /\ UNCHANGED denied
    <3> HIDE DEF e
    <3>1. /\ \A j : Committed(j)' => Committed(j) \/ e.id = j
          /\ \A v \in 1 .. Len(log') : log'[v] = e \/ (v \in 1 .. Len(log) /\ log'[v] = log[v])
      BY <2>1, <2>3, LogGrows DEF TypeInv
    <3>2. \A j : Denied(j)' <=> Denied(j)
      BY <2>3 DEF Denied
    <3> QED
      BY <2>1, <2>2, <3>1, <3>2 DEF ReceiptsHold
  <2>4. CASE UNCHANGED log /\ denied' = denied \cup {e}
    <3>1. \A j : Denied(j)' => Denied(j) \/ j = i
      BY <2>1, <2>4 DEF Denied
    <3>2. \A j : Committed(j)' <=> Committed(j)
      BY <2>4 DEF Committed
    <3> QED
      BY <2>2, <2>4, <3>1, <3>2 DEF ReceiptsHold
  <2> QED
    BY <1>3, <2>3, <2>4 DEF Decide, Appended
<1> QED
  BY <1>1, <1>2, <1>3, ServiceStep

\* With one client id, a receipt is found by every page that asks.
LEMMA VerdictTrue ==
  ASSUME SameClient, TypeInv, ReceiptsHold, NEW p \in Pages, NEW i \in Ids, HasReceipt(i)
  PROVE  HeardTrue(Verdict(i, ClientId[p])) /\ Verdict(i, ClientId[p]).id = i
<1> DEFINE w == CHOOSE v \in 1 .. Len(log) : log[v].id = i
<1>1. CASE \E v \in 1 .. Len(log) : log[v] = [id |-> i, by |-> ClientId[p]]
  <2>1. w \in 1 .. Len(log) /\ log[w].id = i
    <3>1. \E v \in 1 .. Len(log) : log[v].id = i
      BY <1>1
    <3> QED
      BY <3>1
  <2>2. Verdict(i, ClientId[p]) = Message("accepted", i, w)
    BY <1>1 DEF Verdict
  <2> HIDE DEF w
  <2> QED
    BY <2>1, <2>2 DEF Message, HeardTrue, InLog
<1>2. CASE ~\E v \in 1 .. Len(log) : log[v] = [id |-> i, by |-> ClientId[p]]
  <2>1. \A v \in 1 .. Len(log) : log[v].id # i
    <3> SUFFICES ASSUME NEW v \in 1 .. Len(log), log[v].id = i PROVE FALSE
      OBVIOUS
    <3>1. log[v] \in Entries /\ i # Other
      BY OtherNoId DEF TypeInv, ServiceTypes
    <3>2. log[v].by \in Clients
      BY <3>1 DEF ReceiptsHold
    <3>3. log[v].by = ClientId[p]
      BY <3>2 DEF Clients, SameClient
    <3>4. log[v] = [id |-> i, by |-> ClientId[p]]
      BY <3>1, <3>3 DEF Entries
    <3> QED
      BY <1>2, <3>4
  <2>2. Denied(i)
    BY <2>1 DEF HasReceipt, Denied
  <2>3. Verdict(i, ClientId[p]) = Message("rejected", i, 0)
    BY <1>2 DEF Verdict
  <2> QED
    BY <2>2, <2>3 DEF Message, HeardTrue
<1> QED
  BY <1>1, <1>2
-----------------------------------------------------------------------------
(* An operation that is nowhere *)

\* A durable queue loses its mutations, does one, or gets one that does not add i.
ChainSkips(p, i) ==
    \/ chain'[p] = chain[p]
    \/ chain'[p] = <<>>
    \/ chain[p] # <<>> /\ chain'[p] = Tail(chain[p])
    \/ \E m \in Mutations : chain'[p] = Append(chain[p], m) /\ i \notin m.add

LEMMA UnheldStays ==
  ASSUME TypeInv, NEW p \in Pages, NEW i \in Ids, Unheld(p, i), ChainSkips(p, i),
         copies'[p][i] = 0, i \notin Queue(p)'
  PROVE  Unheld(p, i)'
<1> SUFFICES ASSUME NEW k \in 1 .. Len(chain'[p]) PROVE i \notin chain'[p][k].add
  BY DEF Unheld
<1>1. chain[p] \in Seq(Mutations) /\ \A l \in 1 .. Len(chain[p]) : i \notin chain[p][l].add
  BY DEF TypeInv, PageTypes, Unheld
<1>2. CASE chain'[p] = chain[p]
  BY <1>1, <1>2
<1>3. CASE chain'[p] = <<>>
  BY <1>3
<1>4. CASE chain[p] # <<>> /\ chain'[p] = Tail(chain[p])
  <2>1. k + 1 \in 1 .. Len(chain[p]) /\ chain'[p][k] = chain[p][k + 1]
    BY <1>1, <1>4
  <2> QED
    BY <1>1, <2>1
<1>5. ASSUME NEW m \in Mutations, chain'[p] = Append(chain[p], m), i \notin m.add
      PROVE  i \notin chain'[p][k].add
  <2>1. Len(chain'[p]) = Len(chain[p]) + 1 /\ chain'[p][Len(chain[p]) + 1] = m
        /\ \A l \in 1 .. Len(chain[p]) : chain'[p][l] = chain[p][l]
    BY <1>1, <1>5
  <2>2. k \in 1 .. Len(chain[p]) \/ k = Len(chain[p]) + 1
    BY <1>1, <2>1
  <2> QED
    BY <1>1, <1>5, <2>1, <2>2
<1> QED
  BY <1>2, <1>3, <1>4, <1>5 DEF ChainSkips

\* Nothing but a submit brings i to a page.
Skips(p, i) ==
    /\ i \notin storage'
    /\ \A c \in Clients : <<i, c>> \notin stray'
    /\ copies'[p][i] = 0 /\ i \notin Queue(p)'
    /\ ChainSkips(p, i)
    /\ \A q \in Pages \ {p} : chain'[q] = chain[q]

LEMMA SkipsUnchanged ==
  ASSUME NEW p \in Pages, NEW i \in Ids, Nowhere(i), UNCHANGED queueVars
  PROVE  Skips(p, i)
<1>1. Queue(p)' = Queue(p)
  BY DEF queueVars, Queue
<1> QED
  BY <1>1 DEF queueVars, Skips, ChainSkips, Nowhere, Unheld

LEMMA SkipsLife ==
  ASSUME TypeInv, NEW p \in Pages, NEW i \in Ids, Nowhere(i),
         Restore(p) \/ Lose(p) \/ Close(p) \/ Store(p)
  PROVE  Skips(p, i)
<1>1. /\ DOMAIN pending = Pages /\ DOMAIN copies = Pages /\ DOMAIN chain = Pages
  BY DEF TypeInv, ServiceTypes, PageTypes
<1>2. /\ i \notin storage /\ \A c \in Clients : <<i, c>> \notin stray
      /\ copies[p][i] = 0 /\ i \notin Queue(p)
      /\ \A k \in 1 .. Len(chain[p]) : i \notin chain[p][k].add
  BY DEF Nowhere, Unheld
<1>3. CASE Restore(p)
  <2>1. /\ \/ pending' = [pending EXCEPT ![p] = [j \in Queue(p) \cup storage |->
                             IF j \in Queue(p) THEN pending[p][j] ELSE Unsent]]
           \/ UNCHANGED pending
        /\ UNCHANGED <<copies, stray, chain, storage>>
    BY <1>3 DEF Restore
  <2>2. i \notin Queue(p)'
    BY <1>1, <1>2, <2>1 DEF Queue
  <2> QED
    BY <1>2, <2>1, <2>2 DEF Skips, ChainSkips
<1>4. ASSUME Unlink(p) PROVE copies'[p][i] = 0 /\ \A c \in Clients : <<i, c>> \notin stray'
  BY <1>1, <1>2, <1>4 DEF Unlink
<1>5. CASE Lose(p)
  <2>1. /\ \/ pending' = [pending EXCEPT ![p] = [j \in Queue(p) |-> [@[j] EXCEPT !.sent = FALSE]]]
           \/ UNCHANGED pending
        /\ UNCHANGED <<chain, storage>> /\ Unlink(p)
    BY <1>5 DEF Lose
  <2>2. i \notin Queue(p)'
    BY <1>1, <1>2, <2>1 DEF Queue
  <2> QED
    BY <1>2, <1>4, <2>1, <2>2 DEF Skips, ChainSkips
<1>6. CASE Close(p)
  <2>1. /\ pending' = [pending EXCEPT ![p] = <<>>] /\ chain' = [chain EXCEPT ![p] = <<>>]
        /\ UNCHANGED storage /\ Unlink(p)
    BY <1>6 DEF Close
  <2>2. i \notin Queue(p)'
    BY <1>1, <2>1 DEF Queue
  <2> QED
    BY <1>1, <1>2, <1>4, <2>1, <2>2 DEF Skips, ChainSkips
<1>7. CASE Store(p)
  <2>1. /\ chain[p] # <<>> /\ chain' = [chain EXCEPT ![p] = Tail(chain[p])]
        /\ UNCHANGED <<copies, stray, pending>>
        /\ storage' \subseteq storage \cup Head(chain[p]).add
    BY <1>7 DEF Store
  <2>2. Head(chain[p]) = chain[p][1] /\ 1 \in 1 .. Len(chain[p])
    BY <2>1 DEF TypeInv, PageTypes
  <2>3. i \notin storage' /\ i \notin Queue(p)'
    BY <1>2, <2>1, <2>2 DEF Queue
  <2> QED
    BY <1>1, <1>2, <2>1, <2>3 DEF Skips, ChainSkips
<1> QED
  BY <1>3, <1>5, <1>6, <1>7

\* Queues that hold no more than they did, and are flushed.
LEMMA SkipsFlush ==
  ASSUME NEW p \in Pages, NEW i \in Ids, Nowhere(i), NEW items, NEW connection,
         FlushEffect(p, items, connection), i \notin DOMAIN items,
         UNCHANGED <<stray, storage>>, ChainSkips(p, i), \A q \in Pages \ {p} : chain'[q] = chain[q]
  PROVE  Skips(p, i)
  BY DEF FlushEffect, Skips, Nowhere, Unheld, Queue

LEMMA SkipsQueue ==
  ASSUME TypeInv, NEW p \in Pages, NEW i \in Ids, Nowhere(i), NEW j \in Ids,
         Retry(p, j) \/ (Submit(p, j) /\ j # i) \/ Answer(p, j)
  PROVE  Skips(p, i)
<1>1. i \notin Queue(p) /\ copies[p][i] = 0
  BY DEF Nowhere, Unheld
<1>2. CASE Retry(p, j)
  <2> DEFINE items == [pending[p] EXCEPT ![j].timers = @ - 1, ![j].sent = FALSE]
  <2>1. Queue(p) \subseteq Ids /\ pending[p] \in [Queue(p) -> Items] /\ j \in Queue(p)
        /\ pending[p][j].timers > 0
    BY <1>2, QueueType DEF Retry, TypeInv
  <2>2. items \in [Queue(p) -> Items]
    BY <2>1, RetryQueue
  <2>3. Flush(p, items, conn[p]) /\ UNCHANGED <<stray, chain, storage>>
    BY <1>2 DEF Retry
  <2> HIDE DEF items
  <2>4. FlushEffect(p, items, conn[p]) /\ DOMAIN items = Queue(p)
    BY <2>1, <2>2, <2>3, FlushType DEF TypeInv
  <2> QED
    BY <1>1, <2>3, <2>4, SkipsFlush DEF ChainSkips
<1>3. CASE Submit(p, j) /\ j # i
  <2> DEFINE items == [k \in Queue(p) \cup {j} |-> IF k = j THEN Unsent ELSE pending[p][k]]
  <2>1. UNCHANGED <<stray, storage>>
    BY <1>3 DEF Submit
  <2>2. CASE Flush(p, items, conn[p]) /\ Persist(p, Mutation({j}, {}))
    <3>1. Queue(p) \cup {j} \subseteq Ids /\ items \in [Queue(p) \cup {j} -> Items]
      BY SubmitQueue
    <3>2. {j} \in SUBSET Ids /\ {} \in SUBSET Ids /\ [add |-> {j}, remove |-> {}] \in Mutations
      BY DEF Mutations
    <3>3. /\ chain'[p] = Append(chain[p], [add |-> {j}, remove |-> {}])
          /\ \A q \in Pages \ {p} : chain'[q] = chain[q]
      BY <2>2, <3>2, PersistType DEF TypeInv
    <3>4. ChainSkips(p, i)
      <4> DEFINE m == [add |-> {j}, remove |-> {}]
      <4>1. m \in Mutations /\ chain'[p] = Append(chain[p], m) /\ i \notin m.add
        BY <1>3, <3>2, <3>3
      <4> HIDE DEF m
      <4> QED
        BY <4>1 DEF ChainSkips
    <3> HIDE DEF items
    <3>5. FlushEffect(p, items, conn[p]) /\ DOMAIN items = Queue(p) \cup {j}
      BY <2>2, <3>1, FlushType DEF TypeInv
    <3> QED
      BY <1>1, <1>3, <2>1, <3>3, <3>4, <3>5, SkipsFlush
  <2>3. CASE UNCHANGED <<pending, copies, conn, chain>>
    BY <2>1, <2>3, SkipsUnchanged DEF queueVars
  <2> QED
    BY <1>3, <2>2, <2>3 DEF Submit
<1>4. CASE Answer(p, j)
  <2>1. /\ copies[p][j] > 0 /\ copies' = [copies EXCEPT ![p][j] = @ - 1]
        /\ UNCHANGED <<pending, stray, chain, storage>>
    BY <1>4 DEF Answer
  <2>2. copies'[p][i] = 0
    BY <1>1, <2>1 DEF TypeInv, ServiceTypes
  <2>3. i \notin Queue(p)'
    BY <1>1, <2>1 DEF Queue
  <2> QED
    BY <2>1, <2>2, <2>3 DEF Skips, ChainSkips, Nowhere
<1> QED
  BY <1>2, <1>3, <1>4
LEMMA SkipsSettle ==
  ASSUME TypeInv, NEW p \in Pages, NEW i \in Ids, NEW S, S \subseteq Ids,
         NEW answers \in [S -> Messages], Settle(p, answers)
  PROVE  ChainSkips(p, i) /\ \A q \in Pages \ {p} : chain'[q] = chain[q]
<1>1. /\ \A q \in Pages \ {p} : chain'[q] = chain[q]
      /\ \/ S = {} /\ chain' = chain
         \/ chain'[p] = Append(chain[p], [add |-> {}, remove |-> S])
  BY SettleType DEF TypeInv
<1> DEFINE m == [add |-> {}, remove |-> S]
<1>2. m \in Mutations /\ i \notin m.add
  BY DEF Mutations
<1>3. chain' = chain \/ chain'[p] = Append(chain[p], m)
  BY <1>1
<1> HIDE DEF m
<1> QED
  BY <1>1, <1>2, <1>3 DEF ChainSkips

LEMMA SkipsHandle ==
  ASSUME TypeInv, NEW p \in Pages, NEW i \in Ids, Nowhere(i), Handle(p)
  PROVE  Skips(p, i)
<1>1. /\ i \notin Queue(p) /\ copies[p][i] = 0 /\ i \notin storage
      /\ \A c \in Clients : <<i, c>> \notin stray
  BY DEF Nowhere, Unheld
<1>2. ASSUME UNCHANGED <<copies, stray, chain, storage>>, Queue(p)' \subseteq Queue(p)
      PROVE  Skips(p, i)
  BY <1>1, <1>2 DEF Skips, ChainSkips
<1>3. ASSUME NEW m, RemoveEffect(p, m), UNCHANGED <<copies, stray, storage>> PROVE Skips(p, i)
  <2>1. ChainSkips(p, i) /\ \A q \in Pages \ {p} : chain'[q] = chain[q]
    BY <1>3, SkipsSettle DEF RemoveEffect
  <2>2. i \notin Queue(p)'
    BY <1>1, <1>3 DEF RemoveEffect, Queue
  <2> QED
    BY <1>1, <1>3, <2>1, <2>2 DEF Skips
<1>4. \A j, item : ItemEffect(p, j, item) => Queue(p)' \subseteq Queue(p)
  BY DEF ItemEffect, Queue
<1>5. UNCHANGED pending => Queue(p)' \subseteq Queue(p)
  BY DEF Queue
<1>6. CASE HandleSnapshot(p)
  <2> DEFINE v == Head(inbox[p]).version
  <2>1. /\ Done(p, v) \subseteq Ids
        /\ [j \in Done(p, v) |-> SnapshotAnswer(p, j)] \in [Done(p, v) -> Messages]
        /\ Settle(p, [j \in Done(p, v) |-> SnapshotAnswer(p, j)])
        /\ FlushEffect(p, Left(p, v), AfterSnapshot(p))
        /\ UNCHANGED <<stray, storage>>
    BY <1>6, SnapshotEffect
  <2>2. ChainSkips(p, i) /\ \A q \in Pages \ {p} : chain'[q] = chain[q]
    BY <2>1, SkipsSettle
  <2>3. i \notin DOMAIN Left(p, v)
    BY <1>1 DEF Left
  <2> QED
    BY <2>1, <2>2, <2>3, SkipsFlush
<1>7. CASE HandleReady(p)
  <2>1. UNCHANGED <<stray, chain, storage>>
    BY <1>7, ReadyEffect
  <2>2. CASE UNCHANGED <<pending, copies>>
    BY <1>2, <1>5, <2>1, <2>2
  <2>3. CASE FlushEffect(p, pending[p], "online")
    <3>1. i \notin DOMAIN pending[p]
      BY <1>1 DEF Queue
    <3> QED
      BY <2>1, <2>3, <3>1, SkipsFlush DEF ChainSkips
  <2> QED
    BY <1>7, <2>2, <2>3, ReadyEffect
<1>8. CASE HandleEvent(p)
  BY <1>8, SkipsUnchanged DEF HandleEvent
<1>9. CASE HandleResync(p)
  BY <1>2, <1>4, <1>5, <1>9, ResyncEffect
<1>10. CASE HandleRetry(p)
  BY <1>2, <1>4, <1>5, <1>10, RetryEffect
<1>11. CASE HandleAccepted(p)
  <2> DEFINE m == Head(inbox[p])
  <2>1. /\ UNCHANGED <<copies, stray, storage>>
        /\ \/ /\ \/ UNCHANGED pending
                 \/ ItemEffect(p, m.id, [pending[p][m.id] EXCEPT !.accepted = m.version])
              /\ UNCHANGED chain
           \/ RemoveEffect(p, m)
    BY <1>11, AcceptedEffect
  <2> QED
    BY <1>2, <1>3, <1>4, <1>5, <2>1
<1>12. CASE HandleRejected(p)
  BY <1>3, <1>12, RejectedEffect
<1> QED
  BY <1>6, <1>7, <1>8, <1>9, <1>10, <1>11, <1>12 DEF Handle

LEMMA SkipsStep ==
  ASSUME TypeInv, NEW p \in Pages, NEW i \in Ids, Nowhere(i), PageStep(p), ~Submit(p, i)
  PROVE  Skips(p, i)
<1>1. CASE Load(p) \/ Connect(p) \/ Hello(p)
  BY <1>1, SkipsUnchanged DEF Load, Connect, Hello
<1>2. CASE SendSnapshot(p) \/ SendEvent(p) \/ SendReady(p) \/ SyncFails(p)
  BY <1>2, SkipsUnchanged DEF SendSnapshot, SendEvent, SendReady, SyncFails
<1>3. CASE Restore(p) \/ Lose(p) \/ Close(p) \/ Store(p)
  BY <1>3, SkipsLife
<1>4. CASE \E j \in Ids : Submit(p, j) \/ Retry(p, j) \/ Answer(p, j)
  <2> PICK j \in Ids : Submit(p, j) \/ Retry(p, j) \/ Answer(p, j)
    BY <1>4
  <2>1. Retry(p, j) \/ (Submit(p, j) /\ j # i) \/ Answer(p, j)
    OBVIOUS
  <2> QED
    BY <2>1, SkipsQueue
<1> QED
  BY <1>1, <1>2, <1>3, <1>4, SkipsHandle DEF PageStep

\* An operation that is nowhere is submitted or stays so.
LEMMA NowhereStays ==
  ASSUME TypeInv, NEW i \in Ids, Nowhere(i), [Next]_vars, \A p \in Pages : ~Submit(p, i)
  PROVE  Nowhere(i)'
<1>1. ASSUME UNCHANGED queueVars, ~Committed(i)' PROVE Nowhere(i)'
  <2>1. ASSUME NEW q \in Pages PROVE Queue(q)' = Queue(q)
    BY <1>1 DEF Queue, queueVars
  <2> QED
    BY <1>1, <2>1 DEF Nowhere, Unheld, queueVars
<1>2. ASSUME UNCHANGED log PROVE ~Committed(i)'
  BY <1>2 DEF Nowhere, Committed
<1>3. ASSUME NEW p \in Pages, PageStep(p) PROVE Nowhere(i)'
  <2>1. Skips(p, i)
    BY <1>3, SkipsStep
  <2>2. UNCHANGED log
    BY <1>3, PageStepService DEF serviceVars
  <2>3. ASSUME NEW q \in Pages PROVE Unheld(q, i)'
    <3>1. CASE q = p
      BY <2>1, <3>1, UnheldStays DEF Skips, Nowhere
    <3>2. CASE q # p
      <4>1. pending'[q] = pending[q] /\ copies'[q] = copies[q]
        BY <1>3, <3>2, OthersUntouched DEF Elsewhere
      <4>2. chain'[q] = chain[q]
        BY <2>1, <3>2 DEF Skips
      <4>3. Queue(q)' = Queue(q)
        BY <4>1 DEF Queue
      <4> QED
        BY <4>1, <4>2, <4>3 DEF Nowhere, Unheld
    <3> QED
      BY <3>1, <3>2
  <2> QED
    BY <1>2, <2>1, <2>2, <2>3 DEF Nowhere, Skips
<1>4. CASE OthersCommit
  <2>1. [id |-> Other, by |-> Other] \in Entries /\ Appended([id |-> Other, by |-> Other])
        /\ UNCHANGED queueVars
    BY <1>4 DEF Entries, OthersCommit, Appended
  <2>2. Committed(i)' => Committed(i) \/ Other = i
    BY <2>1, LogGrows DEF TypeInv
  <2> QED
    BY <1>1, <2>1, <2>2, OtherNoId DEF Nowhere
<1>5. ASSUME NEW j \in Ids, NEW by \in Clients, Decide(j, by) PROVE Nowhere(i)'
  <2>1. UNCHANGED queueVars
    BY <1>5 DEF Decide
  <2>2. j # i
    <3>1. \A c \in Clients : <<i, c>> \notin stray
      BY DEF Nowhere
    <3>2. \A p \in Pages : ~(copies[p][i] > 0)
      BY DEF Nowhere, Unheld
    <3> QED
      BY <1>5, <3>1, <3>2 DEF Decide
  <2>3. CASE Appended([id |-> j, by |-> by])
    <3>1. [id |-> j, by |-> by] \in Entries
      BY DEF Entries
    <3>2. Committed(i)' => Committed(i) \/ j = i
      BY <2>3, <3>1, LogGrows DEF TypeInv
    <3> QED
      BY <1>1, <2>1, <2>2, <3>2 DEF Nowhere
  <2>4. CASE UNCHANGED log
    BY <1>1, <1>2, <2>1, <2>4
  <2> QED
    BY <1>5, <2>3, <2>4 DEF Decide, Appended
<1>6. CASE UNCHANGED vars
  BY <1>1, <1>2, <1>6 DEF vars, serviceVars
<1> QED
  BY <1>3, <1>4, <1>5, <1>6 DEF Next
-----------------------------------------------------------------------------
(* What messages, items and the application have heard *)

LEMMA HeardStays ==
  ASSUME TypeInv, [Next]_vars
  PROVE  \A m : HeardTrue(m) => HeardTrue(m)'
  BY ReceiptsStay DEF HeardTrue

LEMMA InboxStep ==
  ASSUME SameClient, TypeInv, ReceiptsHold, NEW p \in Pages, PageStep(p)
  PROVE  \/ UNCHANGED inbox
         \/ inbox'[p] = <<>>
         \/ \E kind : Receive(p, kind)
         \/ \E m \in Messages : Reply(p, m) /\ HeardTrue(m)
<1>1. CASE Load(p) \/ Restore(p) \/ Connect(p) \/ Hello(p) \/ Store(p)
  BY <1>1 DEF Load, Restore, Connect, Hello, Store, linkVars
<1>2. CASE Lose(p) \/ Close(p)
  BY <1>2, UnlinkElsewhere DEF Lose, Close
<1>3. CASE \E i \in Ids : Submit(p, i) \/ Retry(p, i)
  BY <1>3 DEF Submit, Retry, linkVars
<1>4. CASE Handle(p)
  BY <1>4 DEF Handle, HandleSnapshot, HandleReady, HandleEvent, HandleResync, HandleRetry,
              HandleAccepted, HandleRejected
<1>5. ASSUME NEW kind \in {"snapshot", "event", "ready", "retry"}, NEW v \in Nat
      PROVE  Message(kind, Other, v) \in Messages /\ HeardTrue(Message(kind, Other, v))
  BY <1>5, MessageType DEF Message, HeardTrue
<1>6. CASE SendSnapshot(p)
  <2>1. PICK v \in 0 .. Len(log) : Reply(p, Message("snapshot", Other, v))
    BY <1>6 DEF SendSnapshot
  <2>2. v \in Nat
    OBVIOUS
  <2> QED
    BY <1>5, <2>1, <2>2
<1>7. CASE SendEvent(p)
  <2>1. link[p].lastSent + 1 \in Nat /\ Reply(p, Message("event", Other, link[p].lastSent + 1))
    BY <1>7 DEF SendEvent, TypeInv, ServiceTypes, Links
  <2> QED
    BY <1>5, <2>1
<1>8. CASE SendReady(p)
  <2>1. link[p].lastSent \in Nat /\ Reply(p, Message("ready", Other, link[p].lastSent))
    BY <1>8 DEF SendReady, TypeInv, ServiceTypes, Links
  <2> QED
    BY <1>5, <2>1
<1>9. CASE SyncFails(p)
  BY <1>5, <1>9 DEF SyncFails
<1>10. ASSUME NEW i \in Ids, Answer(p, i)
       PROVE  \E m \in Messages : Reply(p, m) /\ HeardTrue(m)
  <2>1. PICK m \in Messages :
           /\ Reply(p, m)
           /\ m.kind \in {"accepted", "rejected"} => HasReceipt(i) /\ m = Verdict(i, ClientId[p])
    BY <1>10, AnswerMessage DEF TypeInv
  <2>2. HeardTrue(m)
    <3>1. CASE m.kind \in {"accepted", "rejected"}
      BY <2>1, <3>1, VerdictTrue
    <3>2. CASE m.kind \notin {"accepted", "rejected"}
      BY <3>2 DEF HeardTrue
    <3> QED
      BY <3>1, <3>2
  <2> QED
    BY <2>1, <2>2
<1> QED
  BY <1>1, <1>2, <1>3, <1>4, <1>6, <1>7, <1>8, <1>9, <1>10 DEF PageStep

LEMMA MessagesTrueNext ==
  ASSUME SameClient, TypeInv, ReceiptsHold, MessagesTrue, [Next]_vars
  PROVE  MessagesTrue'
<1> SUFFICES ASSUME NEW q \in Pages, NEW k \in 1 .. Len(inbox'[q]), NEW m, m = inbox'[q][k]
             PROVE  HeardTrue(m)
  BY HeardStays DEF MessagesTrue, HeardTrue, InLog, Denied
<1>1. CASE inbox'[q] = inbox[q]
  BY <1>1 DEF MessagesTrue
<1>2. ASSUME NEW p \in Pages, PageStep(p) PROVE HeardTrue(m)
  <2>1. CASE q # p
    BY <1>1, <1>2, <2>1, OthersUntouched DEF Elsewhere
  <2>2. CASE q = p /\ inbox'[p] = <<>>
    BY <2>2
  <2>3. ASSUME q = p, NEW kind, Receive(p, kind) PROVE HeardTrue(m)
    <3>1. /\ Len(inbox'[p]) \in Nat /\ Len(inbox[p]) = Len(inbox'[p]) + 1
          /\ inbox'[p][k] = inbox[p][k + 1]
      BY <2>3, ReceiveType DEF TypeInv
    <3>2. k + 1 \in 1 .. Len(inbox[p])
      BY <2>3, <3>1
    <3> QED
      BY <2>3, <3>1, <3>2 DEF MessagesTrue
  <2>4. ASSUME q = p, NEW n \in Messages, Reply(p, n), HeardTrue(n) PROVE HeardTrue(m)
    <3>1. inbox[p] \in Seq(Messages) /\ inbox'[p] = Append(inbox[p], n)
      BY <2>4, ReplyType DEF TypeInv, ServiceTypes
    <3>2. CASE k \in 1 .. Len(inbox[p])
      <4>1. m = inbox[p][k]
        BY <2>4, <3>1, <3>2
      <4> QED
        BY <3>2, <4>1 DEF MessagesTrue
    <3>3. CASE k = Len(inbox[p]) + 1
      BY <2>4, <3>1, <3>3
    <3>4. k \in 1 .. Len(inbox[p]) \/ k = Len(inbox[p]) + 1
      BY <2>4, <3>1
    <3> QED
      BY <3>2, <3>3, <3>4
  <2> QED
    BY <1>1, <1>2, <2>1, <2>2, <2>3, <2>4, InboxStep
<1>3. CASE OthersCommit \/ \E i \in Ids, by \in Clients : Decide(i, by)
  BY <1>1, <1>3 DEF OthersCommit, Decide, linkVars
<1>4. CASE UNCHANGED vars
  BY <1>1, <1>4 DEF vars, linkVars
<1> QED
  BY <1>2, <1>3, <1>4 DEF Next

\* Where the acceptance of an item comes from.
ItemHeard(p, i) ==
    \/ i \in Queue(p) /\ pending'[p][i].accepted = pending[p][i].accepted
    \/ pending'[p][i].accepted = 0
    \/ InLog(i, pending'[p][i].accepted)

LEMMA HeardFlush ==
  ASSUME NEW p \in Pages, NEW S, NEW items \in [S -> Items], NEW connection,
         FlushEffect(p, items, connection),
         \A i \in S : \/ i \in Queue(p) /\ items[i].accepted = pending[p][i].accepted
                      \/ items[i].accepted = 0
  PROVE  \A i \in Queue(p)' : ItemHeard(p, i)
<1> SUFFICES ASSUME NEW i \in Queue(p)' PROVE ItemHeard(p, i)
  OBVIOUS
<1>1. i \in S /\ items[i] \in Items
  BY DEF FlushEffect, Queue
<1>2. pending'[p][i] = items[i] \/ pending'[p][i] = [items[i] EXCEPT !.sent = TRUE]
  BY <1>1 DEF FlushEffect
<1>3. pending'[p][i].accepted = items[i].accepted
  BY <1>1, <1>2 DEF Items
<1> QED
  BY <1>1, <1>3 DEF ItemHeard

LEMMA HeardQueue ==
  ASSUME TypeInv, NEW p \in Pages, NEW i \in Ids, Submit(p, i) \/ Retry(p, i)
  PROVE  \A j \in Queue(p)' : ItemHeard(p, j)
<1>1. Queue(p) \subseteq Ids /\ pending[p] \in [Queue(p) -> Items]
  BY QueueType DEF TypeInv
<1>2. CASE Retry(p, i)
  <2> DEFINE items == [pending[p] EXCEPT ![i].timers = @ - 1, ![i].sent = FALSE]
  <2>1. i \in Queue(p) /\ pending[p][i].timers > 0 /\ pending[p][i] \in Items
    BY <1>1, <1>2 DEF Retry
  <2>2. /\ items \in [Queue(p) -> Items]
        /\ \A j \in Queue(p) \ {i} : items[j] = pending[p][j]
        /\ items[i] = [pending[p][i] EXCEPT !.timers = @ - 1, !.sent = FALSE]
    <3> DEFINE q == pending[p]
    <3>1. q \in [Queue(p) -> Items] /\ i \in Queue(p) /\ q[i].timers > 0
      BY <1>1, <2>1
    <3> HIDE DEF q
    <3>2. LET f == [q EXCEPT ![i].timers = @ - 1, ![i].sent = FALSE] IN
          /\ f \in [Queue(p) -> Items]
          /\ \A j \in Queue(p) \ {i} : f[j] = q[j]
          /\ f[i] = [q[i] EXCEPT !.timers = @ - 1, !.sent = FALSE]
      BY <3>1, RetryQueue
    <3> QED
      BY <3>2 DEF q
  <2>3. items[i].accepted = pending[p][i].accepted
    <3>1. \A n : \A r \in Items : [r EXCEPT !.timers = n, !.sent = FALSE].accepted = r.accepted
      BY DEF Items
    <3>2. items[i] = [pending[p][i] EXCEPT !.timers = pending[p][i].timers - 1, !.sent = FALSE]
      BY <2>2
    <3> HIDE DEF items
    <3> QED
      BY <2>1, <3>1, <3>2
  <2>4. Flush(p, items, conn[p])
    BY <1>2 DEF Retry
  <2> HIDE DEF items
  <2>5. FlushEffect(p, items, conn[p])
    BY <1>1, <2>2, <2>4, FlushType DEF TypeInv
  <2>6. \A j \in Queue(p) : j \in Queue(p) /\ items[j].accepted = pending[p][j].accepted
    BY <2>2, <2>3
  <2> QED
    BY <2>2, <2>5, <2>6, HeardFlush
<1>3. CASE Submit(p, i)
  <2> DEFINE items == [k \in Queue(p) \cup {i} |-> IF k = i THEN Unsent ELSE pending[p][k]]
  <2>1. CASE Flush(p, items, conn[p])
    <3>1. Queue(p) \cup {i} \subseteq Ids /\ items \in [Queue(p) \cup {i} -> Items]
      BY SubmitQueue
    <3>2. \A j \in Queue(p) \cup {i} :
             \/ j \in Queue(p) /\ items[j].accepted = pending[p][j].accepted
             \/ items[j].accepted = 0
      BY DEF Unsent
    <3> HIDE DEF items
    <3>3. FlushEffect(p, items, conn[p])
      BY <2>1, <3>1, FlushType DEF TypeInv
    <3> QED
      BY <3>1, <3>2, <3>3, HeardFlush
  <2>2. CASE UNCHANGED pending
    BY <2>2 DEF ItemHeard, Queue
  <2> QED
    BY <1>3, <2>1, <2>2 DEF Submit
<1> QED
  BY <1>2, <1>3
LEMMA HeardItem ==
  ASSUME NEW p \in Pages, NEW i, NEW item, ItemEffect(p, i, item),
         item.accepted = pending[p][i].accepted \/ InLog(i, item.accepted)
  PROVE  \A j \in Queue(p)' : ItemHeard(p, j)
  BY DEF ItemEffect, ItemHeard, Queue

\* The message at the head of an inbox is covered by a receipt.
LEMMA HeadTrue ==
  ASSUME TypeInv, MessagesTrue, NEW p \in Pages, NEW kind, Receive(p, kind)
  PROVE  HeardTrue(Head(inbox[p]))
<1>1. inbox[p][1] = Head(inbox[p]) /\ 1 \in 1 .. Len(inbox[p])
  BY ReceiveType DEF TypeInv
<1>2. HeardTrue(inbox[p][1])
  BY <1>1 DEF MessagesTrue
<1> QED
  BY <1>1, <1>2

LEMMA HeardHandle ==
  ASSUME TypeInv, MessagesTrue, NEW p \in Pages, Handle(p)
  PROVE  \A j \in Queue(p)' : ItemHeard(p, j)
<1>1. \A i \in Queue(p) : pending[p][i] \in Items
  BY QueueType DEF TypeInv
<1>2. ASSUME UNCHANGED pending PROVE \A j \in Queue(p)' : ItemHeard(p, j)
  BY <1>2 DEF ItemHeard, Queue
<1>3. ASSUME NEW m, RemoveEffect(p, m) PROVE \A j \in Queue(p)' : ItemHeard(p, j)
  BY <1>3 DEF RemoveEffect, ItemHeard, Queue
<1>4. CASE HandleSnapshot(p)
  <2> DEFINE v == Head(inbox[p]).version
  <2>1. /\ Left(p, v) \in [Queue(p) \ Done(p, v) -> Items]
        /\ FlushEffect(p, Left(p, v), AfterSnapshot(p))
    BY <1>4, SnapshotEffect
  <2>2. \A i \in Queue(p) \ Done(p, v) : Left(p, v)[i].accepted = pending[p][i].accepted
    BY <1>1 DEF Left, Items
  <2> QED
    BY <2>1, <2>2, HeardFlush
<1>5. CASE HandleReady(p)
  <2>1. CASE FlushEffect(p, pending[p], "online")
    <3>1. pending[p] \in [Queue(p) -> Items]
      BY QueueType DEF TypeInv
    <3> QED
      BY <2>1, <3>1, HeardFlush
  <2> QED
    BY <1>2, <1>5, <2>1, ReadyEffect
<1>6. CASE HandleEvent(p)
  BY <1>2, <1>6 DEF HandleEvent, queueVars
<1>7. CASE HandleResync(p)
  <2> DEFINE i == Head(inbox[p]).id
             item == [pending[p][i] EXCEPT !.resync = TRUE]
  <2>1. CASE i \in Queue(p) /\ ItemEffect(p, i, item)
    <3>1. item.accepted = pending[p][i].accepted
      BY <1>1, <2>1 DEF Items
    <3> HIDE DEF item
    <3> QED
      BY <2>1, <3>1, HeardItem
  <2> QED
    BY <1>2, <1>7, <2>1, ResyncEffect
<1>8. CASE HandleRetry(p)
  <2> DEFINE i == Head(inbox[p]).id
             item == [pending[p][i] EXCEPT !.sent = TRUE, !.timers = pending[p][i].timers + 1]
  <2>1. CASE i \in Queue(p) /\ ItemEffect(p, i, item)
    <3>1. item.accepted = pending[p][i].accepted
      BY <1>1, <2>1 DEF Items
    <3> HIDE DEF item
    <3> QED
      BY <2>1, <3>1, HeardItem
  <2> QED
    BY <1>2, <1>8, <2>1, RetryEffect
<1>9. CASE HandleAccepted(p)
  <2> DEFINE m == Head(inbox[p])
             item == [pending[p][m.id] EXCEPT !.accepted = m.version]
  <2>1. HeardTrue(m) /\ m.kind = "accepted"
    <3>1. Receive(p, "accepted")
      BY <1>9, AcceptedEffect
    <3> QED
      BY <3>1, HeadTrue, ReceiveType DEF TypeInv
  <2>2. CASE m.id \in Queue(p) /\ ItemEffect(p, m.id, item)
    <3>1. InLog(m.id, item.accepted)
      <4>1. item.accepted = m.version
        BY <1>1, <2>2 DEF Items
      <4> QED
        BY <2>1, <4>1 DEF HeardTrue
    <3> HIDE DEF item
    <3> QED
      BY <2>2, <3>1, HeardItem
  <2> QED
    BY <1>2, <1>3, <1>9, <2>2, AcceptedEffect
<1>10. CASE HandleRejected(p)
  BY <1>3, <1>10, RejectedEffect
<1> QED
  BY <1>4, <1>5, <1>6, <1>7, <1>8, <1>9, <1>10 DEF Handle

LEMMA HeardStep ==
  ASSUME TypeInv, MessagesTrue, NEW p \in Pages, PageStep(p)
  PROVE  \A j \in Queue(p)' : ItemHeard(p, j)
<1>1. \A i \in Queue(p) : pending[p][i] \in Items
  BY QueueType DEF TypeInv
<1>2. ASSUME UNCHANGED pending PROVE \A j \in Queue(p)' : ItemHeard(p, j)
  BY <1>2 DEF ItemHeard, Queue
<1>3. CASE Load(p) \/ Connect(p) \/ Hello(p) \/ Store(p)
  BY <1>2, <1>3 DEF Load, Connect, Hello, Store, queueVars
<1>4. CASE SendSnapshot(p) \/ SendEvent(p) \/ SendReady(p) \/ SyncFails(p)
  BY <1>2, <1>4 DEF SendSnapshot, SendEvent, SendReady, SyncFails, queueVars
<1>5. CASE Restore(p)
  <2> DEFINE items == [i \in Queue(p) \cup storage |->
                         IF i \in Queue(p) THEN pending[p][i] ELSE Unsent]
  <2>1. CASE pending' = [pending EXCEPT ![p] = items]
    <3>1. pending'[p] = items
      BY <2>1, Domains
    <3> QED
      BY <3>1 DEF ItemHeard, Queue, Unsent
  <2> QED
    BY <1>2, <1>5, <2>1 DEF Restore
<1>6. CASE Lose(p)
  <2> DEFINE items == [i \in Queue(p) |-> [pending[p][i] EXCEPT !.sent = FALSE]]
  <2>1. CASE pending' = [pending EXCEPT ![p] = items]
    <3>1. pending'[p] = items
      BY <2>1, Domains
    <3>2. \A i \in Queue(p) : items[i].accepted = pending[p][i].accepted
      BY <1>1 DEF Items
    <3> HIDE DEF items
    <3>3. DOMAIN items = Queue(p)
      BY DEF items
    <3> QED
      BY <3>1, <3>2, <3>3 DEF ItemHeard, Queue
  <2> QED
    BY <1>2, <1>6, <2>1 DEF Lose
<1>7. CASE Close(p)
  <2>1. pending'[p] = <<>>
    BY <1>7, Domains DEF Close
  <2> QED
    BY <2>1 DEF Queue
<1>8. CASE \E i \in Ids : Answer(p, i)
  BY <1>2, <1>8 DEF Answer
<1> QED
  BY <1>3, <1>4, <1>5, <1>6, <1>7, <1>8, HeardQueue, HeardHandle DEF PageStep

LEMMA ItemsTrueNext ==
  ASSUME TypeInv, MessagesTrue, ItemsTrue, [Next]_vars
  PROVE  ItemsTrue'
<1> SUFFICES ASSUME NEW q \in Pages, NEW i \in Queue(q)', NEW n, n = pending'[q][i].accepted, n # 0
             PROVE  InLog(i, n)
  BY ReceiptsStay DEF ItemsTrue
<1>1. CASE pending'[q] = pending[q]
  BY <1>1 DEF ItemsTrue, Queue
<1>2. ASSUME NEW p \in Pages, PageStep(p) PROVE InLog(i, n)
  <2>1. CASE q # p
    BY <1>1, <1>2, <2>1, OthersUntouched DEF Elsewhere
  <2>2. CASE q = p
    <3>1. ItemHeard(p, i)
      BY <1>2, <2>2, HeardStep
    <3> QED
      BY <2>2, <3>1 DEF ItemHeard, ItemsTrue
  <2> QED
    BY <2>1, <2>2
<1>3. CASE OthersCommit \/ \E j \in Ids, by \in Clients : Decide(j, by)
  BY <1>1, <1>3 DEF OthersCommit, Decide, queueVars
<1>4. CASE UNCHANGED vars
  BY <1>1, <1>4 DEF vars, queueVars
<1> QED
  BY <1>2, <1>3, <1>4 DEF Next
-----------------------------------------------------------------------------
(* The answers of pages *)

\* An answer to an operation of the queue, that a receipt covers.
Honest(p, i, a) ==
    /\ i \in Queue(p)
    /\ a.kind = "accepted" => InLog(i, a.version)
    /\ a.kind = "rejected" => Denied(i)

Refused(p, i) == Submit(p, i) /\ UNCHANGED queueVars

LEMMA SettleAdds ==
  ASSUME TypeInv, NEW p \in Pages, NEW S, S \subseteq Ids, NEW answers \in [S -> Messages],
         Settle(p, answers)
  PROVE  \A i \in Ids : \A a \in settled'[i] : a \in settled[i] \/ (i \in S /\ a = answers[i])
<1>1. settled' = [i \in Ids |-> IF i \in S THEN settled[i] \cup {answers[i]} ELSE settled[i]]
  BY DEF Settle
<1> QED
  BY <1>1

LEMMA AnswersSettle ==
  ASSUME TypeInv, NEW p \in Pages, NEW S, S \subseteq Ids, NEW answers \in [S -> Messages],
         Settle(p, answers), \A i \in S : Honest(p, i, answers[i])
  PROVE  \A i \in Ids : \A a \in settled'[i] : a \in settled[i] \/ Honest(p, i, a)
<1>1. \A i \in Ids : \A a \in settled'[i] : a \in settled[i] \/ (i \in S /\ a = answers[i])
  BY SettleAdds
<1> QED
  BY <1>1

LEMMA AnswersRemove ==
  ASSUME TypeInv, NEW p \in Pages, NEW m, RemoveEffect(p, m), HeardTrue(m)
  PROVE  \A i \in Ids : \A a \in settled'[i] : a \in settled[i] \/ Honest(p, i, a)
<1> DEFINE S == {m.id} \cap Queue(p)
           answers == [j \in S |-> m]
<1>1. S \subseteq Ids /\ answers \in [S -> Messages] /\ Settle(p, answers)
  BY DEF RemoveEffect
<1>2. \A i \in S : Honest(p, i, answers[i])
  BY DEF Honest, HeardTrue
<1> HIDE DEF answers
<1> QED
  BY <1>1, <1>2, AnswersSettle

LEMMA AnswersStep ==
  ASSUME TypeInv, MessagesTrue, ItemsTrue, NEW p \in Pages, PageStep(p)
  PROVE  \A i \in Ids : \A a \in settled'[i] :
            a \in settled[i] \/ Honest(p, i, a) \/ (Refused(p, i) /\ a.kind = "rejected")
<1>1. ASSUME UNCHANGED settled
      PROVE  \A i \in Ids : \A a \in settled'[i] : a \in settled[i] \/ Honest(p, i, a)
  BY <1>1
<1>2. CASE HandleSnapshot(p)
  <2> DEFINE v == Head(inbox[p]).version
             answers == [i \in Done(p, v) |-> SnapshotAnswer(p, i)]
  <2>1. /\ Done(p, v) \subseteq Ids /\ answers \in [Done(p, v) -> Messages]
        /\ Settle(p, answers) /\ v \in Nat
    BY <1>2, SnapshotEffect
  <2>2. ASSUME NEW i \in Done(p, v) PROVE Honest(p, i, answers[i])
    <3>1. i \in Queue(p) /\ (pending[p][i].resync \/ pending[p][i].accepted \in 1 .. v)
      BY DEF Done
    <3>2. CASE pending[p][i].resync
      BY <3>1, <3>2 DEF Honest, SnapshotAnswer, Message
    <3>3. CASE ~pending[p][i].resync
      <4>1. pending[p][i].accepted # 0
        BY <2>1, <3>1, <3>3
      <4>2. InLog(i, pending[p][i].accepted)
        BY <3>1, <4>1 DEF ItemsTrue
      <4> QED
        BY <3>1, <3>3, <4>2 DEF Honest, SnapshotAnswer, Message
    <3> QED
      BY <3>2, <3>3
  <2> HIDE DEF answers
  <2> QED
    BY <2>1, <2>2, AnswersSettle
<1>3. CASE HandleAccepted(p)
  <2> DEFINE m == Head(inbox[p])
  <2>1. HeardTrue(m) /\ (RemoveEffect(p, m) \/ UNCHANGED settled)
    <3>1. Receive(p, "accepted") /\ (RemoveEffect(p, m) \/ UNCHANGED settled)
      BY <1>3, AcceptedEffect
    <3> QED
      BY <3>1, HeadTrue
  <2> HIDE DEF m
  <2> QED
    BY <1>1, <2>1, AnswersRemove
<1>4. CASE HandleRejected(p)
  <2> DEFINE m == Head(inbox[p])
  <2>1. HeardTrue(m) /\ RemoveEffect(p, m)
    <3>1. Receive(p, "rejected") /\ RemoveEffect(p, m)
      BY <1>4, RejectedEffect
    <3> QED
      BY <3>1, HeadTrue
  <2> HIDE DEF m
  <2> QED
    BY <2>1, AnswersRemove
<1>5. CASE HandleReady(p) \/ HandleEvent(p) \/ HandleResync(p) \/ HandleRetry(p)
  BY <1>1, <1>5 DEF HandleReady, HandleEvent, HandleResync, HandleRetry, historyVars
<1>6. ASSUME NEW j \in Ids, Submit(p, j)
      PROVE  \A i \in Ids : \A a \in settled'[i] :
                a \in settled[i] \/ (Refused(p, i) /\ a.kind = "rejected")
  <2>1. CASE UNCHANGED settled
    BY <2>1
  <2>2. CASE /\ settled' = [settled EXCEPT ![j] = @ \cup {Message("rejected", j, 0)}]
             /\ UNCHANGED <<pending, copies, conn, chain>>
    <3>1. UNCHANGED <<stray, storage>>
      BY <1>6 DEF Submit
    <3>2. Refused(p, j)
      BY <1>6, <2>2, <3>1 DEF Refused, queueVars
    <3> QED
      BY <2>2, <3>2 DEF Message, TypeInv, ProfileTypes
  <2> QED
    BY <1>6, <2>1, <2>2 DEF Submit
<1>7. CASE \E i \in Ids : Retry(p, i) \/ Answer(p, i)
  BY <1>1, <1>7 DEF Retry, Answer, historyVars
<1>8. CASE Load(p) \/ Restore(p) \/ Connect(p) \/ Hello(p) \/ Lose(p) \/ Close(p) \/ Store(p)
  BY <1>1, <1>8 DEF Load, Restore, Connect, Hello, Lose, Close, Store, historyVars
<1>9. CASE SendSnapshot(p) \/ SendEvent(p) \/ SendReady(p) \/ SyncFails(p)
  BY <1>1, <1>9 DEF SendSnapshot, SendEvent, SendReady, SyncFails, historyVars
<1> QED
  BY <1>2, <1>3, <1>4, <1>5, <1>6, <1>7, <1>8, <1>9 DEF PageStep, Handle

\* Only a submit gives an operation its origin.
LEMMA OriginStep ==
  ASSUME TypeInv, [Next]_vars, NEW i \in Ids
  PROVE  \/ origin'[i] = origin[i] /\ \A p \in Pages : ~Submit(p, i)
         \/ origin[i] = NoOp /\ origin'[i] # NoOp
<1>1. ASSUME NEW p \in Pages, NEW j \in Ids, Submit(p, j)
      PROVE  /\ origin[j] = NoOp /\ origin'[j] # NoOp
             /\ \A k \in Ids \ {j} : origin'[k] = origin[k]
  <2>1. origin' = [origin EXCEPT ![j] = [page |-> p, base |-> version[p]]] /\ DOMAIN origin = Ids
    BY <1>1 DEF Submit, TypeInv, ProfileTypes
  <2>2. origin'[j].page = p /\ NoOp.page = NoPage /\ p # NoPage
    BY <2>1, PagesAssumption DEF NoOp
  <2> QED
    BY <1>1, <2>1, <2>2 DEF Submit
<1>2. ASSUME NEW p \in Pages, PageStep(p), \A j \in Ids : ~Submit(p, j) PROVE UNCHANGED origin
  <2>1. CASE Handle(p)
    BY <2>1 DEF Handle, HandleSnapshot, HandleReady, HandleEvent, HandleResync, HandleRetry,
                HandleAccepted, HandleRejected, historyVars
  <2>2. CASE Load(p) \/ Restore(p) \/ Connect(p) \/ Hello(p) \/ Lose(p) \/ Close(p) \/ Store(p)
    BY <2>2 DEF Load, Restore, Connect, Hello, Lose, Close, Store, historyVars
  <2>3. CASE SendSnapshot(p) \/ SendEvent(p) \/ SendReady(p) \/ SyncFails(p)
    BY <2>3 DEF SendSnapshot, SendEvent, SendReady, SyncFails, historyVars
  <2>4. CASE \E j \in Ids : Retry(p, j) \/ Answer(p, j)
    BY <2>4 DEF Retry, Answer, historyVars
  <2> QED
    BY <1>2, <2>1, <2>2, <2>3, <2>4 DEF PageStep
<1>3. ASSUME UNCHANGED vars \/ OthersCommit \/ \E j \in Ids, by \in Clients : Decide(j, by)
      PROVE  UNCHANGED origin
  BY <1>3 DEF vars, historyVars, OthersCommit, Decide
<1>4. UNCHANGED origin \/ \E p \in Pages, j \in Ids : Submit(p, j)
  BY <1>2, <1>3 DEF Next
<1> QED
  BY <1>1, <1>4
\* What has been answered stays true.
LEMMA AnswerStays ==
  ASSUME TypeInv, [Next]_vars, NEW i \in Ids, NEW a, AnswerTrue(i, a)
  PROVE  AnswerTrue(i, a)'
<1>1. origin[i] # NoOp /\ Nowhere(i) => origin'[i] # NoOp /\ Nowhere(i)'
  BY OriginStep, NowhereStays
<1> QED
  BY <1>1, ReceiptsStay DEF AnswerTrue

LEMMA AnswersTrueNext ==
  ASSUME TypeInv, TruthInv, [Next]_vars
  PROVE  AnswersTrue'
<1> SUFFICES ASSUME NEW i \in Ids, NEW a \in settled'[i] PROVE AnswerTrue(i, a)'
  BY DEF AnswersTrue
<1>1. CASE a \in settled[i]
  BY <1>1, AnswerStays DEF TruthInv, AnswersTrue
<1>2. ASSUME NEW p \in Pages, PageStep(p) PROVE AnswerTrue(i, a)'
  <2>1. CASE Honest(p, i, a)
    <3>1. AnswerTrue(i, a)
      BY <2>1 DEF Honest, AnswerTrue
    <3> QED
      BY <3>1, AnswerStays
  <2>2. CASE Refused(p, i) /\ a.kind = "rejected"
    <3>1. origin[i] = NoOp /\ origin'[i] # NoOp
      BY <2>2, OriginStep DEF Refused
    <3>2. Nowhere(i)
      BY <3>1 DEF TruthInv, NewUnknown
    <3>3. UNCHANGED <<log, queueVars>>
      BY <1>2, <2>2, PageStepService DEF Refused, serviceVars
    <3>4. \A q \in Pages : Queue(q)' = Queue(q)
      BY <3>3 DEF queueVars, Queue
    <3>5. Nowhere(i)'
      BY <3>2, <3>3, <3>4 DEF Nowhere, Unheld, Committed, queueVars
    <3> QED
      BY <2>2, <3>1, <3>5 DEF AnswerTrue
  <2> QED
    BY <1>1, <1>2, <2>1, <2>2, AnswersStep DEF TruthInv
<1>3. CASE OthersCommit \/ \E j \in Ids, by \in Clients : Decide(j, by)
  BY <1>1, <1>3 DEF OthersCommit, Decide, historyVars
<1>4. CASE UNCHANGED vars
  BY <1>1, <1>4 DEF vars, historyVars
<1> QED
  BY <1>2, <1>3, <1>4 DEF Next

LEMMA NewUnknownNext ==
  ASSUME TypeInv, TruthInv, [Next]_vars
  PROVE  NewUnknown'
<1> SUFFICES ASSUME NEW i \in Ids, origin'[i] = NoOp PROVE Nowhere(i)' /\ settled'[i] = {}
  BY DEF NewUnknown
<1>1. origin[i] = NoOp /\ \A p \in Pages : ~Submit(p, i)
  BY OriginStep
<1>2. Nowhere(i) /\ settled[i] = {}
  BY <1>1 DEF TruthInv, NewUnknown
<1>3. Nowhere(i)'
  BY <1>1, <1>2, NowhereStays
<1>4. ASSUME NEW p \in Pages, PageStep(p) PROVE settled'[i] = {}
  <2>1. i \notin Queue(p) /\ ~Refused(p, i)
    BY <1>1, <1>2 DEF Nowhere, Unheld, Refused
  <2>2. \A a \in settled'[i] :
           a \in settled[i] \/ Honest(p, i, a) \/ (Refused(p, i) /\ a.kind = "rejected")
    BY <1>4, AnswersStep DEF TruthInv
  <2> QED
    BY <1>2, <2>1, <2>2 DEF Honest
<1>5. ASSUME UNCHANGED vars \/ OthersCommit \/ \E j \in Ids, by \in Clients : Decide(j, by)
      PROVE  UNCHANGED settled
  BY <1>5 DEF vars, OthersCommit, Decide, historyVars
<1> QED
  BY <1>2, <1>3, <1>4, <1>5 DEF Next

LEMMA TruthInit == Init => TruthInv
<1> SUFFICES ASSUME Init PROVE TruthInv
  OBVIOUS
<1>1. /\ log = <<>> /\ denied = {} /\ stray = {} /\ storage = {}
      /\ \A p \in Pages : inbox[p] = <<>> /\ Queue(p) = {} /\ chain[p] = <<>>
      /\ \A p \in Pages, i \in Ids : copies[p][i] = 0
      /\ \A i \in Ids : settled[i] = {}
  BY DEF Init, Queue
<1>2. \A i \in Ids : ~Committed(i)
  BY <1>1 DEF Committed
<1>3. \A i \in Ids : Nowhere(i)
  BY <1>1, <1>2 DEF Nowhere, Unheld
<1>4. ReceiptsHold
  BY <1>1, <1>2 DEF ReceiptsHold
<1>5. MessagesTrue /\ ItemsTrue /\ AnswersTrue
  BY <1>1 DEF MessagesTrue, ItemsTrue, AnswersTrue
<1> QED
  BY <1>1, <1>3, <1>4, <1>5 DEF TruthInv, NewUnknown

\* What a page drops an operation with is true for ever, whatever sockets are lost,
\* pages reloaded and copies sent again: an operation called accepted is in the log at
\* that version, one called rejected never will be; provided that all pages connect
\* with the client id the operation is bound to (worker.ts, client-core).
THEOREM AnswersAreTrue == SameClient /\ Spec => []OutcomesAreTrue
<1> SUFFICES ASSUME SameClient PROVE Spec => []OutcomesAreTrue
  OBVIOUS
<1>1. TypeInv /\ TruthInv /\ [Next]_vars => TruthInv'
  <2> SUFFICES ASSUME TypeInv, TruthInv, [Next]_vars PROVE TruthInv'
    OBVIOUS
  <2>1. ReceiptsHold' /\ MessagesTrue' /\ ItemsTrue'
    BY ReceiptsHoldNext, MessagesTrueNext, ItemsTrueNext DEF TruthInv
  <2> QED
    BY <2>1, AnswersTrueNext, NewUnknownNext DEF TruthInv
<1>2. TruthInv => OutcomesAreTrue
  <2> SUFFICES ASSUME TruthInv, NEW i \in Ids, NEW a \in settled[i]
               PROVE  /\ a.kind = "accepted" => a.version <= Len(log) /\ log[a.version].id = i
                      /\ a.kind = "rejected" => \A v \in 1 .. Len(log) : log[v].id # i
    BY DEF OutcomesAreTrue
  <2>1. AnswerTrue(i, a) /\ (Denied(i) => ~Committed(i))
    BY DEF TruthInv, AnswersTrue, ReceiptsHold
  <2>2. CASE a.kind = "accepted"
    BY <2>1, <2>2 DEF AnswerTrue, InLog
  <2>3. CASE a.kind = "rejected"
    <3>1. ~Committed(i)
      BY <2>1, <2>3 DEF AnswerTrue, Nowhere
    <3> QED
      BY <2>3, <3>1 DEF Committed
  <2> QED
    BY <2>2, <2>3
<1> QED
  BY <1>1, <1>2, TruthInit, TypesCorrect, PTL DEF Spec
====
