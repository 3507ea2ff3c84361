---- MODULE YjsBodyProofs ----
(***************************************************************************)
(* Proof that a page in the room and the server's document only differ by  *)
(* what is under way between them, for any pages, edits and faults.        *)
(*                                                                         *)
(* The invariant is not inductive alone.  A page relays nothing to itself, *)
(* so what it sent must be in its own document; it tells nobody what it    *)
(* merges, so what is sent to it must be in the server's; and a socket     *)
(* that the server has lost must have nothing left to be read.             *)
(***************************************************************************)
EXTENDS YjsBody, SequenceTheorems, TLAPS

Update == SUBSET BodyEdits
Connections == {"connecting", "syncing", "synced", "disconnected"}

BodyTypeOK ==
    /\ room \in Update /\ joined \subseteq Pages
    /\ body \in [Pages -> Update]
    /\ connection \in [Pages -> Connections]
    /\ upward \in [Pages -> Seq(Update)]
    /\ downward \in [Pages -> Seq(Update)]

SentIsMine(p)  == UnderWay(upward[p]) \subseteq body[p]
HeardIsRoom(p) == UnderWay(downward[p]) \subseteq room
InRoom(p)      == Hears(p) /\ IsHeard(p) /\ SentIsMine(p) /\ HeardIsRoom(p) /\ connection[p] # "disconnected"

BodyInvariant ==
    /\ BodyTypeOK
    /\ \A p \in Pages : p \notin joined => upward[p] = <<>>
    /\ \A p \in joined : InRoom(p)

\* What is under way after a send.
LEMMA UnderWayAppend ==
    ASSUME NEW S, NEW s \in Seq(S), NEW u \in S
    PROVE  UnderWay(Append(s, u)) = UnderWay(s) \cup u
<1>1. /\ DOMAIN Append(s, u) = 1 .. Len(s) + 1
      /\ DOMAIN s = 1 .. Len(s)
      /\ \A i \in 1 .. Len(s) : Append(s, u)[i] = s[i]
      /\ Append(s, u)[Len(s) + 1] = u
      /\ Len(s) \in Nat
  OBVIOUS
<1>2. DOMAIN Append(s, u) = DOMAIN s \cup {Len(s) + 1}
  BY <1>1
<1>. QED BY <1>1, <1>2 DEF UnderWay

\* What is under way before a delivery.
LEMMA UnderWayHead ==
    ASSUME NEW S, NEW s \in Seq(S), s # <<>>
    PROVE  /\ UnderWay(s) = Head(s) \cup UnderWay(Tail(s))
           /\ Head(s) \in S /\ Tail(s) \in Seq(S)
<1>1. /\ DOMAIN s = 1 .. Len(s) /\ Len(s) \in Nat \ {0}
      /\ DOMAIN Tail(s) = 1 .. Len(s) - 1
      /\ Head(s) = s[1]
      /\ \A i \in 1 .. Len(s) - 1 : Tail(s)[i] = s[i + 1]
      /\ Head(s) \in S /\ Tail(s) \in Seq(S)
  OBVIOUS
<1>2. ASSUME NEW e \in UnderWay(s) PROVE e \in Head(s) \cup UnderWay(Tail(s))
  <2>1. PICK i \in 1 .. Len(s) : e \in s[i]
    BY <1>1 DEF UnderWay
  <2>2. CASE i = 1
    BY <1>1, <2>1, <2>2
  <2>3. CASE i # 1
    <3>1. i - 1 \in 1 .. Len(s) - 1 /\ Tail(s)[i - 1] = s[i]
      BY <1>1, <2>3
    <3>. QED BY <1>1, <2>1, <3>1 DEF UnderWay
  <2>. QED BY <2>2, <2>3
<1>3. ASSUME NEW e \in UnderWay(Tail(s)) PROVE e \in UnderWay(s)
  <2>1. PICK i \in 1 .. Len(s) - 1 : e \in Tail(s)[i]
    BY <1>1 DEF UnderWay
  <2>2. i + 1 \in 1 .. Len(s) /\ e \in s[i + 1]
    BY <1>1, <2>1
  <2>. QED BY <1>1, <2>2 DEF UnderWay
<1>4. Head(s) \subseteq UnderWay(s)
  BY <1>1 DEF UnderWay
<1>. QED BY <1>1, <1>2, <1>3, <1>4

LEMMA UnderWayNothing == UnderWay(<<>>) = {}
BY DEF UnderWay

LEMMA UnderWayFirst == ASSUME NEW u PROVE UnderWay(<<u>>) = u
<1>1. DOMAIN <<u>> = {1} /\ <<u>>[1] = u
  OBVIOUS
<1>. QED BY <1>1 DEF UnderWay

-----------------------------------------------------------------------------

LEMMA InitBodyInvariant == InitBody => BodyInvariant
BY DEF InitBody, BodyInvariant, BodyTypeOK, Update, Connections

\* A send adds to what is under way, if the server still has the socket.
LEMMA SendUpInvariant ==
    ASSUME BodyInvariant, NEW p \in Pages, NEW update \in Update, SendUp(p, update)
    PROVE  /\ upward' \in [Pages -> Seq(Update)]
           /\ \A q \in Pages : q \notin joined => upward'[q] = <<>>
           /\ \A q \in Pages \ {p} : upward'[q] = upward[q]
           /\ p \in joined => UnderWay(upward'[p]) = UnderWay(upward[p]) \cup update
<1>1. CASE p \in joined
  <2>1. /\ upward[p] \in Seq(Update) /\ Append(upward[p], update) \in Seq(Update)
        /\ upward' = [upward EXCEPT ![p] = Append(upward[p], update)]
    BY <1>1 DEF BodyInvariant, BodyTypeOK, SendUp
  <2>2. UnderWay(Append(upward[p], update)) = UnderWay(upward[p]) \cup update
    BY <2>1, UnderWayAppend
  <2>. QED BY <1>1, <2>1, <2>2 DEF BodyInvariant, BodyTypeOK
<1>2. CASE p \notin joined
  BY <1>2 DEF BodyInvariant, BodyTypeOK, SendUp
<1>. QED BY <1>1, <1>2

LEMMA AcceptInvariant ==
    ASSUME BodyInvariant, NEW p \in Pages, AcceptSocket(p)
    PROVE  BodyInvariant'
<1> USE DEF AcceptSocket, BodyInvariant, BodyTypeOK
<1>1. /\ downward[p] = <<>> /\ downward' = [downward EXCEPT ![p] = Append(downward[p], room)]
      /\ room \in Update /\ downward[p] \in Seq(Update) /\ Append(downward[p], room) \in Seq(Update)
  BY DEF Unanswered
<1>2. UnderWay(downward'[p]) = room
  <2>1. downward'[p] = <<room>>
    BY <1>1
  <2>. QED BY <1>1, <2>1, UnderWayFirst
<1>3. BodyTypeOK' /\ \A q \in Pages : q \notin joined' => upward'[q] = <<>>
  BY <1>1
<1>4. ASSUME NEW q \in joined' PROVE InRoom(q)'
  <2>1. CASE q = p
    BY <1>2, <2>1, UnderWayNothing DEF InRoom, Hears, IsHeard, SentIsMine, HeardIsRoom, Opened, Unanswered
  <2>2. CASE q # p
    <3>1. q \in joined /\ downward'[q] = downward[q]
      BY <1>4, <2>2
    <3>. QED BY <3>1 DEF InRoom, Hears, IsHeard, SentIsMine, HeardIsRoom, Opened
  <2>. QED BY <2>1, <2>2
<1>. QED BY <1>3, <1>4

LEMMA OpenInvariant ==
    ASSUME BodyInvariant, NEW p \in Pages, Open(p)
    PROVE  BodyInvariant'
<1> USE DEF Open, BodyInvariant, BodyTypeOK
<1>1. body[p] \in Update
  OBVIOUS
<1>2. /\ upward' \in [Pages -> Seq(Update)]
      /\ \A q \in Pages : q \notin joined => upward'[q] = <<>>
      /\ \A q \in Pages \ {p} : upward'[q] = upward[q]
      /\ p \in joined => UnderWay(upward'[p]) = UnderWay(upward[p]) \cup body[p]
  BY <1>1, SendUpInvariant
<1>3. BodyTypeOK'
  BY <1>2 DEF Connections
<1>4. ASSUME NEW q \in joined' PROVE InRoom(q)'
  <2>1. CASE q = p
    BY <1>2, <1>4, <2>1 DEF InRoom, Hears, IsHeard, SentIsMine, HeardIsRoom, Opened
  <2>2. CASE q # p
    <3>1. upward'[q] = upward[q] /\ connection'[q] = connection[q] /\ q \in joined
      BY <1>2, <1>4, <2>2
    <3>. QED BY <3>1 DEF InRoom, Hears, IsHeard, SentIsMine, HeardIsRoom, Opened
  <2>. QED BY <2>1, <2>2
<1>. QED BY <1>2, <1>3, <1>4

LEMMA EditInvariant ==
    ASSUME BodyInvariant, NEW p \in Pages, Edit(p)
    PROVE  BodyInvariant'
<1> USE DEF BodyInvariant, BodyTypeOK
<1>1. PICK e \in BodyEdits :
        /\ body' = [body EXCEPT ![p] = @ \cup {e}]
        /\ IF Opened(p) THEN SendUp(p, {e}) ELSE UNCHANGED upward
        /\ UNCHANGED <<room, joined, connection, downward>>
  BY DEF Edit
<1>2. {e} \in Update /\ body[p] \in Update /\ body[p] \cup {e} \in Update
  BY DEF Update
<1>3. /\ upward' \in [Pages -> Seq(Update)]
      /\ \A q \in Pages : q \notin joined => upward'[q] = <<>>
      /\ \A q \in Pages \ {p} : upward'[q] = upward[q]
      /\ p \in joined => UnderWay(upward'[p]) = UnderWay(upward[p]) \cup (IF Opened(p) THEN {e} ELSE {})
  BY <1>1, <1>2, SendUpInvariant
<1>4. BodyTypeOK'
  BY <1>1, <1>2, <1>3
<1>5. ASSUME NEW q \in joined' PROVE InRoom(q)'
  <2>1. CASE q = p
    BY <1>1, <1>2, <1>3, <1>5, <2>1 DEF InRoom, Hears, IsHeard, SentIsMine, HeardIsRoom, Opened
  <2>2. CASE q # p
    <3>1. upward'[q] = upward[q] /\ body'[q] = body[q] /\ q \in joined
      BY <1>1, <1>3, <1>5, <2>2
    <3>. QED BY <1>1, <3>1 DEF InRoom, Hears, IsHeard, SentIsMine, HeardIsRoom, Opened
  <2>. QED BY <2>1, <2>2
<1>. QED BY <1>1, <1>3, <1>4, <1>5

LEMMA RelayInvariant ==
    ASSUME BodyInvariant, NEW p \in Pages, Relay(p)
    PROVE  BodyInvariant'
<1> USE DEF BodyInvariant, BodyTypeOK
<1> DEFINE update == Head(upward[p])
<1>1. p \in joined /\ upward[p] # <<>> /\ upward[p] \in Seq(Update)
  BY DEF Relay
<1>2. /\ UnderWay(upward[p]) = update \cup UnderWay(Tail(upward[p]))
      /\ update \in Update /\ Tail(upward[p]) \in Seq(Update)
  BY <1>1, UnderWayHead
<1>3. /\ room' = room \cup update
      /\ downward' = [q \in Pages |-> IF q \in joined \ {p} THEN Append(downward[q], update) ELSE downward[q]]
      /\ upward' = [upward EXCEPT ![p] = Tail(@)]
      /\ UNCHANGED <<joined, body, connection>>
  BY DEF Relay
<1> HIDE DEF update
<1>4. \A q \in Pages : Append(downward[q], update) \in Seq(Update)
  BY <1>2
<1>5. BodyTypeOK'
  BY <1>2, <1>3, <1>4 DEF Update
<1>6. ASSUME NEW q \in joined' PROVE InRoom(q)'
  <2>1. CASE q = p
    BY <1>1, <1>2, <1>3, <2>1 DEF InRoom, Hears, IsHeard, SentIsMine, HeardIsRoom, Opened
  <2>2. CASE q # p
    <3>1. q \in joined /\ upward'[q] = upward[q] /\ downward[q] \in Seq(Update)
          /\ downward'[q] = Append(downward[q], update)
      BY <1>3, <1>6, <2>2
    <3>2. UnderWay(Append(downward[q], update)) = UnderWay(downward[q]) \cup update
      BY <1>2, <3>1, UnderWayAppend
    <3>. QED BY <1>3, <3>1, <3>2 DEF InRoom, Hears, IsHeard, SentIsMine, HeardIsRoom, Opened
  <2>. QED BY <2>1, <2>2
<1>. QED BY <1>1, <1>3, <1>5, <1>6

LEMMA MergeInvariant ==
    ASSUME BodyInvariant, NEW p \in Pages, Merge(p)
    PROVE  BodyInvariant'
<1> USE DEF BodyInvariant, BodyTypeOK
<1> DEFINE update == Head(downward[p])
<1>1. Opened(p) /\ downward[p] # <<>> /\ downward[p] \in Seq(Update)
  BY DEF Merge
<1>2. /\ UnderWay(downward[p]) = update \cup UnderWay(Tail(downward[p]))
      /\ update \in Update /\ Tail(downward[p]) \in Seq(Update)
  BY <1>1, UnderWayHead
<1>3. /\ body' = [body EXCEPT ![p] = @ \cup update]
      /\ downward' = [downward EXCEPT ![p] = Tail(@)]
      /\ connection' = [connection EXCEPT ![p] = "synced"]
      /\ UNCHANGED <<room, joined, upward>>
  BY DEF Merge
<1> HIDE DEF update
<1>4. body[p] \cup update \in Update
  BY <1>2 DEF Update
<1>5. BodyTypeOK'
  BY <1>2, <1>3, <1>4 DEF Connections
<1>6. ASSUME NEW q \in joined' PROVE InRoom(q)'
  <2>1. CASE q = p
    BY <1>1, <1>2, <1>3, <1>6, <2>1 DEF InRoom, Hears, IsHeard, SentIsMine, HeardIsRoom, Opened
  <2>2. CASE q # p
    <3>1. /\ q \in joined /\ body'[q] = body[q] /\ downward'[q] = downward[q]
          /\ connection'[q] = connection[q]
      BY <1>3, <1>6, <2>2
    <3>. QED BY <1>3, <3>1 DEF InRoom, Hears, IsHeard, SentIsMine, HeardIsRoom, Opened
  <2>. QED BY <2>1, <2>2
<1>. QED BY <1>3, <1>5, <1>6

\* A page that leaves the room takes what is under way with it.
LEMMA UnjoinInvariant ==
    ASSUME BodyInvariant, NEW p \in Pages, NEW value \in Connections,
           Unjoin(p, value), room' = room, body' \in [Pages -> Update],
           \A q \in Pages \ {p} : body'[q] = body[q]
    PROVE  BodyInvariant'
<1> USE DEF BodyInvariant, BodyTypeOK, Unjoin
<1>1. BodyTypeOK'
  <2>1. <<>> \in Seq(Update)
    OBVIOUS
  <2>2. connection' \in [Pages -> Connections]
    OBVIOUS
  <2>3. upward' \in [Pages -> Seq(Update)] /\ downward' \in [Pages -> Seq(Update)]
    BY <2>1
  <2>. QED BY <2>2, <2>3
<1>2. ASSUME NEW q \in Pages, q \notin joined' PROVE upward'[q] = <<>>
  BY <1>2
<1>3. ASSUME NEW q \in joined' PROVE InRoom(q)'
  <2>1. /\ q \in joined /\ q \in Pages \ {p} /\ body'[q] = body[q] /\ downward'[q] = downward[q]
        /\ upward'[q] = upward[q] /\ connection'[q] = connection[q]
    BY <1>3
  <2>. QED BY <2>1 DEF InRoom, Hears, IsHeard, SentIsMine, HeardIsRoom, Opened
<1>. QED BY <1>1, <1>2, <1>3

\* The steps that only take sockets away, or open a new one.
LEMMA OtherInvariant ==
    ASSUME BodyInvariant, NEW p \in Pages,
           Close(p) \/ ServerCloses(p) \/ Reconnect(p) \/ Reload(p) \/ ServerRestarts
    PROVE  BodyInvariant'
<1>1. CASE Close(p)
  <2>1. Unjoin(p, "disconnected") /\ room' = room /\ body' = body
    BY <1>1 DEF Close
  <2>. QED BY <2>1, UnjoinInvariant DEF BodyInvariant, BodyTypeOK, Connections
<1>2. CASE Reload(p)
  <2>1. /\ Unjoin(p, "connecting") /\ room' = room
        /\ body' \in [Pages -> Update] /\ \A q \in Pages \ {p} : body'[q] = body[q]
    BY <1>2 DEF Reload, BodyInvariant, BodyTypeOK, Update
  <2>. QED BY <2>1, UnjoinInvariant DEF Connections
<1>3. CASE ServerCloses(p)
  <2>1. /\ BodyTypeOK'
        /\ joined' = joined \ {p} /\ UNCHANGED <<room, body, connection, downward>>
        /\ \A q \in Pages \ {p} : upward'[q] = upward[q]
        /\ \A q \in Pages : q \notin joined' => upward'[q] = <<>>
    BY <1>3 DEF ServerCloses, BodyInvariant, BodyTypeOK
  <2>. QED BY <2>1 DEF BodyInvariant, BodyTypeOK, InRoom, Hears, IsHeard, SentIsMine, HeardIsRoom, Opened
<1>4. CASE Reconnect(p)
  <2>1. p \notin joined
    BY <1>4 DEF Reconnect, BodyInvariant, InRoom
  <2>2. /\ UNCHANGED <<room, joined, body, upward, downward>> /\ connection' \in [Pages -> Connections]
        /\ \A q \in Pages \ {p} : connection'[q] = connection[q]
    BY <1>4 DEF Reconnect, BodyInvariant, BodyTypeOK, Connections
  <2>3. ASSUME NEW q \in joined' PROVE InRoom(q)'
    <3>1. q \in joined /\ connection'[q] = connection[q]
      BY <2>1, <2>2, <2>3 DEF BodyInvariant, BodyTypeOK
    <3>. QED BY <2>2, <3>1 DEF BodyInvariant, InRoom, Hears, IsHeard, SentIsMine, HeardIsRoom, Opened
  <2>. QED BY <2>2, <2>3 DEF BodyInvariant, BodyTypeOK
<1>5. CASE ServerRestarts
  BY <1>5 DEF ServerRestarts, BodyInvariant, BodyTypeOK, Update
<1>. QED BY <1>1, <1>2, <1>3, <1>4, <1>5

LEMMA NextBodyInvariant == BodyInvariant /\ [NextBody]_bodyVars => BodyInvariant'
<1> SUFFICES ASSUME BodyInvariant, [NextBody]_bodyVars PROVE BodyInvariant'
  OBVIOUS
<1>1. CASE UNCHANGED bodyVars
  BY <1>1 DEF bodyVars, BodyInvariant, BodyTypeOK, InRoom, Hears, IsHeard, SentIsMine, HeardIsRoom, Opened
<1>2. CASE ServerRestarts
  <2>1. CASE Pages = {}
    BY <1>2, <2>1 DEF ServerRestarts, BodyInvariant, BodyTypeOK, Update
  <2>2. CASE Pages # {}
    BY <1>2, <2>2, OtherInvariant
  <2>. QED BY <2>1, <2>2
<1>3. ASSUME NEW p \in Pages, PageStep(p) PROVE BodyInvariant'
  BY <1>3, AcceptInvariant, OpenInvariant, EditInvariant, RelayInvariant, MergeInvariant, OtherInvariant DEF PageStep
<1>. QED BY <1>1, <1>2, <1>3 DEF NextBody

-----------------------------------------------------------------------------

\* For any pages, edits and faults, a page in the room and the server's document differ
\* only by what is under way between them: the exchange of whole documents on open, the
\* updates after it and the close of a lost socket leave no gap.
THEOREM BodyIsAlwaysComing == BodySpec => []BodyIsComing
<1>1. BodyInvariant => BodyIsComing
  BY DEF BodyInvariant, InRoom, BodyIsComing
<1>. QED BY <1>1, InitBodyInvariant, NextBodyInvariant, PTL DEF BodySpec

\* Two open pages of the room with nothing under way show the same text, the server's.
Agree ==
    \A p, q \in joined :
        Opened(p) /\ Opened(q) /\ upward[p] = <<>> /\ upward[q] = <<>> /\ downward[p] = <<>> /\ downward[q] = <<>>
          => body[p] = body[q] /\ body[p] = room

\* The pages of yjs-hybrid converge: for any pages, edits and faults, whenever nothing is
\* under way to or from two open pages of the room, both show the server's text.
THEOREM QuietPagesAgree == BodySpec => []Agree
<1>1. BodyInvariant => Agree
  BY UnderWayNothing DEF BodyInvariant, InRoom, Hears, IsHeard, Agree
<1>. QED BY <1>1, InitBodyInvariant, NextBodyInvariant, PTL DEF BodySpec
====
