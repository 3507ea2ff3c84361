---- MODULE RoomWorkersProofs ----
(***************************************************************************)
(* Proofs about RoomWorkers, for every set of workers and operations and   *)
(* every bound: type correctness; that every operation id is committed at  *)
(* most once and every operation has one final verdict; the refinement of  *)
(* CanonicalLog; what the owner epoch is good for: the owner decides each  *)
(* operation once, one reload is enough for it, and a migration is a       *)
(* barrier in the log; and that nothing is resolved over versions that its *)
(* session does not remember.                                              *)
(***************************************************************************)
EXTENDS RoomWorkers, SequenceTheorems, FiniteSetTheorems, TLAPS

Loads == {"claimed", "headRead", "snapRead", "migrating"}
Busy  == {"committing", "recording", "conflict", "headReread", "snapReread"}

\* The shape of the sessions: who is where, and which phases hold operations.
\* TypeOK is not inductive without it: a handler reads the head of the mailbox
\* and the Domain Pack of the session's worker.
Shape ==
    /\ \A e \in Epochs : e > head.epoch => phase[e] = "unused"
    /\ \A e \in Epochs : phase[e] # "unused" => home[e] \in Workers
    /\ \A e \in Epochs : phase[e] \in Busy => mailbox[e] # <<>>
    /\ \A e \in Epochs : ~Warmed(e) => mailbox[e] = <<>>
    /\ \A w \in Workers : warm[w] # 0 => warm[w] \in Epochs /\ Warmed(warm[w])
    /\ \A w \in Workers : warm[w] # 0 => home[warm[w]] = w

TypeInv == TypeOK /\ Shape

-----------------------------------------------------------------------------

LEMMA InitTypeInv == Init => TypeInv
  BY WorkersAssumption, BoundsAssumption
  DEF Init, TypeInv, TypeOK, StoreTypeOK, PlaceTypeOK, SessionTypeOK, CallTypeOK, ClientTypeOK, Shape, Warmed, Busy, Document, Blank, NoLoad, Loading, Phases, Epochs, Write

Heads == [epoch : 0 .. MaxEpoch, owner : Workers \cup {Nobody}, schema : Nat, snap : Nat]

LEMMA HeadUpdate ==
    ASSUME NEW h \in Heads, NEW e \in 0 .. MaxEpoch, NEW w \in Workers
    PROVE  [h EXCEPT !.epoch = e, !.owner = w] \in Heads
  BY Zenon DEF Heads

LEMMA HeadMigrate ==
    ASSUME NEW h \in Heads, NEW schema \in Nat, NEW v \in Nat
    PROVE  /\ [h EXCEPT !.schema = schema, !.snap = v] \in Heads
           /\ [h EXCEPT !.schema = schema, !.snap = v].epoch = h.epoch
  BY Zenon DEF Heads

LEMMA ActivateTypeInv ==
    ASSUME TypeInv, NEW w \in Workers, Activate(w)
    PROVE  TypeInv'
<1> DEFINE E == head.epoch + 1
<1> USE DEF TypeInv, TypeOK
<1>1. E \in Epochs /\ E \in 0 .. MaxEpoch /\ E > head.epoch
  BY BoundsAssumption DEF Activate, StoreTypeOK, Epochs
<1>2. StoreTypeOK'
  BY <1>1, HeadUpdate DEF Activate, StoreTypeOK, Heads
<1>3. PlaceTypeOK'
  BY <1>1 DEF Activate, PlaceTypeOK
<1>4. SessionTypeOK' /\ CallTypeOK' /\ ClientTypeOK'
  BY DEF Activate, SessionTypeOK, CallTypeOK, ClientTypeOK, Phases, sessionVars, taskVars, clientVars
<1>5. Shape'
  <2>1. head'.epoch = E
    BY DEF Activate, StoreTypeOK
  <2>3. /\ phase' = [phase EXCEPT ![E] = "claimed"]
        /\ home' = [home EXCEPT ![E] = w]
        /\ mailbox' = mailbox /\ warm' = warm
    BY DEF Activate, taskVars
  <2> HIDE DEF E
  <2>2. phase[E] = "unused" /\ mailbox[E] = <<>>
    BY <1>1 DEF Shape, Warmed
  <2>4. \A e \in Epochs : e > head'.epoch => phase'[e] = "unused"
    <3> SUFFICES ASSUME NEW e \in Epochs, e > E PROVE phase[e] = "unused" /\ e # E
      BY <2>1, <2>3 DEF SessionTypeOK
    <3> QED
      BY BoundsAssumption DEF E, Shape, StoreTypeOK, Epochs
  <2> QED
    BY <1>1, <2>2, <2>3, <2>4 DEF Shape, PlaceTypeOK, SessionTypeOK, Warmed, Busy
<1> QED
  BY <1>2, <1>3, <1>4, <1>5

LEMMA ReadHeadTypeInv ==
    ASSUME TypeInv, NEW e \in Epochs, ReadHead(e)
    PROVE  TypeInv'
<1> USE DEF TypeInv, TypeOK, ReadHead, storeVars, placeVars, sessionVars, taskVars, clientVars
<1>1. StoreTypeOK' /\ PlaceTypeOK' /\ ClientTypeOK'
  BY DEF StoreTypeOK, PlaceTypeOK, ClientTypeOK
<1>2. SessionTypeOK'
  BY DEF SessionTypeOK, Phases
<1>3. CallTypeOK'
  BY DEF StoreTypeOK, CallTypeOK, Loading, Document, Blank
<1>4. Shape'
  BY DEF Shape, PlaceTypeOK, SessionTypeOK, Warmed, Busy
<1> QED
  BY <1>1, <1>2, <1>3, <1>4

LEMMA ReadSnapshotTypeInv ==
    ASSUME TypeInv, NEW e \in Epochs, ReadSnapshot(e)
    PROVE  TypeInv'
<1> USE DEF TypeInv, TypeOK, ReadSnapshot, storeVars, placeVars, sessionVars, taskVars, clientVars
<1>1. StoreTypeOK' /\ PlaceTypeOK' /\ ClientTypeOK'
  BY DEF StoreTypeOK, PlaceTypeOK, ClientTypeOK
<1>2. SessionTypeOK'
  BY DEF SessionTypeOK, Phases
<1>3. CallTypeOK'
  BY DEF StoreTypeOK, CallTypeOK, Loading
<1>4. Shape'
  BY DEF Shape, PlaceTypeOK, SessionTypeOK, Warmed, Busy
<1> QED
  BY <1>1, <1>2, <1>3, <1>4

LEMMA ReplayedType ==
    ASSUME StoreTypeOK, NEW d \in Document, NEW v
    PROVE  Replayed(d, v) \in Document
  BY DEF StoreTypeOK, Replayed, WalRows, Document

LEMMA HistoryType ==
    ASSUME StoreTypeOK, NEW v
    PROVE  History(v) \in SUBSET Nat
  BY DEF StoreTypeOK, History, Latest, WalRows

LEMMA InstallTypeInv ==
    ASSUME TypeInv, NEW e \in Epochs, phase[e] \in Loads,
           NEW d \in Document, NEW rows \in SUBSET Nat, Install(e, d, rows),
           UNCHANGED <<home, mailbox, retried, saving, snapWrites>>
    PROVE  PlaceTypeOK' /\ SessionTypeOK' /\ CallTypeOK'
<1> USE DEF TypeInv, TypeOK, Install, LoadDone, Loads
<1>0. home[e] \in Workers /\ e \in 0 .. MaxEpoch /\ 0 \in 0 .. MaxEpoch
  BY BoundsAssumption DEF Shape, Epochs
<1>1. PlaceTypeOK'
  BY <1>0 DEF PlaceTypeOK
<1>2. SessionTypeOK'
  BY DEF SessionTypeOK, CallTypeOK, Loading, Phases
<1>3. CallTypeOK'
  BY DEF CallTypeOK, Loading, NoLoad, Document, Blank
<1> QED
  BY <1>1, <1>2, <1>3

LEMMA InstallShape ==
    ASSUME TypeInv, NEW e \in Epochs, phase[e] \in Loads,
           NEW d, NEW rows, Install(e, d, rows),
           UNCHANGED <<home, mailbox>>, head'.epoch = head.epoch
    PROVE  Shape'
<1> USE DEF TypeInv, TypeOK, Install, LoadDone, Loads
<1>1. home[e] \in Workers
  BY DEF Shape
<1> QED
  BY <1>1 DEF Shape, SessionTypeOK, PlaceTypeOK, Warmed, Busy

LEMMA AbandonTypeInv ==
    ASSUME TypeInv, NEW e \in Epochs, phase[e] \in Loads, AbandonActivation(e),
           UNCHANGED <<warm, home, version, doc, hist, mailbox, retried, saving, snapWrites>>
    PROVE  PlaceTypeOK' /\ SessionTypeOK' /\ CallTypeOK'
<1> USE DEF TypeInv, TypeOK, AbandonActivation, LoadDone, Loads
<1>0. home[e] \in Workers /\ 0 \in 0 .. MaxEpoch
  BY BoundsAssumption DEF Shape
<1>1. PlaceTypeOK'
  BY <1>0 DEF PlaceTypeOK
<1>2. SessionTypeOK'
  BY DEF SessionTypeOK, Phases
<1>3. CallTypeOK'
  BY DEF CallTypeOK, Loading, NoLoad, Document, Blank
<1> QED
  BY <1>1, <1>2, <1>3

LEMMA AbandonShape ==
    ASSUME TypeInv, NEW e \in Epochs, phase[e] \in Loads, AbandonActivation(e),
           UNCHANGED <<warm, home, mailbox>>, head'.epoch = head.epoch
    PROVE  Shape'
  BY DEF TypeInv, TypeOK, AbandonActivation, Loads, Shape, SessionTypeOK, PlaceTypeOK, Warmed, Busy

LEMMA ReadWalTypeInv ==
    ASSUME TypeInv, NEW e \in Epochs, ReadWal(e)
    PROVE  TypeInv'
<1> DEFINE pack == PackSchema[home[e]]
           d    == Replayed(load[e].doc, load[e].snap)
<1> USE DEF TypeInv, TypeOK, storeVars, sessionVars, taskVars, clientVars
<1>1. StoreTypeOK' /\ ClientTypeOK'
  BY DEF ReadWal, StoreTypeOK, ClientTypeOK
<1>2. phase[e] = "snapRead" /\ home[e] \in Workers /\ pack \in Nat
  BY WorkersAssumption DEF ReadWal, Shape
<1>3. load[e].doc \in Document /\ load[e].snap \in Nat
  BY DEF CallTypeOK, Loading
<1>4. d \in Document /\ History(load[e].snap) \in SUBSET Nat
  BY <1>3, ReplayedType, HistoryType
<1>5. /\ UNCHANGED <<head, home, mailbox, retried, saving, snapWrites>>
      /\ \/ Install(e, d, History(load[e].snap))
         \/ AbandonActivation(e) /\ UNCHANGED <<warm, sessionVars>>
         \/ /\ phase' = [phase EXCEPT ![e] = "migrating"]
            /\ load' = [load EXCEPT ![e].doc = [d EXCEPT !.schema = pack]]
            /\ UNCHANGED <<warm, activating, sessionVars>>
  BY DEF ReadWal
<1>6. CASE Install(e, d, History(load[e].snap))
  BY <1>1, <1>2, <1>4, <1>5, <1>6, InstallTypeInv, InstallShape DEF Loads
<1>7. CASE AbandonActivation(e) /\ UNCHANGED <<warm, sessionVars>>
  BY <1>1, <1>2, <1>5, <1>7, AbandonTypeInv, AbandonShape DEF Loads
<1>8. CASE /\ phase' = [phase EXCEPT ![e] = "migrating"]
           /\ load' = [load EXCEPT ![e].doc = [d EXCEPT !.schema = pack]]
           /\ UNCHANGED <<warm, activating, sessionVars>>
  <2> HIDE DEF d, pack
  <2>1. [d EXCEPT !.schema = pack] \in Document
    BY <1>2, <1>4 DEF Document
  <2>2. CallTypeOK'
    BY <1>5, <1>8, <2>1 DEF CallTypeOK, Loading
  <2>3. SessionTypeOK' /\ PlaceTypeOK'
    BY <1>5, <1>8 DEF SessionTypeOK, PlaceTypeOK, Phases
  <2>4. Shape'
    BY <1>2, <1>5, <1>8 DEF Shape, SessionTypeOK, PlaceTypeOK, Warmed, Busy
  <2> QED
    BY <1>1, <2>2, <2>3, <2>4
<1> QED
  BY <1>5, <1>6, <1>7, <1>8

LEMMA MigrateTypeInv ==
    ASSUME TypeInv, NEW e \in Epochs, Migrate(e)
    PROVE  TypeInv'
<1> USE DEF TypeInv, TypeOK, sessionVars, taskVars, clientVars
<1>1. ClientTypeOK'
  BY DEF Migrate, ClientTypeOK
<1>2. phase[e] = "migrating" /\ PackSchema[home[e]] \in Nat
  BY WorkersAssumption DEF Migrate, Shape
<1>3. load[e].doc \in Document /\ load[e].version \in Nat /\ Len(log) \in Nat
  BY DEF CallTypeOK, StoreTypeOK, Loading
<1>4. /\ UNCHANGED <<log, walFloor, receipts, home, mailbox, retried, saving, snapWrites>>
      /\ \/ Install(e, load[e].doc, {})
         \/ AbandonActivation(e) /\ UNCHANGED <<warm, sessionVars>>
      /\ \/ UNCHANGED <<snapshots, head>>
         \/ /\ snapshots' = [v \in DOMAIN snapshots \cup {Len(log)} |->
                                IF v = Len(log) THEN load[e].doc ELSE snapshots[v]]
            /\ head' = [head EXCEPT !.schema = PackSchema[home[e]], !.snap = Len(log)]
  BY DEF Migrate
<1>5. StoreTypeOK' /\ head'.epoch = head.epoch
  <2>1. CASE UNCHANGED <<snapshots, head>>
    BY <1>4, <2>1 DEF StoreTypeOK
  <2>2. CASE /\ snapshots' = [v \in DOMAIN snapshots \cup {Len(log)} |->
                                IF v = Len(log) THEN load[e].doc ELSE snapshots[v]]
             /\ head' = [head EXCEPT !.schema = PackSchema[home[e]], !.snap = Len(log)]
    <3>1. DOMAIN snapshots' \subseteq Nat /\ snapshots' \in [DOMAIN snapshots' -> Document]
      BY <1>3, <2>2 DEF StoreTypeOK
    <3>2. head' \in Heads /\ head'.epoch = head.epoch
      BY <1>2, <1>3, <2>2, HeadMigrate DEF StoreTypeOK, Heads
    <3> QED
      BY <1>4, <3>1, <3>2 DEF StoreTypeOK, Heads
  <2> QED
    BY <1>4, <2>1, <2>2
<1>6. CASE Install(e, load[e].doc, {})
  BY <1>1, <1>2, <1>3, <1>4, <1>5, <1>6, InstallTypeInv, InstallShape DEF Loads
<1>7. CASE AbandonActivation(e) /\ UNCHANGED <<warm, sessionVars>>
  BY <1>1, <1>2, <1>4, <1>5, <1>7, AbandonTypeInv, AbandonShape DEF Loads
<1> QED
  BY <1>4, <1>6, <1>7

-----------------------------------------------------------------------------
(* Operations *)

LEMMA SubmitTypeInv ==
    ASSUME TypeInv, NEW e \in Epochs, NEW o \in Ops, Submit(e, o)
    PROVE  TypeInv'
<1> USE DEF TypeInv, TypeOK, Submit, storeVars, placeVars, sessionVars, clientVars
<1>1. StoreTypeOK' /\ PlaceTypeOK' /\ CallTypeOK' /\ ClientTypeOK'
  BY DEF StoreTypeOK, PlaceTypeOK, CallTypeOK, ClientTypeOK
<1>2. Append(mailbox[e], o) \in Seq(Ops) /\ Append(mailbox[e], o) # <<>>
  <2>1. mailbox[e] \in Seq(Ops)
    BY DEF SessionTypeOK
  <2> QED
    BY <2>1, AppendProperties
<1>3. SessionTypeOK'
  BY <1>2 DEF SessionTypeOK
<1>4. Warmed(e)
  BY DEF IsWarm, Shape, Epochs
<1>5. Shape'
  BY <1>2, <1>4 DEF Shape, SessionTypeOK, Warmed, Busy
<1> QED
  BY <1>1, <1>3, <1>5

LEMMA RunningOperation ==
    ASSUME TypeInv, NEW e \in Epochs, mailbox[e] # <<>>
    PROVE  Head(mailbox[e]) \in Ops /\ Tail(mailbox[e]) \in Seq(Ops)
  BY DEF TypeInv, TypeOK, SessionTypeOK

LEMMA FinishTypeInv ==
    ASSUME TypeInv, NEW e \in Epochs, mailbox[e] # <<>>, Finish(e),
           UNCHANGED home, head'.epoch = head.epoch,
           warm' = warm \/ warm' = [warm EXCEPT ![home[e]] = 0]
    PROVE  /\ phase' \in [Epochs -> Phases]
           /\ mailbox' \in [Epochs -> Seq(Ops)]
           /\ Shape'
<1> USE DEF TypeInv, TypeOK
<1>1. Tail(mailbox[e]) \in Seq(Ops)
  BY RunningOperation
<1>2. phase' \in [Epochs -> Phases] /\ mailbox' \in [Epochs -> Seq(Ops)]
  BY <1>1 DEF Finish, SessionTypeOK, Phases
<1>3. Warmed(e) /\ home[e] \in Workers
  BY DEF Shape, Warmed
<1>4. Shape'
  BY <1>3 DEF Finish, Shape, SessionTypeOK, PlaceTypeOK, Warmed, Busy
<1> QED
  BY <1>2, <1>4

LEMMA DropWarmTypeInv ==
    ASSUME PlaceTypeOK, NEW w \in Workers, DropWarm(w), UNCHANGED <<activating, home>>
    PROVE  PlaceTypeOK'
  BY BoundsAssumption DEF PlaceTypeOK, DropWarm

LEMMA AnswerType ==
    ASSUME StoreTypeOK, ClientTypeOK, NEW o \in Ops,
           \E r \in Prior(o.id) : Tell(o, Verdict(r, o)), UNCHANGED settled
    PROVE  ClientTypeOK'
<1>1. PICK r \in Prior(o.id) : Tell(o, Verdict(r, o))
  OBVIOUS
<1>2. Verdict(r, o) \in Nat
  BY DEF Prior, Verdict, StoreTypeOK
<1> QED
  BY <1>1, <1>2 DEF Tell, ClientTypeOK

LEMMA PrepareTypeInv ==
    ASSUME TypeInv, NEW e \in Epochs, mailbox[e] # <<>>, NEW v, NEW h, Prepare(e, v, h),
           UNCHANGED <<warm, home>>, head'.epoch = head.epoch
    PROVE  /\ phase' \in [Epochs -> Phases]
           /\ mailbox' \in [Epochs -> Seq(Ops)]
           /\ Shape'
<1> USE DEF TypeInv, TypeOK
<1>1. CASE Finish(e)
  BY <1>1, FinishTypeInv
<1>2. CASE /\ phase' = [phase EXCEPT ![e] = "recording"] \/ phase' = [phase EXCEPT ![e] = "committing"]
           /\ UNCHANGED mailbox
  <2>1. Warmed(e)
    BY DEF Shape
  <2>2. phase' \in [Epochs -> Phases] /\ mailbox' \in [Epochs -> Seq(Ops)]
    BY <1>2 DEF SessionTypeOK, Phases
  <2>3. Shape'
    BY <1>2, <2>1 DEF Shape, SessionTypeOK, PlaceTypeOK, Warmed, Busy
  <2> QED
    BY <2>2, <2>3
<1> QED
  BY <1>1, <1>2 DEF Prepare

LEMMA ProcessTypeInv ==
    ASSUME TypeInv, NEW e \in Epochs, Process(e)
    PROVE  TypeInv'
<1> USE DEF TypeInv, TypeOK, storeVars, placeVars, sessionVars
<1>1. StoreTypeOK' /\ PlaceTypeOK' /\ CallTypeOK'
  BY DEF Process, StoreTypeOK, PlaceTypeOK, CallTypeOK
<1>2. mailbox[e] # <<>> /\ Head(mailbox[e]) \in Ops
  BY RunningOperation DEF Process
<1>3. /\ UNCHANGED <<warm, home, version, doc, hist, settled>> /\ head'.epoch = head.epoch
      /\ retried' \in [Epochs -> BOOLEAN]
  BY DEF Process, SessionTypeOK
<1>4. \/ /\ Finish(e)
         /\ \E r \in Prior(Head(mailbox[e]).id) : Tell(Head(mailbox[e]), Verdict(r, Head(mailbox[e])))
      \/ Prepare(e, version[e], hist[e]) /\ UNCHANGED told
  BY DEF Process
<1>5. /\ phase' \in [Epochs -> Phases]
      /\ mailbox' \in [Epochs -> Seq(Ops)]
      /\ Shape'
  BY <1>2, <1>3, <1>4, FinishTypeInv, PrepareTypeInv
<1>6. SessionTypeOK'
  BY <1>3, <1>5 DEF SessionTypeOK
<1>7. ClientTypeOK'
  <2>1. CASE UNCHANGED told
    BY <1>3, <2>1 DEF ClientTypeOK
  <2> QED
    BY <1>2, <1>3, <1>4, <2>1, AnswerType
<1> QED
  BY <1>1, <1>5, <1>6, <1>7

LEMMA CommitAcceptedTypeInv ==
    ASSUME TypeInv, NEW e \in Epochs, phase[e] \in Busy,
           CommitAccepted(e, Head(mailbox[e])),
           UNCHANGED <<walFloor, snapshots, activating, home, retried, saving, load, settled>>
    PROVE  TypeInv'
<1> DEFINE o == Head(mailbox[e])
           v == Len(log) + 1
           rows == Latest(hist[e] \cup {v})
<1> USE DEF TypeInv, TypeOK, sessionVars
<1>1. /\ mailbox[e] # <<>> /\ o \in Ops /\ v \in Nat /\ home[e] \in Workers
      /\ PackSchema[home[e]] \in Nat
  BY RunningOperation, WorkersAssumption DEF Shape, Busy, StoreTypeOK
<1>2. rows \in SUBSET Nat
  BY <1>1 DEF SessionTypeOK, Latest
<1>3. /\ log' = Append(log, o) /\ receipts' = receipts \cup {[op |-> o, outcome |-> v]}
      /\ Finish(e) /\ UNCHANGED <<head, warm>>
      /\ \/ /\ version' = [version EXCEPT ![e] = v]
            /\ doc' = [doc EXCEPT ![e].applied = @ \cup {v}]
            /\ hist' = [hist EXCEPT ![e] = rows]
            /\ snapWrites' \subseteq snapWrites \cup {[version |-> v, schema |-> PackSchema[home[e]], doc |-> doc'[e]]}
            /\ Tell(o, v)
         \/ UNCHANGED <<version, doc, hist, snapWrites, told>>
  BY DEF CommitAccepted
<1> HIDE DEF o, v, rows
<1>4. StoreTypeOK'
  BY <1>1, <1>3 DEF StoreTypeOK
<1>5. PlaceTypeOK'
  BY <1>3 DEF PlaceTypeOK
<1>6. /\ phase' \in [Epochs -> Phases]
      /\ mailbox' \in [Epochs -> Seq(Ops)]
      /\ Shape'
  BY <1>1, <1>3, FinishTypeInv
<1>7. doc' \in [Epochs -> Document] /\ version' \in [Epochs -> Nat] /\ hist' \in [Epochs -> SUBSET Nat]
  <2>1. [doc[e] EXCEPT !.applied = @ \cup {v}] \in Document
    BY <1>1 DEF SessionTypeOK, Document
  <2>2. doc' = doc \/ doc' = [doc EXCEPT ![e] = [doc[e] EXCEPT !.applied = @ \cup {v}]]
    BY <1>3
  <2> QED
    BY <1>1, <1>2, <1>3, <2>1, <2>2 DEF SessionTypeOK
<1>8. SessionTypeOK'
  BY <1>6, <1>7 DEF SessionTypeOK
<1>9. CallTypeOK'
  BY <1>1, <1>3, <1>7 DEF CallTypeOK, Write
<1>10. ClientTypeOK'
  BY <1>1, <1>3 DEF ClientTypeOK, Tell
<1> QED
  BY <1>4, <1>5, <1>6, <1>8, <1>9, <1>10

LEMMA CommitTypeInv ==
    ASSUME TypeInv, NEW e \in Epochs, Commit(e)
    PROVE  TypeInv'
<1> DEFINE o == Head(mailbox[e])
<1> USE DEF TypeInv, TypeOK, sessionVars
<1>1. /\ phase[e] = "committing" /\ mailbox[e] # <<>> /\ o \in Ops /\ home[e] \in Workers
      /\ UNCHANGED <<walFloor, snapshots, activating, home, retried, saving, load, settled>>
  BY RunningOperation DEF Commit, Shape, Busy
<1>2. CASE CommitDuplicate(e, o)
  <2>1. /\ phase' \in [Epochs -> Phases]
        /\ mailbox' \in [Epochs -> Seq(Ops)]
        /\ Shape'
    BY <1>1, <1>2, FinishTypeInv DEF CommitDuplicate
  <2>2. ClientTypeOK'
    BY <1>1, <1>2, AnswerType DEF CommitDuplicate
  <2> QED
    BY <1>1, <1>2, <2>1, <2>2 DEF CommitDuplicate, StoreTypeOK, PlaceTypeOK, SessionTypeOK, CallTypeOK
<1>3. CASE CommitFenced(e, o)
  <2>1. /\ phase' \in [Epochs -> Phases]
        /\ mailbox' \in [Epochs -> Seq(Ops)]
        /\ Shape'
    BY <1>1, <1>3, FinishTypeInv DEF CommitFenced, DropWarm
  <2>2. PlaceTypeOK'
    BY <1>1, <1>3, DropWarmTypeInv DEF CommitFenced
  <2> QED
    BY <1>1, <1>3, <2>1, <2>2 DEF CommitFenced, StoreTypeOK, SessionTypeOK, CallTypeOK, ClientTypeOK
<1>4. CASE CommitConflict(e, o)
  <2>1. SessionTypeOK'
    BY <1>1, <1>4 DEF CommitConflict, SessionTypeOK, Phases
  <2>2. Shape'
    BY <1>1, <1>4 DEF CommitConflict, Shape, SessionTypeOK, Warmed, Busy
  <2> QED
    BY <1>1, <1>4, <2>1, <2>2 DEF CommitConflict, StoreTypeOK, PlaceTypeOK, CallTypeOK, ClientTypeOK
<1>5. CASE CommitAccepted(e, o)
  BY <1>1, <1>5, CommitAcceptedTypeInv DEF Busy
<1> QED
  BY <1>2, <1>3, <1>4, <1>5 DEF Commit

LEMMA RecordRejectionTypeInv ==
    ASSUME TypeInv, NEW e \in Epochs, RecordRejection(e)
    PROVE  TypeInv'
<1> DEFINE o == Head(mailbox[e])
<1> USE DEF TypeInv, TypeOK, sessionVars
<1>1. /\ mailbox[e] # <<>> /\ o \in Ops /\ home[e] \in Workers
      /\ Finish(e)
      /\ UNCHANGED <<log, walFloor, head, snapshots, activating, home, version, doc, hist, retried,
                     saving, load, snapWrites, settled>>
  BY RunningOperation DEF RecordRejection, Shape, Busy
<1>2. /\ warm' = warm \/ DropWarm(home[e])
      /\ receipts' = receipts \/ receipts' = receipts \cup {[op |-> o, outcome |-> 0]}
      /\ \/ UNCHANGED told
         \/ Tell(o, 0)
         \/ \E r \in Prior(o.id) : Tell(o, Verdict(r, o))
  BY DEF RecordRejection
<1> HIDE DEF o
<1>3. /\ phase' \in [Epochs -> Phases]
      /\ mailbox' \in [Epochs -> Seq(Ops)]
      /\ Shape'
  BY <1>1, <1>2, FinishTypeInv DEF DropWarm
<1>4. StoreTypeOK'
  BY <1>1, <1>2 DEF StoreTypeOK
<1>5. PlaceTypeOK'
  BY <1>1, <1>2, DropWarmTypeInv DEF PlaceTypeOK
<1>6. SessionTypeOK' /\ CallTypeOK'
  BY <1>1, <1>3 DEF SessionTypeOK, CallTypeOK
<1>7. ClientTypeOK'
  <2>1. CASE UNCHANGED told \/ Tell(o, 0)
    BY <1>1, <2>1 DEF ClientTypeOK, Tell
  <2> QED
    BY <1>1, <1>2, <2>1, AnswerType
<1> QED
  BY <1>3, <1>4, <1>5, <1>6, <1>7

LEMMA ReloadWalTypeInv ==
    ASSUME TypeInv, NEW e \in Epochs, ReloadWal(e)
    PROVE  TypeInv'
<1> DEFINE rows == History(load[e].snap)
           d    == Replayed(load[e].doc, load[e].snap)
<1> USE DEF TypeInv, TypeOK, storeVars, placeVars, clientVars
<1>1. StoreTypeOK' /\ PlaceTypeOK' /\ ClientTypeOK'
  BY DEF ReloadWal, StoreTypeOK, PlaceTypeOK, ClientTypeOK
<1>2. load[e].doc \in Document /\ load[e].snap \in Nat /\ load[e].version \in Nat
  BY DEF CallTypeOK, Loading
<1>3. d \in Document /\ rows \in SUBSET Nat
  BY <1>2, ReplayedType, HistoryType
<1>4. /\ version' = [version EXCEPT ![e] = load[e].version]
      /\ doc' = [doc EXCEPT ![e] = d]
      /\ hist' = [hist EXCEPT ![e] = rows]
      /\ load' = [load EXCEPT ![e] = NoLoad]
      /\ retried' = [retried EXCEPT ![e] = ~@]
      /\ Finish(e) \/ Prepare(e, load[e].version, rows)
      /\ UNCHANGED <<warm, home, saving, snapWrites>> /\ head'.epoch = head.epoch
      /\ mailbox[e] # <<>>
  BY DEF ReloadWal, Shape, Busy
<1> HIDE DEF d, rows
<1>5. /\ phase' \in [Epochs -> Phases]
      /\ mailbox' \in [Epochs -> Seq(Ops)]
      /\ Shape'
  BY <1>4, FinishTypeInv, PrepareTypeInv
<1>6. retried' \in [Epochs -> BOOLEAN]
  BY <1>4, Zenon DEF SessionTypeOK
<1>7. SessionTypeOK'
  BY <1>2, <1>3, <1>4, <1>5, <1>6 DEF SessionTypeOK
<1>8. CallTypeOK'
  BY <1>4 DEF CallTypeOK, NoLoad, Blank, Loading, Document
<1> QED
  BY <1>1, <1>5, <1>7, <1>8

LEMMA StoreErrorTypeInv ==
    ASSUME TypeInv, NEW e \in Epochs, StoreError(e)
    PROVE  TypeInv'
<1> USE DEF TypeInv, TypeOK, storeVars, sessionVars, taskVars, clientVars
<1>1. StoreTypeOK' /\ ClientTypeOK' /\ head'.epoch = head.epoch
  BY DEF StoreError, StoreTypeOK, ClientTypeOK
<1>2. UNCHANGED <<warm, home, version, doc, hist, snapWrites>>
  BY DEF StoreError
<1>3. CASE /\ phase[e] \in Loads /\ AbandonActivation(e)
           /\ UNCHANGED <<mailbox, retried, saving>>
  BY <1>1, <1>2, <1>3, AbandonTypeInv, AbandonShape
<1>4. CASE /\ mailbox[e] # <<>> /\ Finish(e)
           /\ retried' = [retried EXCEPT ![e] = FALSE]
           /\ load' = [load EXCEPT ![e] = NoLoad]
           /\ UNCHANGED <<activating, saving>>
  <2>1. /\ phase' \in [Epochs -> Phases]
        /\ mailbox' \in [Epochs -> Seq(Ops)]
        /\ Shape'
    BY <1>1, <1>2, <1>4, FinishTypeInv
  <2>2. PlaceTypeOK' /\ SessionTypeOK'
    BY <1>2, <1>4, <2>1 DEF PlaceTypeOK, SessionTypeOK
  <2>3. CallTypeOK'
    BY <1>2, <1>4 DEF CallTypeOK, NoLoad, Blank, Loading, Document
  <2> QED
    BY <1>1, <2>1, <2>2, <2>3
<1>5. CASE /\ \E w \in saving[e] : saving' = [saving EXCEPT ![e] = @ \ {w}]
           /\ UNCHANGED <<activating, phase, load, mailbox, retried>>
  <2>1. PlaceTypeOK' /\ SessionTypeOK' /\ CallTypeOK'
    BY <1>2, <1>5 DEF PlaceTypeOK, SessionTypeOK, CallTypeOK
  <2>2. Shape'
    BY <1>1, <1>2, <1>5 DEF Shape, Warmed
  <2> QED
    BY <1>1, <2>1, <2>2
<1> QED
  BY <1>3, <1>4, <1>5 DEF StoreError, Loads

-----------------------------------------------------------------------------
(* Eviction, lost leases, crashes, retention *)

LEMMA SaveSnapshotType ==
    ASSUME StoreTypeOK, NEW w \in Write, SaveSnapshot(w), UNCHANGED <<log, walFloor, receipts>>
    PROVE  StoreTypeOK' /\ head'.epoch = head.epoch
<1>1. w.version \in Nat /\ w.doc \in Document
  BY DEF Write
<1>2. DOMAIN snapshots' \subseteq Nat /\ snapshots' \in [DOMAIN snapshots' -> Document]
  BY <1>1 DEF StoreTypeOK, SaveSnapshot
<1>3. head' \in Heads /\ head'.epoch = head.epoch
  BY <1>1 DEF StoreTypeOK, SaveSnapshot, Heads
<1> QED
  BY <1>2, <1>3 DEF StoreTypeOK, Heads

LEMMA EvictBeginTypeInv ==
    ASSUME TypeInv, NEW e \in Epochs, EvictBegin(e)
    PROVE  TypeInv'
<1> USE DEF TypeInv, TypeOK, EvictBegin, storeVars, placeVars, sessionVars, taskVars, clientVars
<1>1. StoreTypeOK' /\ PlaceTypeOK' /\ SessionTypeOK' /\ ClientTypeOK'
  BY DEF StoreTypeOK, PlaceTypeOK, SessionTypeOK, ClientTypeOK
<1>2. Snapshot(e) \in Write
  BY WorkersAssumption DEF Snapshot, Write, SessionTypeOK, Idle, IsWarm
<1>3. CallTypeOK'
  BY <1>2 DEF CallTypeOK
<1>4. Shape'
  BY DEF Shape, Warmed
<1> QED
  BY <1>1, <1>3, <1>4

LEMMA EvictEndTypeInv ==
    ASSUME TypeInv, NEW e \in Epochs, EvictEnd(e)
    PROVE  TypeInv'
<1> USE DEF TypeInv, TypeOK, sessionVars, taskVars, clientVars
<1>1. PICK w \in saving[e] : SaveSnapshot(w) /\ saving' = [saving EXCEPT ![e] = @ \ {w}]
  BY DEF EvictEnd
<1>2. w \in Write
  BY <1>1 DEF CallTypeOK
<1>3. /\ warm' = warm \/ (home[e] \in Workers /\ DropWarm(home[e]))
      /\ UNCHANGED <<log, walFloor, receipts, activating, home, phase, version, doc, hist, mailbox,
                     retried, load, snapWrites, told, settled>>
  BY DEF EvictEnd, Idle, IsWarm
<1>4. StoreTypeOK' /\ head'.epoch = head.epoch
  BY <1>1, <1>2, <1>3, SaveSnapshotType
<1>5. PlaceTypeOK'
  BY <1>3, DropWarmTypeInv DEF PlaceTypeOK
<1>6. SessionTypeOK' /\ CallTypeOK' /\ ClientTypeOK'
  BY <1>1, <1>3 DEF SessionTypeOK, CallTypeOK, ClientTypeOK
<1>7. Shape'
  BY <1>3, <1>4 DEF Shape, Warmed, DropWarm, PlaceTypeOK
<1> QED
  BY <1>4, <1>5, <1>6, <1>7

LEMMA SnapshotWrittenTypeInv ==
    ASSUME TypeInv, NEW w \in snapWrites, SnapshotWritten(w)
    PROVE  TypeInv'
<1> USE DEF TypeInv, TypeOK, SnapshotWritten, placeVars, sessionVars, taskVars, clientVars
<1>1. w \in Write
  BY DEF CallTypeOK
<1>2. StoreTypeOK' /\ head'.epoch = head.epoch
  BY <1>1, SaveSnapshotType
<1>3. PlaceTypeOK' /\ SessionTypeOK' /\ CallTypeOK' /\ ClientTypeOK'
  BY DEF PlaceTypeOK, SessionTypeOK, CallTypeOK, ClientTypeOK
<1>4. Shape'
  BY <1>2 DEF Shape, Warmed
<1> QED
  BY <1>2, <1>3, <1>4

LEMMA RenewFailsTypeInv ==
    ASSUME TypeInv, NEW w \in Workers, RenewFails(w)
    PROVE  TypeInv'
<1> USE DEF TypeInv, TypeOK, RenewFails, storeVars, sessionVars, taskVars, clientVars
<1>1. StoreTypeOK' /\ SessionTypeOK' /\ CallTypeOK' /\ ClientTypeOK'
  BY DEF StoreTypeOK, SessionTypeOK, CallTypeOK, ClientTypeOK
<1>2. PlaceTypeOK'
  BY DropWarmTypeInv
<1>3. Shape'
  BY DEF Shape, Warmed, DropWarm, PlaceTypeOK
<1> QED
  BY <1>1, <1>2, <1>3

LEMMA CrashTypeInv ==
    ASSUME TypeInv, NEW w \in Workers, Crash(w)
    PROVE  TypeInv'
<1> DEFINE lost == {e \in Epochs : home[e] = w /\ phase[e] # "unused"}
<1> USE DEF TypeInv, TypeOK
<1>1. /\ phase' = [e \in Epochs |-> IF e \in lost THEN "dead" ELSE phase[e]]
      /\ mailbox' = [e \in Epochs |-> IF e \in lost THEN <<>> ELSE mailbox[e]]
      /\ retried' = [e \in Epochs |-> IF e \in lost THEN FALSE ELSE retried[e]]
      /\ saving' = [e \in Epochs |-> IF e \in lost THEN {} ELSE saving[e]]
      /\ load' = [e \in Epochs |-> IF e \in lost THEN NoLoad ELSE load[e]]
      /\ warm' = [warm EXCEPT ![w] = 0]
      /\ activating' = [activating EXCEPT ![w] = 0]
      /\ UNCHANGED <<log, walFloor, head, snapshots, receipts, home, version, doc, hist,
                     snapWrites, told, settled>>
  BY DEF Crash, storeVars, sessionVars, clientVars
<1>2. StoreTypeOK' /\ PlaceTypeOK' /\ ClientTypeOK'
  <2>1. StoreTypeOK' /\ ClientTypeOK'
    BY <1>1 DEF StoreTypeOK, ClientTypeOK
  <2>2. PlaceTypeOK'
    BY <1>1, DropWarmTypeInv, BoundsAssumption DEF PlaceTypeOK
  <2> QED
    BY <2>1, <2>2
<1>3. \A e \in lost : home[e] = w /\ phase[e] # "unused"
  OBVIOUS
<1> HIDE DEF lost
<1>4. phase' \in [Epochs -> Phases]
  BY <1>1 DEF SessionTypeOK, Phases
<1>5. mailbox' \in [Epochs -> Seq(Ops)]
  <2>1. <<>> \in Seq(Ops)
    OBVIOUS
  <2> QED
    BY <1>1, <2>1, Zenon DEF SessionTypeOK
<1>6. retried' \in [Epochs -> BOOLEAN]
  BY <1>1, Zenon DEF SessionTypeOK
<1>7. SessionTypeOK'
  BY <1>1, <1>4, <1>5, <1>6 DEF SessionTypeOK
<1>8. CallTypeOK'
  <2>1. NoLoad \in Loading
    BY DEF NoLoad, Blank, Loading, Document
  <2>2. load' \in [Epochs -> Loading] /\ saving' \in [Epochs -> SUBSET Write]
    BY <1>1, <2>1 DEF CallTypeOK
  <2> QED
    BY <1>1, <2>2 DEF CallTypeOK
<1>9. \A u \in Workers : warm'[u] # 0 => u # w /\ warm[u] # 0 /\ warm'[u] = warm[u]
  BY <1>1 DEF PlaceTypeOK
<1>10. \A u \in Workers : warm'[u] # 0 =>
          /\ warm'[u] \in Epochs /\ home'[warm'[u]] = u
          /\ phase'[warm'[u]] = phase[warm[u]] /\ Warmed(warm[u])
  <2> SUFFICES ASSUME NEW u \in Workers, warm'[u] # 0
               PROVE  /\ warm[u] \in Epochs /\ home[warm[u]] = u
                      /\ phase'[warm[u]] = phase[warm[u]] /\ Warmed(warm[u])
    BY <1>1, <1>9
  <2>1. warm[u] # 0 /\ u # w
    BY <1>9
  <2>2. warm[u] \in Epochs /\ home[warm[u]] = u /\ Warmed(warm[u])
    BY <2>1 DEF Shape
  <2>3. warm[u] \notin lost
    BY <1>3, <2>1, <2>2
  <2> QED
    BY <1>1, <2>2, <2>3
<1>11. Shape'
  <2>1. \A e \in Epochs : phase[e] = "unused" => e \notin lost
    BY <1>3
  <2>2. \A w2 \in Workers : warm'[w2] # 0 => Warmed(warm[w2]) /\ phase'[warm'[w2]] = phase[warm[w2]]
    BY <1>10
  <2> QED
    BY <1>1, <1>10, <2>1 DEF Shape, Warmed, Busy
<1> QED
  BY <1>2, <1>7, <1>8, <1>11

LEMMA CompactTypeInv ==
    ASSUME TypeInv, Compact
    PROVE  TypeInv'
<1> USE DEF TypeInv, TypeOK, placeVars, sessionVars, taskVars, clientVars
<1>1. PlaceTypeOK' /\ SessionTypeOK' /\ CallTypeOK' /\ ClientTypeOK' /\ Shape'
  BY DEF Compact, LiveReceipts, KeptSnapshots, PlaceTypeOK, SessionTypeOK, CallTypeOK, ClientTypeOK, Shape, Warmed
<1>2. walFloor' \in Nat
  <2>1. head.snap \in Nat /\ Len(log) \in Nat /\ walFloor \in Nat /\ WalVersions \in Nat
    BY BoundsAssumption DEF StoreTypeOK
  <2>2. (IF Len(log) > WalVersions THEN Len(log) - WalVersions ELSE 0) \in Nat
    BY <2>1
  <2> QED
    BY <2>1, <2>2 DEF Compact, LiveReceipts, KeptSnapshots, Larger, Smaller
<1>3. PICK kept \in SUBSET DOMAIN snapshots : snapshots' = [v \in kept |-> snapshots[v]]
  BY DEF Compact, LiveReceipts, KeptSnapshots
<1>4. DOMAIN snapshots' \subseteq Nat /\ snapshots' \in [DOMAIN snapshots' -> Document]
  BY <1>3 DEF StoreTypeOK
<1>5. StoreTypeOK'
  BY <1>2, <1>4 DEF Compact, LiveReceipts, KeptSnapshots, StoreTypeOK
<1> QED
  BY <1>1, <1>5

LEMMA SettleTypeInv ==
    ASSUME TypeInv, NEW id \in Expiring, Settle(id)
    PROVE  TypeInv'
  BY DEF TypeInv, TypeOK, Settle, storeVars, placeVars, sessionVars, taskVars, StoreTypeOK,
         PlaceTypeOK, SessionTypeOK, CallTypeOK, ClientTypeOK, Shape, Warmed

-----------------------------------------------------------------------------

LEMMA NextTypeInv ==
    ASSUME TypeInv, [Next]_vars
    PROVE  TypeInv'
<1>1. CASE UNCHANGED vars
  BY <1>1 DEF TypeInv, TypeOK, vars, storeVars, placeVars, sessionVars, taskVars, clientVars,
         StoreTypeOK, PlaceTypeOK, SessionTypeOK, CallTypeOK, ClientTypeOK, Shape, Warmed
<1>2. CASE \E w \in Workers : Activate(w) \/ RenewFails(w) \/ Crash(w)
  BY <1>2, ActivateTypeInv, RenewFailsTypeInv, CrashTypeInv
<1>3. CASE \E e \in Epochs : SessionStep(e)
  BY <1>3, ReadHeadTypeInv, ReadSnapshotTypeInv, ReadWalTypeInv, MigrateTypeInv, SubmitTypeInv,
     ProcessTypeInv, CommitTypeInv, RecordRejectionTypeInv, ReloadWalTypeInv, StoreErrorTypeInv,
     EvictBeginTypeInv, EvictEndTypeInv
  DEF SessionStep
<1>4. CASE \E w \in snapWrites : SnapshotWritten(w)
  BY <1>4, SnapshotWrittenTypeInv
<1>5. CASE Compact \/ \E id \in Expiring : Settle(id)
  BY <1>5, CompactTypeInv, SettleTypeInv
<1> QED
  BY <1>1, <1>2, <1>3, <1>4, <1>5 DEF Next

\* Types hold in every reachable state, and with them the shape of sessions:
\* a session with work is warm, and the worker's map holds only warm sessions.
THEOREM TypeCorrect == Spec => []TypeInv
<1>1. Init => TypeInv
  BY InitTypeInv
<1>2. TypeInv /\ [Next]_vars => TypeInv'
  BY NextTypeInv
<1> QED
  BY <1>1, <1>2, PTL DEF Spec

\* Type correctness alone: every table, session field, call under way and
\* answer keeps its type, the proof resting on the shape of the sessions.
THEOREM TypesCorrect == Spec => []TypeOK
<1>1. TypeInv => TypeOK
  BY DEF TypeInv
<1> QED
  BY <1>1, TypeCorrect, PTL

-----------------------------------------------------------------------------
(* The verdicts.  The argument rests on the receipts.  As long as clients  *)
(* may still send an id, the log entry of that id is matched by exactly    *)
(* one receipt, and a verdict already given by some receipt: commit and    *)
(* recordReceipt look for the receipt in the transaction that decides, so  *)
(* a decided operation is never decided again.  When compaction deletes    *)
(* the receipt, no mailbox can hold the operation any more.                *)

ReceiptsUnique ==
    \A r, s \in receipts : r.op.id = s.op.id => r = s

ReceiptsTrue ==
    \A r \in receipts :
        /\ r.outcome # 0 => r.outcome \in 1 .. Len(log) /\ log[r.outcome] = r.op
        /\ r.outcome = 0 => \A v \in 1 .. Len(log) : log[v].id # r.op.id

LogReceipted ==
    \A v \in 1 .. Len(log) :
        \/ log[v].id \in settled
        \/ \E r \in receipts : r.op = log[v] /\ r.outcome = v

PendingUnsettled ==
    \A e \in Epochs : \A i \in 1 .. Len(mailbox[e]) : mailbox[e][i].id \notin settled

ToldTrue ==
    \A o \in Ops : \A v \in told[o] :
        \/ v = 0 /\ \A u \in 1 .. Len(log) : log[u] # o
        \/ v \in 1 .. Len(log) /\ log[v] = o

ToldFinal ==
    \A o \in Ops : told[o] # {} => o.id \in settled \/ Prior(o.id) # {}

VerdictInv ==
    /\ ReceiptsUnique /\ ReceiptsTrue /\ LogReceipted
    /\ PendingUnsettled /\ ToldTrue /\ ToldFinal
    /\ AtMostOnce

-----------------------------------------------------------------------------
(* The changes the actions make to log, receipts, answers and mailboxes.   *)

\* No operation is decided and no client answered.
LEMMA QuietStep ==
    ASSUME VerdictInv, UNCHANGED <<log, receipts, told, settled>>, PendingUnsettled'
    PROVE  VerdictInv'
  BY DEF VerdictInv, ReceiptsUnique, ReceiptsTrue, LogReceipted, ToldTrue, ToldFinal, AtMostOnce, Prior

\* An operation leaves a mailbox, or none does.
LEMMA MailboxStep ==
    ASSUME TypeInv, PendingUnsettled, NEW e \in Epochs, mailbox[e] # <<>>,
           mailbox' = mailbox \/ mailbox' = [mailbox EXCEPT ![e] = Tail(@)],
           UNCHANGED settled
    PROVE  PendingUnsettled'
<1>1. CASE mailbox' = mailbox
  BY <1>1 DEF PendingUnsettled
<1>2. CASE mailbox' = [mailbox EXCEPT ![e] = Tail(@)]
  <2> SUFFICES ASSUME NEW f \in Epochs, NEW i \in 1 .. Len(mailbox'[f])
               PROVE  mailbox'[f][i].id \notin settled
    BY DEF PendingUnsettled
  <2>1. CASE f # e
    BY <1>2, <2>1 DEF PendingUnsettled, TypeInv, TypeOK, SessionTypeOK
  <2>2. CASE f = e
    <3>1. mailbox'[e] = Tail(mailbox[e]) /\ mailbox[e] \in Seq(Ops)
      BY <1>2 DEF TypeInv, TypeOK, SessionTypeOK
    <3>2. i + 1 \in 1 .. Len(mailbox[e]) /\ Tail(mailbox[e])[i] = mailbox[e][i + 1]
      BY <2>2, <3>1
    <3> QED
      BY <2>2, <3>1, <3>2 DEF PendingUnsettled
  <2> QED
    BY <2>1, <2>2
<1> QED
  BY <1>1, <1>2

\* The running operation of a session can still be decided.
LEMMA RunningUnsettled ==
    ASSUME TypeInv, PendingUnsettled, NEW e \in Epochs, mailbox[e] # <<>>
    PROVE  Head(mailbox[e]) \in Ops /\ Head(mailbox[e]).id \notin settled
<1>1. mailbox[e] \in Seq(Ops)
  BY DEF TypeInv, TypeOK, SessionTypeOK
<1>2. 1 \in 1 .. Len(mailbox[e]) /\ Head(mailbox[e]) = mailbox[e][1]
  BY <1>1
<1> QED
  BY <1>2, RunningOperation DEF PendingUnsettled

\* An id without a receipt that can still be sent is not in the log, and no
\* operation of that id has had an answer.
LEMMA Undecided ==
    ASSUME VerdictInv, NEW o \in Ops, o.id \notin settled, Prior(o.id) = {}
    PROVE  /\ \A v \in 1 .. Len(log) : log[v].id # o.id
           /\ told[o] = {}
<1>1. \A r \in receipts : r.op.id # o.id
  BY DEF Prior
<1>2. \A v \in 1 .. Len(log) : log[v].id # o.id
  BY <1>1 DEF VerdictInv, LogReceipted
<1> QED
  BY <1>2 DEF VerdictInv, ToldFinal

\* What a receipt answers is true.
LEMMA VerdictTrue ==
    ASSUME VerdictInv, TypeInv, NEW o \in Ops, o.id \notin settled, NEW r \in Prior(o.id)
    PROVE  \/ Verdict(r, o) = 0 /\ \A u \in 1 .. Len(log) : log[u] # o
           \/ Verdict(r, o) \in 1 .. Len(log) /\ log[Verdict(r, o)] = o
<1>1. r \in receipts /\ r.op.id = o.id
  BY DEF Prior
<1>2. CASE r.op = o
  BY <1>1, <1>2 DEF Verdict, VerdictInv, ReceiptsTrue
<1>3. CASE r.op # o
  <2>1. ASSUME NEW u \in 1 .. Len(log), log[u] = o PROVE FALSE
    <3>1. PICK s \in receipts : s.op = o
      BY <2>1 DEF VerdictInv, LogReceipted
    <3>2. s = r
      BY <1>1, <3>1 DEF VerdictInv, ReceiptsUnique
    <3> QED
      BY <1>3, <3>1, <3>2
  <2> QED
    BY <1>3, <2>1 DEF Verdict
<1> QED
  BY <1>2, <1>3

\* A client is answered from a receipt.
LEMMA AnswerStep ==
    ASSUME VerdictInv, TypeInv, NEW o \in Ops, o.id \notin settled,
           \E r \in Prior(o.id) : Tell(o, Verdict(r, o)),
           UNCHANGED <<log, receipts, settled>>, PendingUnsettled'
    PROVE  VerdictInv'
<1>1. PICK r \in Prior(o.id) : told' = [told EXCEPT ![o] = @ \cup {Verdict(r, o)}]
  BY DEF Tell
<1>2. told \in [Ops -> SUBSET Nat]
  BY DEF TypeInv, TypeOK, ClientTypeOK
<1>3. ToldTrue'
  <2>1. \A p \in Ops : \A v \in told'[p] : v \in told[p] \/ (p = o /\ v = Verdict(r, o))
    BY <1>1, <1>2
  <2> QED
    BY <2>1, VerdictTrue DEF VerdictInv, ToldTrue
<1>4. ToldFinal'
  BY <1>1, <1>2 DEF VerdictInv, ToldFinal, Prior
<1> QED
  BY <1>3, <1>4 DEF VerdictInv, ReceiptsUnique, ReceiptsTrue, LogReceipted, AtMostOnce

\* A new operation is committed.
LEMMA AcceptStep ==
    ASSUME VerdictInv, TypeInv, NEW o \in Ops, o.id \notin settled, Prior(o.id) = {},
           log' = Append(log, o),
           receipts' = receipts \cup {[op |-> o, outcome |-> Len(log) + 1]},
           told' = told \/ Tell(o, Len(log) + 1),
           UNCHANGED settled, PendingUnsettled'
    PROVE  VerdictInv'
<1> DEFINE n == Len(log) + 1
           R == [op |-> o, outcome |-> n]
<1>1. log \in Seq(Ops) /\ told \in [Ops -> SUBSET Nat] /\ receipts \subseteq [op : Ops, outcome : Nat]
  BY DEF TypeInv, TypeOK, StoreTypeOK, ClientTypeOK
<1>2. /\ Len(log') = n /\ n \in Nat \ {0} /\ log'[n] = o
      /\ \A v \in 1 .. Len(log) : log'[v] = log[v]
      /\ \A v \in 1 .. Len(log') : v = n \/ v \in 1 .. Len(log)
      /\ \A v \in 1 .. Len(log) : v \in 1 .. Len(log') /\ v # n
      /\ n \in 1 .. Len(log')
  BY <1>1
<1>3. (\A v \in 1 .. Len(log) : log[v].id # o.id) /\ told[o] = {}
  BY Undecided
<1>4. \A r \in receipts : r.op.id # o.id
  BY DEF Prior
<1>5. R.op = o /\ R.outcome = n /\ receipts' = receipts \cup {R}
  OBVIOUS
<1> HIDE DEF n, R
<1>6. ReceiptsUnique'
  BY <1>4, <1>5 DEF VerdictInv, ReceiptsUnique
<1>7. ReceiptsTrue'
  <2> SUFFICES ASSUME NEW r \in receipts'
               PROVE  /\ r.outcome # 0 => r.outcome \in 1 .. Len(log') /\ log'[r.outcome] = r.op
                      /\ r.outcome = 0 => \A v \in 1 .. Len(log') : log'[v].id # r.op.id
    BY DEF ReceiptsTrue
  <2>1. CASE r = R
    BY <1>2, <1>5, <2>1
  <2>2. CASE r \in receipts
    BY <1>2, <1>4, <2>2 DEF VerdictInv, ReceiptsTrue
  <2> QED
    BY <1>5, <2>1, <2>2
<1>8. LogReceipted'
  BY <1>2, <1>5 DEF VerdictInv, LogReceipted
<1>9. AtMostOnce'
  BY <1>2, <1>3 DEF VerdictInv, AtMostOnce
<1>10. \A p \in Ops : \A v \in told'[p] : v \in told[p] \/ (p = o /\ v = n)
  BY <1>1 DEF Tell, n
<1>11. ToldTrue'
  <2> SUFFICES ASSUME NEW p \in Ops, NEW v \in told'[p]
               PROVE  \/ v = 0 /\ \A u \in 1 .. Len(log') : log'[u] # p
                      \/ v \in 1 .. Len(log') /\ log'[v] = p
    BY DEF ToldTrue
  <2>1. CASE p = o
    BY <1>2, <1>3, <1>10, <2>1
  <2>2. CASE p # o
    <3>1. v \in told[p]
      BY <1>10, <2>2
    <3> QED
      BY <1>2, <2>2, <3>1 DEF VerdictInv, ToldTrue
  <2> QED
    BY <2>1, <2>2
<1>12. ToldFinal'
  <2>1. \A p \in Ops : told'[p] # {} => told[p] # {} \/ p = o
    BY <1>10
  <2>2. R \in Prior(o.id)'
    BY <1>5 DEF Prior
  <2>3. \A id : Prior(id) \subseteq Prior(id)'
    BY <1>5 DEF Prior
  <2> QED
    BY <2>1, <2>2, <2>3 DEF VerdictInv, ToldFinal
<1> QED
  BY <1>6, <1>7, <1>8, <1>9, <1>11, <1>12 DEF VerdictInv

\* A new operation is rejected.
LEMMA RejectStep ==
    ASSUME VerdictInv, TypeInv, NEW o \in Ops, o.id \notin settled, Prior(o.id) = {},
           receipts' = receipts \cup {[op |-> o, outcome |-> 0]}, Tell(o, 0),
           UNCHANGED <<log, settled>>, PendingUnsettled'
    PROVE  VerdictInv'
<1> DEFINE R == [op |-> o, outcome |-> 0]
<1>1. told \in [Ops -> SUBSET Nat]
  BY DEF TypeInv, TypeOK, ClientTypeOK
<1>2. (\A v \in 1 .. Len(log) : log[v].id # o.id) /\ told[o] = {}
  BY Undecided
<1>3. \A r \in receipts : r.op.id # o.id
  BY DEF Prior
<1>4. R.op = o /\ R.outcome = 0 /\ receipts' = receipts \cup {R}
  OBVIOUS
<1> HIDE DEF R
<1>5. ReceiptsUnique' /\ ReceiptsTrue'
  BY <1>2, <1>3, <1>4 DEF VerdictInv, ReceiptsUnique, ReceiptsTrue
<1>6. LogReceipted' /\ AtMostOnce'
  BY <1>4 DEF VerdictInv, LogReceipted, AtMostOnce
<1>7. \A p \in Ops : \A v \in told'[p] : v \in told[p] \/ (p = o /\ v = 0)
  BY <1>1 DEF Tell
<1>8. ToldTrue'
  BY <1>2, <1>7 DEF VerdictInv, ToldTrue
<1>9. ToldFinal'
  <2>1. R \in Prior(o.id)' /\ \A id : Prior(id) \subseteq Prior(id)'
    BY <1>4 DEF Prior
  <2> QED
    BY <1>7, <2>1 DEF VerdictInv, ToldFinal
<1> QED
  BY <1>5, <1>6, <1>8, <1>9 DEF VerdictInv

\* Compaction deletes the receipts of settled ids, and of no other.
LEMMA ForgetStep ==
    ASSUME VerdictInv, TypeInv, receipts' = {r \in receipts : r.op.id \notin settled},
           UNCHANGED <<log, told, settled, mailbox>>
    PROVE  VerdictInv'
<1>1. \A r : r \in receipts' <=> r \in receipts /\ r.op.id \notin settled
  OBVIOUS
<1>2. \A id : id \notin settled => Prior(id)' = Prior(id)
  BY <1>1 DEF Prior
<1>3. ToldFinal'
  BY <1>2 DEF VerdictInv, ToldFinal
<1>4. LogReceipted'
  BY <1>1 DEF VerdictInv, LogReceipted
<1> QED
  BY <1>1, <1>3, <1>4 DEF VerdictInv, ReceiptsUnique, ReceiptsTrue, PendingUnsettled, ToldTrue, AtMostOnce

\* An id is settled that no mailbox holds.
LEMMA SettleStep ==
    ASSUME VerdictInv, NEW id \in Expiring, Settle(id)
    PROVE  VerdictInv'
<1>1. /\ settled' = settled \cup {id}
      /\ UNCHANGED <<log, receipts, told, mailbox>>
      /\ \A e \in Epochs : \A i \in 1 .. Len(mailbox[e]) : mailbox[e][i].id # id
  BY DEF Settle, storeVars, taskVars
<1>2. PendingUnsettled' /\ LogReceipted' /\ ToldFinal'
  BY <1>1 DEF VerdictInv, PendingUnsettled, LogReceipted, ToldFinal, Prior
<1> QED
  BY <1>1, <1>2 DEF VerdictInv, ReceiptsUnique, ReceiptsTrue, ToldTrue, AtMostOnce

-----------------------------------------------------------------------------
(* Every step makes one of those changes.                                  *)

Quiet == UNCHANGED <<log, receipts, told, settled>>

Answered(o) ==
    /\ o.id \notin settled
    /\ \E r \in Prior(o.id) : Tell(o, Verdict(r, o))
    /\ UNCHANGED <<log, receipts, settled>>

Accepted(o) ==
    /\ o.id \notin settled /\ Prior(o.id) = {}
    /\ log' = Append(log, o)
    /\ receipts' = receipts \cup {[op |-> o, outcome |-> Len(log) + 1]}
    /\ told' = told \/ Tell(o, Len(log) + 1)
    /\ UNCHANGED settled

Rejected(o) ==
    /\ o.id \notin settled /\ Prior(o.id) = {}
    /\ receipts' = receipts \cup {[op |-> o, outcome |-> 0]}
    /\ Tell(o, 0)
    /\ UNCHANGED <<log, settled>>

Forgot ==
    /\ receipts' = {r \in receipts : r.op.id \notin settled}
    /\ UNCHANGED <<log, told, settled, mailbox>>

Change ==
    \/ Quiet /\ PendingUnsettled'
    \/ \E o \in Ops : (Answered(o) \/ Accepted(o) \/ Rejected(o)) /\ PendingUnsettled'
    \/ Forgot
    \/ \E id \in Expiring : Settle(id)

LEMMA SubmitChange ==
    ASSUME TypeInv, VerdictInv, NEW e \in Epochs, NEW o \in Ops, Submit(e, o)
    PROVE  Change
<1>1. /\ o.id \notin settled /\ mailbox[e] \in Seq(Ops) /\ mailbox \in [Epochs -> Seq(Ops)]
      /\ mailbox' = [mailbox EXCEPT ![e] = Append(@, o)]
      /\ UNCHANGED <<log, receipts, told, settled>>
  BY DEF Submit, TypeInv, TypeOK, SessionTypeOK, storeVars, clientVars
<1>2. PendingUnsettled'
  <2> SUFFICES ASSUME NEW f \in Epochs, NEW i \in 1 .. Len(mailbox'[f])
               PROVE  mailbox'[f][i].id \notin settled
    BY <1>1 DEF PendingUnsettled
  <2>1. CASE f # e
    BY <1>1, <2>1 DEF VerdictInv, PendingUnsettled
  <2>2. CASE f = e
    <3>1. mailbox'[e] = Append(mailbox[e], o)
      BY <1>1
    <3>2. Append(mailbox[e], o)[i] = o \/ (i \in 1 .. Len(mailbox[e]) /\ Append(mailbox[e], o)[i] = mailbox[e][i])
      BY <1>1, <2>2, <3>1
    <3> QED
      BY <1>1, <2>2, <3>1, <3>2 DEF VerdictInv, PendingUnsettled
  <2> QED
    BY <2>1, <2>2
<1> QED
  BY <1>1, <1>2 DEF Change, Quiet

LEMMA ProcessChange ==
    ASSUME TypeInv, VerdictInv, NEW e \in Epochs, Process(e)
    PROVE  Change
<1> DEFINE o == Head(mailbox[e])
<1>1. mailbox[e] # <<>> /\ o \in Ops /\ o.id \notin settled
  BY RunningUnsettled DEF Process, VerdictInv
<1>2. /\ UNCHANGED <<log, receipts, settled>>
      /\ mailbox' = mailbox \/ mailbox' = [mailbox EXCEPT ![e] = Tail(@)]
      /\ UNCHANGED told \/ \E r \in Prior(o.id) : Tell(o, Verdict(r, o))
  BY DEF Process, Prepare, Finish, storeVars
<1>3. PendingUnsettled'
  BY <1>1, <1>2, MailboxStep DEF VerdictInv
<1> QED
  BY <1>1, <1>2, <1>3 DEF Change, Quiet, Answered

LEMMA CommitChange ==
    ASSUME TypeInv, VerdictInv, NEW e \in Epochs, Commit(e)
    PROVE  Change
<1> DEFINE o == Head(mailbox[e])
<1>1. mailbox[e] # <<>>
  BY DEF Commit, TypeInv, Shape, Busy
<1>2. o \in Ops /\ o.id \notin settled
  BY <1>1, RunningUnsettled DEF VerdictInv
<1>3. /\ UNCHANGED settled
      /\ mailbox' = mailbox \/ mailbox' = [mailbox EXCEPT ![e] = Tail(@)]
      /\ \/ UNCHANGED <<log, receipts, told>>
         \/ (\E r \in Prior(o.id) : Tell(o, Verdict(r, o))) /\ UNCHANGED <<log, receipts>>
         \/ /\ Prior(o.id) = {} /\ log' = Append(log, o)
            /\ receipts' = receipts \cup {[op |-> o, outcome |-> Len(log) + 1]}
            /\ told' = told \/ Tell(o, Len(log) + 1)
  BY DEF Commit, CommitDuplicate, CommitFenced, CommitConflict, CommitAccepted, Finish
<1>4. PendingUnsettled'
  BY <1>1, <1>3, MailboxStep DEF VerdictInv
<1> QED
  BY <1>2, <1>3, <1>4 DEF Change, Quiet, Answered, Accepted

LEMMA RecordRejectionChange ==
    ASSUME TypeInv, VerdictInv, NEW e \in Epochs, RecordRejection(e)
    PROVE  Change
<1> DEFINE o == Head(mailbox[e])
<1>1. mailbox[e] # <<>>
  BY DEF RecordRejection, TypeInv, Shape, Busy
<1>2. o \in Ops /\ o.id \notin settled
  BY <1>1, RunningUnsettled DEF VerdictInv
<1>3. /\ UNCHANGED <<log, settled>>
      /\ mailbox' = [mailbox EXCEPT ![e] = Tail(@)]
      /\ \/ UNCHANGED <<receipts, told>>
         \/ (\E r \in Prior(o.id) : Tell(o, Verdict(r, o))) /\ UNCHANGED receipts
         \/ /\ Prior(o.id) = {} /\ Tell(o, 0)
            /\ receipts' = receipts \cup {[op |-> o, outcome |-> 0]}
  BY DEF RecordRejection, Finish
<1>4. PendingUnsettled'
  BY <1>1, <1>3, MailboxStep DEF VerdictInv
<1> QED
  BY <1>2, <1>3, <1>4 DEF Change, Quiet, Answered, Rejected

LEMMA ReloadWalChange ==
    ASSUME TypeInv, VerdictInv, NEW e \in Epochs, ReloadWal(e)
    PROVE  Change
<1>1. mailbox[e] # <<>>
  BY DEF ReloadWal, TypeInv, Shape, Busy
<1>2. /\ UNCHANGED <<log, receipts, told, settled>>
      /\ mailbox' = mailbox \/ mailbox' = [mailbox EXCEPT ![e] = Tail(@)]
  BY DEF ReloadWal, Prepare, Finish, storeVars, clientVars
<1> QED
  BY <1>1, <1>2, MailboxStep DEF Change, Quiet, VerdictInv

LEMMA StoreErrorChange ==
    ASSUME TypeInv, VerdictInv, NEW e \in Epochs, StoreError(e)
    PROVE  Change
<1>1. UNCHANGED <<log, receipts, told, settled>>
  BY DEF StoreError, storeVars, clientVars
<1>2. CASE mailbox' = mailbox
  BY <1>1, <1>2 DEF Change, Quiet, VerdictInv, PendingUnsettled
<1>3. CASE mailbox[e] # <<>> /\ mailbox' = [mailbox EXCEPT ![e] = Tail(@)]
  BY <1>1, <1>3, MailboxStep DEF Change, Quiet, VerdictInv
<1> QED
  BY <1>2, <1>3 DEF StoreError, Finish, taskVars

LEMMA CrashChange ==
    ASSUME TypeInv, VerdictInv, NEW w \in Workers, Crash(w)
    PROVE  Change
<1>1. UNCHANGED <<log, receipts, told, settled>>
  BY DEF Crash, storeVars, clientVars
<1>2. \A e \in Epochs : mailbox'[e] = <<>> \/ mailbox'[e] = mailbox[e]
  BY DEF Crash
<1>3. Len(<<>>) = 0 /\ 1 .. 0 = {}
  OBVIOUS
<1>4. PendingUnsettled'
  BY <1>1, <1>2, <1>3 DEF VerdictInv, PendingUnsettled
<1> QED
  BY <1>1, <1>4 DEF Change, Quiet

LEMMA NextChange ==
    ASSUME TypeInv, VerdictInv, [Next]_vars
    PROVE  Change
<1>1. CASE UNCHANGED <<log, receipts, told, settled, mailbox>>
  BY <1>1 DEF Change, Quiet, VerdictInv, PendingUnsettled
<1>2. CASE \E w \in Workers : Activate(w) \/ RenewFails(w)
  BY <1>1, <1>2 DEF Activate, RenewFails, storeVars, taskVars, clientVars
<1>3. CASE \E e \in Epochs : \/ ReadHead(e) \/ ReadSnapshot(e) \/ ReadWal(e) \/ Migrate(e)
                             \/ EvictBegin(e) \/ EvictEnd(e)
  BY <1>1, <1>3 DEF ReadHead, ReadSnapshot, ReadWal, Migrate, EvictBegin, EvictEnd,
                    storeVars, taskVars, clientVars
<1>4. CASE \E w \in snapWrites : SnapshotWritten(w)
  BY <1>1, <1>4 DEF SnapshotWritten, taskVars, clientVars
<1>5. CASE Compact
  BY <1>5 DEF Compact, LiveReceipts, KeptSnapshots, Change, Forgot, taskVars, clientVars
<1>6. CASE \E id \in Expiring : Settle(id)
  BY <1>6 DEF Change
<1>7. CASE UNCHANGED vars
  BY <1>1, <1>7 DEF vars, storeVars, taskVars, clientVars
<1> QED
  BY <1>2, <1>3, <1>4, <1>5, <1>6, <1>7, SubmitChange, ProcessChange, CommitChange,
     RecordRejectionChange, ReloadWalChange, StoreErrorChange, CrashChange
  DEF Next, SessionStep

LEMMA VerdictStep ==
    ASSUME TypeInv, VerdictInv, [Next]_vars
    PROVE  VerdictInv'
<1>1. Change
  BY NextChange
<1> QED
  BY <1>1, QuietStep, AnswerStep, AcceptStep, RejectStep, ForgetStep, SettleStep
  DEF Change, Quiet, Answered, Accepted, Rejected, Forgot

LEMMA InitVerdictInv == Init => VerdictInv
<1> SUFFICES ASSUME Init PROVE VerdictInv
  OBVIOUS
<1>1. /\ Len(log) = 0 /\ 1 .. 0 = {} /\ receipts = {} /\ settled = {}
      /\ \A o \in Ops : told[o] = {}
      /\ \A e \in Epochs : Len(mailbox[e]) = 0
  BY DEF Init
<1> QED
  BY <1>1 DEF VerdictInv, ReceiptsUnique, ReceiptsTrue, LogReceipted, PendingUnsettled,
              ToldTrue, ToldFinal, AtMostOnce

\* The inductive invariant of the verdicts holds in every reachable state.
THEOREM VerdictsInvariant == Spec => [](TypeInv /\ VerdictInv)
<1>1. Init => TypeInv /\ VerdictInv
  BY InitTypeInv, InitVerdictInv
<1>2. TypeInv /\ VerdictInv /\ [Next]_vars => (TypeInv /\ VerdictInv)'
  BY NextTypeInv, VerdictStep
<1> QED
  BY <1>1, <1>2, PTL DEF Spec

\* Exactly-once commit: whatever workers crash, evict, fence or lose answers,
\* no operation id enters the log twice.
THEOREM CommittedAtMostOnce == Spec => []AtMostOnce
<1>1. VerdictInv => AtMostOnce
  BY DEF VerdictInv
<1> QED
  BY <1>1, VerdictsInvariant, PTL

LEMMA ToldAgree ==
    ASSUME VerdictInv
    PROVE  OneVerdict
  BY DEF VerdictInv, ToldTrue, AtMostOnce, OneVerdict

\* One verdict: every answer clients are given for an operation is the same,
\* whichever worker gives it and however often they retry.
THEOREM VerdictsAgree == Spec => []OneVerdict
<1>1. VerdictInv => OneVerdict
  BY ToldAgree
<1> QED
  BY <1>1, VerdictsInvariant, PTL

-----------------------------------------------------------------------------
(* Refinement *)

LEMMA InitRefines == Init => Canonical!Init
  BY DEF Init, Canonical!Init

LEMMA StepRefines ==
    ASSUME TypeInv, VerdictInv, [Next]_vars
    PROVE  [Canonical!Next]_<<log, told>>
<1>1. CASE UNCHANGED <<log, told>>
  BY <1>1
<1>2. ASSUME NEW o \in Ops, Answered(o) PROVE Canonical!Next
  <2>1. PICK r \in Prior(o.id) : Tell(o, Verdict(r, o))
    BY <1>2 DEF Answered
  <2>2. /\ UNCHANGED log /\ told' = [told EXCEPT ![o] = @ \cup {Verdict(r, o)}]
    BY <1>2, <2>1 DEF Answered, Tell
  <2>3. \/ Verdict(r, o) = 0 /\ \A u \in 1 .. Len(log) : log[u] # o
        \/ Verdict(r, o) \in 1 .. Len(log) /\ log[Verdict(r, o)] = o
    BY <1>2, VerdictTrue DEF Answered
  <2>4. Len(log) \in Nat
    BY DEF TypeInv, TypeOK, StoreTypeOK
  <2>5. Verdict(r, o) \in 0 .. Len(log)
    BY <2>3, <2>4
  <2>6. Canonical!Answer(o, Verdict(r, o))
    BY <2>2, <2>3 DEF Canonical!Answer, Canonical!Committed
  <2> QED
    BY <2>5, <2>6 DEF Canonical!Next
<1>3. ASSUME NEW o \in Ops, Accepted(o) PROVE Canonical!Next
  <2>1. (\A v \in 1 .. Len(log) : log[v].id # o.id) /\ told[o] = {}
    BY <1>3, Undecided DEF Accepted
  <2>2. told' = told \/ told' = [told EXCEPT ![o] = {Len(log) + 1}]
    BY <1>3, <2>1 DEF Accepted, Tell
  <2>3. Canonical!Accept(o)
    BY <1>3, <2>1, <2>2 DEF Accepted, Canonical!Accept, Canonical!IdUsed
  <2> QED
    BY <2>3 DEF Canonical!Next
<1>4. ASSUME NEW o \in Ops, Rejected(o) PROVE Canonical!Next
  <2>1. \A v \in 1 .. Len(log) : log[v].id # o.id
    BY <1>4, Undecided DEF Rejected
  <2>2. Canonical!Answer(o, 0)
    BY <1>4, <2>1 DEF Rejected, Tell, Canonical!Answer, Canonical!Committed
  <2>3. 0 \in 0 .. Len(log)
    BY DEF TypeInv, TypeOK, StoreTypeOK
  <2> QED
    BY <2>2, <2>3 DEF Canonical!Next
<1>5. Forgot \/ (\E id \in Expiring : Settle(id)) => UNCHANGED <<log, told>>
  BY DEF Forgot, Settle, storeVars
<1> QED
  BY <1>1, <1>2, <1>3, <1>4, <1>5, NextChange DEF Change, Quiet

\* The distributed runtime implements the canonical log: whatever its workers
\* do, clients see one append-only log in which every operation is decided once.
THEOREM RuntimeImplementsCanonicalLog == Spec => ImplementsCanonicalLog
<1>1. Init => Canonical!Init
  BY InitRefines
<1>2. TypeInv /\ VerdictInv /\ [Next]_vars => [Canonical!Next]_<<log, told>>
  BY StepRefines
<1> QED
  BY <1>1, <1>2, VerdictsInvariant, PTL DEF Spec, ImplementsCanonicalLog, Canonical!Spec, Canonical!canonicalVars

-----------------------------------------------------------------------------
(* What the owner epoch is good for.  Nobody but the owner moves the log,  *)
(* adds receipts or changes the schema.  So what the owner has read of     *)
(* them stays true until its own next step, or until it is the owner no    *)
(* more.  Nothing here depends on snapshots, and compaction only takes     *)
(* receipts away.                                                          *)

Reloading(e) == phase[e] \in {"headReread", "snapReread"}
LoadRead(e)  == phase[e] \in {"headRead", "snapRead", "migrating"}

\* What the owner has read is still so.
OwnerUpToDate(e) ==
    /\ phase[e] \in Busy => Prior(Head(mailbox[e]).id) = {}
    /\ Reloading(e) => load[e].version = Len(log)
    /\ retried[e] /\ phase[e] \in {"committing", "recording"} => version[e] = Len(log)
    /\ Warmed(e) => PackSchema[home[e]] = head.schema
    /\ LoadRead(e) => load[e].schema = head.schema

\* Any session migrates upwards, and commits operations of its own pack.
SchemasFit(e) ==
    /\ phase[e] = "migrating" => load[e].schema < PackSchema[home[e]]
    /\ phase[e] = "committing" => Head(mailbox[e]).schema = PackSchema[home[e]]

OwnerInv ==
    /\ \A e \in Epochs : Owns(e) => OwnerUpToDate(e)
    /\ \A e \in Epochs : SchemasFit(e)
    /\ MigrationIsBarrier

-----------------------------------------------------------------------------

SameSession(e) ==
    /\ home'[e] = home[e] /\ phase'[e] = phase[e] /\ version'[e] = version[e]
    /\ mailbox'[e] = mailbox[e] /\ retried'[e] = retried[e] /\ load'[e] = load[e]

SameOwner == head'.epoch = head.epoch /\ head'.owner = head.owner

\* The head and its schema are as they were, and receipts are only deleted.
SameStore ==
    /\ SameOwner /\ head'.schema = head.schema
    /\ UNCHANGED log
    /\ receipts' \subseteq receipts

LEMMA BystanderFits ==
    ASSUME NEW e \in Epochs, SchemasFit(e), SameSession(e)
    PROVE  SchemasFit(e)'
BY DEF SchemasFit, SameSession

LEMMA BystanderUpToDate ==
    ASSUME NEW e \in Epochs, Owns(e) => OwnerUpToDate(e), SameStore, SameSession(e)
    PROVE  (Owns(e) => OwnerUpToDate(e))'
BY DEF SameStore, SameOwner, SameSession, Owns, OwnerUpToDate, Reloading, LoadRead, Warmed, Prior

\* A step of session e that leaves the store as it is.
LEMMA SessionStepOwner ==
    ASSUME OwnerInv, NEW e \in Epochs, SameStore,
           \A f \in Epochs : f # e => SameSession(f),
           (Owns(e) => OwnerUpToDate(e))', SchemasFit(e)'
    PROVE  OwnerInv'
<1>1. \A f \in Epochs : (Owns(f) => OwnerUpToDate(f))' /\ SchemasFit(f)'
  BY BystanderFits, BystanderUpToDate DEF OwnerInv
<1>2. MigrationIsBarrier'
  BY DEF OwnerInv, SameStore, MigrationIsBarrier
<1> QED
  BY <1>1, <1>2 DEF OwnerInv

\* A step of no session, or of what a session does not decide by.
LEMMA QuietStepOwner ==
    ASSUME OwnerInv, SameStore, \A f \in Epochs : SameSession(f)
    PROVE  OwnerInv'
<1>1. \A f \in Epochs : (Owns(f) => OwnerUpToDate(f))' /\ SchemasFit(f)'
  BY BystanderFits, BystanderUpToDate DEF OwnerInv
<1>2. MigrationIsBarrier'
  BY DEF OwnerInv, SameStore, MigrationIsBarrier
<1> QED
  BY <1>1, <1>2 DEF OwnerInv

\* A step of the owner: whatever it changes in the store, no other session owns it.
LEMMA OwnerStepOwner ==
    ASSUME OwnerInv, NEW e \in Epochs, Owns(e), SameOwner, home'[e] = home[e],
           \A f \in Epochs : f # e => SameSession(f),
           OwnerUpToDate(e)', SchemasFit(e)', MigrationIsBarrier'
    PROVE  OwnerInv'
<1>1. \A f \in Epochs : f # e => ~Owns(f)'
  BY DEF SameOwner, SameSession, Owns
<1>2. \A f \in Epochs : SchemasFit(f)'
  BY BystanderFits DEF OwnerInv
<1> QED
  BY <1>1, <1>2 DEF OwnerInv

-----------------------------------------------------------------------------
(* Activation *)

\* The new epoch owns the room and has read nothing; no other session owns it.
LEMMA ActivateOwner ==
    ASSUME TypeInv, OwnerInv, NEW w \in Workers, Activate(w)
    PROVE  OwnerInv'
<1> DEFINE E == head.epoch + 1
<1> USE DEF TypeInv, TypeOK, StoreTypeOK
<1>1. /\ E \in Epochs
      /\ head' = [head EXCEPT !.epoch = E, !.owner = w]
      /\ UNCHANGED <<log, version, mailbox, retried, load>>
      /\ phase' = [phase EXCEPT ![E] = "claimed"]
      /\ home' = [home EXCEPT ![E] = w]
  BY DEF Activate, sessionVars, taskVars
<1> HIDE DEF E
<1>2. head'.epoch = E
  <2>1. head \in Heads
    BY DEF Heads
  <2> QED
    BY <1>1, <2>1, Zenon DEF Heads
<1>3. phase'[E] = "claimed" /\ \A f \in Epochs : f # E => SameSession(f)
  BY <1>1 DEF SessionTypeOK, PlaceTypeOK, SameSession
<1>4. \A f \in Epochs : (Owns(f) => OwnerUpToDate(f))' /\ SchemasFit(f)'
  <2> SUFFICES ASSUME NEW f \in Epochs
               PROVE  (Owns(f) => OwnerUpToDate(f))' /\ SchemasFit(f)'
    OBVIOUS
  <2>1. CASE f = E
    BY <1>3, <2>1 DEF OwnerUpToDate, SchemasFit, Reloading, LoadRead, Warmed, Busy
  <2>2. CASE f # E
    BY <1>2, <1>3, <2>2, BystanderFits DEF OwnerInv, Owns
  <2> QED
    BY <2>1, <2>2
<1>5. MigrationIsBarrier'
  <2>1. head'.schema = head.schema
    <3>1. head \in Heads
      BY DEF Heads
    <3> QED
      BY <1>1, <3>1, Zenon DEF Heads
  <2> QED
    BY <1>1, <2>1 DEF OwnerInv, MigrationIsBarrier
<1> QED
  BY <1>4, <1>5 DEF OwnerInv

LEMMA ReadHeadOwner ==
    ASSUME TypeInv, OwnerInv, NEW e \in Epochs, ReadHead(e)
    PROVE  OwnerInv'
<1> USE DEF TypeInv, TypeOK, ReadHead, storeVars, placeVars, sessionVars, taskVars
<1>1. SameStore
  BY DEF SameStore, SameOwner
<1>2. \A f \in Epochs : f # e => SameSession(f)
  BY DEF SameSession, SessionTypeOK, CallTypeOK
<1>3. /\ load'[e].version = Len(log) /\ load'[e].schema = head.schema
      /\ phase[e] = "claimed" => phase'[e] = "headRead"
      /\ phase[e] = "conflict" => phase'[e] = "headReread"
      /\ phase[e] \in {"claimed", "conflict"}
  BY DEF SessionTypeOK, CallTypeOK
<1>4. (Owns(e) => OwnerUpToDate(e))'
  BY <1>3 DEF OwnerInv, Owns, OwnerUpToDate, Reloading, LoadRead, Warmed, Busy, Prior
<1>5. SchemasFit(e)'
  BY <1>3 DEF SchemasFit
<1> QED
  BY <1>1, <1>2, <1>4, <1>5, SessionStepOwner

LEMMA ReadSnapshotOwner ==
    ASSUME TypeInv, OwnerInv, NEW e \in Epochs, ReadSnapshot(e)
    PROVE  OwnerInv'
<1> USE DEF TypeInv, TypeOK, ReadSnapshot, storeVars, placeVars, sessionVars, taskVars
<1>1. SameStore
  BY DEF SameStore, SameOwner
<1>2. \A f \in Epochs : f # e => SameSession(f)
  BY DEF SameSession, SessionTypeOK, CallTypeOK
<1>3. /\ load'[e].version = load[e].version /\ load'[e].schema = load[e].schema
      /\ phase[e] = "headRead" => phase'[e] = "snapRead"
      /\ phase[e] = "headReread" => phase'[e] = "snapReread"
      /\ phase[e] \in {"headRead", "headReread"}
  BY DEF SessionTypeOK, CallTypeOK, Loading
<1>4. (Owns(e) => OwnerUpToDate(e))'
  BY <1>3 DEF OwnerInv, Owns, OwnerUpToDate, Reloading, LoadRead, Warmed, Busy, Prior
<1>5. SchemasFit(e)'
  BY <1>3 DEF SchemasFit
<1> QED
  BY <1>1, <1>2, <1>4, <1>5, SessionStepOwner

LEMMA ReadWalOwner ==
    ASSUME TypeInv, OwnerInv, NEW e \in Epochs, ReadWal(e)
    PROVE  OwnerInv'
<1> DEFINE pack == PackSchema[home[e]]
<1> USE DEF TypeInv, TypeOK
<1>1. SameStore
  BY DEF ReadWal, SameStore, SameOwner, storeVars
<1>2. /\ phase[e] = "snapRead"
      /\ \/ load[e].schema = pack /\ phase' = [phase EXCEPT ![e] = "idle"]
         \/ load[e].schema > pack /\ phase' = [phase EXCEPT ![e] = "dead"]
         \/ /\ load[e].schema < pack
            /\ phase' = [phase EXCEPT ![e] = "migrating"]
            /\ load'[e].schema = load[e].schema
      /\ UNCHANGED <<home, mailbox, retried>>
      /\ \A f \in Epochs : f # e => version'[f] = version[f] /\ load'[f] = load[f]
  BY DEF ReadWal, Install, LoadDone, AbandonActivation, SessionTypeOK, CallTypeOK, Loading, sessionVars, taskVars
<1>3. \A f \in Epochs : f # e => SameSession(f)
  BY <1>2 DEF SameSession, SessionTypeOK
<1>4. \/ phase'[e] = "idle" /\ load[e].schema = pack
      \/ phase'[e] = "dead"
      \/ phase'[e] = "migrating" /\ load'[e].schema = load[e].schema /\ load[e].schema < pack
  BY <1>2 DEF SessionTypeOK
<1>5. (Owns(e) => OwnerUpToDate(e))'
  BY <1>1, <1>2, <1>4 DEF OwnerInv, SameStore, SameOwner, Owns, OwnerUpToDate, Reloading, LoadRead, Warmed, Busy
<1>6. SchemasFit(e)'
  BY <1>2, <1>4 DEF SchemasFit
<1> QED
  BY <1>1, <1>3, <1>5, <1>6, SessionStepOwner

\* The migration an owner commits raises the schema of the head; a session that
\* no longer owns the room gives up.
LEMMA MigrateOwner ==
    ASSUME TypeInv, OwnerInv, NEW e \in Epochs, Migrate(e)
    PROVE  OwnerInv'
<1> DEFINE pack == PackSchema[home[e]]
<1> USE DEF TypeInv, TypeOK
<1>1. /\ phase[e] = "migrating"
      /\ UNCHANGED <<log, receipts, home, mailbox, retried>>
      /\ \A f \in Epochs : f # e => version'[f] = version[f] /\ load'[f] = load[f]
  BY DEF Migrate, Install, LoadDone, AbandonActivation, SessionTypeOK, CallTypeOK, sessionVars, taskVars
<1>2. \/ Owns(e) /\ head'.schema = pack /\ phase' = [phase EXCEPT ![e] = "idle"] /\ SameOwner
      \/ UNCHANGED head /\ phase' = [phase EXCEPT ![e] = "dead"]
  BY Zenon DEF Migrate, Install, AbandonActivation, SameOwner, StoreTypeOK
<1>3. \A f \in Epochs : f # e => SameSession(f)
  BY <1>1, <1>2 DEF SameSession, SessionTypeOK
<1>4. CASE Owns(e) /\ head'.schema = pack /\ phase' = [phase EXCEPT ![e] = "idle"] /\ SameOwner
  <2>1. phase'[e] = "idle"
    BY <1>4 DEF SessionTypeOK
  <2>2. OwnerUpToDate(e)' /\ SchemasFit(e)'
    BY <1>1, <1>4, <2>1 DEF OwnerUpToDate, SchemasFit, Reloading, LoadRead, Warmed, Busy
  <2>3. head.schema < pack
    BY <1>1, <1>4 DEF OwnerInv, OwnerUpToDate, SchemasFit, LoadRead
  <2>4. MigrationIsBarrier'
    <3>1. pack \in Nat
      BY <1>1, WorkersAssumption DEF Shape
    <3>2. \A v \in 1 .. Len(log) : log[v].schema \in Nat
      BY OpsAssumption DEF StoreTypeOK, Operation
    <3> HIDE DEF pack
    <3> QED
      BY <1>1, <1>4, <2>3, <3>1, <3>2 DEF OwnerInv, MigrationIsBarrier, StoreTypeOK
  <2> QED
    BY <1>1, <1>3, <1>4, <2>2, <2>4, OwnerStepOwner
<1>5. CASE UNCHANGED head /\ phase' = [phase EXCEPT ![e] = "dead"]
  <2>1. phase'[e] = "dead" /\ SameStore
    BY <1>1, <1>5 DEF SessionTypeOK, SameStore, SameOwner
  <2>2. (Owns(e) => OwnerUpToDate(e))' /\ SchemasFit(e)'
    BY <2>1 DEF OwnerUpToDate, SchemasFit, Reloading, LoadRead, Warmed, Busy
  <2> QED
    BY <1>3, <2>1, <2>2, SessionStepOwner
<1> QED
  BY <1>2, <1>4, <1>5

-----------------------------------------------------------------------------
(* Operations *)

LEMMA SubmitOwner ==
    ASSUME TypeInv, OwnerInv, NEW e \in Epochs, NEW o \in Ops, Submit(e, o)
    PROVE  OwnerInv'
<1> USE DEF TypeInv, TypeOK, Submit, storeVars, placeVars, sessionVars
<1>1. SameStore
  BY DEF SameStore, SameOwner
<1>2. \A f \in Epochs : f # e => SameSession(f)
  BY DEF SameSession, SessionTypeOK
<1>3. /\ UNCHANGED <<head, home, phase, version, retried, load>>
      /\ mailbox[e] # <<>> => Head(mailbox'[e]) = Head(mailbox[e])
  BY DEF SessionTypeOK
<1>4. phase[e] \in Busy => Head(mailbox'[e]) = Head(mailbox[e])
  BY <1>3 DEF Shape
<1>5. (Owns(e) => OwnerUpToDate(e))'
  BY <1>1, <1>3, <1>4 DEF OwnerInv, SameStore, Owns, OwnerUpToDate, Reloading, LoadRead, Warmed, Busy, Prior
<1>6. SchemasFit(e)'
  BY <1>3, <1>4 DEF OwnerInv, SchemasFit, Busy
<1> QED
  BY <1>1, <1>2, <1>5, <1>6, SessionStepOwner

\* A session that has nothing in hand is up to date if its pack is the head's.
LEMMA FinishedOwner ==
    ASSUME OwnerInv, NEW e \in Epochs, SameStore, home'[e] = home[e], Warmed(e), phase'[e] = "idle"
    PROVE  (Owns(e) => OwnerUpToDate(e))' /\ SchemasFit(e)'
BY DEF OwnerInv, SameStore, SameOwner, Owns, OwnerUpToDate, SchemasFit, Reloading, LoadRead, Warmed, Busy

\* prepare: the operation is finished with, or goes on to be decided.
LEMMA PreparedOwner ==
    ASSUME TypeInv, OwnerInv, NEW e \in Epochs, SameStore, UNCHANGED home, Warmed(e),
           NEW v, NEW h, Prepare(e, v, h),
           Owns(e) => Prior(Head(mailbox[e]).id) = {},
           Owns(e) /\ retried'[e] => version'[e] = Len(log)
    PROVE  (Owns(e) => OwnerUpToDate(e))' /\ SchemasFit(e)'
<1> USE DEF TypeInv, TypeOK, SessionTypeOK
<1>1. CASE phase' = [phase EXCEPT ![e] = "idle"]
  BY <1>1, FinishedOwner
<1>2. CASE /\ Head(mailbox[e]).schema = PackSchema[home[e]]
           /\ UNCHANGED mailbox
           /\ phase' = [phase EXCEPT ![e] = "recording"] \/ phase' = [phase EXCEPT ![e] = "committing"]
  <2>1. phase'[e] \in {"recording", "committing"}
    BY <1>2
  <2>2. SchemasFit(e)'
    BY <1>2, <2>1 DEF SchemasFit
  <2>3. (Owns(e) => OwnerUpToDate(e))'
    BY <1>2, <2>1 DEF OwnerInv, SameStore, SameOwner, Owns, OwnerUpToDate, Reloading, LoadRead, Warmed, Busy, Prior
  <2> QED
    BY <2>2, <2>3
<1> QED
  BY <1>1, <1>2 DEF Prepare, Finish, NeedsResync

\* process looks for the receipt in the step that goes on to decide.
LEMMA ProcessOwner ==
    ASSUME TypeInv, OwnerInv, NEW e \in Epochs, Process(e)
    PROVE  OwnerInv'
<1> USE DEF TypeInv, TypeOK, SessionTypeOK
<1>1. SameStore /\ UNCHANGED <<home, load, version>>
  BY DEF Process, SameStore, SameOwner, storeVars, placeVars, sessionVars
<1>2. \A f \in Epochs : f # e => SameSession(f)
  BY <1>1 DEF Process, Prepare, Finish, SameSession
<1>3. Warmed(e) /\ retried'[e] = FALSE
  BY DEF Process, Warmed
<1>4. \/ phase'[e] = "idle"
      \/ Prior(Head(mailbox[e]).id) = {} /\ Prepare(e, version[e], hist[e])
  BY DEF Process, Finish
<1>5. (Owns(e) => OwnerUpToDate(e))' /\ SchemasFit(e)'
  BY <1>1, <1>3, <1>4, FinishedOwner, PreparedOwner
<1> QED
  BY <1>1, <1>2, <1>5, SessionStepOwner

\* The owner appends an operation of its pack, which is the head's.
LEMMA CommitAcceptedOwner ==
    ASSUME TypeInv, OwnerInv, NEW e \in Epochs, phase[e] = "committing",
           CommitAccepted(e, Head(mailbox[e])), UNCHANGED <<home, retried, load>>
    PROVE  OwnerInv'
<1> DEFINE o == Head(mailbox[e])
<1> USE DEF TypeInv, TypeOK
<1>1. /\ Owns(e) /\ UNCHANGED head
      /\ log' = Append(log, o)
      /\ phase' = [phase EXCEPT ![e] = "idle"]
      /\ mailbox' = [mailbox EXCEPT ![e] = Tail(@)]
      /\ \A f \in Epochs : f # e => version'[f] = version[f]
  BY DEF CommitAccepted, Finish, SessionTypeOK, sessionVars
<1>2. log \in Seq(Ops) /\ o \in Ops
  BY RunningOperation DEF StoreTypeOK, Shape, Busy
<1>3. o.schema = head.schema /\ PackSchema[home[e]] = head.schema
  BY <1>1 DEF OwnerInv, OwnerUpToDate, SchemasFit, Warmed
<1> HIDE DEF o
<1>4. \A f \in Epochs : f # e => SameSession(f)
  BY <1>1 DEF SameSession, SessionTypeOK
<1>5. phase'[e] = "idle"
  BY <1>1 DEF SessionTypeOK
<1>6. OwnerUpToDate(e)' /\ SchemasFit(e)'
  BY <1>1, <1>3, <1>5 DEF OwnerUpToDate, SchemasFit, Reloading, LoadRead, Warmed, Busy
<1>7. MigrationIsBarrier'
  <2>1. /\ Len(log) \in Nat /\ Len(log') = Len(log) + 1
        /\ log'[Len(log) + 1] = o
        /\ \A v \in 1 .. Len(log) : log'[v] = log[v] /\ v < Len(log) + 1
        /\ \A v \in 1 .. Len(log') : v = Len(log) + 1 \/ v \in 1 .. Len(log)
    BY <1>1, <1>2
  <2>2. o.schema \in Nat
    BY <1>2, OpsAssumption DEF Operation
  <2> QED
    BY <1>1, <1>3, <2>1, <2>2 DEF OwnerInv, MigrationIsBarrier
<1> QED
  BY <1>1, <1>4, <1>6, <1>7, OwnerStepOwner DEF SameOwner

\* A conflict, like every other answer but an acceptance, changes no table.
LEMMA CommitOwner ==
    ASSUME TypeInv, OwnerInv, NEW e \in Epochs, Commit(e)
    PROVE  OwnerInv'
<1> DEFINE o == Head(mailbox[e])
<1> USE DEF TypeInv, TypeOK, SessionTypeOK
<1>1. phase[e] = "committing" /\ Warmed(e) /\ UNCHANGED <<home, retried, load>>
  BY DEF Commit, Warmed
<1>2. CASE CommitAccepted(e, o)
  BY <1>1, <1>2, CommitAcceptedOwner
<1>3. CASE CommitDuplicate(e, o) \/ CommitFenced(e, o)
  <2>1. SameStore /\ UNCHANGED version
    BY <1>3 DEF CommitDuplicate, CommitFenced, SameStore, SameOwner, sessionVars
  <2>2. phase' = [phase EXCEPT ![e] = "idle"] /\ mailbox' = [mailbox EXCEPT ![e] = Tail(@)]
    BY <1>3 DEF CommitDuplicate, CommitFenced, Finish
  <2>3. \A f \in Epochs : f # e => SameSession(f)
    BY <1>1, <2>1, <2>2 DEF SameSession
  <2>4. phase'[e] = "idle"
    BY <2>2
  <2> QED
    BY <1>1, <2>1, <2>3, <2>4, FinishedOwner, SessionStepOwner
<1>4. CASE CommitConflict(e, o)
  <2>1. SameStore /\ UNCHANGED <<version, mailbox>> /\ phase' = [phase EXCEPT ![e] = "conflict"]
    BY <1>4 DEF CommitConflict, SameStore, SameOwner, sessionVars
  <2>2. \A f \in Epochs : f # e => SameSession(f)
    BY <1>1, <2>1 DEF SameSession
  <2>3. phase'[e] = "conflict"
    BY <2>1
  <2>4. (Owns(e) => OwnerUpToDate(e))' /\ SchemasFit(e)'
    BY <1>1, <2>1, <2>3 DEF OwnerInv, SameStore, SameOwner, Owns, OwnerUpToDate, SchemasFit,
                            Reloading, LoadRead, Warmed, Busy, Prior
  <2> QED
    BY <2>1, <2>2, <2>4, SessionStepOwner
<1> QED
  BY <1>2, <1>3, <1>4 DEF Commit

LEMMA RecordRejectionOwner ==
    ASSUME TypeInv, OwnerInv, NEW e \in Epochs, RecordRejection(e)
    PROVE  OwnerInv'
<1> USE DEF TypeInv, TypeOK, SessionTypeOK
<1>1. /\ Warmed(e) /\ UNCHANGED <<log, head, home, version, retried, load>>
      /\ phase' = [phase EXCEPT ![e] = "idle"] /\ mailbox' = [mailbox EXCEPT ![e] = Tail(@)]
  BY DEF RecordRejection, Warmed, Finish, sessionVars
<1>2. \A f \in Epochs : f # e => SameSession(f)
  BY <1>1 DEF SameSession
<1>3. phase'[e] = "idle"
  BY <1>1
<1>4. CASE UNCHANGED receipts
  <2>1. SameStore
    BY <1>1, <1>4 DEF SameStore, SameOwner
  <2> QED
    BY <1>1, <1>2, <1>3, <2>1, FinishedOwner, SessionStepOwner
<1>5. CASE Owns(e)
  <2>1. OwnerUpToDate(e)' /\ SchemasFit(e)'
    BY <1>1, <1>3, <1>5 DEF OwnerInv, OwnerUpToDate, SchemasFit, Reloading, LoadRead, Warmed, Busy
  <2>2. MigrationIsBarrier'
    BY <1>1 DEF OwnerInv, MigrationIsBarrier
  <2> QED
    BY <1>1, <1>2, <1>5, <2>1, <2>2, OwnerStepOwner DEF SameOwner
<1> QED
  BY <1>4, <1>5 DEF RecordRejection

\* reload: the owner has the head's version when it resolves again.
LEMMA ReloadWalOwner ==
    ASSUME TypeInv, OwnerInv, NEW e \in Epochs, ReloadWal(e)
    PROVE  OwnerInv'
<1> USE DEF TypeInv, TypeOK, SessionTypeOK
<1>1. SameStore /\ UNCHANGED home /\ phase[e] = "snapReread" /\ Warmed(e)
  BY DEF ReloadWal, SameStore, SameOwner, Warmed, storeVars, placeVars
<1>2. \A f \in Epochs : f # e => SameSession(f)
  BY <1>1 DEF ReloadWal, Prepare, Finish, SameSession, CallTypeOK
<1>3. version'[e] = load[e].version
  BY DEF ReloadWal
<1>4. \/ phase'[e] = "idle"
      \/ Prepare(e, load[e].version, History(load[e].snap))
  BY DEF ReloadWal, Finish
<1>5. Owns(e) => Prior(Head(mailbox[e]).id) = {} /\ load[e].version = Len(log)
  BY <1>1 DEF OwnerInv, OwnerUpToDate, Reloading, Busy
<1>6. (Owns(e) => OwnerUpToDate(e))' /\ SchemasFit(e)'
  BY <1>1, <1>3, <1>4, <1>5, FinishedOwner, PreparedOwner
<1> QED
  BY <1>1, <1>2, <1>6, SessionStepOwner

LEMMA StoreErrorOwner ==
    ASSUME TypeInv, OwnerInv, NEW e \in Epochs, StoreError(e)
    PROVE  OwnerInv'
<1> USE DEF TypeInv, TypeOK, SessionTypeOK, taskVars
<1>1. SameStore /\ UNCHANGED <<home, version>>
  BY DEF StoreError, SameStore, SameOwner, storeVars, sessionVars
<1>2. \A f \in Epochs : f # e => SameSession(f)
  BY <1>1 DEF StoreError, AbandonActivation, LoadDone, Finish, SameSession, CallTypeOK
<1>3. \/ phase'[e] = "dead"
      \/ phase'[e] = "idle" /\ Warmed(e)
      \/ SameSession(e)
  BY <1>1 DEF StoreError, AbandonActivation, Finish, Warmed, SameSession
<1>4. CASE phase'[e] = "dead"
  <2>1. (Owns(e) => OwnerUpToDate(e))' /\ SchemasFit(e)'
    BY <1>4 DEF OwnerUpToDate, SchemasFit, Reloading, LoadRead, Warmed, Busy
  <2> QED
    BY <1>1, <1>2, <2>1, SessionStepOwner
<1>5. CASE phase'[e] = "idle" /\ Warmed(e)
  BY <1>1, <1>2, <1>5, FinishedOwner, SessionStepOwner
<1>6. CASE SameSession(e)
  BY <1>1, <1>2, <1>6, QuietStepOwner
<1> QED
  BY <1>3, <1>4, <1>5, <1>6

LEMMA CrashOwner ==
    ASSUME TypeInv, OwnerInv, NEW w \in Workers, Crash(w)
    PROVE  OwnerInv'
<1>1. SameStore /\ UNCHANGED <<home, version>>
  BY DEF Crash, SameStore, SameOwner, storeVars, sessionVars
<1>2. \A f \in Epochs : phase'[f] = "dead" \/ SameSession(f)
  BY <1>1 DEF Crash, SameSession
<1>3. \A f \in Epochs : (Owns(f) => OwnerUpToDate(f))' /\ SchemasFit(f)'
  <2> SUFFICES ASSUME NEW f \in Epochs PROVE (Owns(f) => OwnerUpToDate(f))' /\ SchemasFit(f)'
    OBVIOUS
  <2>1. CASE phase'[f] = "dead"
    BY <2>1 DEF OwnerUpToDate, SchemasFit, Reloading, LoadRead, Warmed, Busy
  <2>2. CASE SameSession(f)
    BY <1>1, <2>2, BystanderFits, BystanderUpToDate DEF OwnerInv
  <2> QED
    BY <1>2, <2>1, <2>2
<1>4. MigrationIsBarrier'
  BY <1>1 DEF OwnerInv, SameStore, MigrationIsBarrier
<1> QED
  BY <1>3, <1>4 DEF OwnerInv

\* Steps that take no part: snapshots, the lease, retention, the clients.
LEMMA SnapshotSaved ==
    ASSUME TypeInv, NEW w, SaveSnapshot(w), UNCHANGED <<log, receipts>>
    PROVE  SameStore
BY DEF TypeInv, TypeOK, StoreTypeOK, SaveSnapshot, SameStore, SameOwner

LEMMA AsideOwner ==
    ASSUME TypeInv, OwnerInv,
           \/ \E e \in Epochs : EvictBegin(e) \/ EvictEnd(e)
           \/ \E w \in snapWrites : SnapshotWritten(w)
           \/ \E w \in Workers : RenewFails(w)
           \/ Compact
           \/ \E id \in Expiring : Settle(id)
           \/ UNCHANGED vars
    PROVE  OwnerInv'
<1> USE DEF storeVars, placeVars, sessionVars, taskVars
<1>1. \A f \in Epochs : SameSession(f)
  BY DEF EvictBegin, EvictEnd, SnapshotWritten, RenewFails, Compact, Settle, SameSession, vars
<1>2. SameStore
  <2>1. CASE (\E e \in Epochs : EvictEnd(e)) \/ \E w \in snapWrites : SnapshotWritten(w)
    BY <2>1, SnapshotSaved DEF EvictEnd, SnapshotWritten
  <2> QED
    BY <2>1 DEF EvictBegin, RenewFails, Compact, LiveReceipts, Settle, SameStore, SameOwner, vars
<1> QED
  BY <1>1, <1>2, QuietStepOwner

-----------------------------------------------------------------------------

LEMMA InitOwner == Init => OwnerInv
<1> SUFFICES ASSUME Init PROVE OwnerInv
  OBVIOUS
<1>1. Len(log) = 0 /\ 1 .. 0 = {} /\ \A e \in Epochs : phase[e] = "unused"
  BY DEF Init
<1> QED
  BY <1>1 DEF OwnerInv, OwnerUpToDate, SchemasFit, MigrationIsBarrier, Reloading, LoadRead, Warmed, Busy

LEMMA NextOwner ==
    ASSUME TypeInv, OwnerInv, [Next]_vars
    PROVE  OwnerInv'
BY ActivateOwner, ReadHeadOwner, ReadSnapshotOwner, ReadWalOwner, MigrateOwner, SubmitOwner,
   ProcessOwner, CommitOwner, RecordRejectionOwner, ReloadWalOwner, StoreErrorOwner, CrashOwner,
   AsideOwner
DEF Next, SessionStep

\* What an owner has read of the store is true of it until the owner's next step.
THEOREM OwnersInvariant == Spec => [](TypeInv /\ OwnerInv)
<1>1. Init => TypeInv /\ OwnerInv
  BY InitTypeInv, InitOwner
<1>2. TypeInv /\ OwnerInv /\ [Next]_vars => (TypeInv /\ OwnerInv)'
  BY NextTypeInv, NextOwner
<1> QED
  BY <1>1, <1>2, PTL DEF Spec

\* The owner decides each operation once: between its look for the receipt and
\* its transaction nobody else can have written one.
THEOREM OwnersDecideOnce == Spec => []OwnerDecidesOnce
<1>1. OwnerInv => OwnerDecidesOnce
  BY DEF OwnerInv, OwnerUpToDate, OwnerDecidesOnce, Busy
<1> QED
  BY <1>1, OwnersInvariant, PTL

\* An owner that has reloaded meets no second version conflict.
THEOREM ReloadSuffices == Spec => []OneReloadSuffices
<1>1. OwnerInv => OneReloadSuffices
  BY DEF OwnerInv, OwnerUpToDate, OneReloadSuffices
<1> QED
  BY <1>1, OwnersInvariant, PTL

\* A migration is a barrier in the log, although workers of the old and of the
\* new Domain Pack serve the room side by side.
THEOREM MigrationsAreBarriers == Spec => []MigrationIsBarrier
<1>1. OwnerInv => MigrationIsBarrier
  BY DEF OwnerInv
<1> QED
  BY <1>1, OwnersInvariant, PTL

-----------------------------------------------------------------------------
(* The history a session rebases over.  A session remembers an unbroken    *)
(* stretch of the log that ends at its version: compaction and the limit   *)
(* cut it from below only, and a snapshot moves its start.  So if the      *)
(* stretch begins no later than an operation's base, it holds every        *)
(* operation the author had not seen, and keeps them across the commit.    *)

LoadUnderWay(e) == phase[e] \in {"headRead", "snapRead", "migrating", "headReread", "snapReread"}
Deciding(e)     == phase[e] \in {"committing", "recording"}

Unbroken(h, v) ==
    /\ IsFiniteSet(h)
    /\ \A r \in h : \A k \in Nat : r <= k /\ k <= v => k \in h

RemembersAll(e) == Head(mailbox[e]).base + 1 .. version[e] \subseteq hist[e]

HistorySound(e) ==
    /\ Unbroken(hist[e], version[e])
    /\ LoadUnderWay(e) => load[e].version \in 0 .. Len(log)
    /\ Deciding(e) => RemembersAll(e)

HistoryInv == \A e \in Epochs : HistorySound(e)

\* Forgetting all but the latest leaves no gap.
LEMMA LatestUnbroken ==
    ASSUME NEW S \in SUBSET Nat, NEW v \in Nat, Unbroken(S, v)
    PROVE  Unbroken(Latest(S), v)
<1>1. IsFiniteSet(Latest(S))
  BY FS_Subset DEF Unbroken, Latest
<1>2. ASSUME NEW r \in Latest(S), NEW k \in Nat, r <= k, k <= v
      PROVE  k \in Latest(S)
  <2> DEFINE above(n) == {u \in S : u > n}
  <2>1. r \in S /\ k \in S /\ Cardinality(above(r)) < HistoryLimit
    BY <1>2 DEF Unbroken, Latest
  <2>2. above(k) \subseteq above(r)
    <3>1. \A u \in S : u > k => u > r
      BY <1>2, <2>1
    <3> QED
      BY <3>1
  <2>3. IsFiniteSet(above(r))
    <3>1. above(r) \subseteq S
      OBVIOUS
    <3> QED
      BY <3>1, FS_Subset DEF Unbroken
  <2> HIDE DEF above
  <2>4. /\ Cardinality(above(k)) <= Cardinality(above(r))
        /\ Cardinality(above(k)) \in Nat /\ Cardinality(above(r)) \in Nat
    BY <2>2, <2>3, FS_Subset, FS_CardinalityType
  <2>5. Cardinality(above(k)) < HistoryLimit
    BY <2>1, <2>4, BoundsAssumption
  <2> QED
    BY <2>1, <2>5 DEF Latest, above
<1> QED
  BY <1>1, <1>2 DEF Unbroken

\* The WAL rows above a snapshot have no gap up to any version of the log.
LEMMA HistoryUnbroken ==
    ASSUME StoreTypeOK, NEW n \in Nat, NEW v \in Nat, v <= Len(log)
    PROVE  Unbroken(History(n), v)
<1> DEFINE rows == {row \in WalRows : row > n}
<1>1. Len(log) \in Nat /\ walFloor \in Nat
  BY DEF StoreTypeOK
<1>2. IsFiniteSet(WalRows)
  BY <1>1, FS_Interval DEF WalRows
<1>3. rows \in SUBSET Nat /\ IsFiniteSet(rows)
  BY <1>1, <1>2, FS_Subset DEF WalRows
<1>4. Unbroken(rows, v)
  BY <1>1, <1>3 DEF Unbroken, WalRows
<1> QED
  BY <1>3, <1>4, LatestUnbroken DEF History

\* A commit's own version goes on top of the stretch.
LEMMA CommitUnbroken ==
    ASSUME NEW h \in SUBSET Nat, NEW v \in Nat, Unbroken(h, v)
    PROVE  Unbroken(Latest(h \cup {v + 1}), v + 1)
<1>1. IsFiniteSet(h \cup {v + 1})
  BY FS_AddElement DEF Unbroken
<1>2. Unbroken(h \cup {v + 1}, v + 1)
  BY <1>1 DEF Unbroken
<1> QED
  BY <1>2, LatestUnbroken

\* What the pipeline does not send back, it sees all concurrent operations of.
LEMMA ResolvedOverAll ==
    ASSUME NEW e, NEW o \in Ops, NEW v \in Nat, NEW h \in SUBSET Nat,
           Unbroken(h, v), ~NeedsResync(e, o, v, h)
    PROVE  o.base + 1 .. v \subseteq h
<1>1. o.base \in Nat
  BY OpsAssumption DEF Operation
<1>2. CASE o.base >= v
  BY <1>1, <1>2
<1>3. CASE o.base < v
  <2>1. PICK r \in h : ~(o.base + 1 < r)
    BY <1>3 DEF NeedsResync, HistoryStartsAfter
  <2> QED
    BY <1>1, <2>1 DEF Unbroken
<1> QED
  BY <1>1, <1>2, <1>3

-----------------------------------------------------------------------------

SameHistory(e) == SameSession(e) /\ hist'[e] = hist[e]
LogGrows       == Len(log) \in Nat /\ Len(log') \in Nat /\ Len(log) <= Len(log')

LEMMA BystanderHistory ==
    ASSUME NEW e \in Epochs, HistorySound(e), SameHistory(e), LogGrows
    PROVE  HistorySound(e)'
BY DEF HistorySound, SameHistory, SameSession, LogGrows, LoadUnderWay, Deciding, RemembersAll

\* A step of one session.
LEMMA SessionStepHistory ==
    ASSUME HistoryInv, NEW e \in Epochs, LogGrows,
           \A f \in Epochs : f # e => SameHistory(f),
           HistorySound(e)'
    PROVE  HistoryInv'
BY BystanderHistory DEF HistoryInv

\* A session that decides nothing and loads nothing has only its memory to keep.
LEMMA RestingHistory ==
    ASSUME NEW e \in Epochs, HistorySound(e), version'[e] = version[e], hist'[e] = hist[e],
           phase'[e] \in {"idle", "dead", "claimed", "conflict"}
    PROVE  HistorySound(e)'
BY DEF HistorySound, LoadUnderWay, Deciding

\* prepare: what goes on to be decided was resolved over all it had not seen.
LEMMA PreparedHistory ==
    ASSUME TypeInv, NEW e \in Epochs, mailbox[e] # <<>>,
           NEW v \in Nat, NEW h \in SUBSET Nat, Unbroken(h, v), Prepare(e, v, h),
           version'[e] = v, hist'[e] = h
    PROVE  HistorySound(e)'
<1> USE DEF TypeInv, TypeOK, SessionTypeOK
<1>1. Head(mailbox[e]) \in Ops
  BY RunningOperation
<1>2. CASE phase' = [phase EXCEPT ![e] = "idle"]
  BY <1>2 DEF HistorySound, LoadUnderWay, Deciding
<1>3. CASE /\ ~NeedsResync(e, Head(mailbox[e]), v, h)
           /\ UNCHANGED mailbox
           /\ phase' = [phase EXCEPT ![e] = "recording"] \/ phase' = [phase EXCEPT ![e] = "committing"]
  <2>1. Head(mailbox[e]).base + 1 .. v \subseteq h
    BY <1>1, <1>3, ResolvedOverAll
  <2>2. phase'[e] \in {"recording", "committing"}
    BY <1>3
  <2> QED
    BY <1>3, <2>1, <2>2 DEF HistorySound, LoadUnderWay, Deciding, RemembersAll
<1> QED
  BY <1>2, <1>3 DEF Prepare, Finish

-----------------------------------------------------------------------------

LEMMA ActivateHistory ==
    ASSUME TypeInv, HistoryInv, NEW w \in Workers, Activate(w)
    PROVE  HistoryInv'
<1> USE DEF TypeInv, TypeOK, SessionTypeOK, PlaceTypeOK
<1>1. PICK E \in Epochs :
      /\ UNCHANGED <<log, version, hist, mailbox, retried, load>>
      /\ phase' = [phase EXCEPT ![E] = "claimed"] /\ home' = [home EXCEPT ![E] = w]
  BY DEF Activate, sessionVars, taskVars
<1>2. \A f \in Epochs : f # E => SameHistory(f)
  BY <1>1 DEF SameHistory, SameSession
<1>3. HistorySound(E)'
  <2>1. phase'[E] = "claimed" /\ version'[E] = version[E] /\ hist'[E] = hist[E]
    BY <1>1
  <2> QED
    BY <1>1, <2>1, RestingHistory DEF HistoryInv
<1>4. LogGrows
  BY <1>1 DEF LogGrows, StoreTypeOK
<1> QED
  BY <1>1, <1>2, <1>3, <1>4, SessionStepHistory

LEMMA ReadHistory ==
    ASSUME TypeInv, HistoryInv, NEW e \in Epochs, ReadHead(e) \/ ReadSnapshot(e)
    PROVE  HistoryInv'
<1> USE DEF TypeInv, TypeOK, SessionTypeOK, CallTypeOK, StoreTypeOK
<1>1. UNCHANGED <<log, home, version, hist, mailbox, retried>>
  BY DEF ReadHead, ReadSnapshot, storeVars, placeVars, sessionVars, taskVars
<1>2. \A f \in Epochs : f # e => SameHistory(f)
  BY <1>1 DEF ReadHead, ReadSnapshot, SameHistory, SameSession
<1>3. load'[e].version \in 0 .. Len(log') /\ ~Deciding(e)'
  <2>1. CASE ReadHead(e)
    BY <1>1, <2>1 DEF ReadHead, Deciding
  <2>2. CASE ReadSnapshot(e)
    <3>1. LoadUnderWay(e) /\ load'[e].version = load[e].version
      BY <2>2 DEF ReadSnapshot, LoadUnderWay, Loading
    <3>2. ~Deciding(e)'
      BY <2>2 DEF ReadSnapshot, Deciding
    <3> QED
      BY <1>1, <3>1, <3>2 DEF HistoryInv, HistorySound
  <2> QED
    BY <2>1, <2>2
<1>4. HistorySound(e)'
  BY <1>1, <1>3 DEF HistoryInv, HistorySound
<1>5. LogGrows
  BY <1>1 DEF LogGrows
<1> QED
  BY <1>2, <1>4, <1>5, SessionStepHistory

LEMMA LoadedHistory ==
    ASSUME TypeInv, HistoryInv, NEW e \in Epochs, ReadWal(e) \/ Migrate(e)
    PROVE  HistoryInv'
<1> DEFINE Loaded(rows) == /\ version' = [version EXCEPT ![e] = load[e].version]
                           /\ hist' = [hist EXCEPT ![e] = rows]
                           /\ phase' = [phase EXCEPT ![e] = "idle"]
                           /\ LoadDone(e)
<1> USE DEF TypeInv, TypeOK, SessionTypeOK, CallTypeOK, StoreTypeOK
<1>1. UNCHANGED <<log, home, mailbox, retried>> /\ LoadUnderWay(e)
  BY DEF ReadWal, Migrate, storeVars, taskVars, LoadUnderWay
<1>2. load[e].version \in Nat /\ load[e].snap \in Nat /\ load[e].version <= Len(log)
  BY <1>1 DEF Loading, HistoryInv, HistorySound
<1>3. \/ \E rows \in {History(load[e].snap), {}} : Loaded(rows)
      \/ AbandonActivation(e) /\ UNCHANGED <<version, hist>>
      \/ /\ phase' = [phase EXCEPT ![e] = "migrating"]
         /\ \E d : load' = [load EXCEPT ![e].doc = d]
         /\ UNCHANGED <<version, hist>>
  BY DEF ReadWal, Migrate, Install, sessionVars
<1>7. LogGrows
  BY <1>1 DEF LogGrows
<1>4. CASE \E rows \in {History(load[e].snap), {}} : Loaded(rows)
  <2>1. PICK rows \in {History(load[e].snap), {}} : Loaded(rows)
    BY <1>4
  <2>2. Unbroken(rows, load[e].version)
    BY <1>2, HistoryUnbroken, FS_EmptySet DEF Unbroken
  <2>3. phase'[e] = "idle" /\ version'[e] = load[e].version /\ hist'[e] = rows
    BY <2>1
  <2>4. HistorySound(e)'
    BY <2>2, <2>3 DEF HistorySound, LoadUnderWay, Deciding
  <2>5. \A f \in Epochs : f # e => SameHistory(f)
    BY <1>1, <2>1 DEF LoadDone, SameHistory, SameSession
  <2> QED
    BY <1>1, <2>4, <2>5, <1>7, SessionStepHistory
<1>5. CASE AbandonActivation(e) /\ UNCHANGED <<version, hist>>
  <2>1. HistorySound(e)'
    BY <1>5, RestingHistory DEF AbandonActivation, HistoryInv
  <2>2. \A f \in Epochs : f # e => SameHistory(f)
    BY <1>1, <1>5 DEF AbandonActivation, LoadDone, SameHistory, SameSession
  <2> QED
    BY <1>1, <2>1, <2>2, <1>7, SessionStepHistory
<1>6. CASE /\ phase' = [phase EXCEPT ![e] = "migrating"]
           /\ \E d : load' = [load EXCEPT ![e].doc = d]
           /\ UNCHANGED <<version, hist>>
  <2>1. phase'[e] = "migrating" /\ load'[e].version = load[e].version
    BY <1>6 DEF Loading
  <2>2. HistorySound(e)'
    BY <1>1, <1>2, <1>6, <2>1 DEF HistoryInv, HistorySound, Deciding
  <2>3. \A f \in Epochs : f # e => SameHistory(f)
    BY <1>1, <1>6 DEF SameHistory, SameSession
  <2> QED
    BY <1>1, <2>2, <2>3, <1>7, SessionStepHistory
<1> QED
  BY <1>3, <1>4, <1>5, <1>6

LEMMA SubmitHistory ==
    ASSUME TypeInv, HistoryInv, NEW e \in Epochs, NEW o \in Ops, Submit(e, o)
    PROVE  HistoryInv'
<1> USE DEF TypeInv, TypeOK, Submit, storeVars, placeVars, sessionVars
<1>1. \A f \in Epochs : f # e => SameHistory(f)
  BY DEF SameHistory, SameSession, SessionTypeOK
<1>2. mailbox[e] # <<>> => Head(mailbox'[e]) = Head(mailbox[e])
  BY DEF SessionTypeOK
<1>3. Deciding(e) => RemembersAll(e)'
  BY <1>2 DEF Shape, Busy, Deciding, HistoryInv, HistorySound, RemembersAll
<1>4. HistorySound(e)'
  BY <1>3 DEF HistoryInv, HistorySound, LoadUnderWay, Deciding
<1> QED
  BY <1>1, <1>4, SessionStepHistory DEF LogGrows, StoreTypeOK

LEMMA ProcessHistory ==
    ASSUME TypeInv, HistoryInv, NEW e \in Epochs, Process(e)
    PROVE  HistoryInv'
<1> USE DEF TypeInv, TypeOK, SessionTypeOK
<1>1. UNCHANGED <<log, home, load, version, hist>> /\ mailbox[e] # <<>>
  BY DEF Process, storeVars, placeVars, sessionVars
<1>2. \A f \in Epochs : f # e => SameHistory(f)
  BY <1>1 DEF Process, Prepare, Finish, SameHistory, SameSession
<1>3. phase'[e] = "idle" \/ Prepare(e, version[e], hist[e])
  BY DEF Process, Finish
<1>4. Unbroken(hist[e], version[e])
  BY DEF HistoryInv, HistorySound
<1>5. HistorySound(e)'
  BY <1>1, <1>3, <1>4, RestingHistory, PreparedHistory DEF HistoryInv
<1> QED
  BY <1>1, <1>2, <1>5, SessionStepHistory DEF LogGrows, StoreTypeOK

LEMMA CommitHistory ==
    ASSUME TypeInv, HistoryInv, NEW e \in Epochs, Commit(e)
    PROVE  HistoryInv'
<1> DEFINE o == Head(mailbox[e])
           v == Len(log) + 1
<1> USE DEF TypeInv, TypeOK, SessionTypeOK
<1>1. UNCHANGED <<home, retried, load>> /\ phase[e] = "committing"
  BY DEF Commit
<1>2. \/ /\ UNCHANGED <<log, version, hist>>
         /\ \/ Finish(e)
            \/ phase' = [phase EXCEPT ![e] = "conflict"] /\ UNCHANGED mailbox
      \/ CommitAccepted(e, o)
  BY DEF Commit, CommitDuplicate, CommitFenced, CommitConflict, sessionVars
<1>3. CASE /\ UNCHANGED <<log, version, hist>>
           /\ \/ Finish(e)
              \/ phase' = [phase EXCEPT ![e] = "conflict"] /\ UNCHANGED mailbox
  <2>1. \A f \in Epochs : f # e => SameHistory(f)
    BY <1>1, <1>3 DEF Finish, SameHistory, SameSession
  <2>2. HistorySound(e)'
    BY <1>3, RestingHistory DEF HistoryInv, Finish
  <2> QED
    BY <1>3, <2>1, <2>2, SessionStepHistory DEF LogGrows, StoreTypeOK
<1>4. CASE CommitAccepted(e, o)
  <2>1. /\ version[e] = Len(log) /\ log' = Append(log, o) /\ Finish(e)
        /\ \/ /\ version' = [version EXCEPT ![e] = v]
              /\ hist' = [hist EXCEPT ![e] = Latest(hist[e] \cup {v})]
           \/ UNCHANGED <<version, hist>>
    BY <1>4 DEF CommitAccepted, sessionVars
  <2>2. \A f \in Epochs : f # e => SameHistory(f)
    BY <1>1, <2>1 DEF Finish, SameHistory, SameSession
  <2>3. Unbroken(hist[e], version[e]) /\ hist[e] \in SUBSET Nat /\ Len(log) \in Nat
    BY DEF HistoryInv, HistorySound, StoreTypeOK
  <2>4. Unbroken(Latest(hist[e] \cup {v}), v)
    BY <2>1, <2>3, CommitUnbroken
  <2>5. phase'[e] = "idle" /\ Unbroken(hist'[e], version'[e])
    BY <2>1, <2>3, <2>4 DEF Finish
  <2>6. HistorySound(e)'
    BY <2>5 DEF HistorySound, LoadUnderWay, Deciding
  <2>7. LogGrows
    BY <2>1, <2>3 DEF LogGrows, StoreTypeOK
  <2> QED
    BY <2>2, <2>6, <2>7, SessionStepHistory
<1> QED
  BY <1>2, <1>3, <1>4

LEMMA RecordRejectionHistory ==
    ASSUME TypeInv, HistoryInv, NEW e \in Epochs, RecordRejection(e)
    PROVE  HistoryInv'
<1> USE DEF TypeInv, TypeOK, SessionTypeOK
<1>1. UNCHANGED <<log, home, version, hist, retried, load>> /\ Finish(e)
  BY DEF RecordRejection, sessionVars
<1>2. \A f \in Epochs : f # e => SameHistory(f)
  BY <1>1 DEF Finish, SameHistory, SameSession
<1>3. HistorySound(e)'
  BY <1>1, RestingHistory DEF HistoryInv, Finish
<1> QED
  BY <1>1, <1>2, <1>3, SessionStepHistory DEF LogGrows, StoreTypeOK

\* reload replaces version and memory together, then resolves again.
LEMMA ReloadWalHistory ==
    ASSUME TypeInv, HistoryInv, NEW e \in Epochs, ReloadWal(e)
    PROVE  HistoryInv'
<1> DEFINE rows == History(load[e].snap)
<1> USE DEF TypeInv, TypeOK, SessionTypeOK, CallTypeOK, StoreTypeOK
<1>1. /\ UNCHANGED <<log, home>> /\ LoadUnderWay(e) /\ mailbox[e] # <<>>
      /\ version'[e] = load[e].version /\ hist'[e] = rows
      /\ phase'[e] = "idle" \/ Prepare(e, load[e].version, rows)
  BY DEF ReloadWal, storeVars, placeVars, LoadUnderWay, Shape, Busy, Finish
<1>2. load[e].version \in Nat /\ load[e].snap \in Nat /\ load[e].version <= Len(log)
  BY <1>1 DEF Loading, HistoryInv, HistorySound
<1>3. Unbroken(rows, load[e].version) /\ rows \in SUBSET Nat
  BY <1>2, HistoryUnbroken, HistoryType
<1> HIDE DEF rows
<1>4. HistorySound(e)'
  <2>1. CASE phase'[e] = "idle"
    BY <1>1, <1>3, <2>1 DEF HistorySound, LoadUnderWay, Deciding
  <2>2. CASE Prepare(e, load[e].version, rows)
    BY <1>1, <1>2, <1>3, <2>2, PreparedHistory
  <2> QED
    BY <1>1, <2>1, <2>2
<1>5. \A f \in Epochs : f # e => SameHistory(f)
  BY <1>1 DEF ReloadWal, Prepare, Finish, SameHistory, SameSession
<1> QED
  BY <1>1, <1>4, <1>5, SessionStepHistory DEF LogGrows

LEMMA StoreErrorHistory ==
    ASSUME TypeInv, HistoryInv, NEW e \in Epochs, StoreError(e)
    PROVE  HistoryInv'
<1> USE DEF TypeInv, TypeOK, SessionTypeOK, CallTypeOK, taskVars
<1>1. UNCHANGED <<log, home, version, hist>>
  BY DEF StoreError, storeVars, sessionVars
<1>2. \A f \in Epochs : f # e => SameHistory(f)
  BY <1>1 DEF StoreError, AbandonActivation, LoadDone, Finish, SameHistory, SameSession
<1>3. phase'[e] \in {"dead", "idle"} \/ SameHistory(e)
  BY <1>1 DEF StoreError, AbandonActivation, Finish, SameHistory, SameSession
<1>4. LogGrows
  BY <1>1 DEF LogGrows, StoreTypeOK
<1>5. HistorySound(e)'
  BY <1>1, <1>3, <1>4, RestingHistory, BystanderHistory DEF HistoryInv
<1> QED
  BY <1>2, <1>4, <1>5, SessionStepHistory

LEMMA CrashHistory ==
    ASSUME TypeInv, HistoryInv, NEW w \in Workers, Crash(w)
    PROVE  HistoryInv'
<1>1. UNCHANGED <<log, home, version, hist>>
  BY DEF Crash, storeVars, sessionVars
<1>2. LogGrows
  BY <1>1 DEF LogGrows, TypeInv, TypeOK, StoreTypeOK
<1>3. \A f \in Epochs : phase'[f] = "dead" \/ SameHistory(f)
  BY <1>1 DEF Crash, SameHistory, SameSession
<1> QED
  BY <1>1, <1>2, <1>3, RestingHistory, BystanderHistory DEF HistoryInv

LEMMA AsideHistory ==
    ASSUME TypeInv, HistoryInv,
           \/ \E e \in Epochs : EvictBegin(e) \/ EvictEnd(e)
           \/ \E w \in snapWrites : SnapshotWritten(w)
           \/ \E w \in Workers : RenewFails(w)
           \/ Compact
           \/ \E id \in Expiring : Settle(id)
           \/ UNCHANGED vars
    PROVE  HistoryInv'
<1> USE DEF storeVars, placeVars, sessionVars, taskVars
<1>1. \A f \in Epochs : SameHistory(f)
  BY DEF EvictBegin, EvictEnd, SnapshotWritten, RenewFails, Compact, Settle, SameHistory, SameSession, vars
<1>2. UNCHANGED log
  BY DEF EvictBegin, EvictEnd, SnapshotWritten, RenewFails, Compact, Settle, vars
<1>3. LogGrows
  BY <1>2 DEF LogGrows, TypeInv, TypeOK, StoreTypeOK
<1> QED
  BY <1>1, <1>3, BystanderHistory DEF HistoryInv

-----------------------------------------------------------------------------

LEMMA InitHistory == Init => HistoryInv
BY FS_EmptySet DEF Init, HistoryInv, HistorySound, Unbroken, LoadUnderWay, Deciding

LEMMA NextHistory ==
    ASSUME TypeInv, HistoryInv, [Next]_vars
    PROVE  HistoryInv'
<1>1. TypeInv'
  BY NextTypeInv
<1> QED
  BY <1>1, ActivateHistory, ReadHistory, LoadedHistory, SubmitHistory, ProcessHistory, CommitHistory,
     RecordRejectionHistory, ReloadWalHistory, StoreErrorHistory, CrashHistory, AsideHistory
  DEF Next, SessionStep

\* Every operation that a worker decides is resolved against all operations its
\* author had not seen, whatever limits, snapshots, reloads, migrations and
\* compaction have made of the history the session remembers.
THEOREM HistoriesAreComplete == Spec => []HistoryIsComplete
<1>1. Init => TypeInv /\ HistoryInv
  BY InitTypeInv, InitHistory
<1>2. TypeInv /\ HistoryInv /\ [Next]_vars => (TypeInv /\ HistoryInv)'
  BY NextTypeInv, NextHistory
<1>3. HistoryInv => HistoryIsComplete
  BY DEF HistoryInv, HistorySound, Deciding, RemembersAll, HistoryIsComplete
<1> QED
  BY <1>1, <1>2, <1>3, PTL DEF Spec

====
