---- MODULE RoomWorkersDocuments ----
(***************************************************************************)
(* Proofs that the owner of a room works on the canonical document and     *)
(* that PostgreSQL can always rebuild it, as long as compaction spares the *)
(* snapshots and WAL rows that loads in flight rely on.                    *)
(*                                                                         *)
(* A document that belongs to version v contains everything up to v, and   *)
(* perhaps more: the queries of a load are not one transaction, so what a  *)
(* fenced session loads, and even stores, may be ahead of its label.  That *)
(* is harmless because replay absorbs it, and because only owners commit.  *)
(* The schema of a document can be trusted from the snapshot pointer on:   *)
(* a migration moves the pointer to the head, past everything that was     *)
(* loaded under the older schema.                                          *)
(***************************************************************************)
EXTENDS RoomWorkersProofs

\* d contains a log of n versions up to v, and nothing that is not committed.
Covers(d, v, n) == 1 .. v \subseteq d.applied /\ d.applied \subseteq 1 .. n

\* A document labelled v is in the schema of head h, or is older than its pointer.
Current(d, v, h) == v > h.snap => d.schema = h.schema

PointerSound ==
    /\ walFloor <= head.snap /\ head.snap <= Len(log)
    /\ head.snap \in DOMAIN snapshots
    /\ snapshots[head.snap].schema = head.schema

RowsSound ==
    \A v \in DOMAIN snapshots :
        v <= Len(log) /\ Covers(snapshots[v], v, Len(log)) /\ Current(snapshots[v], v, head)

WriteSound(w, n, h) ==
    w.version <= n /\ Covers(w.doc, w.version, n) /\ Current(w.doc, w.version, h)

WritesSound ==
    /\ \A w \in snapWrites : WriteSound(w, Len(log), head)
    /\ \A e \in Epochs : \A w \in saving[e] : WriteSound(w, Len(log), head)

SessionSound(e) ==
    Warmed(e) =>
        /\ version[e] <= Len(log)
        /\ Covers(doc[e], version[e], Len(log)) /\ Current(doc[e], version[e], head)

HeadWasRead(e) == phase[e] \in {"headRead", "headReread"}
SnapWasRead(e) == phase[e] \in {"snapRead", "snapReread"}

LoadSound(e) ==
    /\ HeadWasRead(e) \/ SnapWasRead(e) =>
          load[e].version <= Len(log) /\ load[e].snap <= load[e].version
    /\ HeadWasRead(e) => Current(snapshots[load[e].snap], load[e].version, head)
    /\ SnapWasRead(e) =>
          Covers(load[e].doc, load[e].snap, Len(log)) /\ Current(load[e].doc, load[e].version, head)
    /\ phase[e] = "migrating" =>
          load[e].version <= Len(log) /\ Covers(load[e].doc, load[e].version, Len(log))

\* What the owner holds and loads is in the schema of the head.
OwnedSound(e) ==
    /\ Warmed(e) => doc[e].schema = head.schema /\ PackSchema[home[e]] = head.schema
    /\ HeadWasRead(e) => load[e].schema = head.schema /\ snapshots[load[e].snap].schema = head.schema
    /\ SnapWasRead(e) => load[e].schema = head.schema /\ load[e].doc.schema = head.schema
    /\ phase[e] = "migrating" =>
          /\ load[e].schema = head.schema /\ head.schema < PackSchema[home[e]]
          /\ load[e].doc.schema = PackSchema[home[e]]

SessionsSound == \A e \in Epochs : SessionSound(e)
LoadsSound    == \A e \in Epochs : LoadSound(e)
OwnerSound    == \A e \in Epochs : Owns(e) => OwnedSound(e)

DocumentInv ==
    PointerSound /\ RowsSound /\ WritesSound /\ SessionsSound /\ LoadsSound /\ OwnerSound

-----------------------------------------------------------------------------
(* Steps that load, store and commit nothing.                              *)

LEMMA FrameStep ==
    ASSUME DocumentInv,
           UNCHANGED <<log, walFloor, snapshots, version, doc>>,
           head'.snap = head.snap, head'.schema = head.schema,
           snapWrites' \subseteq snapWrites,
           \A e \in Epochs : saving'[e] \subseteq saving[e],
           \A e \in Epochs : Warmed(e)' => Warmed(e),
           \A e \in Epochs : HeadWasRead(e)' => HeadWasRead(e) /\ load'[e] = load[e],
           \A e \in Epochs : SnapWasRead(e)' => SnapWasRead(e) /\ load'[e] = load[e],
           \A e \in Epochs : phase'[e] = "migrating" => phase[e] = "migrating" /\ load'[e] = load[e],
           \A e \in Epochs : Owns(e)' => phase'[e] = "claimed" \/ (Owns(e) /\ home'[e] = home[e])
    PROVE  DocumentInv'
<1> USE DEF DocumentInv
<1>1. PointerSound' /\ RowsSound'
  BY DEF PointerSound, RowsSound, Covers, Current
<1>3. WritesSound'
  BY DEF WritesSound, WriteSound, Covers, Current
<1>4. SessionsSound'
  BY DEF SessionsSound, SessionSound, Covers, Current
<1>5. LoadsSound'
  BY DEF LoadsSound, LoadSound, Covers, Current
<1>6. OwnerSound'
  <2> SUFFICES ASSUME NEW e \in Epochs, Owns(e)'
               PROVE  /\ Warmed(e)' => doc'[e].schema = head'.schema /\ PackSchema[home'[e]] = head'.schema
                      /\ HeadWasRead(e)' => load'[e].schema = head'.schema /\ snapshots'[load'[e].snap].schema = head'.schema
                      /\ SnapWasRead(e)' => load'[e].schema = head'.schema /\ load'[e].doc.schema = head'.schema
                      /\ phase'[e] = "migrating" =>
                            /\ load'[e].schema = head'.schema /\ head'.schema < PackSchema[home'[e]]
                            /\ load'[e].doc.schema = PackSchema[home'[e]]
    BY DEF OwnerSound, OwnedSound
  <2>1. CASE phase'[e] = "claimed"
    BY <2>1 DEF Warmed, HeadWasRead, SnapWasRead
  <2>2. CASE Owns(e) /\ home'[e] = home[e]
    BY <2>2 DEF OwnerSound, OwnedSound
  <2> QED
    BY <2>1, <2>2
<1> QED
  BY <1>1, <1>3, <1>4, <1>5, <1>6

\* The running operation of a warm session moves on, or the session does nothing.
LEMMA PhaseStep ==
    ASSUME TypeInv, DocumentInv, NEW e \in Epochs, Warmed(e),
           UNCHANGED <<log, walFloor, head, snapshots, home, version, doc, saving, load, snapWrites>>,
           phase' = phase
             \/ \E p \in {"idle", "committing", "recording", "conflict"} : phase' = [phase EXCEPT ![e] = p]
    PROVE  DocumentInv'
<1>1. \A f \in Epochs : phase'[f] = phase[f]
         \/ (Warmed(f) /\ phase'[f] \in {"idle", "committing", "recording", "conflict"})
  BY DEF TypeInv, TypeOK, SessionTypeOK
<1>2. \A f \in Epochs : Warmed(f)' => Warmed(f)
  BY <1>1 DEF Warmed
<1>3. \A f \in Epochs : HeadWasRead(f)' => HeadWasRead(f)
  BY <1>1 DEF HeadWasRead
<1>4. \A f \in Epochs : SnapWasRead(f)' => SnapWasRead(f)
  BY <1>1 DEF SnapWasRead
<1>5. \A f \in Epochs : phase'[f] = "migrating" => phase[f] = "migrating"
  BY <1>1
<1> QED
  BY <1>2, <1>3, <1>4, <1>5, FrameStep DEF Owns

LEMMA ActivateFrame ==
    ASSUME TypeInv, DocumentInv, NEW w \in Workers, Activate(w)
    PROVE  DocumentInv'
<1> DEFINE E == head.epoch + 1
<1>1. /\ E \in Epochs
      /\ head' = [head EXCEPT !.epoch = E, !.owner = w]
      /\ phase' = [phase EXCEPT ![E] = "claimed"]
      /\ home' = [home EXCEPT ![E] = w]
      /\ UNCHANGED <<log, walFloor, snapshots, version, doc, saving, load, snapWrites>>
  BY DEF Activate, sessionVars
<1>2. head'.epoch = E /\ head'.snap = head.snap /\ head'.schema = head.schema
  <2>1. head \in Heads
    BY DEF TypeInv, TypeOK, StoreTypeOK, Heads
  <2> HIDE DEF E
  <2> QED
    BY <1>1, <2>1, Zenon DEF Heads
<1>3. \A f \in Epochs : IF f = E THEN phase'[f] = "claimed" ELSE phase'[f] = phase[f]
  BY <1>1 DEF TypeInv, TypeOK, SessionTypeOK
<1> HIDE DEF E
<1>4. \A f \in Epochs : Warmed(f)' => Warmed(f)
  BY <1>3 DEF Warmed
<1>5. \A f \in Epochs : HeadWasRead(f)' => HeadWasRead(f)
  BY <1>3 DEF HeadWasRead
<1>6. \A f \in Epochs : SnapWasRead(f)' => SnapWasRead(f)
  BY <1>3 DEF SnapWasRead
<1>7. \A f \in Epochs : phase'[f] = "migrating" => phase[f] = "migrating"
  BY <1>3
<1>8. \A f \in Epochs : Owns(f)' => phase'[f] = "claimed"
  BY <1>2, <1>3 DEF Owns
<1> QED
  BY <1>1, <1>2, <1>4, <1>5, <1>6, <1>7, <1>8, FrameStep

LEMMA CrashFrame ==
    ASSUME TypeInv, DocumentInv, NEW w \in Workers, Crash(w)
    PROVE  DocumentInv'
<1>1. UNCHANGED <<log, walFloor, head, snapshots, home, version, doc, snapWrites>>
  BY DEF Crash, storeVars, sessionVars
<1>2. \A f \in Epochs : phase'[f] = "dead" \/ (phase'[f] = phase[f] /\ load'[f] = load[f])
  BY DEF Crash
<1>3. \A f \in Epochs : saving'[f] \subseteq saving[f]
  BY DEF Crash
<1>4. \A f \in Epochs : Warmed(f)' => Warmed(f)
  BY <1>2 DEF Warmed
<1>5. \A f \in Epochs : HeadWasRead(f)' => HeadWasRead(f) /\ load'[f] = load[f]
  BY <1>2 DEF HeadWasRead
<1>6. \A f \in Epochs : SnapWasRead(f)' => SnapWasRead(f) /\ load'[f] = load[f]
  BY <1>2 DEF SnapWasRead
<1>7. \A f \in Epochs : phase'[f] = "migrating" => phase[f] = "migrating" /\ load'[f] = load[f]
  BY <1>2
<1> QED
  BY <1>1, <1>3, <1>4, <1>5, <1>6, <1>7, FrameStep DEF Owns

LEMMA StoreErrorFrame ==
    ASSUME TypeInv, DocumentInv, NEW e \in Epochs, StoreError(e)
    PROVE  DocumentInv'
<1> USE DEF TypeInv, TypeOK, SessionTypeOK, CallTypeOK
<1>1. UNCHANGED <<log, walFloor, head, snapshots, home, version, doc, snapWrites>>
  BY DEF StoreError, storeVars, sessionVars
<1>2. \A f \in Epochs : \/ phase'[f] = "dead"
                        \/ phase'[f] = "idle" /\ Warmed(f)
                        \/ phase'[f] = phase[f] /\ load'[f] = load[f]
  BY DEF StoreError, AbandonActivation, LoadDone, Finish, Warmed
<1>3. \A f \in Epochs : saving'[f] \subseteq saving[f]
  BY DEF StoreError
<1>4. \A f \in Epochs : Warmed(f)' => Warmed(f)
  BY <1>2 DEF Warmed
<1>5. \A f \in Epochs : HeadWasRead(f)' => HeadWasRead(f) /\ load'[f] = load[f]
  BY <1>2 DEF HeadWasRead
<1>6. \A f \in Epochs : SnapWasRead(f)' => SnapWasRead(f) /\ load'[f] = load[f]
  BY <1>2 DEF SnapWasRead
<1>7. \A f \in Epochs : phase'[f] = "migrating" => phase[f] = "migrating" /\ load'[f] = load[f]
  BY <1>2
<1> QED
  BY <1>1, <1>3, <1>4, <1>5, <1>6, <1>7, FrameStep DEF Owns

\* Submit, RenewFails, Settle and stuttering touch no document.
LEMMA IdleFrame ==
    ASSUME DocumentInv,
           UNCHANGED <<log, walFloor, head, snapshots, home, phase, version, doc, saving, load, snapWrites>>
    PROVE  DocumentInv'
  BY FrameStep DEF Warmed, HeadWasRead, SnapWasRead, Owns

LEMMA ProcessFrame ==
    ASSUME TypeInv, DocumentInv, NEW e \in Epochs, Process(e)
    PROVE  DocumentInv'
<1>1. Warmed(e)
  BY DEF Process, Warmed
<1>2. UNCHANGED <<log, walFloor, head, snapshots, home, version, doc, saving, load, snapWrites>>
  BY DEF Process, storeVars, placeVars, sessionVars
<1>3. phase' = phase
        \/ \E p \in {"idle", "committing", "recording", "conflict"} : phase' = [phase EXCEPT ![e] = p]
  BY DEF Process, Prepare, Finish
<1> QED
  BY <1>1, <1>2, <1>3, PhaseStep

LEMMA RecordRejectionFrame ==
    ASSUME TypeInv, DocumentInv, NEW e \in Epochs, RecordRejection(e)
    PROVE  DocumentInv'
<1>1. Warmed(e) /\ phase' = [phase EXCEPT ![e] = "idle"]
  BY DEF RecordRejection, Warmed, Finish
<1>2. UNCHANGED <<log, walFloor, head, snapshots, home, version, doc, saving, load, snapWrites>>
  BY DEF RecordRejection, sessionVars
<1> QED
  BY <1>1, <1>2, PhaseStep

-----------------------------------------------------------------------------
(* Commits *)

LEMMA CommitAcceptedStep ==
    ASSUME TypeInv, DocumentInv, NEW e \in Epochs, phase[e] = "committing",
           CommitAccepted(e, Head(mailbox[e])),
           UNCHANGED <<walFloor, snapshots, home, saving, load>>
    PROVE  DocumentInv'
<1> DEFINE v == Len(log) + 1
           d == [doc[e] EXCEPT !.applied = @ \cup {v}]
           w == [version |-> v, schema |-> PackSchema[home[e]], doc |-> d]
<1> USE DEF TypeInv, TypeOK
<1>1. /\ Owns(e) /\ version[e] = Len(log)
      /\ log' = Append(log, Head(mailbox[e]))
      /\ phase' = [phase EXCEPT ![e] = "idle"]
      /\ UNCHANGED head
  BY DEF CommitAccepted, Finish
<1>2. log \in Seq(Ops) /\ Head(mailbox[e]) \in Ops
  BY RunningOperation DEF StoreTypeOK, Shape, Busy
<1>3. Len(log') = v /\ Len(log) \in Nat /\ 1 .. Len(log') = 1 .. Len(log) \cup {v}
  BY <1>1, <1>2
<1>4. Warmed(e) /\ e \in DOMAIN doc /\ doc[e] \in Document
  BY DEF Warmed, SessionTypeOK
<1>5. d.applied = doc[e].applied \cup {v} /\ d.schema = doc[e].schema
  BY <1>4 DEF Document
<1>6. w.version = v /\ w.doc = d
  OBVIOUS
<1>7. \/ /\ version' = [version EXCEPT ![e] = v]
         /\ doc' = [doc EXCEPT ![e] = d]
         /\ snapWrites' \subseteq snapWrites \cup {w}
      \/ UNCHANGED <<version, doc, snapWrites>>
  <2>1. CASE /\ version' = [version EXCEPT ![e] = v]
             /\ doc' = [doc EXCEPT ![e] = d]
             /\ snapWrites' \subseteq snapWrites
                    \cup {[version |-> v, schema |-> PackSchema[home[e]], doc |-> doc'[e]]}
    <3>1. doc'[e] = d
      BY <1>4, <2>1
    <3> QED
      BY <2>1, <3>1
  <2>2. CASE UNCHANGED <<version, doc, snapWrites>>
    BY <2>2
  <2> QED
    BY <2>1, <2>2 DEF CommitAccepted, sessionVars
<1> HIDE DEF v, d, w
<1>8. v = Len(log) + 1 /\ head.snap \in Nat /\ head.snap <= Len(log)
  BY DEF v, DocumentInv, PointerSound, StoreTypeOK
<1>9. \A c, u : Covers(c, u, Len(log)) => Covers(c, u, Len(log'))
  BY <1>3 DEF Covers
<1>11. doc[e].schema = head.schema /\ Covers(doc[e], Len(log), Len(log))
  BY <1>1, <1>4 DEF DocumentInv, OwnerSound, OwnedSound, SessionsSound, SessionSound
<1>12. Covers(d, v, Len(log')) /\ Current(d, v, head) /\ v <= Len(log')
  <2>1. Covers(d, v, Len(log'))
    BY <1>3, <1>5, <1>11 DEF Covers
  <2>2. Current(d, v, head)
    BY <1>1, <1>5, <1>11 DEF Current
  <2> QED
    BY <1>3, <1>8, <2>1, <2>2
<1>13. \A u \in Nat : u <= Len(log) => u <= Len(log')
  BY <1>3, <1>8
<1>14. PointerSound' /\ RowsSound'
  <2>1. PointerSound'
    BY <1>1, <1>3, <1>8 DEF DocumentInv, PointerSound
  <2>2. RowsSound'
    BY <1>1, <1>9, <1>13 DEF DocumentInv, RowsSound, StoreTypeOK
  <2> QED
    BY <2>1, <2>2
<1>15. WritesSound'
  <2>1. \A x \in Write : WriteSound(x, Len(log), head) => WriteSound(x, Len(log'), head)
    BY <1>1, <1>9, <1>13 DEF WriteSound, Write
  <2>2. WriteSound(w, Len(log'), head)
    BY <1>6, <1>12 DEF WriteSound
  <2>3. \A x \in snapWrites' : x \in snapWrites \/ x = w
    BY <1>7
  <2>4. \A x \in snapWrites : x \in Write /\ WriteSound(x, Len(log), head)
    BY DEF DocumentInv, WritesSound, CallTypeOK
  <2>5. \A f \in Epochs : \A x \in saving[f] : x \in Write /\ WriteSound(x, Len(log), head)
    BY DEF DocumentInv, WritesSound, CallTypeOK
  <2> QED
    BY <2>1, <2>2, <2>3, <2>4, <2>5, <1>1 DEF WritesSound
<1>16. \A f \in Epochs : phase'[f] = phase[f] \/ (f = e /\ phase'[f] = "idle")
  BY <1>1 DEF SessionTypeOK
<1>17. \A f \in Epochs : \/ version'[f] = version[f] /\ doc'[f] = doc[f]
                         \/ f = e /\ version'[f] = v /\ doc'[f] = d
  BY <1>7 DEF SessionTypeOK
<1>18. \A f \in Epochs : Warmed(f)' => Warmed(f)
  BY <1>4, <1>16 DEF Warmed
<1>19. SessionsSound'
  <2> SUFFICES ASSUME NEW f \in Epochs, Warmed(f)
               PROVE  /\ version'[f] <= Len(log')
                      /\ Covers(doc'[f], version'[f], Len(log')) /\ Current(doc'[f], version'[f], head)
    BY <1>1, <1>18 DEF SessionsSound, SessionSound
  <2>1. version[f] \in Nat /\ version[f] <= Len(log)
        /\ Covers(doc[f], version[f], Len(log)) /\ Current(doc[f], version[f], head)
    BY DEF DocumentInv, SessionsSound, SessionSound, SessionTypeOK
  <2> QED
    BY <1>1, <1>9, <1>12, <1>13, <1>17, <2>1
<1>20. \A f \in Epochs : /\ HeadWasRead(f)' => HeadWasRead(f)
                         /\ SnapWasRead(f)' => SnapWasRead(f)
                         /\ phase'[f] = "migrating" => phase[f] = "migrating"
  BY <1>16 DEF HeadWasRead, SnapWasRead
<1>21. LoadsSound'
  <2>1. \A f \in Epochs : load[f].version \in Nat /\ load[f].snap \in Nat
    BY DEF CallTypeOK, Loading
  <2> QED
    BY <1>1, <1>9, <1>13, <1>20, <2>1 DEF DocumentInv, LoadsSound, LoadSound
<1>22. OwnerSound'
  <2>1. \A f \in Epochs : Owns(f)' = Owns(f)
    BY <1>1 DEF Owns
  <2>2. d.schema = head.schema
    BY <1>5, <1>11
  <2> QED
    BY <1>1, <1>17, <1>18, <1>20, <2>1, <2>2 DEF DocumentInv, OwnerSound, OwnedSound
<1> QED
  BY <1>14, <1>15, <1>19, <1>21, <1>22 DEF DocumentInv

LEMMA CommitStep ==
    ASSUME TypeInv, DocumentInv, NEW e \in Epochs, Commit(e)
    PROVE  DocumentInv'
<1> DEFINE o == Head(mailbox[e])
<1>1. phase[e] = "committing" /\ UNCHANGED <<walFloor, snapshots, home, saving, load>>
  BY DEF Commit
<1>2. CASE CommitAccepted(e, o)
  BY <1>1, <1>2, CommitAcceptedStep
<1>3. CASE CommitDuplicate(e, o) \/ CommitFenced(e, o) \/ CommitConflict(e, o)
  <2>1. UNCHANGED <<log, head, version, doc, snapWrites>>
    BY <1>3 DEF CommitDuplicate, CommitFenced, CommitConflict, sessionVars
  <2>2. \E p \in {"idle", "committing", "recording", "conflict"} : phase' = [phase EXCEPT ![e] = p]
    BY <1>3 DEF CommitDuplicate, CommitFenced, CommitConflict, Finish
  <2> QED
    BY <1>1, <2>1, <2>2, PhaseStep DEF Warmed
<1> QED
  BY <1>2, <1>3 DEF Commit

-----------------------------------------------------------------------------
(* Loads *)

\* A step of one session that leaves PostgreSQL alone has only to be right there.
LEMMA LocalStep ==
    ASSUME DocumentInv, NEW e \in Epochs,
           UNCHANGED <<log, walFloor, head, snapshots, home, saving, snapWrites>>,
           \A f \in Epochs \ {e} : /\ phase'[f] = phase[f] /\ load'[f] = load[f]
                                   /\ version'[f] = version[f] /\ doc'[f] = doc[f],
           SessionSound(e)', LoadSound(e)', Owns(e) => OwnedSound(e)'
    PROVE  DocumentInv'
<1>1. PointerSound' /\ RowsSound' /\ WritesSound'
  BY DEF DocumentInv, PointerSound, RowsSound, WritesSound, WriteSound
<1>2. SessionsSound'
  <2>1. \A f \in Epochs \ {e} : SessionSound(f)'
    BY DEF DocumentInv, SessionsSound, SessionSound, Warmed
  <2> QED
    BY <2>1 DEF SessionsSound
<1>3. LoadsSound'
  <2>1. \A f \in Epochs \ {e} : LoadSound(f)'
    BY DEF DocumentInv, LoadsSound, LoadSound, HeadWasRead, SnapWasRead
  <2> QED
    BY <2>1 DEF LoadsSound
<1>4. OwnerSound'
  <2>1. \A f \in Epochs : Owns(f)' = Owns(f)
    BY DEF Owns
  <2>2. \A f \in Epochs \ {e} : Owns(f) => OwnedSound(f)'
    BY DEF DocumentInv, OwnerSound, OwnedSound, Warmed, HeadWasRead, SnapWasRead
  <2> QED
    BY <2>1, <2>2 DEF OwnerSound
<1> QED
  BY <1>1, <1>2, <1>3, <1>4 DEF DocumentInv

LEMMA ReadHeadStep ==
    ASSUME TypeInv, DocumentInv, NEW e \in Epochs, ReadHead(e)
    PROVE  DocumentInv'
<1> USE DEF TypeInv, TypeOK
<1>1. /\ \/ phase[e] = "claimed" /\ phase' = [phase EXCEPT ![e] = "headRead"]
         \/ phase[e] = "conflict" /\ phase' = [phase EXCEPT ![e] = "headReread"]
      /\ load' = [load EXCEPT ![e] = [version |-> Len(log), snap |-> head.snap,
                                      schema |-> head.schema, doc |-> Blank]]
      /\ UNCHANGED <<log, walFloor, head, snapshots, home, version, doc, saving, snapWrites>>
  BY DEF ReadHead, storeVars, placeVars, sessionVars
<1>2. \A f \in Epochs \ {e} : phase'[f] = phase[f] /\ load'[f] = load[f]
  BY <1>1 DEF SessionTypeOK, CallTypeOK
<1>3. /\ load'[e].version = Len(log) /\ load'[e].snap = head.snap /\ load'[e].schema = head.schema
      /\ phase'[e] \in {"headRead", "headReread"}
      /\ Warmed(e)' => Warmed(e)
  BY <1>1 DEF SessionTypeOK, CallTypeOK, Warmed
<1>4. SessionSound(e)'
  BY <1>1, <1>3 DEF DocumentInv, SessionsSound, SessionSound
<1>5. LoadSound(e)'
  <2>1. Len(log) \in Nat /\ head.snap <= Len(log) /\ snapshots[head.snap].schema = head.schema
    BY DEF StoreTypeOK, DocumentInv, PointerSound
  <2> QED
    BY <1>1, <1>3, <2>1 DEF LoadSound, HeadWasRead, SnapWasRead, Current
<1>6. Owns(e) => OwnedSound(e)'
  <2>1. snapshots[head.snap].schema = head.schema
    BY DEF DocumentInv, PointerSound
  <2>2. Owns(e) /\ Warmed(e) => doc[e].schema = head.schema /\ PackSchema[home[e]] = head.schema
    BY DEF DocumentInv, OwnerSound, OwnedSound
  <2> QED
    BY <1>1, <1>3, <2>1, <2>2 DEF OwnedSound, HeadWasRead, SnapWasRead
<1> QED
  BY <1>1, <1>2, <1>4, <1>5, <1>6, LocalStep

LEMMA ReadSnapshotStep ==
    ASSUME TypeInv, DocumentInv, NEW e \in Epochs, ReadSnapshot(e)
    PROVE  DocumentInv'
<1> USE DEF TypeInv, TypeOK
<1>1. /\ \/ phase[e] = "headRead" /\ phase' = [phase EXCEPT ![e] = "snapRead"]
         \/ phase[e] = "headReread" /\ phase' = [phase EXCEPT ![e] = "snapReread"]
      /\ load[e].snap \in DOMAIN snapshots
      /\ load' = [load EXCEPT ![e] = [load[e] EXCEPT !.doc = snapshots[load[e].snap]]]
      /\ UNCHANGED <<log, walFloor, head, snapshots, home, version, doc, saving, snapWrites>>
  BY DEF ReadSnapshot, storeVars, placeVars, sessionVars
<1>2. \A f \in Epochs \ {e} : phase'[f] = phase[f] /\ load'[f] = load[f]
  BY <1>1 DEF SessionTypeOK, CallTypeOK
<1>3. /\ load'[e].version = load[e].version /\ load'[e].snap = load[e].snap
      /\ load'[e].schema = load[e].schema /\ load'[e].doc = snapshots[load[e].snap]
      /\ phase'[e] \in {"snapRead", "snapReread"} /\ HeadWasRead(e)
      /\ Warmed(e)' => Warmed(e)
  BY <1>1 DEF SessionTypeOK, CallTypeOK, Loading, Warmed, HeadWasRead
<1>4. SessionSound(e)'
  BY <1>1, <1>3 DEF DocumentInv, SessionsSound, SessionSound
<1>5. LoadSound(e)'
  <2>1. Covers(snapshots[load[e].snap], load[e].snap, Len(log))
    BY <1>1 DEF DocumentInv, RowsSound
  <2> QED
    BY <1>1, <1>3, <2>1 DEF DocumentInv, LoadsSound, LoadSound, HeadWasRead, SnapWasRead
<1>6. Owns(e) => OwnedSound(e)'
  BY <1>1, <1>3 DEF DocumentInv, OwnerSound, OwnedSound, HeadWasRead, SnapWasRead
<1> QED
  BY <1>1, <1>2, <1>4, <1>5, <1>6, LocalStep

\* A load that compaction spares ends with the whole log.
LEMMA ReplayCovers ==
    ASSUME TypeInv, DocumentInv, CompactionSparesLoaders, NEW e \in Epochs, SnapWasRead(e)
    PROVE  LET d == Replayed(load[e].doc, load[e].snap)
           IN  /\ d \in Document /\ d.applied = 1 .. Len(log) /\ d.schema = load[e].doc.schema
               /\ Covers(d, load[e].version, Len(log))
<1> DEFINE d == Replayed(load[e].doc, load[e].snap)
<1>1. /\ load[e].doc \in Document /\ load[e].snap \in Nat /\ load[e].version \in Nat
      /\ walFloor \in Nat /\ Len(log) \in Nat
  BY DEF TypeInv, TypeOK, StoreTypeOK, CallTypeOK, Loading
<1>2. /\ d \in Document /\ d.schema = load[e].doc.schema
      /\ d.applied = load[e].doc.applied \cup {row \in WalRows : row > load[e].snap}
  BY <1>1, ReplayedType DEF Replayed, Document, TypeInv, TypeOK
<1>3. /\ walFloor <= load[e].snap /\ load[e].version <= Len(log)
      /\ Covers(load[e].doc, load[e].snap, Len(log))
  BY DEF CompactionSparesLoaders, DocumentInv, LoadsSound, LoadSound, SnapWasRead
<1>4. d.applied = 1 .. Len(log)
  BY <1>1, <1>2, <1>3 DEF Covers, WalRows
<1> QED
  BY <1>1, <1>2, <1>3, <1>4 DEF Covers

LEMMA ReadWalStep ==
    ASSUME TypeInv, DocumentInv, CompactionSparesLoaders, NEW e \in Epochs, ReadWal(e)
    PROVE  DocumentInv'
<1> DEFINE pack == PackSchema[home[e]]
           d    == Replayed(load[e].doc, load[e].snap)
           m    == [d EXCEPT !.schema = pack]
<1> USE DEF TypeInv, TypeOK
<1>1. /\ phase[e] = "snapRead"
      /\ UNCHANGED <<log, walFloor, head, snapshots, home, saving, snapWrites>>
      /\ \/ load[e].schema = pack /\ Install(e, d, History(load[e].snap))
         \/ /\ load[e].schema < pack
            /\ phase' = [phase EXCEPT ![e] = "migrating"]
            /\ load' = [load EXCEPT ![e] = [load[e] EXCEPT !.doc = m]]
            /\ UNCHANGED <<version, doc>>
         \/ AbandonActivation(e) /\ UNCHANGED <<version, doc>>
  BY DEF ReadWal, storeVars, sessionVars
<1>2. SnapWasRead(e)
  BY <1>1 DEF SnapWasRead
<1>3. /\ d \in Document /\ d.schema = load[e].doc.schema /\ Covers(d, load[e].version, Len(log))
      /\ load[e].version <= Len(log) /\ Current(d, load[e].version, head)
      /\ Owns(e) => load[e].schema = head.schema /\ d.schema = head.schema
  BY <1>2, ReplayCovers DEF DocumentInv, LoadsSound, LoadSound, OwnerSound, OwnedSound, Current
<1>4. m.applied = d.applied /\ m.schema = pack
  BY <1>3 DEF Document
<1> HIDE DEF d, m, pack
<1>5. \A f \in Epochs \ {e} : /\ phase'[f] = phase[f] /\ load'[f] = load[f]
                              /\ version'[f] = version[f] /\ doc'[f] = doc[f]
  BY <1>1 DEF Install, AbandonActivation, LoadDone, SessionTypeOK, CallTypeOK
<1>6. CASE load[e].schema = pack /\ Install(e, d, History(load[e].snap))
  <2>1. phase'[e] = "idle" /\ version'[e] = load[e].version /\ doc'[e] = d
    BY <1>6 DEF Install, SessionTypeOK
  <2>2. SessionSound(e)' /\ LoadSound(e)'
    BY <1>1, <1>3, <2>1 DEF SessionSound, LoadSound, HeadWasRead, SnapWasRead
  <2>3. Owns(e) => OwnedSound(e)'
    BY <1>1, <1>3, <1>6, <2>1 DEF OwnedSound, HeadWasRead, SnapWasRead, pack
  <2> QED
    BY <1>1, <1>5, <2>2, <2>3, LocalStep
<1>7. CASE /\ load[e].schema < pack
           /\ phase' = [phase EXCEPT ![e] = "migrating"]
           /\ load' = [load EXCEPT ![e] = [load[e] EXCEPT !.doc = m]]
           /\ UNCHANGED <<version, doc>>
  <2>1. /\ phase'[e] = "migrating" /\ load'[e].version = load[e].version
        /\ load'[e].schema = load[e].schema /\ load'[e].doc = m
    BY <1>7 DEF SessionTypeOK, CallTypeOK, Loading
  <2>2. SessionSound(e)'
    BY <2>1 DEF SessionSound, Warmed
  <2>3. LoadSound(e)'
    BY <1>1, <1>3, <1>4, <2>1 DEF LoadSound, HeadWasRead, SnapWasRead, Covers
  <2>4. Owns(e) => OwnedSound(e)'
    BY <1>1, <1>3, <1>4, <1>7, <2>1 DEF OwnedSound, Warmed, HeadWasRead, SnapWasRead, pack
  <2> QED
    BY <1>1, <1>5, <2>2, <2>3, <2>4, LocalStep
<1>8. CASE AbandonActivation(e) /\ UNCHANGED <<version, doc>>
  <2>1. phase'[e] = "dead"
    BY <1>8 DEF AbandonActivation, SessionTypeOK
  <2>2. SessionSound(e)' /\ LoadSound(e)' /\ OwnedSound(e)'
    BY <2>1 DEF SessionSound, LoadSound, OwnedSound, Warmed, HeadWasRead, SnapWasRead
  <2> QED
    BY <1>1, <1>5, <2>2, LocalStep
<1> QED
  BY <1>1, <1>6, <1>7, <1>8

LEMMA ReloadWalStep ==
    ASSUME TypeInv, DocumentInv, CompactionSparesLoaders, NEW e \in Epochs, ReloadWal(e)
    PROVE  DocumentInv'
<1> DEFINE d == Replayed(load[e].doc, load[e].snap)
<1> USE DEF TypeInv, TypeOK
<1>1. /\ phase[e] = "snapReread"
      /\ UNCHANGED <<log, walFloor, head, snapshots, home, saving, snapWrites>>
      /\ version' = [version EXCEPT ![e] = load[e].version]
      /\ doc' = [doc EXCEPT ![e] = d]
      /\ load' = [load EXCEPT ![e] = NoLoad]
      /\ \/ phase' = [phase EXCEPT ![e] = "idle"]
         \/ phase' = [phase EXCEPT ![e] = "recording"]
         \/ phase' = [phase EXCEPT ![e] = "committing"]
  BY DEF ReloadWal, Finish, Prepare, storeVars, placeVars
<1>2. SnapWasRead(e) /\ Warmed(e)
  BY <1>1 DEF SnapWasRead, Warmed
<1>3. /\ d.schema = load[e].doc.schema /\ Covers(d, load[e].version, Len(log))
      /\ load[e].version <= Len(log) /\ Current(d, load[e].version, head)
      /\ Owns(e) => d.schema = head.schema /\ PackSchema[home[e]] = head.schema
  BY <1>2, ReplayCovers DEF DocumentInv, LoadsSound, LoadSound, OwnerSound, OwnedSound, Current
<1> HIDE DEF d
<1>4. \A f \in Epochs \ {e} : /\ phase'[f] = phase[f] /\ load'[f] = load[f]
                              /\ version'[f] = version[f] /\ doc'[f] = doc[f]
  BY <1>1 DEF SessionTypeOK, CallTypeOK
<1>5. /\ version'[e] = load[e].version /\ doc'[e] = d
      /\ phase'[e] \in {"idle", "recording", "committing"}
  BY <1>1 DEF SessionTypeOK
<1>6. SessionSound(e)' /\ LoadSound(e)'
  BY <1>1, <1>3, <1>5 DEF SessionSound, LoadSound, HeadWasRead, SnapWasRead
<1>7. Owns(e) => OwnedSound(e)'
  BY <1>1, <1>3, <1>5 DEF OwnedSound, HeadWasRead, SnapWasRead
<1> QED
  BY <1>1, <1>4, <1>6, <1>7, LocalStep

\* Migration by the owner: head, snapshot and session change together.
LEMMA MigratedStep ==
    ASSUME TypeInv, DocumentInv, NEW e \in Epochs, phase[e] = "migrating", Owns(e),
           load[e].version = Len(log),
           snapshots' = [v \in DOMAIN snapshots \cup {Len(log)} |->
                            IF v = Len(log) THEN load[e].doc ELSE snapshots[v]],
           head' = [head EXCEPT !.schema = PackSchema[home[e]], !.snap = Len(log)],
           Install(e, load[e].doc, {}),
           UNCHANGED <<log, walFloor, home, saving, snapWrites>>
    PROVE  DocumentInv'
<1> DEFINE n == Len(log)
           pack == PackSchema[home[e]]
<1> USE DEF TypeInv, TypeOK
<1>1. /\ n \in Nat /\ head'.snap = n /\ head'.schema = pack
      /\ head'.epoch = head.epoch /\ head'.owner = head.owner
  <2>1. head \in Heads
    BY DEF StoreTypeOK, Heads
  <2>2. n \in Nat
    BY DEF StoreTypeOK
  <2> HIDE DEF n, pack
  <2>3. head' = [head EXCEPT !.schema = pack, !.snap = n]
    BY DEF n, pack
  <2> QED
    BY <2>1, <2>2, <2>3, Zenon DEF Heads
<1>2. Covers(load[e].doc, n, n) /\ load[e].doc.schema = pack
  BY DEF DocumentInv, LoadsSound, LoadSound, OwnerSound, OwnedSound
<1>3. /\ phase'[e] = "idle" /\ version'[e] = n /\ doc'[e] = load[e].doc
      /\ \A f \in Epochs \ {e} : /\ phase'[f] = phase[f] /\ load'[f] = load[f]
                                 /\ version'[f] = version[f] /\ doc'[f] = doc[f]
  BY DEF Install, LoadDone, SessionTypeOK, CallTypeOK
<1>4. /\ DOMAIN snapshots' = DOMAIN snapshots \cup {n}
      /\ snapshots'[n] = load[e].doc
      /\ \A v \in DOMAIN snapshots \ {n} : snapshots'[v] = snapshots[v]
  OBVIOUS
<1> HIDE DEF n, pack
<1>5. n = Len(log)
  BY DEF n
<1>6. \A c : \A v \in Nat : v <= n => Current(c, v, head')
  BY <1>1 DEF Current
<1>7. PointerSound'
  BY <1>1, <1>2, <1>4, <1>5 DEF DocumentInv, PointerSound, StoreTypeOK
<1>8. RowsSound'
  <2> SUFFICES ASSUME NEW v \in DOMAIN snapshots'
               PROVE  v <= n /\ Covers(snapshots'[v], v, n) /\ Current(snapshots'[v], v, head')
    BY <1>5 DEF RowsSound
  <2>1. v <= n /\ Covers(snapshots'[v], v, n) /\ v \in Nat
    BY <1>1, <1>2, <1>4, <1>5 DEF DocumentInv, RowsSound, StoreTypeOK
  <2> QED
    BY <1>6, <2>1
<1>9. WritesSound'
  <2>1. \A w \in Write : WriteSound(w, n, head) => WriteSound(w, n, head')
    BY <1>6 DEF WriteSound, Write
  <2>2. \A w \in snapWrites : w \in Write /\ WriteSound(w, n, head)
    BY <1>5 DEF DocumentInv, WritesSound, CallTypeOK
  <2>3. \A f \in Epochs : \A w \in saving[f] : w \in Write /\ WriteSound(w, n, head)
    BY <1>5 DEF DocumentInv, WritesSound, CallTypeOK
  <2> QED
    BY <1>5, <2>1, <2>2, <2>3 DEF WritesSound
<1>10. SessionsSound'
  <2> SUFFICES ASSUME NEW f \in Epochs PROVE SessionSound(f)'
    BY DEF SessionsSound
  <2>1. CASE f = e
    BY <1>1, <1>2, <1>3, <1>5, <1>6, <2>1 DEF SessionSound
  <2>2. CASE f # e
    <3>1. version[f] \in Nat /\ SessionSound(f) /\ (Warmed(f)' <=> Warmed(f))
      BY <1>3, <2>2 DEF DocumentInv, SessionsSound, SessionTypeOK, Warmed
    <3> QED
      BY <1>3, <1>5, <1>6, <2>2, <3>1 DEF SessionSound
  <2> QED
    BY <2>1, <2>2
<1>11. LoadsSound'
  <2> SUFFICES ASSUME NEW f \in Epochs PROVE LoadSound(f)'
    BY DEF LoadsSound
  <2>1. CASE f = e
    BY <1>3, <2>1 DEF LoadSound, HeadWasRead, SnapWasRead
  <2>2. CASE f # e
    <3>1. load[f].version \in Nat /\ LoadSound(f)
      BY DEF DocumentInv, LoadsSound, CallTypeOK, Loading
    <3> QED
      BY <1>3, <1>5, <1>6, <2>2, <3>1 DEF LoadSound, HeadWasRead, SnapWasRead
  <2> QED
    BY <2>1, <2>2
<1>12. OwnerSound'
  <2> SUFFICES ASSUME NEW f \in Epochs, Owns(f)' PROVE OwnedSound(f)'
    BY DEF OwnerSound
  <2>1. f = e
    BY <1>1 DEF Owns
  <2> QED
    BY <1>1, <1>2, <1>3, <2>1 DEF OwnedSound, HeadWasRead, SnapWasRead, pack
<1> QED
  BY <1>7, <1>8, <1>9, <1>10, <1>11, <1>12 DEF DocumentInv

LEMMA MigrateStep ==
    ASSUME TypeInv, DocumentInv, NEW e \in Epochs, Migrate(e)
    PROVE  DocumentInv'
<1> USE DEF TypeInv, TypeOK
<1>1. phase[e] = "migrating" /\ UNCHANGED <<log, walFloor, home, saving, snapWrites>>
  BY DEF Migrate
<1>2. Owns(e) => load[e].schema = head.schema
  BY <1>1 DEF DocumentInv, OwnerSound, OwnedSound
<1>3. CASE /\ Owns(e) /\ load[e].version = Len(log)
           /\ snapshots' = [v \in DOMAIN snapshots \cup {Len(log)} |->
                               IF v = Len(log) THEN load[e].doc ELSE snapshots[v]]
           /\ head' = [head EXCEPT !.schema = PackSchema[home[e]], !.snap = Len(log)]
           /\ Install(e, load[e].doc, {})
  BY <1>1, <1>3, MigratedStep
<1>4. CASE AbandonActivation(e) /\ UNCHANGED <<snapshots, head, version, doc>>
  <2>1. phase'[e] = "dead"
    BY <1>4 DEF AbandonActivation, SessionTypeOK
  <2>2. \A f \in Epochs \ {e} : phase'[f] = phase[f] /\ load'[f] = load[f]
    BY <1>4 DEF AbandonActivation, LoadDone, SessionTypeOK, CallTypeOK
  <2>3. SessionSound(e)' /\ LoadSound(e)' /\ OwnedSound(e)'
    BY <2>1 DEF SessionSound, LoadSound, OwnedSound, Warmed, HeadWasRead, SnapWasRead
  <2> QED
    BY <1>1, <1>4, <2>2, <2>3, LocalStep
<1> QED
  BY <1>2, <1>3, <1>4 DEF Migrate, sessionVars

-----------------------------------------------------------------------------
(* Snapshots and compaction *)

LEMMA EvictBeginStep ==
    ASSUME TypeInv, DocumentInv, NEW e \in Epochs, EvictBegin(e)
    PROVE  DocumentInv'
<1> USE DEF TypeInv, TypeOK
<1>1. /\ UNCHANGED <<log, walFloor, head, snapshots, home, phase, version, doc, load, snapWrites>>
      /\ saving' = [saving EXCEPT ![e] = @ \cup {Snapshot(e)}]
  BY DEF EvictBegin, storeVars, placeVars, sessionVars
<1>2. Warmed(e)
  BY DEF EvictBegin, Idle, IsWarm, Shape, Epochs
<1>3. WriteSound(Snapshot(e), Len(log), head)
  BY <1>2 DEF Snapshot, WriteSound, DocumentInv, SessionsSound, SessionSound
<1>4. \A f \in Epochs : \A w \in saving'[f] : w \in saving[f] \/ w = Snapshot(e)
  BY <1>1 DEF CallTypeOK
<1>5. WritesSound'
  BY <1>1, <1>3, <1>4 DEF DocumentInv, WritesSound
<1>6. PointerSound' /\ RowsSound' /\ SessionsSound' /\ LoadsSound' /\ OwnerSound'
  BY <1>1 DEF DocumentInv, PointerSound, RowsSound, SessionsSound, SessionSound, LoadsSound, LoadSound,
              OwnerSound, OwnedSound, Warmed, HeadWasRead, SnapWasRead, Owns
<1> QED
  BY <1>5, <1>6 DEF DocumentInv

\* A stored snapshot adds a row that is sound, or changes none, and may move
\* the pointer forward to a row in the schema of the head.
LEMMA SaveSnapshotStep ==
    ASSUME TypeInv, DocumentInv, CompactionSparesLoaders,
           NEW w \in Write, WriteSound(w, Len(log), head), SaveSnapshot(w),
           UNCHANGED <<log, walFloor, home, phase, version, doc, load>>,
           snapWrites' \subseteq snapWrites,
           \A f \in Epochs : saving'[f] \subseteq saving[f]
    PROVE  DocumentInv'
<1> DEFINE n == Len(log)
<1> USE DEF TypeInv, TypeOK
<1>1. /\ DOMAIN snapshots' = DOMAIN snapshots \cup {w.version}
      /\ \A v \in DOMAIN snapshots : snapshots'[v] = snapshots[v]
      /\ w.version \notin DOMAIN snapshots => snapshots'[w.version] = w.doc
  BY DEF SaveSnapshot
<1>2. /\ w.version \in Nat /\ n \in Nat /\ head.snap \in Nat /\ head \in Heads
      /\ DOMAIN snapshots \subseteq Nat
  BY DEF StoreTypeOK, Write, Heads
<1>3. /\ head'.epoch = head.epoch /\ head'.owner = head.owner /\ head'.schema = head.schema
      /\ head'.snap = head.snap \/ (head'.snap = w.version /\ head.snap < w.version)
  BY <1>2 DEF SaveSnapshot, Heads
<1>4. /\ w.version <= n /\ Covers(w.doc, w.version, n) /\ Current(w.doc, w.version, head)
  BY DEF WriteSound
<1> HIDE DEF n
<1>5. n = Len(log) /\ n = Len(log')
  BY DEF n
<1>6. head'.snap \in Nat /\ head.snap <= head'.snap
  BY <1>2, <1>3
<1>7. \A c : \A v \in Nat : Current(c, v, head) => Current(c, v, head')
  BY <1>2, <1>3, <1>6 DEF Current
<1>8. \A v \in DOMAIN snapshots' : v <= n /\ Covers(snapshots'[v], v, n) /\ Current(snapshots'[v], v, head)
  <2> SUFFICES ASSUME NEW v \in DOMAIN snapshots'
               PROVE  v <= n /\ Covers(snapshots'[v], v, n) /\ Current(snapshots'[v], v, head)
    OBVIOUS
  <2>1. CASE v \in DOMAIN snapshots
    BY <1>1, <1>5, <2>1 DEF DocumentInv, RowsSound
  <2>2. CASE v \notin DOMAIN snapshots
    BY <1>1, <1>4, <2>2
  <2> QED
    BY <2>1, <2>2
<1>9. RowsSound'
  <2>1. DOMAIN snapshots' \subseteq Nat
    BY <1>1, <1>2
  <2> QED
    BY <1>5, <1>7, <1>8, <2>1 DEF RowsSound
<1>10. PointerSound'
  <2>1. walFloor' <= head'.snap
    BY <1>2, <1>6 DEF DocumentInv, PointerSound, StoreTypeOK
  <2>2. CASE head'.snap = head.snap
    BY <1>1, <1>3, <1>5, <2>1, <2>2 DEF DocumentInv, PointerSound
  <2>3. CASE head'.snap = w.version /\ head.snap < w.version
    BY <1>1, <1>3, <1>4, <1>5, <1>8, <2>1, <2>3 DEF PointerSound, Current
  <2> QED
    BY <1>3, <2>2, <2>3
<1>11. WritesSound'
  <2>1. \A x \in Write : WriteSound(x, n, head) => WriteSound(x, n, head')
    BY <1>7 DEF WriteSound, Write
  <2>2. \A x \in snapWrites : x \in Write /\ WriteSound(x, n, head)
    BY <1>5 DEF DocumentInv, WritesSound, CallTypeOK
  <2>3. \A f \in Epochs : \A x \in saving[f] : x \in Write /\ WriteSound(x, n, head)
    BY <1>5 DEF DocumentInv, WritesSound, CallTypeOK
  <2> QED
    BY <1>5, <2>1, <2>2, <2>3 DEF WritesSound
<1>12. SessionsSound'
  <2> SUFFICES ASSUME NEW f \in Epochs PROVE SessionSound(f)'
    BY DEF SessionsSound
  <2>1. version[f] \in Nat /\ SessionSound(f)
    BY DEF DocumentInv, SessionsSound, SessionTypeOK
  <2> QED
    BY <1>7, <2>1 DEF SessionSound, Warmed
<1>13. \A f \in Epochs : HeadWasRead(f) => load[f].snap \in DOMAIN snapshots
  BY DEF CompactionSparesLoaders, HeadWasRead
<1>14. LoadsSound'
  <2> SUFFICES ASSUME NEW f \in Epochs PROVE LoadSound(f)'
    BY DEF LoadsSound
  <2>1. load[f].version \in Nat /\ LoadSound(f)
    BY DEF DocumentInv, LoadsSound, CallTypeOK, Loading
  <2>2. HeadWasRead(f) => snapshots'[load[f].snap] = snapshots[load[f].snap]
    BY <1>1, <1>13
  <2> QED
    BY <1>7, <2>1, <2>2 DEF LoadSound, HeadWasRead, SnapWasRead
<1>15. OwnerSound'
  <2>1. \A f \in Epochs : Owns(f)' = Owns(f)
    BY <1>3 DEF Owns
  <2>2. \A f \in Epochs : HeadWasRead(f) => snapshots'[load[f].snap] = snapshots[load[f].snap]
    BY <1>1, <1>13
  <2> QED
    BY <1>3, <2>1, <2>2 DEF DocumentInv, OwnerSound, OwnedSound, Warmed, HeadWasRead, SnapWasRead
<1> QED
  BY <1>9, <1>10, <1>11, <1>12, <1>14, <1>15 DEF DocumentInv

LEMMA EvictEndStep ==
    ASSUME TypeInv, DocumentInv, CompactionSparesLoaders, NEW e \in Epochs, EvictEnd(e)
    PROVE  DocumentInv'
<1>1. PICK w \in saving[e] : SaveSnapshot(w) /\ saving' = [saving EXCEPT ![e] = @ \ {w}]
  BY DEF EvictEnd
<1>2. w \in Write /\ WriteSound(w, Len(log), head)
  BY <1>1 DEF TypeInv, TypeOK, CallTypeOK, DocumentInv, WritesSound
<1>3. UNCHANGED <<log, walFloor, home, phase, version, doc, load, snapWrites>>
  BY DEF EvictEnd, sessionVars
<1>4. \A f \in Epochs : saving'[f] \subseteq saving[f]
  BY <1>1 DEF TypeInv, TypeOK, CallTypeOK
<1> QED
  BY <1>1, <1>2, <1>3, <1>4, SaveSnapshotStep

LEMMA SnapshotWrittenStep ==
    ASSUME TypeInv, DocumentInv, CompactionSparesLoaders, NEW w \in snapWrites, SnapshotWritten(w)
    PROVE  DocumentInv'
<1>1. w \in Write /\ WriteSound(w, Len(log), head)
  BY DEF TypeInv, TypeOK, CallTypeOK, DocumentInv, WritesSound
<1>2. /\ SaveSnapshot(w) /\ snapWrites' \subseteq snapWrites
      /\ UNCHANGED <<log, walFloor, home, phase, version, doc, load, saving>>
  BY DEF SnapshotWritten, placeVars, sessionVars
<1> QED
  BY <1>1, <1>2, SaveSnapshotStep

LEMMA CompactStep ==
    ASSUME TypeInv, DocumentInv, CompactionSparesLoaders', Compact
    PROVE  DocumentInv'
<1> DEFINE below == IF Len(log) > WalVersions THEN Len(log) - WalVersions ELSE 0
<1> USE DEF TypeInv, TypeOK
<1>1. /\ walFloor' = Larger(walFloor, Smaller(head.snap, below))
      /\ UNCHANGED <<log, head, home, phase, version, doc, saving, load, snapWrites>>
  BY DEF Compact, LiveReceipts, KeptSnapshots, placeVars, sessionVars
<1>2. PICK kept \in SUBSET DOMAIN snapshots :
          head.snap \in kept /\ snapshots' = [v \in kept |-> snapshots[v]]
  BY DEF Compact, LiveReceipts, KeptSnapshots, DocumentInv, PointerSound
<1>3. below \in Nat /\ walFloor \in Nat /\ head.snap \in Nat
  BY BoundsAssumption DEF StoreTypeOK
<1> HIDE DEF below
<1>4. walFloor' <= head.snap
  BY <1>1, <1>3 DEF Larger, Smaller, DocumentInv, PointerSound
<1>5. PointerSound' /\ RowsSound'
  BY <1>1, <1>2, <1>4 DEF DocumentInv, PointerSound, RowsSound
<1>6. WritesSound' /\ SessionsSound'
  BY <1>1 DEF DocumentInv, WritesSound, SessionsSound, SessionSound, Warmed
<1>7. \A f \in Epochs : HeadWasRead(f) => snapshots'[load[f].snap] = snapshots[load[f].snap]
  BY <1>1, <1>2 DEF CompactionSparesLoaders, HeadWasRead
<1>8. LoadsSound' /\ OwnerSound'
  BY <1>1, <1>7 DEF DocumentInv, LoadsSound, LoadSound, OwnerSound, OwnedSound, Warmed, HeadWasRead,
                    SnapWasRead, Owns
<1> QED
  BY <1>5, <1>6, <1>8 DEF DocumentInv

-----------------------------------------------------------------------------

LEMMA DocumentStep ==
    ASSUME TypeInv, DocumentInv, CompactionSparesLoaders, CompactionSparesLoaders', [Next]_vars
    PROVE  DocumentInv'
<1>1. CASE UNCHANGED vars
  BY <1>1, IdleFrame DEF vars, storeVars, placeVars, sessionVars
<1>2. CASE \E w \in Workers : Activate(w) \/ Crash(w)
  BY <1>2, ActivateFrame, CrashFrame
<1>3. CASE \E w \in Workers : RenewFails(w)
  BY <1>3, IdleFrame DEF RenewFails, storeVars, sessionVars
<1>4. CASE \E e \in Epochs : ReadHead(e) \/ ReadSnapshot(e) \/ ReadWal(e) \/ Migrate(e)
  BY <1>4, ReadHeadStep, ReadSnapshotStep, ReadWalStep, MigrateStep
<1>5. CASE \E e \in Epochs : \E o \in Ops : Submit(e, o)
  BY <1>5, IdleFrame DEF Submit, storeVars, placeVars, sessionVars
<1>6. CASE \E e \in Epochs : Process(e) \/ Commit(e) \/ RecordRejection(e) \/ ReloadWal(e) \/ StoreError(e)
  BY <1>6, ProcessFrame, CommitStep, RecordRejectionFrame, ReloadWalStep, StoreErrorFrame
<1>7. CASE \E e \in Epochs : EvictBegin(e) \/ EvictEnd(e)
  BY <1>7, EvictBeginStep, EvictEndStep
<1>8. CASE \E w \in snapWrites : SnapshotWritten(w)
  BY <1>8, SnapshotWrittenStep
<1>9. CASE Compact
  BY <1>9, CompactStep
<1>10. CASE \E id \in Expiring : Settle(id)
  BY <1>10, IdleFrame DEF Settle, storeVars, placeVars, sessionVars
<1> QED
  BY <1>1, <1>2, <1>3, <1>4, <1>5, <1>6, <1>7, <1>8, <1>9, <1>10 DEF Next, SessionStep

LEMMA InitDocumentInv == Init => DocumentInv
<1> SUFFICES ASSUME Init PROVE DocumentInv
  OBVIOUS
<1>1. /\ Len(log) = 0 /\ 1 .. 0 = {} /\ walFloor = 0 /\ head.snap = 0
      /\ DOMAIN snapshots = {0} /\ snapshots[0].applied = {} /\ snapshots[0].schema = head.schema
      /\ snapWrites = {} /\ \A e \in Epochs : saving[e] = {} /\ phase[e] = "unused"
  BY DEF Init
<1>2. PointerSound /\ RowsSound /\ WritesSound
  BY <1>1 DEF PointerSound, RowsSound, WritesSound, Covers, Current
<1>3. SessionsSound /\ LoadsSound /\ OwnerSound
  BY <1>1 DEF SessionsSound, SessionSound, LoadsSound, LoadSound, OwnerSound, OwnedSound, Warmed,
              HeadWasRead, SnapWasRead
<1> QED
  BY <1>2, <1>3 DEF DocumentInv

\* The inductive invariant of the documents holds as long as compaction spares
\* the loads in flight.
THEOREM DocumentsInvariant == Spec /\ []CompactionSparesLoaders => [](TypeInv /\ DocumentInv)
<1>1. Init => TypeInv /\ DocumentInv
  BY InitTypeInv, InitDocumentInv
<1>2. /\ TypeInv /\ DocumentInv
      /\ CompactionSparesLoaders /\ CompactionSparesLoaders' /\ [Next]_vars
      => (TypeInv /\ DocumentInv)'
  BY NextTypeInv, DocumentStep
<1> QED
  BY <1>1, <1>2, PTL DEF Spec

LEMMA OwnerCanonical ==
    ASSUME TypeInv, DocumentInv
    PROVE  OwnerStateIsCanonical
<1> SUFFICES ASSUME NEW e \in Epochs, Warmed(e), Owns(e), version[e] = Len(log)
             PROVE  /\ doc[e] = [applied |-> 1 .. Len(log), schema |-> head.schema]
                    /\ head.schema = PackSchema[home[e]]
  BY DEF OwnerStateIsCanonical
<1>1. doc[e] \in Document
  BY DEF TypeInv, TypeOK, SessionTypeOK
<1>2. doc[e].applied = 1 .. Len(log)
  BY DEF DocumentInv, SessionsSound, SessionSound, Covers
<1>3. doc[e].schema = head.schema /\ head.schema = PackSchema[home[e]]
  BY DEF DocumentInv, OwnerSound, OwnedSound
<1>4. doc[e] = [applied |-> doc[e].applied, schema |-> doc[e].schema]
  BY <1>1 DEF Document
<1> QED
  BY <1>2, <1>3, <1>4

LEMMA PointerRecovers ==
    ASSUME TypeInv, DocumentInv
    PROVE  Recoverable
<1> DEFINE s == snapshots[head.snap]
           d == Replayed(s, head.snap)
<1>1. /\ head.snap \in DOMAIN snapshots /\ s \in Document /\ s.schema = head.schema
      /\ walFloor <= head.snap /\ walFloor \in Nat /\ head.snap \in Nat /\ Len(log) \in Nat
      /\ Covers(s, head.snap, Len(log))
  BY DEF TypeInv, TypeOK, StoreTypeOK, DocumentInv, PointerSound, RowsSound
<1>2. d \in Document /\ d.schema = s.schema
      /\ d.applied = s.applied \cup {row \in WalRows : row > head.snap}
  BY <1>1, ReplayedType DEF Replayed, Document, TypeInv, TypeOK
<1> HIDE DEF s, d
<1>3. d.applied = 1 .. Len(log)
  BY <1>1, <1>2 DEF Covers, WalRows
<1>4. d = [applied |-> d.applied, schema |-> d.schema]
  BY <1>2 DEF Document
<1> QED
  BY <1>1, <1>2, <1>3, <1>4 DEF Recoverable, s, d

\* The owner of the room, when PostgreSQL would let it commit, resolves
\* operations against exactly the canonical document.
THEOREM OwnerIsCanonical == Spec /\ []CompactionSparesLoaders => []OwnerStateIsCanonical
<1>1. TypeInv /\ DocumentInv => OwnerStateIsCanonical
  BY OwnerCanonical
<1> QED
  BY <1>1, DocumentsInvariant, PTL

\* The snapshot pointer and the WAL that is left rebuild the document at any
\* moment, so a crash of every worker loses nothing committed.
THEOREM AlwaysRecoverable == Spec /\ []CompactionSparesLoaders => []Recoverable
<1>1. TypeInv /\ DocumentInv => Recoverable
  BY PointerRecovers
<1> QED
  BY <1>1, DocumentsInvariant, PTL

====
