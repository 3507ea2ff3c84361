---- MODULE DraftServerProofs ----
(***************************************************************************)
(* Proof about DraftServer: what was answered as done is in the draft from *)
(* then on, but for edits made in the ways that may lose one.              *)
(*                                                                         *)
(* Nothing orders the two writers of a draft or their saves, so the proof  *)
(* is about who may overlap whom: a save that overlaps no other puts what  *)
(* it was begun for in the file, and whoever holds a draft to write to it  *)
(* later holds every edit made before; the others have raced.              *)
(***************************************************************************)
EXTENDS DraftServer, FiniteSetTheorems, TLAPS

-----------------------------------------------------------------------------
(* Types *)

Steps  == {"none", "mkdir", "write", "rename"}
Stages == {"none", "loading", "warm", "appending", "rereading", "snapshotting", "evicting"}
Query  == [at : {"idle", "reading", "saving"}, op : {"get", "post", "put"},
           edit : RestEdits \cup {NoText}, draft : Draft, tidy : BOOLEAN]
Session == [at : Stages, version : Int, edits : SUBSET Edit, known : SUBSET Edit,
            op : OpEdits \cup {NoText}, read : Draft]

\* A draft with a log that a load can replay.
IsData(t) == t \in Data /\ IsFiniteSet(t.wal)

TypeInv ==
    /\ IsData(repo) /\ IsData(saved)
    /\ tmp # NoText => IsData(tmp)
    /\ io \in [Processes -> [step : Steps, text : Data \cup {NoText}]]
    /\ \A p \in Processes : io[p].step = "write" => IsData(io[p].text)
    /\ request \in [Callers -> Query]
    /\ \A c \in Callers : request[c].at = "saving" \/ request[c].op # "get" => request[c].edit \in RestEdits
    /\ copy \in [Callers -> Draft]
    /\ room \in Session
    /\ room.at \in {"appending", "rereading", "snapshotting"} => room.op \in OpEdits
    /\ done \subseteq Edit

-----------------------------------------------------------------------------
(* The inductive invariant *)

Edits(w) == {r.edit : r \in w}
Exempt   == raced \cup unheld

\* Edits that somebody was told of, may be told of, or waits for.
Made(e) ==
    \/ e \in done \cup room.known \cup Edits(repo.wal)
    \/ \E p \in Processes : e \in Saving(p)

\* Of these, the ones that a restart has to find.
Kept(e) == e \in done \cup room.known \cup (Edits(repo.wal) \ Saving(Room))

HoldsMade(edits) == \A e \in Edit : Made(e) => e \in edits \cup Exempt
HoldsKept(edits) == \A e \in Edit : Kept(e) => e \in edits \cup Exempt

\* A text that may become the file.
Good(t) ==
    /\ HoldsKept(t.draft.edits)
    /\ Edits(t.wal) \subseteq t.draft.edits \cup Exempt

MemoryInv ==
    /\ HoldsMade(repo.draft.edits)
    /\ \A c \in Callers : request[c].at = "reading" => HoldsMade(request[c].draft.edits)
    /\ room.at \in {"loading", "rereading"} => HoldsMade(room.read.edits)
    /\ room.at \notin {"none", "loading"} => HoldsMade(room.edits \cup Saving(Room))

FileInv ==
    /\ Good(saved)
    /\ \A p \in Processes : io[p].step = "write" => Good(io[p].text)
    /\ (\E p \in Processes : io[p].step = "rename") /\ tmp # NoText => Good(tmp)

\* Whoever saves an edit that does not race is alone, and what it has written so far
\* has the edit.
AloneInv ==
    \A p \in Processes : \A e \in Saving(p) \ Exempt :
        /\ Busy = {p}
        /\ io[p].step = "write" => e \in io[p].text.draft.edits
        /\ io[p].step = "rename" => tmp # NoText /\ e \in tmp.draft.edits

WaitInv ==
    /\ \A c \in Callers : request[c].at = "idle" <=> io[c].step = "none"
    /\ room.at \in {"none", "warm"} <=> io[Room].step = "none"
    /\ room.at = "snapshotting" => room.op \in room.known

SocketInv ==
    /\ IsFiniteSet(joined) /\ IsFiniteSet(waiting)
    /\ active = Cardinality(joined)
    /\ joined \cap waiting = {}
    /\ room.at \in {"none", "warm", "appending", "rereading", "snapshotting"} => waiting = {}

Inv == MemoryInv /\ FileInv /\ AloneInv /\ WaitInv /\ SocketInv

-----------------------------------------------------------------------------
(* Lemmas about the operators of the model *)

\* A finite set of versions has a largest one.
LEMMA MaxType ==
    ASSUME NEW S \in SUBSET Int, IsFiniteSet(S), S # {}
    PROVE  Max(S) \in S /\ \A x \in S : x <= Max(S)
<1>. DEFINE above(x) == {y \in S : y > x}
            T == {above(x) : x \in S}
<1>1. T \subseteq FiniteSubsetsOf(S) /\ T # {}
  <2>1. \A x \in S : above(x) \in SUBSET S /\ IsFiniteSet(above(x))
    BY FS_Subset
  <2>. QED  BY <2>1 DEF FiniteSubsetsOf
<1>2. IsWellFoundedOn(StrictSubsetOrdering(S), FiniteSubsetsOf(S))
  BY FS_StrictSubsetOrderingWellFounded
<1>3. PICK t \in T : \A r \in T : <<r, t>> \notin StrictSubsetOrdering(S)
  <2>. HIDE DEF T
  <2>. QED  BY <1>1, <1>2, WFMin, Zenon
<1>4. PICK x \in S : t = above(x)
  OBVIOUS
<1>5. ASSUME NEW y \in S, y > x PROVE FALSE
  <2>1. x \in Int /\ y \in Int /\ S \subseteq Int
    OBVIOUS
  <2>2. y \in above(x) /\ y \notin above(y)
    BY <1>5, <2>1
  <2>3. ASSUME NEW z \in above(y) PROVE z \in above(x)
    <3>1. z \in Int /\ z \in S /\ z > y
      BY <2>1
    <3>. QED  BY <1>5, <2>1, <3>1
  <2>4. above(y) \subseteq above(x) /\ y \in above(x) /\ y \notin above(y)
    BY <2>2, <2>3
  <2>5. <<above(y), above(x)>> \in StrictSubsetOrdering(S)
    BY <2>4 DEF StrictSubsetOrdering
  <2>. QED  BY <1>3, <1>4, <2>5
<1>6. \A y \in S : x >= y
  BY <1>5
<1>7. Max(S) \in S /\ \A y \in S : Max(S) >= y
  BY <1>6 DEF Max
<1>. QED  BY <1>7

LEMMA ProcessKinds == Processes = Callers \cup {Room} /\ Room \notin Callers
  BY NoneIsNone DEF Processes

LEMMA NoRoomType == NoRoom \in Session /\ NoRoom.at = "none" /\ NoRoom.known = {}
  BY DEF NoRoom, Session, Stages, EmptyDraft, Draft

\* What a load makes of a draft and the log.
LEMMA LoadedType ==
    ASSUME IsData(repo), NEW d \in Draft
    PROVE  /\ Loaded(d) \in Session
           /\ Loaded(d).at = "warm" /\ Loaded(d).known = Edits(repo.wal)
           /\ d.edits \subseteq Loaded(d).edits
<1>. DEFINE later == {r \in repo.wal : r.version > d.revision}
            versions == {r.version : r \in later}
<1>1. repo.wal \in SUBSET Logged /\ IsFiniteSet(repo.wal)
  BY DEF IsData, Data
<1>2. {d.revision} \cup versions \in SUBSET Int
  BY <1>1 DEF Draft, Logged
<1>3. IsFiniteSet(versions)
  <2>. DEFINE f == [r \in later |-> r.version]
  <2>1. IsFiniteSet(later)
    BY <1>1, FS_Subset
  <2>2. f \in Surjection(later, versions)
    BY DEF Surjection
  <2>. HIDE DEF later, versions, f
  <2>. QED  BY <2>1, <2>2, FS_Surjection
<1>4. IsFiniteSet({d.revision} \cup versions)
  BY <1>3, FS_Singleton, FS_Union
<1>5. Max({d.revision} \cup versions) \in Int
  <2>. HIDE DEF versions
  <2>. QED  BY <1>2, <1>4, MaxType
<1>6. {r.edit : r \in later} \subseteq Edit /\ {r.edit : r \in repo.wal} \subseteq Edit /\ d.edits \subseteq Edit
  BY <1>1 DEF Logged, Draft
<1>7. NoRoom \in Session
  BY NoRoomType
<1>8. Edits(repo.wal) \in SUBSET Edit /\ d.edits \cup {r.edit : r \in later} \in SUBSET Edit
  BY <1>6 DEF Edits
<1>9. PICK n \in Int, e \in SUBSET Edit, k \in SUBSET Edit :
          /\ n = Max({d.revision} \cup versions)
          /\ e = d.edits \cup {r.edit : r \in later}
          /\ k = Edits(repo.wal)
  BY <1>5, <1>8
<1>10. Loaded(d) = [NoRoom EXCEPT !.at = "warm", !.version = n, !.edits = e, !.known = k]
  BY <1>9 DEF Loaded, Edits
<1>. DEFINE loaded == [NoRoom EXCEPT !.at = "warm", !.version = n, !.edits = e, !.known = k]
<1>11. loaded \in Session /\ loaded.at = "warm" /\ loaded.known = k /\ loaded.edits = e
  <2>1. n \in Int /\ e \in SUBSET Edit /\ k \in SUBSET Edit
    OBVIOUS
  <2>. QED  BY <1>7, <2>1 DEF Session, Stages
<1>12. Loaded(d) = loaded
  BY <1>10
<1>. HIDE DEF loaded
<1>. QED  BY <1>9, <1>11, <1>12

-----------------------------------------------------------------------------
(* What a step of one process leaves alone *)

\* p moves and no other process does; no edit is exempt no more.
Only(p) ==
    /\ \A q \in Processes \ {p} : io'[q] = io[q]
    /\ \A c \in Callers \ {p} : request'[c] = request[c]
    /\ p # Room => room' = room
    /\ Exempt \subseteq Exempt'

\* p's save ends, or p has none.
Ended(p) == Renamed(p) \/ RenameFails(p)
Disk(p)  == Ended(p) \/ (io[p].step = "none" /\ UNCHANGED <<saved, tmp>>)

\* p begins a save; the edits of saves that overlap it have raced.
Begun(p) ==
    /\ io'[p].step = "mkdir"
    /\ Busy \ {p} # {} => /\ Saving(p)' \subseteq Exempt'
                          /\ \A q \in Busy \ {p} : Saving(q) \subseteq Exempt'
Rested(p) == io'[p].step = "none" /\ Saving(p)' = {}

LEMMA OthersSame ==
    ASSUME NEW p \in Processes, Only(p), NEW q \in Processes \ {p}
    PROVE  /\ Saving(q)' = Saving(q) /\ (Reading(q)' <=> Reading(q))
           /\ io'[q] = io[q] /\ (q \in Busy' <=> q \in Busy)
<1>1. io'[q] = io[q] /\ (q \in Busy' <=> q \in Busy)
  BY DEF Only, Busy
<1>2. CASE q = Room
  BY <1>1, <1>2 DEF Only, Saving, Reading
<1>3. CASE q # Room
  <2>1. request'[q] = request[q]
    BY <1>3, ProcessKinds DEF Only
  <2>. QED  BY <1>1, <1>3, <2>1 DEF Saving, Reading
<1>. QED  BY <1>2, <1>3

LEMMA AloneStep ==
    ASSUME NEW p \in Processes, Only(p), Disk(p), Begun(p) \/ Rested(p), AloneInv
    PROVE  AloneInv'
<1>. SUFFICES ASSUME NEW q \in Processes, NEW e \in (Saving(q) \ Exempt)'
              PROVE  /\ Busy' = {q}
                     /\ io'[q].step = "write" => e \in io'[q].text.draft.edits
                     /\ io'[q].step = "rename" => tmp' # NoText /\ e \in tmp'.draft.edits
  BY DEF AloneInv
<1>1. CASE q = p
  <2>1. Begun(p)
    BY <1>1 DEF Rested
  <2>2. Busy \subseteq {p}
    BY <1>1, <2>1 DEF Begun
  <2>3. Busy' = {p}
    BY <2>1, <2>2, OthersSame DEF Begun, Busy
  <2>. QED  BY <1>1, <2>1, <2>3 DEF Begun
<1>2. CASE q # p
  <2>1. e \in Saving(q) \ Exempt /\ io'[q] = io[q]
    BY <1>2, OthersSame DEF Only
  <2>2. /\ Busy = {q}
        /\ io[q].step = "write" => e \in io[q].text.draft.edits
        /\ io[q].step = "rename" => tmp # NoText /\ e \in tmp.draft.edits
    BY <2>1 DEF AloneInv
  <2>3. io[p].step = "none"
    BY <1>2, <2>2 DEF Busy
  <2>4. UNCHANGED <<saved, tmp>>
    BY <2>3 DEF Disk, Ended, Renamed, RenameFails
  <2>5. ~Begun(p)
    BY <1>2, <2>1, <2>2 DEF Begun
  <2>6. Busy' = {q}
    <3>1. p \notin Busy'
      BY <2>5 DEF Rested, Busy
    <3>. QED  BY <1>2, <2>2, <3>1, OthersSame DEF Busy
  <2>. QED  BY <2>1, <2>2, <2>4, <2>6
<1>. QED  BY <1>1, <1>2

\* What is kept now was kept before, or is in the file that was just renamed.
Keeping(p) == \A e \in Edit : Kept(e)' => Kept(e) \/ e \in Exempt' \/ (e \in Saving(p) /\ Renamed(p))

LEMMA FileStep ==
    ASSUME NEW p \in Processes, Only(p), Disk(p), Begun(p) \/ Rested(p), Keeping(p),
           AloneInv, FileInv
    PROVE  FileInv'
<1>1. ASSUME NEW e \in Edit, Kept(e)', ~Kept(e), e \notin Exempt'
      PROVE  Busy = {p} /\ Renamed(p) /\ e \in tmp.draft.edits
  <2>1. e \in Saving(p) \ Exempt /\ Renamed(p)
    BY <1>1 DEF Keeping, Only
  <2>. QED  BY <2>1 DEF AloneInv, Renamed
<1>2. ASSUME Busy # {p} \/ ~Renamed(p), NEW e \in Edit, Kept(e)', e \notin Exempt'
      PROVE  Kept(e) /\ e \notin Exempt
  BY <1>1, <1>2 DEF Only
<1>3. Good(saved)'
  <2>1. CASE Renamed(p)
    <3>1. saved' = tmp /\ Good(tmp)
      BY <2>1 DEF FileInv, Renamed
    <3>2. ASSUME NEW e \in Edit, Kept(e)', e \notin Exempt' PROVE e \in tmp.draft.edits
      BY <1>1, <3>1, <3>2 DEF Good, HoldsKept, Only
    <3>. QED  BY <3>1, <3>2 DEF Good, HoldsKept, Only
  <2>2. CASE ~Renamed(p)
    <3>1. saved' = saved
      BY <2>2 DEF Disk, Ended, RenameFails
    <3>. QED  BY <1>2, <2>2, <3>1 DEF Good, HoldsKept, FileInv, Only
  <2>. QED  BY <2>1, <2>2
<1>4. ASSUME NEW q \in Processes, io'[q].step \in {"write", "rename"}
      PROVE  q # p /\ io'[q] = io[q] /\ Busy # {p}
  <2>1. q # p
    BY <1>4 DEF Begun, Rested
  <2>. QED  BY <1>4, <2>1, OthersSame DEF Busy
<1>5. ASSUME NEW q \in Processes, io'[q].step = "write"
      PROVE  Good(io[q].text)'
  <2>1. io'[q] = io[q] /\ Busy # {p} /\ Good(io[q].text)
    BY <1>4, <1>5 DEF FileInv
  <2>. QED  BY <1>2, <2>1 DEF Good, HoldsKept, Only
<1>6. ASSUME NEW q \in Processes, io'[q].step = "rename", tmp' # NoText
      PROVE  Good(tmp)'
  <2>1. io[q].step = "rename" /\ Busy # {p}
    BY <1>4, <1>6
  <2>2. tmp' = tmp
    BY <1>6 DEF Disk, Ended, Renamed, RenameFails
  <2>3. Good(tmp)
    BY <1>6, <2>1, <2>2 DEF FileInv
  <2>. QED  BY <1>2, <2>1, <2>2, <2>3 DEF Good, HoldsKept, Only
<1>. QED  BY <1>3, <1>5, <1>6 DEF FileInv

\* Who holds the draft that was made holds the one that is made now.
MadeOf(edits)     == \A e \in Edit : Made(e)' => Made(e) \/ e \in edits \/ e \in Exempt'
HoldsAfter(edits) == \A e \in Edit : Made(e)' => e \in edits \/ e \in Exempt'

LEMMA MadeStep ==
    ASSUME NEW p \in Processes, Only(p), NEW new,
           Saving(p)' \subseteq new,
           \A e \in Edit : e \in done' \cup room'.known \cup Edits(repo'.wal)
                           => Made(e) \/ e \in new \/ e \in Exempt'
    PROVE  MadeOf(new)
<1>. SUFFICES ASSUME NEW e \in Edit, Made(e)' PROVE Made(e) \/ e \in new \/ e \in Exempt'
  BY DEF MadeOf
<1>1. CASE e \in done' \cup room'.known \cup Edits(repo'.wal)
  BY <1>1
<1>2. CASE \E q \in Processes : e \in Saving(q)'
  <2>1. PICK q \in Processes : e \in Saving(q)'
    BY <1>2
  <2>2. CASE q = p
    BY <2>1, <2>2
  <2>3. CASE q # p
    <3>1. e \in Saving(q)
      BY <2>1, <2>3, OthersSame
    <3>. QED  BY <3>1 DEF Made
  <2>. QED  BY <2>2, <2>3
<1>. QED  BY <1>1, <1>2 DEF Made

LEMMA Carried ==
    ASSUME NEW held, HoldsMade(held), NEW new, MadeOf(new), Exempt \subseteq Exempt',
           NEW edits, new \subseteq edits \cup Exempt', held \subseteq edits \cup Exempt'
    PROVE  HoldsAfter(edits)
  BY DEF HoldsMade, MadeOf, HoldsAfter

LEMMA CallerMemory ==
    ASSUME NEW c \in Callers, Only(c), MemoryInv, NEW new, MadeOf(new),
           HoldsAfter(repo'.draft.edits),
           request'[c].at = "reading" => HoldsAfter(request'[c].draft.edits),
           (\E q \in Processes \ {c} : Reading(q)) \/ room.at \notin {"none", "loading"}
              => new \subseteq Exempt'
    PROVE  MemoryInv'
<1>1. room' = room /\ Room # c /\ Saving(Room)' = Saving(Room) /\ Exempt \subseteq Exempt'
  BY ProcessKinds, OthersSame DEF Only
<1>2. ASSUME NEW d \in Callers, request'[d].at = "reading"
      PROVE  HoldsAfter(request'[d].draft.edits)
  <2>1. CASE d = c
    BY <1>2, <2>1
  <2>2. CASE d # c
    <3>1. request'[d] = request[d]
      BY <2>2 DEF Only
    <3>2. Reading(d)
      BY <1>2, <3>1, ProcessKinds DEF Reading
    <3>3. new \subseteq Exempt'
      BY <2>2, <3>2, ProcessKinds
    <3>4. HoldsMade(request[d].draft.edits)
      BY <1>2, <3>1 DEF MemoryInv
    <3>. QED  BY <1>1, <3>1, <3>3, <3>4, Carried
  <2>. QED  BY <2>1, <2>2
<1>3. ASSUME room.at \in {"loading", "rereading"} PROVE HoldsAfter(room.read.edits)
  <2>1. Reading(Room) /\ Room \in Processes \ {c}
    BY <1>1, <1>3, ProcessKinds DEF Reading
  <2>2. HoldsMade(room.read.edits)
    BY <1>3 DEF MemoryInv
  <2>. QED  BY <1>1, <2>1, <2>2, Carried
<1>4. ASSUME room.at \notin {"none", "loading"} PROVE HoldsAfter(room.edits \cup Saving(Room))
  <2>1. HoldsMade(room.edits \cup Saving(Room))
    BY <1>4 DEF MemoryInv
  <2>. QED  BY <1>1, <1>4, <2>1, Carried
<1>. QED  BY <1>1, <1>2, <1>3, <1>4 DEF MemoryInv, HoldsMade, HoldsAfter

LEMMA RoomMemory ==
    ASSUME Only(Room), MemoryInv, NEW new, MadeOf(new), NEW own, own = room'.edits \cup Saving(Room)',
           HoldsAfter(repo'.draft.edits),
           room'.at \in {"loading", "rereading"} => HoldsAfter(room'.read.edits),
           room'.at \notin {"none", "loading"} => HoldsAfter(own),
           (\E c \in Callers : Reading(c)) => new \subseteq Exempt'
    PROVE  MemoryInv'
<1>1. Exempt \subseteq Exempt'
  BY DEF Only
<1>2. ASSUME NEW c \in Callers, request'[c].at = "reading"
      PROVE  HoldsAfter(request'[c].draft.edits)
  <2>1. request'[c] = request[c]
    BY ProcessKinds DEF Only
  <2>2. Reading(c)
    BY <1>2, <2>1, ProcessKinds DEF Reading
  <2>3. HoldsMade(request[c].draft.edits)
    BY <1>2, <2>1 DEF MemoryInv
  <2>. QED  BY <1>1, <2>1, <2>2, <2>3, Carried
<1>. QED  BY <1>2 DEF MemoryInv, HoldsMade, HoldsAfter

-----------------------------------------------------------------------------
(* Type correctness, kind of step by kind of step *)

Pending == [step |-> "mkdir", text |-> NoText]

LEMMA DraftUpdate ==
    ASSUME NEW t, IsData(t), NEW d \in Draft
    PROVE  /\ IsData([t EXCEPT !.draft = d])
           /\ [t EXCEPT !.draft = d].draft = d /\ [t EXCEPT !.draft = d].wal = t.wal
  BY DEF IsData, Data

LEMMA DiskType ==
    ASSUME TypeInv, NEW p \in Processes,
           UNCHANGED <<saved, tmp>> \/ Ended(p),
           io' = [io EXCEPT ![p] = Pending] \/ io' = [io EXCEPT ![p] = Quiet] \/ io' = io
    PROVE  /\ IsData(saved') /\ (tmp' # NoText => IsData(tmp'))
           /\ io' \in [Processes -> [step : Steps, text : Data \cup {NoText}]]
           /\ \A q \in Processes : io'[q].step = "write" => IsData(io'[q].text)
<1>1. IsData(saved') /\ (tmp' # NoText => IsData(tmp'))
  BY DEF TypeInv, Ended, Renamed, RenameFails
<1>2. io' \in [Processes -> [step : Steps, text : Data \cup {NoText}]]
  BY DEF TypeInv, Pending, Quiet, Steps
<1>3. ASSUME NEW q \in Processes, io'[q].step = "write" PROVE IsData(io'[q].text)
  <2>1. io'[q] = io[q]
    BY <1>3 DEF TypeInv, Pending, Quiet
  <2>. QED  BY <1>3, <2>1 DEF TypeInv
<1>. QED  BY <1>1, <1>2, <1>3

LEMMA CallerType ==
    ASSUME TypeInv, NEW c \in Callers, NEW q \in Query, NEW d \in Draft,
           q.at = "saving" \/ q.op # "get" => q.edit \in RestEdits,
           repo' = repo \/ repo' = [repo EXCEPT !.draft = d],
           request' = [request EXCEPT ![c] = q],
           UNCHANGED <<saved, tmp>> \/ Ended(c),
           io' = [io EXCEPT ![c] = Pending] \/ io' = [io EXCEPT ![c] = Quiet] \/ io' = io,
           UNCHANGED room, copy' \in [Callers -> Draft], done' \subseteq Edit
    PROVE  TypeInv'
<1>1. c \in Processes
  BY ProcessKinds
<1>2. IsData(repo')
  BY DraftUpdate DEF TypeInv
<1>3. request' \in [Callers -> Query]
  BY DEF TypeInv
<1>4. \A x \in Callers : request'[x].at = "saving" \/ request'[x].op # "get" => request'[x].edit \in RestEdits
  BY DEF TypeInv
<1>. QED  BY <1>1, <1>2, <1>3, <1>4, DiskType DEF TypeInv

LEMMA RoomType ==
    ASSUME TypeInv, IsData(repo'), UNCHANGED <<request, copy>>,
           room' \in Session,
           room'.at \in {"appending", "rereading", "snapshotting"} => room'.op \in OpEdits,
           UNCHANGED <<saved, tmp>> \/ Ended(Room),
           io' = [io EXCEPT ![Room] = Pending] \/ io' = [io EXCEPT ![Room] = Quiet] \/ io' = io,
           done' \subseteq Edit
    PROVE  TypeInv'
<1>1. Room \in Processes
  BY ProcessKinds
<1>. QED  BY <1>1, DiskType DEF TypeInv

LEMMA NormalizedType ==
    ASSUME IsData(repo)
    PROVE  Normalized \in Draft /\ Normalized.edits = repo.draft.edits /\ Normalized.revision = repo.draft.revision
  BY DEF Normalized, IsData, Data, Draft

LEMMA NoQueryType == NoQuery \in Query /\ NoQuery.at = "idle" /\ NoQuery.op = "get"
  BY DEF NoQuery, Query, EmptyDraft, Draft

-----------------------------------------------------------------------------
(* Steps of the callers *)

\* p is alone, or whoever it overlaps has raced.
Crowded(p, edits) ==
    Busy \ {p} # {} => edits \subseteq Exempt' /\ \A q \in Busy \ {p} : Saving(q) \subseteq Exempt'

LEMMA CrowdedPersist ==
    ASSUME NEW p \in Processes, NEW edits, raced \cup Overlapping(p, edits) \subseteq raced', unheld \subseteq unheld'
    PROVE  Crowded(p, edits)
  BY DEF Crowded, Overlapping, Exempt

\* c goes on to q: it begins a save or is answered.  Whoever held all edits that were
\* made holds them, and the new ones, unless they are exempt.
CallerMoves(c, q, new, held) ==
    /\ request' = [request EXCEPT ![c] = q]
    /\ \/ io' = [io EXCEPT ![c] = Pending] /\ q.at # "idle" /\ Crowded(c, new)
       \/ io' = [io EXCEPT ![c] = Quiet] /\ q.at = "idle"
    /\ Ended(c) \/ (Idle(c) /\ UNCHANGED <<saved, tmp>>)
    /\ Exempt \subseteq Exempt' /\ UNCHANGED roomVars /\ repo'.wal = repo.wal
    /\ done' = done \/ (Renamed(c) /\ done' \subseteq done \cup Saving(c))
    /\ q.at = "saving" => new = {q.edit}
    /\ HoldsMade(held) /\ held \subseteq repo'.draft.edits \cup Exempt' /\ new \subseteq repo'.draft.edits
    /\ q.at = "reading" => held \subseteq q.draft.edits /\ new = {}
    /\ (\E x \in Processes \ {c} : Reading(x)) \/ room.at \notin {"none", "loading"}
          => new \subseteq Exempt'

LEMMA CallerStep ==
    ASSUME TypeInv, Inv, NEW c \in Callers, NEW q \in Query, NEW new, NEW held,
           CallerMoves(c, q, new, held)
    PROVE  Inv'
<1>. USE DEF CallerMoves
<1>1. c \in Processes /\ c # Room
  BY ProcessKinds
<1>2. request'[c] = q /\ \A x \in Callers \ {c} : request'[x] = request[x]
  BY DEF TypeInv
<1>3. Only(c)
  BY <1>1, <1>2 DEF Only, TypeInv, roomVars
<1>4. Saving(c)' \subseteq new
  BY <1>1, <1>2 DEF Saving
<1>5. \/ io'[c] = Pending /\ q.at # "idle" /\ Crowded(c, new)
      \/ io'[c] = Quiet /\ q.at = "idle"
  BY <1>1 DEF TypeInv
<1>6. Begun(c) \/ Rested(c)
  BY <1>1, <1>2, <1>4, <1>5 DEF Begun, Rested, Pending, Quiet, Crowded, Saving
<1>7. Disk(c)
  BY DEF Disk, Inv, WaitInv, Idle
<1>8. Keeping(c) /\ MadeOf(new)
  <2>1. room' = room /\ Saving(Room)' = Saving(Room)
    BY <1>1, <1>3, OthersSame, ProcessKinds DEF roomVars
  <2>2. Keeping(c)
    BY <2>1 DEF Keeping, Kept
  <2>3. MadeOf(new)
    BY <1>1, <1>3, <1>4, <2>1, MadeStep DEF Made
  <2>. QED  BY <2>2, <2>3
<1>9. AloneInv' /\ FileInv'
  BY <1>1, <1>3, <1>6, <1>7, <1>8, AloneStep, FileStep DEF Inv
<1>10. MemoryInv'
  <2>1. HoldsAfter(repo'.draft.edits)
    BY <1>3, <1>8, Carried DEF Only
  <2>2. q.at = "reading" => HoldsAfter(q.draft.edits)
    <3>1. SUFFICES ASSUME q.at = "reading" PROVE HoldsAfter(q.draft.edits)
      OBVIOUS
    <3>2. held \subseteq q.draft.edits \cup Exempt' /\ new \subseteq q.draft.edits \cup Exempt'
      BY <3>1
    <3>. QED  BY <1>3, <1>8, <3>2, Carried DEF Only
  <2>. QED  BY <1>2, <1>3, <1>8, <2>1, <2>2, CallerMemory DEF Inv
<1>11. WaitInv'
  <2>1. \A d \in Callers : request'[d].at = "idle" <=> io'[d].step = "none"
    <3>1. request'[c].at = "idle" <=> io'[c].step = "none"
      BY <1>2, <1>5 DEF Pending, Quiet
    <3>2. ASSUME NEW d \in Callers \ {c} PROVE request'[d].at = "idle" <=> io'[d].step = "none"
      BY <1>2, <1>3, ProcessKinds DEF Only, Inv, WaitInv
    <3>. QED  BY <3>1, <3>2
  <2>2. room' = room /\ io'[Room] = io[Room]
    BY <1>1, <1>3, ProcessKinds DEF Only
  <2>. QED  BY <2>1, <2>2 DEF Inv, WaitInv
<1>12. SocketInv'
  BY DEF Inv, SocketInv, roomVars
<1>. QED  BY <1>9, <1>10, <1>11, <1>12 DEF Inv

\* An edit that is applied while the room has a draft of its own has raced, or
\* nobody is in the room.
LEMMA HeldOrExempt ==
    ASSUME Inv, NEW c \in Callers, NEW e, NEW dropped, PersistEdit(c, e, dropped),
           ~Collaborative \/ Reading(c),
           (\E x \in Processes \ {c} : Reading(x)) \/ room.at \notin {"none", "loading"}
    PROVE  e \in Exempt'
<1>1. c \in Processes /\ c # Room /\ Room \in Processes
  BY ProcessKinds
<1>2. CASE \E x \in Processes : Reading(x)
  BY <1>2 DEF PersistEdit, Exempt
<1>3. CASE ~Collaborative /\ room.at \notin {"none", "loading"}
  <2>1. joined = {}
    BY <1>3, FS_CardinalityType, FS_EmptySet DEF Collaborative, Inv, SocketInv
  <2>2. CASE room.at = "evicting"
    <3>1. Room \in Busy \ {c}
      BY <1>1, <2>2 DEF Inv, WaitInv, Busy
    <3>. QED  BY <3>1 DEF PersistEdit, Overlapping, Exempt
  <2>3. CASE room.at # "evicting"
    BY <1>1, <1>3, <2>1, <2>3 DEF PersistEdit, Exempt
  <2>. QED  BY <2>2, <2>3
<1>. QED  BY <1>1, <1>2, <1>3

\* An edit is applied to the draft d, and saved.
CallerEdits(c, q, d, next, dropped) ==
    /\ repo' = [repo EXCEPT !.draft = next]
    /\ request' = [request EXCEPT ![c] = q]
    /\ PersistEdit(c, q.edit, dropped)
    /\ d.edits \subseteq next.edits \cup dropped /\ q.edit \in next.edits

LEMMA CallerWrites ==
    ASSUME TypeInv, Inv, NEW c \in Callers, NEW q \in Query, q.at = "saving", q.edit \in RestEdits,
           NEW d \in Draft, HoldsMade(d.edits), NEW next \in Draft, NEW dropped,
           CallerEdits(c, q, d, next, dropped),
           Ended(c) \/ (Idle(c) /\ UNCHANGED <<saved, tmp>>),
           UNCHANGED <<roomVars, copy, done>>, ~Collaborative \/ Reading(c)
    PROVE  TypeInv' /\ Inv'
<1>1. /\ repo' = [repo EXCEPT !.draft = next] /\ request' = [request EXCEPT ![c] = q]
      /\ io' = [io EXCEPT ![c] = Pending]
      /\ raced \cup Overlapping(c, {q.edit}) \cup dropped \subseteq raced'
      /\ unheld \subseteq unheld' /\ c \in Processes
  BY ProcessKinds DEF CallerEdits, PersistEdit, Pending
<1>2. repo'.draft = next /\ repo'.wal = repo.wal
  BY <1>1, DraftUpdate DEF TypeInv
<1>3. Crowded(c, {q.edit}) /\ Exempt \subseteq Exempt' /\ dropped \subseteq Exempt'
  BY <1>1, CrowdedPersist DEF Exempt
<1>4. (\E x \in Processes \ {c} : Reading(x)) \/ room.at \notin {"none", "loading"} => {q.edit} \subseteq Exempt'
  BY HeldOrExempt DEF CallerEdits
<1>5. TypeInv'
  BY <1>1, CallerType DEF roomVars, TypeInv
<1>6. d.edits \subseteq repo'.draft.edits \cup Exempt' /\ {q.edit} \subseteq repo'.draft.edits
  BY <1>2, <1>3 DEF CallerEdits
<1>7. CallerMoves(c, q, {q.edit}, d.edits)
  BY <1>1, <1>2, <1>3, <1>4, <1>6 DEF CallerMoves
<1>8. Inv'
  BY <1>7, CallerStep
<1>. QED  BY <1>5, <1>8

\* An edit of q on its way to the file.
LEMMA SavingQuery ==
    ASSUME NEW q \in Query, NEW next \in Draft, NEW r, r = [q EXCEPT !.at = "saving", !.draft = next]
    PROVE  r \in Query /\ r.at = "saving" /\ r.edit = q.edit
  BY DEF Query

LEMMA ExecuteStep ==
    ASSUME TypeInv, Inv, NEW c \in Callers, NEW q \in Query, q.edit \in RestEdits,
           NEW d \in Draft, HoldsMade(d.edits), Execute(c, q, d),
           Ended(c) \/ (Idle(c) /\ UNCHANGED <<saved, tmp>>),
           UNCHANGED <<roomVars, copy, done>>, ~Collaborative \/ Reading(c)
    PROVE  TypeInv' /\ Inv'
<1>. DEFINE next == [d EXCEPT !.revision = @ + 1, !.edits = @ \cup {q.edit}]
            r    == [q EXCEPT !.at = "saving", !.draft = next]
<1>1. next \in Draft /\ next.edits = d.edits \cup {q.edit}
  <2>1. d.revision + 1 \in Int /\ d.edits \cup {q.edit} \in SUBSET Edit
    BY DEF Draft, Edit
  <2>. QED  BY <2>1 DEF Draft
<1>2. repo' = [repo EXCEPT !.draft = next] /\ request' = [request EXCEPT ![c] = r] /\ PersistEdit(c, q.edit, {})
  BY Zenon DEF Execute
<1>. HIDE DEF next
<1>3. r \in Query /\ r.at = "saving" /\ r.edit = q.edit
  BY <1>1, SavingQuery
<1>. HIDE DEF r
<1>4. CallerEdits(c, r, d, next, {})
  BY <1>1, <1>2, <1>3 DEF CallerEdits
<1>. QED  BY <1>1, <1>3, <1>4, CallerWrites

LEMMA ReplaceStep ==
    ASSUME TypeInv, Inv, NEW c \in Callers, NEW q \in Query, q.edit \in RestEdits,
           NEW d \in Draft, HoldsMade(d.edits), Replace(c, q, d),
           Ended(c) \/ (Idle(c) /\ UNCHANGED <<saved, tmp>>),
           UNCHANGED <<roomVars, copy, done>>, ~Collaborative \/ Reading(c)
    PROVE  TypeInv' /\ Inv'
<1>. DEFINE next    == [revision |-> d.revision + 1, edits |-> copy[c].edits \cup {q.edit}, tidy |-> q.tidy]
            dropped == IF d.revision = copy[c].revision THEN d.edits \ copy[c].edits ELSE {}
            r       == [q EXCEPT !.at = "saving", !.draft = next]
<1>1. next \in Draft /\ q.edit \in next.edits /\ d.edits \subseteq next.edits \cup dropped
  BY DEF Draft, Edit, TypeInv, Query, Replace, UpToDate
<1>2. /\ repo' = [repo EXCEPT !.draft = next] /\ request' = [request EXCEPT ![c] = r]
      /\ PersistEdit(c, q.edit, dropped)
  BY Zenon DEF Replace
<1>. HIDE DEF next, dropped
<1>3. r \in Query /\ r.at = "saving" /\ r.edit = q.edit
  BY <1>1, SavingQuery
<1>. HIDE DEF r
<1>4. CallerEdits(c, r, d, next, dropped)
  BY <1>1, <1>2, <1>3 DEF CallerEdits
<1>. QED  BY <1>1, <1>3, <1>4, CallerWrites

LEMMA CallerReads ==
    ASSUME TypeInv, Inv, NEW c \in Callers, NEW q \in Query, q.op # "get" => q.edit \in RestEdits,
           Idle(c), ReadFirst(c, q), UNCHANGED <<saved, tmp, roomVars, copy, done>>
    PROVE  TypeInv' /\ Inv'
<1>1. Normalized \in Draft /\ Normalized.edits = repo.draft.edits
  BY NormalizedType DEF TypeInv
<1>. DEFINE r == [q EXCEPT !.at = "reading", !.draft = Normalized]
<1>2. r \in Query /\ r.at = "reading" /\ r.draft = Normalized /\ r.edit = q.edit /\ r.op = q.op
  BY <1>1 DEF Query
<1>. HIDE DEF r
<1>3. /\ request' = [request EXCEPT ![c] = r]
      /\ repo' = [repo EXCEPT !.draft = Normalized]
      /\ io' = [io EXCEPT ![c] = Pending]
      /\ raced \cup Overlapping(c, {}) \subseteq raced' /\ unheld \subseteq unheld'
  BY DEF ReadFirst, Persist, Pending, r
<1>4. repo'.draft = Normalized /\ repo'.wal = repo.wal
  BY <1>1, <1>3, DraftUpdate DEF TypeInv
<1>5. TypeInv'
  BY <1>1, <1>2, <1>3, CallerType DEF roomVars, TypeInv
<1>6. Crowded(c, {}) /\ Exempt \subseteq Exempt'
  BY <1>3, CrowdedPersist, ProcessKinds DEF Exempt
<1>7. HoldsMade(repo.draft.edits) /\ repo.draft.edits \subseteq repo'.draft.edits \cup Exempt'
      /\ repo.draft.edits \subseteq r.draft.edits
  BY <1>1, <1>2, <1>4 DEF Inv, MemoryInv
<1>8. CallerMoves(c, r, {}, repo.draft.edits)
  BY <1>2, <1>3, <1>4, <1>6, <1>7 DEF CallerMoves
<1>9. Inv'
  BY <1>2, <1>8, CallerStep
<1>. QED  BY <1>5, <1>9

LEMMA CallerAnswers ==
    ASSUME TypeInv, Inv, NEW c \in Callers, NEW edits \in SUBSET Edit, NEW given \in Draft,
           Answer(c, edits, given), edits = {} \/ (Renamed(c) /\ edits \subseteq Saving(c)),
           Ended(c), UNCHANGED <<repo, roomVars>>
    PROVE  TypeInv' /\ Inv'
<1>1. NoQuery \in Query /\ NoQuery.at = "idle" /\ NoQuery.op = "get"
  BY NoQueryType
<1>2. /\ request' = [request EXCEPT ![c] = NoQuery]
      /\ io' = [io EXCEPT ![c] = Quiet]
      /\ done' = done \/ (Renamed(c) /\ done' \subseteq done \cup Saving(c))
      /\ Exempt' = Exempt
  BY DEF Answer, Rests, Exempt
<1>3. copy' \in [Callers -> Draft] /\ done' \subseteq Edit /\ EmptyDraft \in Draft
  BY DEF Answer, TypeInv, EmptyDraft, Draft
<1>4. TypeInv'
  BY <1>1, <1>2, <1>3, CallerType DEF roomVars
<1>5. HoldsMade(repo.draft.edits) /\ repo'.wal = repo.wal
      /\ repo.draft.edits \subseteq repo'.draft.edits \cup Exempt' /\ {} \subseteq repo'.draft.edits
      /\ {} \subseteq Exempt'
  BY DEF Inv, MemoryInv
<1>6. Exempt \subseteq Exempt'
  BY <1>2
<1>7. CallerMoves(c, NoQuery, {}, repo.draft.edits)
  BY <1>1, <1>2, <1>5, <1>6 DEF CallerMoves
<1>8. Inv'
  BY <1>1, <1>7, CallerStep
<1>. QED  BY <1>4, <1>8

\* A GET that has nothing to save changes the caller's copy and nothing else.
LEMMA GetStep ==
    ASSUME TypeInv, Inv, NEW c \in Callers, Get(c)
    PROVE  TypeInv' /\ Inv'
<1>1. CASE ReadFirst(c, NoQuery) /\ UNCHANGED copy
  <2>1. NoQuery \in Query /\ NoQuery.op = "get"
    BY NoQueryType
  <2>. QED  BY <1>1, <2>1, CallerReads DEF Get, roomVars
<1>2. CASE copy' = [copy EXCEPT ![c] = repo.draft] /\ UNCHANGED <<repo, request, io, unheld, raced>>
  <2>1. UNCHANGED <<repo, saved, tmp, io, request, room, joined, waiting, closed, active, done, unheld, raced>>
    BY <1>2 DEF Get, roomVars
  <2>2. copy' \in [Callers -> Draft]
    BY <1>2 DEF TypeInv, IsData, Data
  <2>3. TypeInv'
    BY <2>1, <2>2 DEF TypeInv
  <2>4. MemoryInv' /\ FileInv' /\ AloneInv'
    BY <2>1 DEF Inv, MemoryInv, FileInv, AloneInv, HoldsMade, Made, Good, HoldsKept, Kept,
                Saving, Exempt, Busy
  <2>5. WaitInv' /\ SocketInv'
    BY <2>1 DEF Inv, WaitInv, SocketInv
  <2>. QED  BY <2>3, <2>4, <2>5 DEF Inv
<1>. QED  BY <1>1, <1>2 DEF Get

LEMMA WriteStep ==
    ASSUME TypeInv, Inv, NEW c \in Callers, NEW e \in RestEdits, Post(c, e) \/ Put(c, e)
    PROVE  TypeInv' /\ Inv'
<1>1. PICK q \in Query :
          /\ q.edit = e
          /\ ReadFirst(c, q) \/ Execute(c, q, repo.draft) \/ Replace(c, q, repo.draft)
  <2>1. CASE Post(c, e)
    <3>. DEFINE q == [NoQuery EXCEPT !.op = "post", !.edit = e]
    <3>1. q \in Query /\ q.edit = e
      BY NoQueryType DEF Query
    <3>. QED  BY <2>1, <3>1 DEF Post
  <2>2. CASE Put(c, e)
    <3>1. PICK tidy \in BOOLEAN :
              LET q == [NoQuery EXCEPT !.op = "put", !.edit = e, !.tidy = tidy] IN
              ReadFirst(c, q) \/ Replace(c, q, repo.draft)
      BY <2>2 DEF Put
    <3>. DEFINE q == [NoQuery EXCEPT !.op = "put", !.edit = e, !.tidy = tidy]
    <3>2. q \in Query /\ q.edit = e
      BY NoQueryType DEF Query
    <3>. QED  BY <3>1, <3>2
  <2>. QED  BY <2>1, <2>2
<1>2. /\ Idle(c) /\ ~Collaborative
      /\ UNCHANGED <<saved, tmp, copy, roomVars, done>>
  BY DEF Post, Put
<1>3. repo.draft \in Draft /\ HoldsMade(repo.draft.edits)
  BY DEF TypeInv, IsData, Data, Inv, MemoryInv
<1>. QED  BY <1>1, <1>2, <1>3, CallerReads, ExecuteStep, ReplaceStep

LEMMA ReadDoneStep ==
    ASSUME TypeInv, Inv, NEW c \in Callers, ReadDone(c)
    PROVE  TypeInv' /\ Inv'
<1>. DEFINE q == request[c]
<1>1. /\ q \in Query /\ (q.op # "get" => q.edit \in RestEdits)
      /\ q.draft \in Draft /\ copy[c] \in Draft
  BY DEF TypeInv, Query
<1>2. Ended(c) /\ q.at = "reading" /\ Reading(c) /\ UNCHANGED roomVars
  BY ProcessKinds DEF ReadDone, Ended, Reading
<1>3. HoldsMade(q.draft.edits)
  BY <1>2 DEF Inv, MemoryInv
<1>4. CASE Answer(c, {}, q.draft) /\ UNCHANGED repo
  BY <1>1, <1>2, <1>4, CallerAnswers
<1>5. CASE Answer(c, {}, copy[c]) /\ UNCHANGED repo
  BY <1>1, <1>2, <1>5, CallerAnswers
<1>6. CASE q.op # "get" /\ (Execute(c, q, q.draft) \/ Replace(c, q, q.draft)) /\ UNCHANGED <<copy, done>>
  BY <1>1, <1>2, <1>3, <1>6, ExecuteStep, ReplaceStep
<1>. QED  BY <1>4, <1>5, <1>6 DEF ReadDone

LEMMA SaveDoneStep ==
    ASSUME TypeInv, Inv, NEW c \in Callers, SaveDone(c)
    PROVE  TypeInv' /\ Inv'
<1>1. /\ request[c].edit \in RestEdits /\ request[c].draft \in Draft
      /\ Saving(c) = {request[c].edit}
  BY ProcessKinds DEF SaveDone, TypeInv, Query, Saving
<1>2. {request[c].edit} \in SUBSET Edit
  BY <1>1 DEF Edit
<1>. QED  BY <1>1, <1>2, CallerAnswers DEF SaveDone, Ended

LEMMA RequestFailsStep ==
    ASSUME TypeInv, Inv, NEW c \in Callers, RequestFails(c)
    PROVE  TypeInv' /\ Inv'
<1>1. copy[c] \in Draft
  BY DEF TypeInv
<1>. QED  BY <1>1, CallerAnswers DEF RequestFails, Ended

-----------------------------------------------------------------------------
(* Steps of the room *)

LEMMA RoomStep ==
    ASSUME TypeInv, Inv, NEW new, NEW held, NEW kept,
           UNCHANGED request,
           \/ io' = [io EXCEPT ![Room] = Pending] /\ room'.at \notin {"none", "warm"} /\ Crowded(Room, new)
           \/ io' = [io EXCEPT ![Room] = Quiet] /\ room'.at \in {"none", "warm"},
           Ended(Room) \/ (room.at \in {"none", "warm"} /\ UNCHANGED <<saved, tmp>>),
           Exempt \subseteq Exempt', Keeping(Room),
           \A e \in Edit : e \in done' \cup room'.known \cup Edits(repo'.wal)
                           => Made(e) \/ e \in new \/ e \in Exempt',
           Saving(Room)' \subseteq new,
           HoldsMade(held), held \cup new \subseteq repo'.draft.edits \cup Exempt',
           room'.at \in {"loading", "rereading"} => held \cup new \subseteq room'.read.edits,
           HoldsMade(kept),
           room'.at \notin {"none", "loading"} => kept \cup new \subseteq room'.edits \cup Saving(Room)' \cup Exempt',
           (\E c \in Callers : Reading(c)) => new \subseteq Exempt',
           room'.at = "snapshotting" => room'.op \in room'.known
    PROVE  (MemoryInv /\ FileInv /\ AloneInv /\ WaitInv)'
<1>1. Room \in Processes /\ Room \notin Callers
  BY ProcessKinds
<1>2. Only(Room)
  BY <1>1 DEF Only, TypeInv
<1>3. \/ io'[Room] = Pending /\ room'.at \notin {"none", "warm"} /\ Crowded(Room, new)
      \/ io'[Room] = Quiet /\ room'.at \in {"none", "warm"}
  BY <1>1 DEF TypeInv
<1>4. Begun(Room) \/ Rested(Room)
  BY <1>3 DEF Begun, Rested, Pending, Quiet, Crowded, Saving
<1>5. Disk(Room)
  BY <1>1 DEF Disk, Inv, WaitInv
<1>6. MadeOf(new)
  BY <1>1, <1>2, MadeStep
<1>7. AloneInv' /\ FileInv'
  BY <1>1, <1>2, <1>4, <1>5, AloneStep, FileStep DEF Inv
<1>8. MemoryInv'
  <2>1. HoldsAfter(repo'.draft.edits)
    <3>1. held \subseteq repo'.draft.edits \cup Exempt' /\ new \subseteq repo'.draft.edits \cup Exempt'
      OBVIOUS
    <3>. QED  BY <1>6, <3>1, Carried
  <2>2. ASSUME room'.at \in {"loading", "rereading"} PROVE HoldsAfter(room'.read.edits)
    <3>1. held \subseteq room'.read.edits \cup Exempt' /\ new \subseteq room'.read.edits \cup Exempt'
      BY <2>2
    <3>. QED  BY <1>6, <3>1, Carried
  <2>3. PICK own : own = room'.edits \cup Saving(Room)'
    OBVIOUS
  <2>4. ASSUME room'.at \notin {"none", "loading"} PROVE HoldsAfter(own)
    <3>1. kept \subseteq own \cup Exempt' /\ new \subseteq own \cup Exempt'
      BY <2>3, <2>4
    <3>. QED  BY <1>6, <3>1, Carried
  <2>. QED  BY <1>2, <1>6, <2>1, <2>2, <2>3, <2>4, RoomMemory DEF Inv
<1>9. WaitInv'
  <2>1. \A c \in Callers : io'[c] = io[c]
    BY <1>1, <1>2, ProcessKinds DEF Only
  <2>. QED  BY <1>3, <2>1 DEF Inv, WaitInv, Pending, Quiet
<1>. QED  BY <1>7, <1>8, <1>9

LEMMA OpenRoomStep ==
    ASSUME TypeInv, Inv, NEW hellos, OpenRoom(hellos), UNCHANGED <<request, copy, done>>,
           \/ room.at = "none" /\ UNCHANGED <<saved, tmp>>
           \/ room.at = "evicting" /\ Ended(Room)
    PROVE  /\ TypeInv' /\ (MemoryInv /\ FileInv /\ AloneInv /\ WaitInv)'
           /\ NeedsSaving => room'.at = "loading"
           /\ ~NeedsSaving => room'.at = "warm"
<1>1. repo.draft \in Draft /\ HoldsMade(repo.draft.edits) /\ IsData(repo)
  BY DEF TypeInv, IsData, Data, Inv, MemoryInv
<1>2. Saving(Room) = {}
  BY DEF Saving
<1>3. CASE NeedsSaving
  <2>1. Normalized \in Draft /\ Normalized.edits = repo.draft.edits
    BY <1>1, NormalizedType DEF TypeInv
  <2>2. /\ repo' = [repo EXCEPT !.draft = Normalized]
        /\ room' = [NoRoom EXCEPT !.at = "loading", !.read = Normalized]
        /\ io' = [io EXCEPT ![Room] = Pending]
        /\ raced \cup Overlapping(Room, {}) \subseteq raced' /\ unheld \subseteq unheld'
    BY <1>3 DEF OpenRoom, Persist, Pending
  <2>3. /\ IsData(repo') /\ repo'.draft = Normalized /\ repo'.wal = repo.wal
    BY <1>1, <2>1, <2>2, DraftUpdate DEF TypeInv
  <2>4. room' \in Session /\ room'.at = "loading" /\ room'.read = Normalized /\ room'.known = {}
    BY <2>1, <2>2, NoRoomType DEF Session, Stages
  <2>5. Crowded(Room, {}) /\ Exempt \subseteq Exempt' /\ Saving(Room)' = {}
    BY <2>2, <2>4, CrowdedPersist, ProcessKinds DEF Exempt, Saving
  <2>6. TypeInv'
    BY <2>2, <2>3, <2>4, RoomType DEF TypeInv
  <2>7. Keeping(Room) /\ \A e \in Edit : e \in done' \cup room'.known \cup Edits(repo'.wal) => Made(e)
    BY <1>2, <2>3, <2>4, <2>5 DEF Keeping, Kept, Made
  <2>8. (MemoryInv /\ FileInv /\ AloneInv /\ WaitInv)'
    <3>1. repo.draft.edits \cup {} \subseteq repo'.draft.edits \cup Exempt'
      BY <2>1, <2>3
    <3>2. repo.draft.edits \cup {} \subseteq room'.read.edits
      BY <2>1, <2>4
    <3>. QED  BY <1>1, <2>2, <2>4, <2>5, <2>7, <3>1, <3>2, RoomStep
  <2>. QED  BY <1>3, <2>4, <2>6, <2>8
<1>4. CASE ~NeedsSaving
  <2>1. /\ room' = Loaded(repo.draft) /\ io' = [io EXCEPT ![Room] = Quiet]
        /\ UNCHANGED repo /\ Exempt' = Exempt
    BY <1>4 DEF OpenRoom, Exempt
  <2>2. room' \in Session /\ room'.at = "warm" /\ room'.known = Edits(repo.wal) /\ repo.draft.edits \subseteq room'.edits
    BY <1>1, <2>1, LoadedType DEF TypeInv
  <2>3. Saving(Room)' = {}
    BY <2>2 DEF Saving
  <2>4. TypeInv'
    BY <2>1, <2>2, RoomType DEF TypeInv
  <2>5. Keeping(Room) /\ \A e \in Edit : e \in done' \cup room'.known \cup Edits(repo'.wal) => Made(e)
    BY <1>2, <2>1, <2>2, <2>3 DEF Keeping, Kept, Made
  <2>6. (MemoryInv /\ FileInv /\ AloneInv /\ WaitInv)'
    <3>1. repo.draft.edits \cup {} \subseteq repo'.draft.edits \cup Exempt'
      BY <2>1
    <3>2. repo.draft.edits \cup {} \subseteq room'.edits \cup Saving(Room)' \cup Exempt'
      BY <2>2
    <3>3. Exempt \subseteq Exempt' /\ Saving(Room)' \subseteq {} /\ {} \subseteq Exempt'
      BY <2>1, <2>3
    <3>. QED  BY <1>1, <2>1, <2>2, <2>3, <2>5, <3>1, <3>2, <3>3, RoomStep
  <2>. QED  BY <1>4, <2>2, <2>4, <2>6
<1>. QED  BY <1>3, <1>4

LEMMA AppendToStep ==
    ASSUME TypeInv, Inv, NEW d \in Draft, HoldsMade(d.edits), NEW r \in Session, AppendTo(d, r),
           r.op \in OpEdits, r.edits = room.edits, r.known = room.known,
           \/ room.at = "warm" /\ UNCHANGED <<saved, tmp>>
           \/ room.at = "rereading" /\ Ended(Room),
           UNCHANGED <<request, copy, done>>
    PROVE  TypeInv' /\ (MemoryInv /\ FileInv /\ AloneInv /\ WaitInv)'
<1>. DEFINE next == [d EXCEPT !.revision = r.version + 1, !.edits = @ \cup {r.op}]
            entry == [version |-> r.version + 1, edit |-> r.op]
<1>1. Room \in Processes /\ Room \notin Callers
  BY ProcessKinds
<1>2. next \in Draft /\ next.edits = d.edits \cup {r.op} /\ entry \in Logged /\ entry.edit = r.op
  <2>1. r.version + 1 \in Int /\ d.edits \cup {r.op} \in SUBSET Edit /\ r.op \in Edit
    BY DEF Draft, Edit, Session
  <2>. QED  BY <2>1 DEF Draft, Logged
<1>3. repo' = [draft |-> next, wal |-> repo.wal \cup {entry}]
  BY DEF AppendTo
<1>. HIDE DEF next, entry
<1>4. /\ IsData(repo') /\ repo'.draft.edits = d.edits \cup {r.op}
      /\ Edits(repo'.wal) = Edits(repo.wal) \cup {r.op}
  <2>1. IsFiniteSet(repo.wal \cup {entry}) /\ repo.wal \in SUBSET Logged
    BY FS_AddElement DEF TypeInv, IsData, Data
  <2>. QED  BY <1>2, <1>3, <2>1 DEF IsData, Data, Edits
<1>5. /\ room' \in Session /\ room'.at = "appending" /\ room'.op = r.op
      /\ room'.edits = room.edits /\ room'.known = room.known
  <2>1. room' = [r EXCEPT !.at = "appending", !.read = EmptyDraft] /\ EmptyDraft \in Draft
    BY DEF AppendTo, EmptyDraft, Draft
  <2>. QED  BY <2>1 DEF Session, Stages
<1>6. /\ io' = [io EXCEPT ![Room] = Pending]
      /\ raced \cup Overlapping(Room, {r.op}) \subseteq raced' /\ unheld \subseteq unheld'
      /\ (\E q \in Processes : Reading(q)) => r.op \in raced'
  BY DEF AppendTo, PersistEdit, Pending
<1>7. TypeInv'
  BY <1>4, <1>5, <1>6, RoomType DEF TypeInv
<1>8. Saving(Room) = {} /\ Saving(Room)' = {r.op}
  BY <1>5 DEF Saving
<1>9. Crowded(Room, {r.op}) /\ Exempt \subseteq Exempt'
      /\ ((\E c \in Callers : Reading(c)) => {r.op} \subseteq Exempt')
  BY <1>1, <1>6, CrowdedPersist, ProcessKinds DEF Exempt
<1>10. Keeping(Room)
  BY <1>4, <1>5, <1>8 DEF Keeping, Kept
<1>11. \A e \in Edit : e \in done' \cup room'.known \cup Edits(repo'.wal)
                       => Made(e) \/ e \in {r.op}
  BY <1>4, <1>5, <1>8 DEF Made
<1>12. HoldsMade(room.edits)
  <2>1. room.edits \cup Saving(Room) = room.edits
    BY <1>8
  <2>. QED  BY <2>1 DEF Inv, MemoryInv
<1>13. /\ d.edits \cup {r.op} \subseteq repo'.draft.edits \cup Exempt'
       /\ room.edits \cup {r.op} \subseteq room'.edits \cup Saving(Room)' \cup Exempt'
  BY <1>4, <1>5, <1>8
<1>14. (MemoryInv /\ FileInv /\ AloneInv /\ WaitInv)'
  BY <1>5, <1>6, <1>8, <1>9, <1>10, <1>11, <1>12, <1>13, RoomStep
<1>. QED  BY <1>7, <1>14

LEMMA ProcessStep ==
    ASSUME TypeInv, Inv, NEW e \in OpEdits, Process(e), room.at = "warm",
           UNCHANGED <<saved, tmp, request, copy, done>>
    PROVE  TypeInv' /\ (MemoryInv /\ FileInv /\ AloneInv /\ WaitInv)'
<1>. DEFINE r == [room EXCEPT !.op = e]
<1>1. r \in Session /\ r.op = e /\ r.edits = room.edits /\ r.known = room.known
  BY DEF TypeInv, Session
<1>2. repo.draft \in Draft /\ HoldsMade(repo.draft.edits)
  BY DEF TypeInv, IsData, Data, Inv, MemoryInv
<1>3. Saving(Room) = {} /\ HoldsMade(room.edits)
  <2>1. Saving(Room) = {} /\ room.edits \cup Saving(Room) = room.edits
    BY DEF Saving
  <2>. QED  BY <2>1 DEF Inv, MemoryInv
<1>4. CASE ~NeedsSaving
  BY <1>1, <1>2, <1>4, AppendToStep DEF Process
<1>5. CASE NeedsSaving
  <2>1. Normalized \in Draft /\ Normalized.edits = repo.draft.edits
    BY NormalizedType DEF TypeInv
  <2>2. /\ repo' = [repo EXCEPT !.draft = Normalized]
        /\ room' = [r EXCEPT !.at = "rereading", !.read = Normalized]
        /\ io' = [io EXCEPT ![Room] = Pending]
        /\ raced \cup Overlapping(Room, {}) \subseteq raced' /\ unheld \subseteq unheld'
    BY <1>5 DEF Process, Persist, Pending
  <2>3. /\ IsData(repo') /\ repo'.draft = Normalized /\ repo'.wal = repo.wal
    BY <2>1, <2>2, DraftUpdate DEF TypeInv
  <2>4. /\ room' \in Session /\ room'.at = "rereading" /\ room'.read = Normalized /\ room'.op = e
        /\ room'.known = room.known /\ room'.edits = room.edits
    <3>. HIDE DEF r
    <3>. QED  BY <1>1, <2>1, <2>2 DEF Session, Stages
  <2>5. Crowded(Room, {}) /\ Exempt \subseteq Exempt' /\ Saving(Room)' = {}
    BY <2>2, <2>4, CrowdedPersist, ProcessKinds DEF Exempt, Saving
  <2>6. TypeInv'
    BY <2>2, <2>3, <2>4, RoomType DEF TypeInv
  <2>7. Keeping(Room) /\ \A x \in Edit : x \in done' \cup room'.known \cup Edits(repo'.wal) => Made(x)
    BY <1>3, <2>3, <2>4, <2>5 DEF Keeping, Kept, Made
  <2>8. /\ repo.draft.edits \cup {} \subseteq repo'.draft.edits \cup Exempt'
        /\ repo.draft.edits \cup {} \subseteq room'.read.edits
        /\ room.edits \cup {} \subseteq room'.edits \cup Saving(Room)' \cup Exempt'
    BY <2>1, <2>3, <2>4
  <2>9. (MemoryInv /\ FileInv /\ AloneInv /\ WaitInv)'
    BY <1>2, <1>3, <2>2, <2>4, <2>5, <2>7, <2>8, RoomStep
  <2>. QED  BY <2>6, <2>9
<1>. QED  BY <1>4, <1>5

\* The session writes its draft over the repository's.
LEMMA SnapshotStep ==
    ASSUME TypeInv, Inv, NEW r \in Session, repo' = SnapshotOf(r), room' = r, Persist(Room),
           r.at \in {"snapshotting", "evicting"},
           r.at = "snapshotting" => r.op \in r.known /\ r.op \in OpEdits,
           r.edits = room.edits \cup Saving(Room),
           r.known = room.known \/ (Renamed(Room) /\ r.known = room.known \cup Saving(Room)),
           Saving(Room) = {} \/ Renamed(Room),
           room.at \notin {"none", "loading"},
           Ended(Room) \/ (room.at = "warm" /\ UNCHANGED <<saved, tmp>>),
           UNCHANGED <<request, copy, done>>
    PROVE  TypeInv' /\ (MemoryInv /\ FileInv /\ AloneInv /\ WaitInv)'
<1>1. Room \in Processes /\ HoldsMade(r.edits)
  BY ProcessKinds DEF Inv, MemoryInv
<1>2. /\ io' = [io EXCEPT ![Room] = Pending]
      /\ raced \cup Overlapping(Room, {}) \subseteq raced' /\ unheld \subseteq unheld'
  BY DEF Persist, Pending
<1>3. IsData(repo') /\ repo'.draft.edits = r.edits /\ repo'.wal = repo.wal
  <2>. DEFINE d == [revision |-> r.version, edits |-> r.edits, tidy |-> TRUE]
  <2>1. d \in Draft /\ d.edits = r.edits /\ repo' = [repo EXCEPT !.draft = d]
    BY DEF Draft, Session, SnapshotOf
  <2>. HIDE DEF d
  <2>. QED  BY <2>1, DraftUpdate DEF TypeInv
<1>4. TypeInv'
  BY <1>2, <1>3, RoomType DEF TypeInv
<1>5. Crowded(Room, {}) /\ Exempt \subseteq Exempt' /\ Saving(Room)' = {}
  BY <1>1, <1>2, CrowdedPersist DEF Exempt, Saving
<1>6. Keeping(Room) /\ \A e \in Edit : e \in done' \cup room'.known \cup Edits(repo'.wal) => Made(e)
  BY <1>1, <1>3, <1>5 DEF Keeping, Kept, Made
<1>7. /\ r.edits \cup {} \subseteq repo'.draft.edits \cup Exempt'
      /\ r.edits \cup {} \subseteq room'.edits \cup Saving(Room)' \cup Exempt'
  BY <1>3
<1>8. (MemoryInv /\ FileInv /\ AloneInv /\ WaitInv)'
  <2>1. Ended(Room) \/ (room.at \in {"none", "warm"} /\ UNCHANGED <<saved, tmp>>)
    OBVIOUS
  <2>2. UNCHANGED request /\ room'.at \in {"snapshotting", "evicting"}
    OBVIOUS
  <2>. QED  BY <1>1, <1>2, <1>5, <1>6, <1>7, <2>1, <2>2, RoomStep
<1>. QED  BY <1>4, <1>8

\* The session rests, with the draft it has; an operation whose save failed has raced.
LEMMA RoomRests ==
    ASSUME TypeInv, Inv, NEW r \in Session, room' = r, Rests(Room), Ended(Room),
           r.at = "warm" \/ (r.at = "none" /\ r.known = {}),
           NEW held, HoldsMade(held), r.at = "warm" => held \subseteq r.edits \cup Exempt,
           r.known \subseteq room.known \cup Edits(repo.wal),
           Saving(Room) \subseteq Exempt,
           UNCHANGED <<repo, request, copy>>, done' \subseteq done \cup room.known
    PROVE  TypeInv' /\ (MemoryInv /\ FileInv /\ AloneInv /\ WaitInv)'
<1>1. Room \in Processes /\ HoldsMade(repo.draft.edits)
  BY ProcessKinds DEF Inv, MemoryInv
<1>2. io' = [io EXCEPT ![Room] = Quiet] /\ Exempt' = Exempt
  BY DEF Rests, Exempt
<1>3. done' \subseteq Edit
  BY DEF TypeInv, Session
<1>4. TypeInv'
  BY <1>2, <1>3, RoomType DEF TypeInv
<1>5. Saving(Room)' = {}
  BY DEF Saving
<1>6. Keeping(Room) /\ \A e \in Edit : e \in done' \cup room'.known \cup Edits(repo'.wal) => Made(e)
  BY <1>1, <1>2, <1>5 DEF Keeping, Kept, Made
<1>7. /\ repo.draft.edits \cup {} \subseteq repo'.draft.edits \cup Exempt'
      /\ room'.at \notin {"none", "loading"} => held \cup {} \subseteq room'.edits \cup Saving(Room)' \cup Exempt'
      /\ {} \subseteq Exempt' /\ Exempt \subseteq Exempt' /\ Saving(Room)' \subseteq {}
  BY <1>2, <1>5
<1>8. room'.at \in {"none", "warm"}
  OBVIOUS
<1>9. (MemoryInv /\ FileInv /\ AloneInv /\ WaitInv)'
  BY <1>1, <1>2, <1>6, <1>7, <1>8, RoomStep
<1>. QED  BY <1>4, <1>9

-----------------------------------------------------------------------------
(* The actions of the room and of the sockets *)

LEMMA SocketsSame ==
    ASSUME SocketInv, UNCHANGED <<joined, waiting, closed, active>>,
           room'.at \in {"none", "warm", "appending", "rereading", "snapshotting"} => waiting = {}
    PROVE  SocketInv'
  BY DEF SocketInv

LEMMA AppendedStep ==
    ASSUME TypeInv, Inv, Appended
    PROVE  TypeInv' /\ Inv'
<1>. DEFINE r == [room EXCEPT !.at = "snapshotting", !.version = @ + 1,
                              !.edits = @ \cup {room.op}, !.known = @ \cup {room.op}]
<1>1. room.at = "appending" /\ room.op \in OpEdits /\ Renamed(Room) /\ Saving(Room) = {room.op}
  BY DEF Appended, TypeInv, Saving
<1>2. /\ r \in Session /\ r.at = "snapshotting" /\ r.op = room.op
      /\ r.edits = room.edits \cup {room.op} /\ r.known = room.known \cup {room.op}
  <2>1. room.version + 1 \in Int /\ room.edits \cup {room.op} \in SUBSET Edit /\ room.known \cup {room.op} \in SUBSET Edit
    BY <1>1 DEF TypeInv, Session, Edit
  <2>2. room \in Session
    BY DEF TypeInv
  <2>. QED  BY <2>1, <2>2 DEF Session, Stages
<1>. HIDE DEF r
<1>3. repo' = SnapshotOf(r) /\ room' = r /\ Persist(Room)
      /\ UNCHANGED <<request, copy, done, joined, waiting, closed, active>>
  BY DEF Appended, r, restVars
<1>4. r.edits = room.edits \cup Saving(Room) /\ r.known = room.known \cup Saving(Room) /\ r.op \in r.known
      /\ r.op \in OpEdits /\ Ended(Room)
  BY <1>1, <1>2 DEF Ended
<1>5. TypeInv' /\ (MemoryInv /\ FileInv /\ AloneInv /\ WaitInv)'
  BY <1>1, <1>2, <1>3, <1>4, SnapshotStep
<1>6. SocketInv'
  BY <1>1, <1>3, SocketsSame DEF Inv, SocketInv
<1>. QED  BY <1>5, <1>6 DEF Inv

LEMMA RereadStep ==
    ASSUME TypeInv, Inv, Reread
    PROVE  TypeInv' /\ Inv'
<1>1. /\ room.at = "rereading" /\ room.op \in OpEdits /\ Ended(Room) /\ room \in Session /\ room.read \in Draft
      /\ HoldsMade(room.read.edits) /\ AppendTo(room.read, room)
      /\ UNCHANGED <<request, copy, done, joined, waiting, closed, active>>
  BY DEF Reread, TypeInv, Session, Ended, restVars, Inv, MemoryInv
<1>2. TypeInv' /\ (MemoryInv /\ FileInv /\ AloneInv /\ WaitInv)'
  BY <1>1, AppendToStep
<1>3. SocketInv'
  BY <1>1, SocketsSame DEF Inv, SocketInv
<1>. QED  BY <1>2, <1>3 DEF Inv

\* The session as it rests.
LEMMA Processing ==
    ASSUME TypeInv, Processed
    PROVE  /\ room' \in Session /\ room'.at = "warm" /\ Rests(Room)
           /\ room'.edits = room.edits /\ room'.known = room.known
<1>1. /\ room' = [room EXCEPT !.at = "warm", !.op = NoText, !.read = EmptyDraft]
      /\ EmptyDraft \in Draft /\ room \in Session /\ Rests(Room)
  BY DEF Processed, TypeInv, EmptyDraft, Draft
<1>. QED  BY <1>1 DEF Session, Stages

LEMMA AppendFailsStep ==
    ASSUME TypeInv, Inv, AppendFails
    PROVE  TypeInv' /\ Inv'
<1>1. /\ room.at \in {"appending", "rereading"} /\ RenameFails(Room) /\ Processed
      /\ UNCHANGED <<repo, request, copy, done, joined, waiting, closed, active>>
  BY DEF AppendFails, restVars
<1>2. Saving(Room) \subseteq Exempt
  BY <1>1, ProcessKinds DEF Inv, AloneInv, RenameFails
<1>3. HoldsMade(room.edits \cup Saving(Room)) /\ Ended(Room)
  BY <1>1 DEF Inv, MemoryInv, Ended
<1>4. /\ room'.at = "warm" => room.edits \cup Saving(Room) \subseteq room'.edits \cup Exempt
      /\ room'.known \subseteq room.known \cup Edits(repo.wal) /\ done' \subseteq done \cup room.known
  BY <1>1, <1>2, Processing
<1>5. TypeInv' /\ (MemoryInv /\ FileInv /\ AloneInv /\ WaitInv)'
  BY <1>1, <1>2, <1>3, <1>4, Processing, RoomRests
<1>6. SocketInv'
  BY <1>1, SocketsSame DEF Inv, SocketInv
<1>. QED  BY <1>5, <1>6 DEF Inv

LEMMA SnapshotEndsStep ==
    ASSUME TypeInv, Inv, SnapshotEnds
    PROVE  TypeInv' /\ Inv'
<1>1. /\ room.at = "snapshotting" /\ Ended(Room) /\ Processed /\ done' = done \cup {room.op}
      /\ UNCHANGED <<repo, request, copy, joined, waiting, closed, active>>
  BY DEF SnapshotEnds, restVars, Ended
<1>2. Saving(Room) = {} /\ HoldsMade(room.edits) /\ room.op \in room.known
  <2>1. Saving(Room) = {} /\ room.edits \cup Saving(Room) = room.edits
    BY <1>1 DEF Saving
  <2>. QED  BY <1>1, <2>1 DEF Inv, MemoryInv, WaitInv
<1>3. /\ room'.at = "warm" => room.edits \subseteq room'.edits \cup Exempt
      /\ room'.known \subseteq room.known \cup Edits(repo.wal) /\ done' \subseteq done \cup room.known
      /\ Saving(Room) \subseteq Exempt
  BY <1>1, <1>2, Processing
<1>4. TypeInv' /\ (MemoryInv /\ FileInv /\ AloneInv /\ WaitInv)'
  BY <1>1, <1>2, <1>3, Processing, RoomRests
<1>5. SocketInv'
  BY <1>1, SocketsSame DEF Inv, SocketInv
<1>. QED  BY <1>4, <1>5 DEF Inv

\* Sockets that waited have joined.
LEMMA JoinedStep ==
    ASSUME SocketInv, NEW hellos, IsFiniteSet(hellos), hellos \cap joined = {},
           joined' = joined \cup (hellos \ closed), active' = active + Cardinality(hellos \ closed),
           waiting' = {}
    PROVE  SocketInv'
<1>1. IsFiniteSet(hellos \ closed) /\ joined \cap (hellos \ closed) = {} /\ IsFiniteSet(joined)
  BY FS_Subset DEF SocketInv
<1>2. IsFiniteSet(joined') /\ Cardinality(joined') = Cardinality(joined) + Cardinality(hellos \ closed)
  <2>1. /\ IsFiniteSet(joined \cup (hellos \ closed))
        /\ Cardinality(joined \cup (hellos \ closed)) = Cardinality(joined) + Cardinality(hellos \ closed)
                                                         - Cardinality(joined \cap (hellos \ closed))
    BY <1>1, FS_Union
  <2>2. Cardinality(joined \cap (hellos \ closed)) = 0
    BY <1>1, FS_EmptySet
  <2>. QED  BY <1>1, <2>1, <2>2, FS_CardinalityType
<1>. QED  BY <1>2, FS_EmptySet DEF SocketInv

LEMMA LoadDoneStep ==
    ASSUME TypeInv, Inv, LoadDone
    PROVE  TypeInv' /\ Inv'
<1>1. /\ room.at = "loading" /\ Ended(Room) /\ Rests(Room) /\ room' = Loaded(room.read)
      /\ UNCHANGED <<repo, request, copy, done>>
  BY DEF LoadDone, restVars, Ended
<1>2. HoldsMade(room.read.edits) /\ room.read \in Draft /\ IsData(repo) /\ Saving(Room) = {}
  BY <1>1 DEF Inv, MemoryInv, TypeInv, Session, Saving
<1>3. /\ room' \in Session /\ room'.at = "warm" /\ room'.known = Edits(repo.wal)
      /\ room.read.edits \subseteq room'.edits
  BY <1>1, <1>2, LoadedType
<1>4. /\ room'.at = "warm" => room.read.edits \subseteq room'.edits \cup Exempt
      /\ room'.known \subseteq room.known \cup Edits(repo.wal) /\ done' \subseteq done \cup room.known
      /\ Saving(Room) \subseteq Exempt
  BY <1>1, <1>2, <1>3
<1>5. TypeInv' /\ (MemoryInv /\ FileInv /\ AloneInv /\ WaitInv)'
  BY <1>1, <1>2, <1>3, <1>4, RoomRests
<1>6. SocketInv'
  BY JoinedStep DEF LoadDone, Inv, SocketInv
<1>. QED  BY <1>5, <1>6 DEF Inv

LEMMA EvictStep ==
    ASSUME TypeInv, Inv, Evict
    PROVE  TypeInv' /\ Inv'
<1>. DEFINE r == [room EXCEPT !.at = "evicting"]
<1>1. room.at = "warm" /\ Saving(Room) = {}
  BY DEF Evict, Saving
<1>2. r \in Session /\ r.at = "evicting" /\ r.edits = room.edits /\ r.known = room.known
  BY DEF TypeInv, Session, Stages
<1>3. repo' = SnapshotOf(r) /\ room' = r /\ Persist(Room)
      /\ UNCHANGED <<saved, tmp, request, copy, done, joined, waiting, closed, active>>
  <2>1. SnapshotOf(r) = SnapshotOf(room)
    BY DEF SnapshotOf, TypeInv, Session
  <2>. QED  BY <2>1 DEF Evict, restVars
<1>. HIDE DEF r
<1>4. r.edits = room.edits \cup Saving(Room)
  BY <1>1, <1>2
<1>5. TypeInv' /\ (MemoryInv /\ FileInv /\ AloneInv /\ WaitInv)'
  BY <1>1, <1>2, <1>3, <1>4, SnapshotStep
<1>6. SocketInv'
  BY <1>1, <1>3, SocketsSame DEF Inv, SocketInv
<1>. QED  BY <1>5, <1>6 DEF Inv

LEMMA EvictFailsStep ==
    ASSUME TypeInv, Inv, EvictFails
    PROVE  TypeInv' /\ Inv'
<1>1. /\ room.at = "evicting" /\ Ended(Room) /\ Rests(Room) /\ waiting = {}
      /\ room' = [room EXCEPT !.at = "warm"]
      /\ UNCHANGED <<repo, request, copy, done, joined, waiting, closed, active>>
  BY DEF EvictFails, restVars, Ended
<1>2. /\ room' \in Session /\ room'.at = "warm" /\ room'.edits = room.edits /\ room'.known = room.known
  BY <1>1 DEF TypeInv, Session, Stages
<1>3. Saving(Room) = {} /\ HoldsMade(room.edits)
  <2>1. Saving(Room) = {} /\ room.edits \cup Saving(Room) = room.edits
    BY <1>1 DEF Saving
  <2>. QED  BY <1>1, <2>1 DEF Inv, MemoryInv
<1>4. /\ room'.at = "warm" => room.edits \subseteq room'.edits \cup Exempt
      /\ room'.known \subseteq room.known \cup Edits(repo.wal) /\ done' \subseteq done \cup room.known
      /\ Saving(Room) \subseteq Exempt
  BY <1>1, <1>2, <1>3
<1>5. TypeInv' /\ (MemoryInv /\ FileInv /\ AloneInv /\ WaitInv)'
  BY <1>1, <1>2, <1>3, <1>4, RoomRests
<1>6. SocketInv'
  BY <1>1, SocketsSame DEF Inv
<1>. QED  BY <1>5, <1>6 DEF Inv

\* Sockets wait for the session that is created for them, or have joined it.
LEMMA OpenRoomSockets ==
    ASSUME SocketInv, NEW hellos, OpenRoom(hellos), IsFiniteSet(hellos), hellos \cap joined = {},
           NeedsSaving => room'.at = "loading"
    PROVE  SocketInv'
<1>1. CASE NeedsSaving
  <2>1. waiting' = hellos /\ UNCHANGED <<joined, closed, active>>
    BY <1>1 DEF OpenRoom
  <2>. QED  BY <1>1, <2>1 DEF SocketInv
<1>2. CASE ~NeedsSaving
  <2>1. /\ joined' = joined \cup (hellos \ closed) /\ active' = active + Cardinality(hellos \ closed)
        /\ waiting' = {}
    BY <1>2 DEF OpenRoom
  <2>. QED  BY <2>1, JoinedStep
<1>. QED  BY <1>1, <1>2

LEMMA EvictedStep ==
    ASSUME TypeInv, Inv, Evicted
    PROVE  TypeInv' /\ Inv'
<1>1. room.at = "evicting" /\ Ended(Room) /\ UNCHANGED <<request, copy, done>>
  BY DEF Evicted, restVars, Ended
<1>2. CASE OpenRoom(waiting)
  <2>1. TypeInv' /\ (MemoryInv /\ FileInv /\ AloneInv /\ WaitInv)' /\ (NeedsSaving => room'.at = "loading")
    BY <1>1, <1>2, OpenRoomStep
  <2>2. SocketInv'
    BY <1>2, <2>1, OpenRoomSockets DEF Inv, SocketInv
  <2>. QED  BY <2>1, <2>2 DEF Inv
<1>3. CASE waiting = {} /\ room' = NoRoom /\ Rests(Room) /\ UNCHANGED <<repo, joined, waiting, closed, active>>
  <2>1. NoRoom \in Session /\ NoRoom.at = "none" /\ NoRoom.known = {}
    BY NoRoomType
  <2>2. /\ HoldsMade(repo.draft.edits) /\ Saving(Room) = {}
        /\ {} \subseteq room.known \cup Edits(repo.wal) /\ done' \subseteq done \cup room.known
    BY <1>1 DEF Inv, MemoryInv, Saving
  <2>3. TypeInv' /\ (MemoryInv /\ FileInv /\ AloneInv /\ WaitInv)'
    <3>1. Saving(Room) \subseteq Exempt /\ (NoRoom.at = "warm" => repo.draft.edits \subseteq NoRoom.edits \cup Exempt)
          /\ NoRoom.known \subseteq room.known \cup Edits(repo.wal)
      BY <2>1, <2>2
    <3>. QED  BY <1>1, <1>3, <2>1, <2>2, <3>1, RoomRests
  <2>4. SocketInv'
    BY <1>3, SocketsSame DEF Inv
  <2>. QED  BY <2>3, <2>4 DEF Inv
<1>. QED  BY <1>2, <1>3 DEF Evicted

\* Nothing moves but sockets, or an operation that is known is answered again.
LEMMA AnsweredAgain ==
    ASSUME TypeInv, Inv, UNCHANGED <<repo, saved, tmp, io, request, copy, room, raced, unheld>>,
           done' \subseteq done \cup room.known
    PROVE  TypeInv' /\ (MemoryInv /\ FileInv /\ AloneInv /\ WaitInv)'
<1>1. TypeInv'
  BY DEF TypeInv, Session
<1>2. /\ \A e \in Edit : (Made(e)' => Made(e)) /\ (Kept(e)' => Kept(e))
      /\ \A p \in Processes : Saving(p)' = Saving(p)
      /\ Exempt' = Exempt /\ Busy' = Busy
  BY DEF Made, Kept, Saving, Exempt, Busy
<1>3. MemoryInv'
  BY <1>2, ProcessKinds DEF Inv, MemoryInv, HoldsMade
<1>4. FileInv'
  BY <1>2 DEF Inv, FileInv, Good, HoldsKept
<1>5. AloneInv' /\ WaitInv'
  BY <1>2 DEF Inv, AloneInv, WaitInv
<1>. QED  BY <1>1, <1>3, <1>4, <1>5

LEMMA HelloStep ==
    ASSUME TypeInv, Inv, NEW s \in Sockets, Hello(s)
    PROVE  TypeInv' /\ Inv'
<1>1. s \notin joined \cup waiting /\ UNCHANGED <<saved, tmp, request, copy, done>>
  BY DEF Hello, restVars
<1>2. CASE room.at = "none" /\ OpenRoom({s})
  <2>1. TypeInv' /\ (MemoryInv /\ FileInv /\ AloneInv /\ WaitInv)' /\ (NeedsSaving => room'.at = "loading")
    BY <1>1, <1>2, OpenRoomStep
  <2>2. IsFiniteSet({s}) /\ {s} \cap joined = {}
    BY <1>1, FS_Singleton
  <2>3. SocketInv'
    BY <1>2, <2>1, <2>2, OpenRoomSockets DEF Inv
  <2>. QED  BY <2>1, <2>3 DEF Inv
<1>3. CASE /\ room.at \in {"loading", "evicting"}
           /\ waiting' = waiting \cup {s}
           /\ UNCHANGED <<repo, io, room, joined, closed, active, unheld, raced>>
  <2>1. TypeInv' /\ (MemoryInv /\ FileInv /\ AloneInv /\ WaitInv)'
    BY <1>1, <1>3, AnsweredAgain
  <2>2. SocketInv'
    BY <1>1, <1>3, FS_AddElement DEF Inv, SocketInv
  <2>. QED  BY <2>1, <2>2 DEF Inv
<1>4. CASE /\ room.at \notin {"none", "loading", "evicting"}
           /\ joined' = joined \cup {s}
           /\ active' = active + 1
           /\ UNCHANGED <<repo, io, room, waiting, closed, unheld, raced>>
  <2>1. TypeInv' /\ (MemoryInv /\ FileInv /\ AloneInv /\ WaitInv)'
    BY <1>1, <1>4, AnsweredAgain
  <2>2. SocketInv'
    BY <1>1, <1>4, FS_AddElement DEF Inv, SocketInv
  <2>. QED  BY <2>1, <2>2 DEF Inv
<1>. QED  BY <1>2, <1>3, <1>4 DEF Hello

LEMMA LeaveStep ==
    ASSUME TypeInv, Inv, NEW s \in Sockets, Leave(s)
    PROVE  TypeInv' /\ Inv'
<1>1. TypeInv' /\ (MemoryInv /\ FileInv /\ AloneInv /\ WaitInv)'
  BY AnsweredAgain DEF Leave, diskVars, restVars
<1>2. SocketInv'
  <2>1. joined' = joined \ {s} /\ UNCHANGED <<room, waiting>>
    BY DEF Leave
  <2>2. IsFiniteSet(joined) /\ IsFiniteSet(joined') /\ active \in Nat
    BY <2>1, FS_Subset, FS_CardinalityType DEF Inv, SocketInv
  <2>3. active' = Cardinality(joined')
    <3>1. CASE s \in joined
      <4>1. Cardinality(joined') = active - 1
        BY <2>1, <2>2, <3>1, FS_RemoveElement DEF Inv, SocketInv
      <4>2. active - 1 \in Nat
        BY <2>2, <4>1, FS_CardinalityType
      <4>. DEFINE n == active - 1
      <4>3. {0, n} = {0} \cup {n}
        OBVIOUS
      <4>4. IsFiniteSet({0} \cup {n})
        BY FS_Singleton, FS_AddElement
      <4>5. n \in Nat /\ {0, n} \in SUBSET Int /\ IsFiniteSet({0, n}) /\ {0, n} # {}
        BY <4>2, <4>3, <4>4
      <4>. HIDE DEF n
      <4>6. Max({0, n}) \in {0, n} /\ \A x \in {0, n} : x <= Max({0, n})
        BY <4>5, MaxType
      <4>7. Max({0, n}) = n
        BY <4>5, <4>6
      <4>. QED  BY <3>1, <4>1, <4>7 DEF Leave, n
    <3>2. CASE s \notin joined
      BY <2>1, <3>2 DEF Leave, Inv, SocketInv
    <3>. QED  BY <3>1, <3>2
  <2>. QED  BY <2>1, <2>2, <2>3 DEF Inv, SocketInv
<1>. QED  BY <1>1, <1>2 DEF Inv

LEMMA SubmitStep ==
    ASSUME TypeInv, Inv, NEW s \in Sockets, NEW e \in OpEdits, Submit(s, e)
    PROVE  TypeInv' /\ Inv'
<1>1. room.at = "warm" /\ waiting = {}
      /\ UNCHANGED <<saved, tmp, request, copy, joined, waiting, closed, active>>
  BY DEF Submit, restVars, Inv, SocketInv
<1>2. SocketInv'
  BY <1>1, SocketsSame DEF Inv
<1>3. CASE e \in room.known /\ done' = done \cup {e} /\ UNCHANGED <<repo, room, io, unheld, raced>>
  BY <1>1, <1>2, <1>3, AnsweredAgain DEF Inv
<1>4. CASE Process(e) /\ UNCHANGED done
  BY <1>1, <1>2, <1>4, ProcessStep DEF Inv
<1>. QED  BY <1>3, <1>4 DEF Submit

-----------------------------------------------------------------------------
(* The disk, and restarts *)

LEMMA StringifyStep ==
    ASSUME TypeInv, Inv, NEW p \in Processes, Stringify(p)
    PROVE  TypeInv' /\ Inv'
<1>1. /\ io[p].step = "mkdir" /\ io' = [io EXCEPT ![p] = [step |-> "write", text |-> repo]]
      /\ UNCHANGED <<repo, saved, tmp, request, copy, room, joined, waiting, closed, active, done, unheld, raced>>
  BY DEF Stringify, restVars, roomVars
<1>2. io'[p] = [step |-> "write", text |-> repo] /\ \A q \in Processes \ {p} : io'[q] = io[q]
  BY <1>1 DEF TypeInv
<1>3. /\ \A e \in Edit : (Made(e)' <=> Made(e)) /\ (Kept(e)' <=> Kept(e)) /\ (Kept(e) => Made(e))
      /\ \A q \in Processes : Saving(q)' = Saving(q)
      /\ Exempt' = Exempt
  BY <1>1 DEF Made, Kept, Saving, Exempt
<1>4. Busy' = Busy
  BY <1>1, <1>2 DEF Busy
<1>5. Good(repo)
  BY <1>3 DEF Inv, MemoryInv, HoldsMade, Good, HoldsKept, Made, Edits, TypeInv, IsData, Data, Logged
<1>6. TypeInv'
  <2>1. io' \in [Processes -> [step : Steps, text : Data \cup {NoText}]]
    BY <1>1 DEF TypeInv, IsData, Steps
  <2>2. \A q \in Processes : io'[q].step = "write" => IsData(io'[q].text)
    BY <1>2 DEF TypeInv
  <2>. QED  BY <1>1, <2>1, <2>2 DEF TypeInv
<1>7. MemoryInv'
  BY <1>1, <1>3, ProcessKinds DEF Inv, MemoryInv, HoldsMade
<1>8. FileInv'
  <2>1. \A q \in Processes : io'[q].step = "rename" => io[q].step = "rename"
    BY <1>2
  <2>2. Good(saved)' /\ ((\E q \in Processes : io'[q].step = "rename") /\ tmp' # NoText => Good(tmp)')
    BY <1>1, <1>3, <2>1 DEF Inv, FileInv, Good, HoldsKept
  <2>3. ASSUME NEW q \in Processes, io'[q].step = "write" PROVE Good(io[q].text)'
    <3>1. Good(io'[q].text)
      BY <1>2, <1>5, <2>3 DEF Inv, FileInv
    <3>. QED  BY <1>3, <3>1 DEF Good, HoldsKept
  <2>. QED  BY <2>2, <2>3 DEF FileInv
<1>9. AloneInv'
  <2>. SUFFICES ASSUME NEW q \in Processes, NEW e \in Saving(q) \ Exempt
                PROVE  /\ Busy = {q}
                       /\ io'[q].step = "write" => e \in io'[q].text.draft.edits
                       /\ io'[q].step = "rename" => tmp # NoText /\ e \in tmp.draft.edits
    BY <1>1, <1>3, <1>4 DEF AloneInv
  <2>1. e \in repo.draft.edits
    <3>1. e \in Edit
      BY DEF Saving, TypeInv, Session, Query, Edit, Processes
    <3>. QED  BY <3>1 DEF Inv, MemoryInv, HoldsMade, Made
  <2>2. CASE q = p
    BY <1>2, <2>1, <2>2 DEF Inv, AloneInv
  <2>3. CASE q # p
    BY <1>2, <2>3 DEF Inv, AloneInv
  <2>. QED  BY <2>2, <2>3
<1>10. WaitInv' /\ SocketInv'
  <2>1. \A q \in Processes : io'[q].step = "none" <=> io[q].step = "none"
    BY <1>1, <1>2
  <2>. QED  BY <1>1, <2>1, ProcessKinds DEF Inv, WaitInv, SocketInv
<1>. QED  BY <1>6, <1>7, <1>8, <1>9, <1>10 DEF Inv

LEMMA WriteFileStep ==
    ASSUME TypeInv, Inv, NEW p \in Processes, Write(p)
    PROVE  TypeInv' /\ Inv'
<1>1. /\ io[p].step = "write" /\ io' = [io EXCEPT ![p] = [step |-> "rename", text |-> NoText]]
      /\ tmp' = io[p].text
      /\ UNCHANGED <<repo, saved, request, copy, room, joined, waiting, closed, active, done, unheld, raced>>
  BY DEF Write, restVars, roomVars
<1>2. io'[p] = [step |-> "rename", text |-> NoText] /\ \A q \in Processes \ {p} : io'[q] = io[q]
  BY <1>1 DEF TypeInv
<1>3. /\ \A e \in Edit : (Made(e)' <=> Made(e)) /\ (Kept(e)' <=> Kept(e))
      /\ \A q \in Processes : Saving(q)' = Saving(q)
      /\ Exempt' = Exempt
  BY <1>1 DEF Made, Kept, Saving, Exempt
<1>4. Busy' = Busy
  BY <1>1, <1>2 DEF Busy
<1>5. IsData(tmp') /\ tmp' # NoText /\ Good(tmp')
  BY <1>1, NoneIsNone DEF TypeInv, IsData, Inv, FileInv
<1>6. TypeInv'
  <2>1. io' \in [Processes -> [step : Steps, text : Data \cup {NoText}]]
    BY <1>1 DEF TypeInv, Steps
  <2>2. \A q \in Processes : io'[q].step = "write" => IsData(io'[q].text)
    BY <1>2 DEF TypeInv
  <2>. QED  BY <1>1, <1>5, <2>1, <2>2 DEF TypeInv
<1>7. MemoryInv'
  BY <1>1, <1>3, ProcessKinds DEF Inv, MemoryInv, HoldsMade
<1>8. FileInv'
  <2>1. Good(saved)' /\ Good(tmp)'
    BY <1>1, <1>3, <1>5 DEF Inv, FileInv, Good, HoldsKept
  <2>2. ASSUME NEW q \in Processes, io'[q].step = "write" PROVE Good(io[q].text)'
    <3>1. Good(io'[q].text)
      BY <1>2, <2>2 DEF Inv, FileInv
    <3>. QED  BY <1>3, <3>1 DEF Good, HoldsKept
  <2>. QED  BY <2>1, <2>2 DEF FileInv
<1>9. AloneInv'
  <2>. SUFFICES ASSUME NEW q \in Processes, NEW e \in Saving(q) \ Exempt
                PROVE  /\ Busy = {q}
                       /\ io'[q].step = "write" => e \in io'[q].text.draft.edits
                       /\ io'[q].step = "rename" => tmp' # NoText /\ e \in tmp'.draft.edits
    BY <1>1, <1>3, <1>4 DEF AloneInv
  <2>1. q = p
    BY <1>1 DEF Inv, AloneInv, Busy
  <2>. QED  BY <1>1, <1>2, <1>5, <2>1 DEF Inv, AloneInv
<1>10. WaitInv' /\ SocketInv'
  <2>1. \A q \in Processes : io'[q].step = "none" <=> io[q].step = "none"
    BY <1>1, <1>2
  <2>. QED  BY <1>1, <2>1, ProcessKinds DEF Inv, WaitInv, SocketInv
<1>. QED  BY <1>6, <1>7, <1>8, <1>9, <1>10 DEF Inv

\* Nothing is asked of a server that begins, and nothing is open.
Begins ==
    /\ IsData(repo) /\ IsData(saved) /\ (tmp # NoText => IsData(tmp))
    /\ copy \in [Callers -> Draft] /\ done \subseteq Edit
    /\ InitServer
    /\ Good(repo) /\ Good(saved)

LEMMA BeginsSound == Begins => TypeInv /\ Inv
<1>. SUFFICES ASSUME Begins PROVE TypeInv /\ Inv
  OBVIOUS
<1>1. EmptyDraft \in Draft
  BY DEF EmptyDraft, Draft
<1>2. NoQuery \in Query /\ NoQuery.at = "idle" /\ NoQuery.op = "get"
  BY NoQueryType
<1>3. NoRoom \in Session /\ NoRoom.at = "none" /\ NoRoom.known = {}
  BY NoRoomType
<1>4. Quiet \in [step : Steps, text : Data \cup {NoText}] /\ Quiet.step = "none"
  BY DEF Quiet, Steps
<1>5. /\ io = [p \in Processes |-> Quiet] /\ request = [c \in Callers |-> NoQuery] /\ room = NoRoom
      /\ joined = {} /\ waiting = {} /\ closed = {} /\ active = 0
  BY DEF Begins, InitServer
<1>. HIDE DEF NoQuery, NoRoom, Quiet
<1>6. /\ \A p \in Processes : io[p].step = "none"
      /\ \A c \in Callers : request[c].at = "idle" /\ request[c].op = "get"
      /\ room.at = "none" /\ room.known = {}
  BY <1>2, <1>3, <1>4, <1>5
<1>7. TypeInv
  BY <1>2, <1>3, <1>4, <1>5, <1>6 DEF TypeInv, Begins
<1>8. \A p \in Processes : Saving(p) = {}
  BY <1>6, ProcessKinds DEF Saving
<1>9. MemoryInv
  <2>1. \A e \in Edit : Made(e) => Kept(e) \/ e \in Edits(repo.wal)
    BY <1>8, <1>6 DEF Made, Kept
  <2>2. HoldsMade(repo.draft.edits)
    BY <2>1 DEF Begins, Good, HoldsKept, HoldsMade
  <2>. QED  BY <1>6, <2>2 DEF MemoryInv
<1>10. FileInv /\ AloneInv
  BY <1>6, <1>8 DEF Begins, FileInv, AloneInv
<1>11. WaitInv /\ SocketInv
  BY <1>5, <1>6, ProcessKinds, FS_EmptySet DEF WaitInv, SocketInv
<1>. QED  BY <1>7, <1>9, <1>10, <1>11 DEF Inv

LEMMA InitInv == Init => TypeInv /\ Inv
<1>. SUFFICES ASSUME Init PROVE Begins
  BY BeginsSound
<1>1. EmptyDraft \in Draft
  BY DEF EmptyDraft, Draft
<1>2. IsData(NoData) /\ NoData.wal = {}
  BY <1>1, FS_EmptySet DEF IsData, NoData, Data
<1>3. Good(NoData)
  BY <1>2 DEF Init, InitServer, NoRoom, Good, HoldsKept, Kept, Edits
<1>4. copy \in [Callers -> Draft] /\ done \subseteq Edit
  BY <1>1 DEF Init
<1>. QED  BY <1>2, <1>3, <1>4 DEF Init, Begins

LEMMA RestartStep ==
    ASSUME TypeInv, Inv, Restart
    PROVE  TypeInv' /\ Inv'
<1>1. Begins'
  <2>1. /\ repo' = saved /\ UNCHANGED <<saved, tmp, copy, done, unheld, raced>> /\ InitServer'
        /\ room'.known = {} /\ Exempt' = Exempt
    BY DEF Restart, InitServer, NoRoom, Exempt
  <2>2. ASSUME NEW e \in Edit, Kept(e)' PROVE Kept(e) \/ e \in Edits(saved.wal)
    BY <2>1, <2>2 DEF Kept
  <2>3. \A e \in Edit : Kept(e)' => e \in saved.draft.edits \cup Exempt
    BY <2>2 DEF Inv, FileInv, Good, HoldsKept
  <2>4. Good(repo)' /\ Good(saved)'
    BY <2>1, <2>3 DEF Inv, FileInv, Good, HoldsKept
  <2>. QED  BY <2>1, <2>4 DEF Begins, TypeInv
<1>. QED  BY <1>1, BeginsSound, PTL

LEMMA NextInv ==
    ASSUME TypeInv, Inv, [Next]_vars
    PROVE  TypeInv' /\ Inv'
<1>1. CASE UNCHANGED vars
  <2>1. TypeInv' /\ (MemoryInv /\ FileInv /\ AloneInv /\ WaitInv)'
    BY <1>1, AnsweredAgain DEF vars, diskVars, restVars, roomVars
  <2>2. SocketInv'
    BY <1>1 DEF vars, roomVars, Inv, SocketInv
  <2>. QED  BY <2>1, <2>2 DEF Inv
<1>2. CASE Next
  BY <1>2, StringifyStep, WriteFileStep, GetStep, WriteStep, ReadDoneStep, SaveDoneStep, RequestFailsStep,
     HelloStep, LeaveStep, SubmitStep, AppendedStep, RereadStep, AppendFailsStep, SnapshotEndsStep,
     LoadDoneStep, EvictStep, EvictedStep, EvictFailsStep, RestartStep DEF Next
<1>. QED  BY <1>1, <1>2

-----------------------------------------------------------------------------
(* Theorems *)

\* In every reachable state, for any number of clients, sockets and edits: the
\* draft in memory, and every draft somebody has read and will write to, hold every
\* edit that somebody was told of or waits for; what the file is, or may become,
\* holds those a restart has to find.
THEOREM DraftsInvariant == Spec => [](TypeInv /\ Inv)
<1>1. TypeInv /\ Inv /\ [Next]_vars => (TypeInv /\ Inv)'
  BY NextInv
<1>. QED  BY <1>1, InitInv, PTL DEF Spec

\* What was answered as done stays in the draft, through the other writer, evictions,
\* loads and restarts, but for edits made in the ways that may lose one.
THEOREM EditsAlwaysSurvive == Spec => []EditsSurvive
<1>1. TypeInv /\ Inv => EditsSurvive
  BY DEF TypeInv, Inv, MemoryInv, HoldsMade, Made, Exempt, EditsSurvive
<1>. QED  BY <1>1, DraftsInvariant, PTL
====
