---- MODULE DraftServer ----
(***************************************************************************)
(* The server of the todo example: one draft that a REST API and a         *)
(* collaborative room of the standalone core both write, through one       *)
(* repository that keeps everything in memory and saves it to one file.    *)
(*                                                                         *)
(* A draft is its revision and the edits in it: which command an edit is   *)
(* does not matter here (Editing has the commands).  Code between two      *)
(* waits for the disk runs at once, so a step is split only where it waits *)
(* for one: get and persist.  An operation the pack rejects, and a REST     *)
(* command that does not apply, change nothing and are not modelled.  A    *)
(* file is written whole or not at all.                                    *)
(*                                                                         *)
(* The last three variables are history: the edits that were answered as   *)
(* done, and those made in one of the ways that may lose an edit.          *)
(***************************************************************************)
EXTENDS Integers, FiniteSets, FiniteSetsExt

CONSTANTS
    Callers,    \* REST clients, one request at a time each
    Sockets,    \* WebSocket connections, one hello each at a time
    RestEdits,  \* edits made by REST, each by one request
    OpEdits,    \* operations of collaborators, sent again without limit
    NoText, Room

Edit   == RestEdits \cup OpEdits
Draft  == [revision : Int, edits : SUBSET Edit, tidy : BOOLEAN]
Logged == [version : Int, edit : Edit]
Data   == [draft : Draft, wal : SUBSET Logged]

ASSUME EditsAreOfOneKind == RestEdits \cap OpEdits = {}
ASSUME NoneIsNone == Room \notin Callers /\ NoText \notin Data

VARIABLES
    repo,    \* DraftRepository.data: the draft and its log
    saved,   \* the file
    tmp,     \* the temporary file, shared by all saves
    io,      \* what each process waits for the disk to do
    request, \* the REST request each caller waits for
    copy,    \* the draft each REST client was last given
    room,    \* the document's session in the core
    joined,  \* sockets with a documentId
    waiting, \* sockets whose hello waits for the room
    closed,  \* of these, the ones that have closed meanwhile
    active,  \* activeCounts
    tried,   \* REST edits that some request has made
    done,    \* edits answered as done
    unheld,  \* REST edits made while the room was kept and nobody was in it
    raced    \* edits that raced another save or a draft read before it

diskVars == <<saved, tmp, io>>
restVars == <<request, copy, tried>>
roomVars == <<room, joined, waiting, closed, active>>
vars     == <<repo, diskVars, restVars, roomVars, done, unheld, raced>>

Processes == Callers \cup {Room}

\* A draft without its completion; also one nobody has asked for yet.
EmptyDraft == [revision |-> 0, edits |-> {}, tidy |-> FALSE]
NoData     == [draft |-> EmptyDraft, wal |-> {}]
NoRoom  == [at |-> "none", version |-> 0, edits |-> {}, known |-> {}, op |-> NoText, read |-> EmptyDraft]
NoQuery == [at |-> "idle", op |-> "get", edit |-> NoText, draft |-> EmptyDraft, tidy |-> TRUE]
Quiet   == [step |-> "none", text |-> NoText]

InitServer ==
    /\ io = [p \in Processes |-> Quiet]
    /\ request = [c \in Callers |-> NoQuery]
    /\ room = NoRoom
    /\ joined = {} /\ waiting = {} /\ closed = {} /\ active = 0

Init ==
    /\ repo = NoData /\ saved = NoData /\ tmp = NoText
    /\ InitServer
    /\ copy = [c \in Callers |-> EmptyDraft]
    /\ tried = {} /\ done = {}
    /\ unheld = {} /\ raced = {}

-----------------------------------------------------------------------------
(* The repository and its file *)

\* get has to save what it returns: a draft nobody has asked for yet, or one
\* that a PUT left without its completion.
NeedsSaving == ~repo.draft.tidy
Normalized  == [repo.draft EXCEPT !.tidy = TRUE]

\* The edits a process is saving, and the processes that wait to write to a
\* draft they have read.
Saving(p)  == IF p = Room THEN (IF room.at = "appending" THEN {room.op} ELSE {})
              ELSE IF request[p].at = "saving" THEN {request[p].edit} ELSE {}
Reading(p) == IF p = Room THEN room.at \in {"loading", "rereading"} ELSE request[p].at = "reading"
Busy       == {p \in Processes : io[p].step # "none"}

\* The edits whose save overlaps one that p begins for some edits.
Overlapping(p, edits) ==
    IF Busy \ {p} = {} THEN {} ELSE edits \cup UNION {Saving(q) : q \in Busy \ {p}}

\* persist begins.
Persist(p) ==
    /\ io' = [io EXCEPT ![p] = [step |-> "mkdir", text |-> NoText]]
    /\ raced' = raced \cup Overlapping(p, {})
    /\ UNCHANGED unheld

\* persist begins for an edit that was just applied.  The edit races when
\* somebody waits to write to a draft read before, or did.
PersistEdit(p, e, dropped) ==
    /\ io' = [io EXCEPT ![p] = [step |-> "mkdir", text |-> NoText]]
    /\ raced' = raced \cup Overlapping(p, {e}) \cup dropped
                      \cup {x \in {e} : \E q \in Processes : Reading(q)}
    /\ unheld' = IF p # Room /\ joined = {} /\ room.at \notin {"none", "loading", "evicting"}
                 THEN unheld \cup {e} ELSE unheld

\* persist: the directory is there, the data becomes text.
Stringify(p) ==
    /\ io[p].step = "mkdir"
    /\ io' = [io EXCEPT ![p] = [step |-> "write", text |-> repo]]
    /\ UNCHANGED <<repo, saved, tmp, restVars, roomVars, done, unheld, raced>>

\* persist: the temporary file is written.
Write(p) ==
    /\ io[p].step = "write"
    /\ tmp' = io[p].text
    /\ io' = [io EXCEPT ![p] = [step |-> "rename", text |-> NoText]]
    /\ UNCHANGED <<repo, saved, restVars, roomVars, done, unheld, raced>>

\* persist: the rename, which fails when another save has renamed the file.
Renamed(p) ==
    /\ io[p].step = "rename"
    /\ tmp # NoText
    /\ saved' = tmp /\ tmp' = NoText

RenameFails(p) ==
    /\ io[p].step = "rename"
    /\ tmp = NoText
    /\ UNCHANGED <<saved, tmp>>

Rests(p) == io' = [io EXCEPT ![p] = Quiet] /\ UNCHANGED <<unheld, raced>>

-----------------------------------------------------------------------------
(* The REST API *)

\* Mutant: one collaborator alone does not keep REST out.
SharedByTwo == active > 1

\* isCollaborative
Collaborative == active > 0

\* execute on the draft d the repository returned: the edit is applied to it
\* and the result replaces what the repository has now.
Execute(c, q, d) ==
    LET next == [d EXCEPT !.revision = @ + 1, !.edits = @ \cup {q.edit}] IN
    /\ repo' = [repo EXCEPT !.draft = next]
    /\ request' = [request EXCEPT ![c] = [q EXCEPT !.at = "saving", !.draft = next]]
    /\ PersistEdit(c, q.edit, {})

\* The revision of the caller's copy is the one of the draft get returned.
UpToDate(c, d) == copy[c].revision = d.revision

\* PUT with the revision of d: the body replaces the draft, completion and all.
\* History: what a body drops that has the right revision and other contents.
Replace(c, q, d) ==
    LET next == [revision |-> d.revision + 1, edits |-> copy[c].edits \cup {q.edit}, tidy |-> q.tidy] IN
    /\ UpToDate(c, d)
    /\ repo' = [repo EXCEPT !.draft = next]
    /\ request' = [request EXCEPT ![c] = [q EXCEPT !.at = "saving", !.draft = next]]
    /\ PersistEdit(c, q.edit, IF d.revision = copy[c].revision THEN d.edits \ copy[c].edits ELSE {})

\* A request whose get has to save first.
ReadFirst(c, q) ==
    /\ repo' = [repo EXCEPT !.draft = Normalized]
    /\ request' = [request EXCEPT ![c] = [q EXCEPT !.at = "reading", !.draft = Normalized]]
    /\ Persist(c)

Idle(c) == request[c].at = "idle"

\* GET; a refused POST or PUT reads the draft in the same way, for its revision.
Get(c) ==
    /\ Idle(c)
    /\ \/ NeedsSaving /\ ReadFirst(c, NoQuery) /\ UNCHANGED copy
       \/ ~NeedsSaving
          /\ copy' = [copy EXCEPT ![c] = repo.draft]
          /\ UNCHANGED <<repo, request, io, unheld, raced>>
    /\ UNCHANGED <<saved, tmp, tried, roomVars, done>>

\* POST of a command, refused while the room is collaborative.
Post(c, e) ==
    LET q == [NoQuery EXCEPT !.op = "post", !.edit = e] IN
    /\ Idle(c) /\ e \notin tried
    /\ ~Collaborative
    /\ tried' = tried \cup {e}
    /\ IF NeedsSaving THEN ReadFirst(c, q) ELSE Execute(c, q, repo.draft)
    /\ UNCHANGED <<saved, tmp, copy, roomVars, done>>

\* PUT of the caller's copy with an edit more; it may leave the completion as
\* it was.
Put(c, e) == \E tidy \in BOOLEAN :
    LET q == [NoQuery EXCEPT !.op = "put", !.edit = e, !.tidy = tidy] IN
    /\ Idle(c) /\ e \notin tried
    /\ ~Collaborative
    /\ tried' = tried \cup {e}
    /\ IF NeedsSaving THEN ReadFirst(c, q) ELSE Replace(c, q, repo.draft)
    /\ UNCHANGED <<saved, tmp, copy, roomVars, done>>

\* The answer: 200 with the draft that was saved, or an error.
Answer(c, edits, given) ==
    /\ request' = [request EXCEPT ![c] = NoQuery]
    /\ copy' = [copy EXCEPT ![c] = given]
    /\ done' = done \cup edits
    /\ Rests(c)

\* get has saved: the request goes on with the draft it read before.
ReadDone(c) ==
    LET q == request[c] IN
    /\ Renamed(c) /\ q.at = "reading"
    /\ \/ q.op = "get" /\ Answer(c, {}, q.draft) /\ UNCHANGED repo
       \/ q.op = "post" /\ Execute(c, q, q.draft) /\ UNCHANGED <<copy, done>>
       \/ q.op = "put" /\ Replace(c, q, q.draft) /\ UNCHANGED <<copy, done>>
       \/ q.op = "put" /\ ~UpToDate(c, q.draft) /\ Answer(c, {}, copy[c]) /\ UNCHANGED repo
    /\ UNCHANGED <<tried, roomVars>>

SaveDone(c) ==
    LET q == request[c] IN
    /\ Renamed(c) /\ q.at = "saving"
    /\ Answer(c, {q.edit}, q.draft)
    /\ UNCHANGED <<repo, tried, roomVars>>

\* A save that fails is answered with an error; its edit stays in memory.
RequestFails(c) ==
    /\ RenameFails(c)
    /\ Answer(c, {}, copy[c])
    /\ UNCHANGED <<repo, tried, roomVars>>

-----------------------------------------------------------------------------
(* The room: its session reads and writes the repository through the       *)
(* storage adapter                                                         *)

\* load: the draft is the snapshot, the log above its revision is applied,
\* and every logged operation is known.
Loaded(d) ==
    LET later == {r \in repo.wal : r.version > d.revision} IN
    [NoRoom EXCEPT !.at = "warm",
                   !.version = Max({d.revision} \cup {r.version : r \in later}),
                   !.edits = d.edits \cup {r.edit : r \in later},
                   !.known = {r.edit : r \in repo.wal}]

\* A session is created for the hellos of some sockets, and loads.
OpenRoom(hellos) ==
    IF NeedsSaving
    THEN /\ repo' = [repo EXCEPT !.draft = Normalized]
         /\ room' = [NoRoom EXCEPT !.at = "loading", !.read = Normalized]
         /\ waiting' = hellos
         /\ Persist(Room)
         /\ UNCHANGED <<joined, closed, active>>
    ELSE /\ room' = Loaded(repo.draft)
         /\ waiting' = {} /\ closed' = {}
         /\ joined' = joined \cup (hellos \ closed)
         /\ active' = active + Cardinality(hellos \ closed)
         /\ io' = [io EXCEPT ![Room] = Quiet]
         /\ UNCHANGED <<repo, unheld, raced>>

\* hello: the lease of a session that is there is given at once; one that loads
\* or is evicted is waited for.
Hello(s) ==
    /\ s \notin joined \cup waiting
    /\ \/ room.at = "none" /\ OpenRoom({s})
       \/ /\ room.at \in {"loading", "evicting"}
          /\ waiting' = waiting \cup {s}
          /\ UNCHANGED <<repo, io, room, joined, closed, active, unheld, raced>>
       \/ /\ room.at \notin {"none", "loading", "evicting"}
          /\ joined' = joined \cup {s}
          /\ active' = active + 1
          /\ UNCHANGED <<repo, io, room, waiting, closed, unheld, raced>>
    /\ UNCHANGED <<saved, tmp, restVars, done>>

\* leaveRoom, as the socket closes: what is counted is a documentId.
Leave(s) ==
    /\ s \in joined \cup (waiting \ closed)
    /\ joined' = joined \ {s}
    /\ active' = IF s \in joined THEN Max({0, active - 1}) ELSE active
    /\ closed' = closed \cup ({s} \cap waiting)
    /\ UNCHANGED <<repo, diskVars, restVars, room, waiting, done, unheld, raced>>

\* appendCanonical on the draft d the repository returned.
AppendTo(d, r) ==
    LET v == r.version + 1 IN
    /\ repo' = [draft |-> [d EXCEPT !.revision = v, !.edits = @ \cup {r.op}],
                wal   |-> repo.wal \cup {[version |-> v, edit |-> r.op]}]
    /\ room' = [r EXCEPT !.at = "appending", !.read = EmptyDraft]
    /\ PersistEdit(Room, r.op, {})

\* An operation is prepared and appended.
Process(e) ==
    LET r == [room EXCEPT !.op = e] IN
    IF NeedsSaving
    THEN /\ repo' = [repo EXCEPT !.draft = Normalized]
         /\ room' = [r EXCEPT !.at = "rereading", !.read = Normalized]
         /\ Persist(Room)
    ELSE AppendTo(repo.draft, r)

\* The operation is answered, and the session rests.
Processed == room' = [room EXCEPT !.at = "warm", !.op = NoText, !.read = EmptyDraft] /\ Rests(Room)

\* A collaborator's operation; one that is known already is answered again.  One
\* at a time is in the session's queue (StandaloneRooms has longer ones).
Submit(s, e) ==
    /\ s \in joined
    /\ room.at = "warm"
    /\ \/ /\ e \in room.known
          /\ done' = done \cup {e}
          /\ UNCHANGED <<repo, room, io, unheld, raced>>
       \/ /\ e \notin room.known
          /\ Process(e)
          /\ UNCHANGED done
    /\ UNCHANGED <<saved, tmp, restVars, joined, waiting, closed, active>>

\* saveSnapshot: the session's draft replaces the repository's.
SnapshotOf(r) == [repo EXCEPT !.draft = [revision |-> r.version, edits |-> r.edits, tidy |-> TRUE]]

\* appendWal has saved: the operation is committed, and as snapshotInterval is
\* 1 the session writes a snapshot before it answers.
Appended ==
    LET r == [room EXCEPT !.at = "snapshotting", !.version = @ + 1,
                          !.edits = @ \cup {room.op}, !.known = @ \cup {room.op}]
    IN
    /\ room.at = "appending" /\ Renamed(Room)
    /\ room' = r
    /\ repo' = SnapshotOf(r)
    /\ Persist(Room)
    /\ UNCHANGED <<restVars, joined, waiting, closed, active, done>>

\* get has saved inside appendCanonical: the draft is the one it read.
Reread ==
    /\ room.at = "rereading" /\ Renamed(Room)
    /\ AppendTo(room.read, room)
    /\ UNCHANGED <<restVars, joined, waiting, closed, active, done>>

\* appendWal fails: the operation is answered as rejected.
AppendFails ==
    /\ room.at \in {"appending", "rereading"} /\ RenameFails(Room)
    /\ Processed
    /\ UNCHANGED <<repo, restVars, joined, waiting, closed, active, done>>

\* The snapshot is saved, or its failure ignored: the operation is accepted.
SnapshotEnds ==
    /\ room.at = "snapshotting"
    /\ Renamed(Room) \/ RenameFails(Room)
    /\ done' = done \cup {room.op}
    /\ Processed
    /\ UNCHANGED <<repo, restVars, joined, waiting, closed, active>>

\* load goes on after its get has saved, with the draft it read before.
LoadDone ==
    /\ room.at = "loading" /\ Renamed(Room)
    /\ room' = Loaded(room.read)
    /\ joined' = joined \cup (waiting \ closed)
    /\ active' = active + Cardinality(waiting \ closed)
    /\ waiting' = {} /\ closed' = {}
    /\ Rests(Room)
    /\ UNCHANGED <<repo, restVars, done>>

\* A sweep evicts a room without leases and without operations: its snapshot
\* is saved first.
Evict ==
    /\ room.at = "warm" /\ joined = {}
    /\ room' = [room EXCEPT !.at = "evicting"]
    /\ repo' = SnapshotOf(room)
    /\ Persist(Room)
    /\ UNCHANGED <<saved, tmp, restVars, joined, waiting, closed, active, done>>

\* The room is gone; hellos that waited for that open it again.
Evicted ==
    /\ room.at = "evicting" /\ Renamed(Room)
    /\ IF waiting # {} THEN OpenRoom(waiting)
       ELSE /\ room' = NoRoom
            /\ Rests(Room)
            /\ UNCHANGED <<repo, joined, waiting, closed, active>>
    /\ UNCHANGED <<restVars, done>>

\* The room stays.
EvictFails ==
    /\ room.at = "evicting" /\ RenameFails(Room) /\ waiting = {}
    /\ room' = [room EXCEPT !.at = "warm"]
    /\ Rests(Room)
    /\ UNCHANGED <<repo, restVars, joined, waiting, closed, active, done>>

-----------------------------------------------------------------------------

\* The process ends and starts again: what is in the file is what there is.  It
\* ends by itself when a load fails, or an eviction that a hello waits for: the
\* hello throws and nobody catches it.
Restart ==
    /\ repo' = saved
    /\ io' = [p \in Processes |-> Quiet]
    /\ request' = [c \in Callers |-> NoQuery]
    /\ room' = NoRoom
    /\ joined' = {} /\ waiting' = {} /\ closed' = {} /\ active' = 0
    /\ UNCHANGED <<saved, tmp, copy, tried, done, unheld, raced>>

Next ==
    \/ \E p \in Processes : Stringify(p) \/ Write(p)
    \/ \E c \in Callers :
          \/ Get(c) \/ ReadDone(c) \/ SaveDone(c) \/ RequestFails(c)
          \/ \E e \in RestEdits : Post(c, e) \/ Put(c, e)
    \/ \E s \in Sockets : Hello(s) \/ Leave(s) \/ \E e \in OpEdits : Submit(s, e)
    \/ Appended \/ Reread \/ AppendFails \/ SnapshotEnds
    \/ LoadDone \/ Evict \/ Evicted \/ EvictFails
    \/ Restart

Spec == Init /\ [][Next]_vars

-----------------------------------------------------------------------------
(* Properties *)

\* What was answered as done is in the draft from then on, an operation that a
\* collaborator was told is accepted as well as an edit that REST answered with
\* 200: through the other writer, evictions, loads and restarts of the server.
\* Excepted are edits that raced another save or a draft read before it, and REST
\* edits made while the room was kept in memory after its last collaborator had
\* left: its next snapshot replaces the draft.
EditsSurvive == done \subseteq repo.draft.edits \cup raced \cup unheld
====
