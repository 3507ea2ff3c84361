---- MODULE YjsBody ----
(***************************************************************************)
(* The body text of the yjs-hybrid example: a Yjs document on each page    *)
(* (yjs-body-runtime.ts) and one in the memory of a WebSocket server       *)
(* (yjs-server.ts), which exchange updates.  CollabHub owns the other      *)
(* fields and never sees this one.                                         *)
(*                                                                         *)
(* A Yjs document is the set of edits that are merged in it, and an update *)
(* is a set of edits: documents with the same edits show the same text,    *)
(* which is what Yjs promises.  A connection keeps what is sent in order   *)
(* until it is lost with all that is under way.                            *)
(***************************************************************************)
EXTENDS Naturals, Sequences

CONSTANTS
    Pages,          \* browser pages that have the room open
    BodyEdits,      \* edits users may make, each once
    MaxBodyFaults   \* bound on lost connections, reloads and restarts

ASSUME BodyFaultsAssumption == MaxBodyFaults \in Nat

VARIABLES
    room,       \* the server's document
    joined,     \* the pages whose sockets are in room.clients
    body,       \* each page's document
    connection, \* each page's connectionValue, with its syncedValue
    upward,     \* updates on the way from each page to the server
    downward,   \* updates on the way from the server to each page
    made,       \* the edits users have made
    bodyFaults

bodyVars == <<room, joined, body, connection, upward, downward, made, bodyFaults>>

Opened(p)      == connection[p] \in {"syncing", "synced"}
Unanswered(p)  == connection[p] = "connecting" /\ downward[p] = <<>>
UnderWay(sent) == UNION {sent[i] : i \in DOMAIN sent}

InitBody ==
    /\ room = {} /\ joined = {}
    /\ body = [p \in Pages |-> {}]
    /\ connection = [p \in Pages |-> "connecting"]
    /\ upward = [p \in Pages |-> <<>>]
    /\ downward = [p \in Pages |-> <<>>]
    /\ made = {}
    /\ bodyFaults = 0

BodyFault == bodyFaults < MaxBodyFaults /\ bodyFaults' = bodyFaults + 1

\* What a page sends goes nowhere when the server has lost its socket.
SendUp(p, update) ==
    upward' = IF p \in joined THEN [upward EXCEPT ![p] = Append(@, update)] ELSE upward

\* The server accepts a socket, and sends it the whole document.
AcceptSocket(p) ==
    /\ Unanswered(p) /\ p \notin joined
    /\ joined' = joined \cup {p}
    /\ downward' = [downward EXCEPT ![p] = Append(@, room)]
    /\ UNCHANGED <<room, body, connection, upward, made, bodyFaults>>

\* Mutant: the page only waits for the document of the server.
OpenSilently(p) ==
    /\ connection[p] = "connecting" /\ downward[p] # <<>>
    /\ connection' = [connection EXCEPT ![p] = "syncing"]
    /\ UNCHANGED <<room, joined, body, upward, downward, made, bodyFaults>>

\* The page learns that its socket is open, and sends its whole document.
Open(p) ==
    /\ connection[p] = "connecting" /\ downward[p] # <<>>
    /\ connection' = [connection EXCEPT ![p] = "syncing"]
    /\ SendUp(p, body[p])
    /\ UNCHANGED <<room, joined, body, downward, made, bodyFaults>>

\* replace: one transaction, sent when the socket is open, and kept anyway.
Edit(p) ==
    \E e \in BodyEdits \ made :
      /\ made' = made \cup {e}
      /\ body' = [body EXCEPT ![p] = @ \cup {e}]
      /\ IF Opened(p) THEN SendUp(p, {e}) ELSE UNCHANGED upward
      /\ UNCHANGED <<room, joined, connection, downward, bodyFaults>>

\* The server merges an update and passes it on to the other sockets of the room.
Relay(p) ==
    /\ p \in joined /\ upward[p] # <<>>
    /\ LET update == Head(upward[p])
       IN  /\ room' = room \cup update
           /\ downward' = [q \in Pages |-> IF q \in joined \ {p} THEN Append(downward[q], update) ELSE downward[q]]
    /\ upward' = [upward EXCEPT ![p] = Tail(@)]
    /\ UNCHANGED <<joined, body, connection, made, bodyFaults>>

\* A page merges an update, which is not sent back.
Merge(p) ==
    /\ Opened(p) /\ downward[p] # <<>>
    /\ body' = [body EXCEPT ![p] = @ \cup Head(downward[p])]
    /\ downward' = [downward EXCEPT ![p] = Tail(@)]
    /\ connection' = [connection EXCEPT ![p] = "synced"]
    /\ UNCHANGED <<room, joined, upward, made, bodyFaults>>

\* What becomes of a page's connection when its socket is gone on both sides.
Unjoin(p, value) ==
    /\ connection' = [connection EXCEPT ![p] = value]
    /\ joined' = joined \ {p}
    /\ upward' = [upward EXCEPT ![p] = <<>>]
    /\ downward' = [downward EXCEPT ![p] = <<>>]

\* The close event of the page: the connection failed, or the server has lost it before.
Close(p) ==
    /\ connection[p] # "disconnected"
    /\ IF p \in joined \/ Unanswered(p) THEN BodyFault ELSE UNCHANGED bodyFaults
    /\ Unjoin(p, "disconnected")
    /\ UNCHANGED <<room, body, made>>

\* The close event of the server comes first.
ServerCloses(p) ==
    /\ p \in joined
    /\ BodyFault
    /\ joined' = joined \ {p}
    /\ upward' = [upward EXCEPT ![p] = <<>>]
    /\ UNCHANGED <<room, body, connection, downward, made>>

\* The reconnect timer.
Reconnect(p) ==
    /\ connection[p] = "disconnected"
    /\ connection' = [connection EXCEPT ![p] = "connecting"]
    /\ UNCHANGED <<room, joined, body, upward, downward, made, bodyFaults>>

\* The page is closed and opened again, with an empty document.
Reload(p) ==
    /\ BodyFault
    /\ body' = [body EXCEPT ![p] = {}]
    /\ Unjoin(p, "connecting")
    /\ UNCHANGED <<room, made>>

\* The server ends, and with it the rooms in its memory.
ServerRestarts ==
    /\ BodyFault
    /\ room' = {} /\ joined' = {}
    /\ upward' = [p \in Pages |-> <<>>]
    /\ UNCHANGED <<body, connection, downward, made>>

PageStep(p) ==
    \/ AcceptSocket(p) \/ Open(p) \/ Edit(p) \/ Relay(p) \/ Merge(p)
    \/ Close(p) \/ ServerCloses(p) \/ Reconnect(p) \/ Reload(p)

NextBody == ServerRestarts \/ \E p \in Pages : PageStep(p)

BodySpec == InitBody /\ [][NextBody]_bodyVars

----------------------------------------------------------------------------
\* What a page of the room lacks of the server's document is on the way to it.
Hears(p) == room \subseteq body[p] \cup UnderWay(downward[p])

\* What the room lacks of an open page's document is on the way to the server.
IsHeard(p) == Opened(p) => body[p] \subseteq room \cup UnderWay(upward[p])

\* yjs-server, YjsBodyRuntime: whatever was edited while a page was connecting or offline
\* and whatever the server forgot, no edit falls between the documents that are exchanged
\* on open and the updates after them: a page in the room and the server's document only
\* differ by what is under way between them.
BodyIsComing == \A p \in joined : Hears(p) /\ IsHeard(p)
====
