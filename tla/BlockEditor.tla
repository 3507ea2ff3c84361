---- MODULE BlockEditor ----
(***************************************************************************)
(* The block editor of the blocknote example on top of Editing.  A user    *)
(* changes the editor; BlockNoteCollaborationRuntime turns the change into *)
(* commands, holds text updates back for a while to coalesce them, and     *)
(* puts the shared document into the editor again only when nothing of the *)
(* user's own is under way.  The other domains go on as in Editing.        *)
(*                                                                         *)
(* An editor is what the component and the runtime of one client hold:     *)
(* shown (editor.document), local (localBlocks), dirty (dirtyUpdates) and  *)
(* timers (updateTimers), projected (projectedFingerprints).  The count of *)
(* outstanding commands is the length of the client's queue.  What is      *)
(* only history: ignored, a change of the user was taken for a projection  *)
(* and nothing was projected since; touched, the user has made a change;   *)
(* refused, a command was; again, see Overtaken.                           *)
(***************************************************************************)
EXTENDS Editing

CONSTANTS
    NewBlocks,  \* ids of the blocks a user may insert
    Texts(_)    \* what a user may type into a block

VARIABLE editor

allVars == <<vars, editor>>

Id(block)        == At(block, "id")
Ids(blocks)      == [i \in DOMAIN blocks |-> Id(blocks[i])]
Find(blocks, id) == SelectInSeq(blocks, LAMBDA block : Id(block) = id)
Typed(id, text)  == Obj([id |-> Val(id), text |-> text])

\* documentToBlockNoteBlocks.
Blocks(d) == LET records == Ordered(At(d, "blocks")) IN [i \in DOMAIN records |-> Get(records[i], "block")]

OpenEditor(blocks) ==
    [shown |-> blocks, local |-> blocks, dirty |-> <<>>, timers |-> {},
     projected |-> {}, ignored |-> FALSE, refused |-> FALSE, touched |-> FALSE, again |-> FALSE]

InitEditors ==
    /\ Init
    /\ editor = [c \in Clients |-> OpenEditor(IF pack.domain = "block" THEN Blocks(doc) ELSE <<>>)]

----------------------------------------------------------------------------
(* What the runtime makes of a change.                                     *)

\* diffBlockNoteDocuments.  An id that is "" is undefined.
NameAt(ids, i) == IF i = 0 THEN "" ELSE ids[i]

\* The moves that bring the order to that of the new blocks.
Aligned(order, ids) ==
    LET Align(acc, i) ==
          IF acc.order[i] = ids[i] THEN acc
          ELSE [order |-> InsertAt(Remove(acc.order, ids[i]), i, ids[i]),
                moves |-> Append(acc.moves, [type |-> "block.move", id |-> ids[i], after |-> NameAt(ids, i - 1)])]
    IN  FoldLeft(Align, [order |-> order, moves |-> <<>>], [i \in DOMAIN ids |-> i]).moves

DiffBlocks(previous, next) ==
    LET was      == Ids(previous)
        ids      == Ids(next)
        Where(Test(_)) == SelectSeq([i \in DOMAIN ids |-> i], Test)
        isNew(i) == ~Contains(was, ids[i])
        added    == Where(isNew)
        changed  == Where(LAMBDA i : ~isNew(i) /\ previous[Find(previous, ids[i])] # next[i])
        gone     == SelectSeq(was, LAMBDA id : ~Contains(ids, id))
        kept     == SelectSeq(was, LAMBDA id : Contains(ids, id))
    IN     [i \in DOMAIN gone |-> [type |-> "block.delete", id |-> gone[i], after |-> ""]]
        \o [i \in DOMAIN added |-> [type |-> "block.insert", id |-> ids[added[i]], after |-> NameAt(ids, added[i] - 1),
                                    value |-> Get(next[added[i]], "text")]]
        \o Aligned(FoldLeft(LAMBDA order, i : InsertAt(order, i, ids[i]), kept, added), ids)
        \o [i \in DOMAIN changed |-> [type |-> "block.update", id |-> ids[changed[i]], after |-> "",
                                      value |-> Get(next[changed[i]], "text")]]

\* Work is an editor with the queue of its client, while the runtime does something.
Sends(item, id) == item.command.type = "block.update" /\ item.command.id = id

\* The text is under way, and another one after it.
Overtaken(queue, id, text) ==
    \E i, j \in DOMAIN queue :
      /\ i < j /\ Sends(queue[i], id) /\ Sends(queue[j], id)
      /\ queue[i].command.value = text /\ queue[j].command.value # text

\* scheduleUpdate.
Scheduled(work, id, text) ==
    [work EXCEPT !.editor.dirty = id :> text @@ @, !.editor.timers = @ \cup {id},
                 !.editor.again = @ \/ Overtaken(work.queue, id, text)]

\* cancelUpdate.
Cancelled(work, id) ==
    [work EXCEPT !.editor.timers = @ \ {id}, !.editor.dirty = [k \in DOMAIN @ \ {id} |-> @[k]]]

\* beforeSettle, and the outcome that is only displayed.
Clean(e, done) == [e EXCEPT !.dirty = [k \in DOMAIN @ \ done |-> @[k]]]
Sent(e, command) ==
    {id \in DOMAIN e.dirty : command.type = "block.update" /\ command.id = id /\ command.value = e.dirty[id]}

\* Mutant: what was typed since the update was sent is forgotten with it.
SettledDropping(e, command, accepted) ==
    [Clean(e, {command.id}) EXCEPT !.refused = @ \/ ~accepted]

\* Mutant: the text stays dirty when the update fails.
SettledIfAccepted(e, command, accepted) ==
    [Clean(e, IF accepted THEN Sent(e, command) ELSE {}) EXCEPT !.refused = @ \/ ~accepted]

Settled(e, command, accepted) ==
    [Clean(e, Sent(e, command)) EXCEPT !.refused = @ \/ ~accepted]

\* dispatch and execute: a command whose adaptation throws is settled at once.
Dispatched(c, work, command) ==
    LET queue == Submitted(c, work.queue, command, AdaptBlock(command, Projected(StateAt(canon[c]), work.queue)))
    IN  IF queue # work.queue THEN [work EXCEPT !.queue = queue]
        ELSE [work EXCEPT !.editor = Settled(@, command, FALSE), !.settled = TRUE]

Commanded(c, work, command) ==
    CASE command.type = "block.update" -> Scheduled(work, command.id, command.value)
      [] command.type = "block.delete" -> Dispatched(c, Cancelled(work, command.id), command)
      [] OTHER                         -> Dispatched(c, work, command)

\* publishBlocks and the component's listener.
Published(e, blocks) ==
    [e EXCEPT !.local = blocks, !.shown = blocks, !.ignored = FALSE,
              !.projected = IF blocks = e.shown THEN @ ELSE @ \cup {blocks}]

\* The document's listener and the end of a dispatch: the document is shown when nothing
\* is outstanding and nothing is dirty.
Followed(e, queue, d) ==
    IF queue = <<>> /\ DOMAIN e.dirty = {} THEN Published(e, Blocks(Projected(d, queue))) ELSE e

----------------------------------------------------------------------------
(* The user and the timers.                                                *)

\* settled: a command that was dispatched has already failed.
Working(c) == [editor |-> editor[c], queue |-> pending[c], settled |-> FALSE]

Worked(c, work) ==
    /\ pending' = [pending EXCEPT ![c] = work.queue]
    /\ editor' = [editor EXCEPT ![c] =
          IF work.settled THEN Followed(work.editor, work.queue, StateAt(canon[c])) ELSE work.editor]
    /\ UNCHANGED <<pack, log, docs, canon>>

\* onChange: unless it looks like a projection of the last second, a change goes to the
\* runtime.
MayChange == pack.domain = "block" /\ edits < MaxEdits(pack)

Change(c, blocks, work) ==
    /\ edits' = edits + 1
    /\ \/ Worked(c, [work EXCEPT !.editor.shown = blocks, !.editor.touched = TRUE])
       \/ /\ blocks \in editor[c].projected
          /\ Worked(c, [Working(c) EXCEPT !.editor.shown = blocks, !.editor.touched = TRUE,
                                          !.editor.ignored = TRUE])

\* handleEditorChange, all hints updates: only the blocks that were typed into are taken
\* from the editor.
Type(c) ==
    /\ MayChange
    /\ \E i \in DOMAIN editor[c].shown : \E text \in Texts(Id(editor[c].shown[i])) :
      LET id     == Id(editor[c].shown[i])
          blocks == [editor[c].shown EXCEPT ![i] = Typed(id, text)]
          local  == editor[c].local
          Was(block) == Find(local, Id(block))
          merged == [j \in DOMAIN blocks |-> IF j = i \/ Was(blocks[j]) = 0 THEN blocks[j] ELSE local[Was(blocks[j])]]
          work   == [Working(c) EXCEPT !.editor.local = merged]
          same   == Was(blocks[i]) # 0 /\ local[Was(blocks[i])] = blocks[i]
      IN  /\ blocks # editor[c].shown
          /\ Change(c, blocks, IF same THEN work ELSE Scheduled(work, id, text))

Rearranged(blocks) ==
    LET places == DOMAIN blocks
    IN       {InsertAt(blocks, i, Typed(id, Val("none"))) : i \in {1, Len(blocks) + 1}, id \in NewBlocks \ Range(Ids(blocks))}
        \cup {RemoveAt(blocks, i) : i \in IF Len(blocks) > 1 THEN places ELSE {}}
        \cup {InsertAt(RemoveAt(blocks, i), 1, blocks[i]) : i \in places \ {1}}

\* handleEditorChange, otherwise: the difference of the documents.
Rearrange(c) ==
    /\ MayChange
    /\ \E blocks \in Rearranged(editor[c].shown) :
      Change(c, blocks,
        FoldLeft(LAMBDA work, command : Commanded(c, work, command),
                 [Working(c) EXCEPT !.editor.local = blocks],
                 DiffBlocks(editor[c].local, blocks)))

TimerFires(c) ==
    \E id \in editor[c].timers :
      LET work == [Working(c) EXCEPT !.editor.timers = @ \ {id}]
      IN  /\ Worked(c, IF id \notin DOMAIN editor[c].dirty THEN work
                       ELSE Dispatched(c, work, [type |-> "block.update", id |-> id, after |-> "", value |-> editor[c].dirty[id]]))
          /\ UNCHANGED edits

----------------------------------------------------------------------------
(* What comes from the server, and what the other applications do.         *)

HearDocument(c) ==
    /\ HearEvent(c)
    /\ editor' = [editor EXCEPT ![c] =
          IF pack.domain = "block" THEN Followed(@, pending[c], StateAt(canon'[c])) ELSE @]

\* The promises of the operations that left the queue are settled.
HearOutcome(c) ==
    /\ HearResult(c)
    /\ LET gone == IF pending'[c] = Tail(pending[c]) THEN <<Head(pending[c])>>
                   ELSE SelectSeq(pending[c], LAMBDA item : item.verdict.kind \notin {"undecided", "reject"})
           after == FoldLeft(LAMBDA e, item : Settled(e, item.command, item.verdict.kind = "accept"), editor[c], gone)
       IN  editor' = [editor EXCEPT ![c] =
             IF pack.domain = "block" THEN Followed(after, pending'[c], StateAt(canon'[c])) ELSE @]

NextEditors ==
    \E c \in Clients :
      \/ Type(c) \/ Rearrange(c) \/ TimerFires(c) \/ HearDocument(c) \/ HearOutcome(c)
      \/ pack.domain # "block" /\ Execute(c) /\ UNCHANGED editor
      \/ Decide(c) /\ UNCHANGED editor

----------------------------------------------------------------------------
Idle(c) == pending[c] = <<>> /\ editor[c].timers = {}

\* dispatch, subscribeDocument: when nothing of the user's is under way, the editor shows
\* the shared document as its client has it.  A change that was taken for a projection
\* (blocknote-app.tsx) is an exception until the next projection.
EditorShowsDocument ==
    pack.domain = "block" =>
      \A c \in Clients : Idle(c) /\ ~editor[c].ignored => editor[c].shown = Blocks(Projection(c))

\* Nobody else has changed anything, no command of this client was refused, and no text
\* was typed again while it was under way with another one after it.
Alone(c) ==
    /\ ~editor[c].refused /\ ~editor[c].again
    /\ \A other \in Clients \ {c} : ~editor[other].touched

\* scheduleUpdate, dispatch, diffBlockNoteDocuments: whatever a lone user types, inserts,
\* removes and moves while earlier changes are held back, under way or settling, the
\* editor never takes anything of it back.
OwnEditsStay ==
    [][pack.domain = "block" /\ edits' = edits =>
         \A c \in Clients : Alone(c) /\ Alone(c)' => editor'[c].shown = editor[c].shown]_allVars
====
