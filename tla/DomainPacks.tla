---- MODULE DomainPacks ----
(***************************************************************************)
(* Domain Packs: the built-in JSON strategies (domain-json), the packs of  *)
(* the todo, react-flow and blocknote examples with the commands of their  *)
(* applications, and the pack of a typed model (model) with the metadata   *)
(* model of the yjs-hybrid example.                                        *)
(*                                                                         *)
(* A pack is its domain and its policy for stale operations.  A strategy   *)
(* accepts an operation with patches, or rejects it.  Order keys are       *)
(* counted in Parts of one, so that halving them is exact in the bounded   *)
(* runs; a text or a position is a single value.                           *)
(***************************************************************************)
EXTENDS JsonPatches, FiniteSets

Parts   == 32
Rank(n) == Val(n * Parts)

Accept(patches) == [kind |-> "accept", patches |-> patches]
Reject(code)    == [kind |-> "reject", code |-> code]
Invalid         == Reject("invalidOperation")

\* Number(orderKey ?? 0).
KeyOf(item)    == IF Get(item, "orderKey") = Undefined THEN 0 ELSE At(item, "orderKey")

\* Mutant: the order of the array is taken for the order of the entities.
AsListed(items) == items

Ordered(items) == SortSeq(items, LAMBDA a, b : KeyOf(a) < KeyOf(b))
Others(items, id) == SelectSeq(items, LAMBDA item : ~IsEntity(item, id))

\* findIndex + 1, which is 0 when the entity is not there, or none is named.
PlaceOf(items, id) == SelectInSeq(items, LAMBDA item : IsEntity(item, id))

UniqueIds(items) ==
    \A i, j \in DOMAIN items : i # j => Get(items[i], "id") # Get(items[j], "id")

----------------------------------------------------------------------------
(* The built-in JSON strategies.                                           *)

PropertyLww(op) ==
    IF ~SafePath(op.path) THEN Invalid
    ELSE IF op.type = "property.unset" THEN Accept(<<RemovePatch(op.path)>>)
    ELSE Accept(<<SetPatch(op.path, op.value)>>)

EntityLifecycle(op, doc) ==
    LET exists == HasEntity(doc, op.collection, op.id)
    IN  IF \/ op.collection \in UnsafeNames \/ op.id = ""
           \/ op.type = "entity.delete" /\ ~exists
           \/ op.type = "entity.create" /\ exists
        THEN Invalid
        ELSE Accept(<<IF op.type = "entity.delete" THEN EntityDelete(op.collection, op.id)
                      ELSE EntityUpsert(op.collection, op.id, op.value)>>)

\* An end without a neighbour, or a neighbour without a key, is open.
RankBetween(before, after) ==
    LET left  == IF before = Undefined THEN 0 ELSE Data(before)
        right == IF after = Undefined THEN left + 2048 * Parts ELSE Data(after)
    IN  Val(IF right <= left THEN left + Parts \div 2 ELSE (left + right) \div 2)

KeyAt(items, i) == IF i \in DOMAIN items THEN Get(items[i], "orderKey") ELSE Undefined

ListOrderStrategy(op, doc) ==
    IF ~HasEntity(doc, op.collection, op.id) THEN Invalid
    ELSE LET others == Ordered(Others(Entities(doc, op.collection), op.id))
             place  == PlaceOf(others, op.after)
         IN  IF op.after # "" /\ place = 0 THEN Invalid
             ELSE Accept(<<ListOrder(op.collection, op.id,
                                     RankBetween(KeyAt(others, place), KeyAt(others, place + 1)))>>)

RejectIfStale(op, base, version) ==
    IF base # version THEN Reject("staleVersion")
    ELSE IF \A i \in DOMAIN op.patches : SafePatch(op.patches[i]) THEN Accept(op.patches)
    ELSE Invalid

\* What the json.* intents of the client submit, and show before it is decided.
JsonIntent(c) ==
    CASE c.type = "set" ->
           [op |-> [type |-> "property.set", strategy |-> "json.property-lww", path |-> c.path, value |-> c.value],
            optimistic |-> <<SetPatch(c.path, c.value)>>]
      [] c.type = "unset" ->
           [op |-> [type |-> "property.unset", strategy |-> "json.property-lww", path |-> c.path],
            optimistic |-> <<RemovePatch(c.path)>>]
      [] c.type = "create" ->
           [op |-> [type |-> "entity.create", strategy |-> "json.entity-lifecycle",
                    collection |-> c.collection, id |-> c.id, value |-> c.value],
            optimistic |-> <<EntityUpsert(c.collection, c.id, c.value)>>]
      [] c.type = "delete" ->
           [op |-> [type |-> "entity.delete", strategy |-> "json.entity-lifecycle",
                    collection |-> c.collection, id |-> c.id],
            optimistic |-> <<EntityDelete(c.collection, c.id)>>]
      [] c.type = "move" ->
           [op |-> [type |-> "list.move", strategy |-> "json.list-order",
                    collection |-> c.collection, id |-> c.id, after |-> c.after],
            optimistic |-> <<>>]
      [] c.type = "transaction" ->
           [op |-> [type |-> "transaction.apply", strategy |-> "json.reject-if-stale", patches |-> c.patches],
            optimistic |-> c.patches]
      [] c.type = "custom" -> [op |-> c.op, optimistic |-> <<>>]

----------------------------------------------------------------------------
(* Ranks of the examples: in the middle of the neighbours.                 *)

RankAfter(items, id, after) ==
    LET others == Ordered(Others(items, id))
        place  == PlaceOf(others, after)
        left   == IF place > 0 THEN KeyOf(others[place]) ELSE 0
        right  == IF place < Len(others) THEN KeyOf(others[place + 1]) ELSE left + 2048 * Parts
    IN  Val((left + right) \div 2)

----------------------------------------------------------------------------
(* The todo example: a draft with sections.                                *)

Section(id, key, done) ==
    Obj([id |-> Val(id), body |-> Val("none"), orderKey |-> key, completed |-> Val(done)])

Completion(sections) ==
    LET total     == Len(sections)
        completed == Len(SelectSeq(sections, LAMBDA s : Get(s, "completed") = Val(TRUE)))
    IN  Obj([completed |-> Val(completed), total |-> Val(total),
             percent |-> Val(IF total = 0 THEN 0 ELSE (200 * completed + total) \div (2 * total))])

InitialDraft ==
    LET sections == <<Section("intro", Rank(1024), FALSE), Section("plan", Rank(2048), FALSE)>>
    IN  Obj([revision |-> Val(0), title |-> Val("none"), status |-> Val("draft"),
             sections |-> List(sections), completion |-> Completion(sections)])

Revised(doc)          == Put(doc, "revision", Val(At(doc, "revision") + 1))
WithSections(doc, ss) == Revised(Put(Put(doc, "sections", List(ss)), "completion", Completion(ss)))
EachWithId(items, id, F(_)) == [i \in DOMAIN items |-> IF IsEntity(items[i], id) THEN F(items[i]) ELSE items[i]]

ApplyDraftCommand(doc, c) ==
    LET ss     == At(doc, "sections")
        exists == HasEntity(doc, "sections", c.id)
        WithEach(F(_)) == Put(doc, "sections", List(EachWithId(ss, c.id, F)))
        fits ==
          CASE c.type = "draft.rename" -> TRUE
            [] c.type = "section.add"  -> ~exists
            [] c.type = "section.move" -> exists /\ (c.after # "" => HasEntity(doc, "sections", c.after))
            [] c.type = "draft.submitReview" ->
                 Get(doc, "revision") = Val(c.revision) /\ Get(doc, "status") = Val("draft")
            [] OTHER -> exists
    IN  IF ~fits THEN Thrown
        ELSE CASE c.type = "draft.rename" -> Revised(Put(doc, "title", c.value))
               [] c.type = "draft.submitReview" -> Revised(Put(doc, "status", Val("reviewing")))
               [] c.type = "section.add" ->
                    WithSections(doc, Append(ss, Section(c.id, RankAfter(ss, c.id, c.after), FALSE)))
               [] c.type = "section.update" -> Revised(WithEach(LAMBDA s : Put(s, "body", c.value)))
               [] c.type = "section.setCompleted" ->
                    WithSections(doc, EachWithId(ss, c.id, LAMBDA s : Put(s, "completed", Val(c.completed))))
               [] c.type = "section.move" ->
                    Revised(WithEach(LAMBDA s : Put(s, "orderKey", RankAfter(ss, c.id, c.after))))
               [] c.type = "section.delete" -> WithSections(doc, Others(ss, c.id))

SectionCommands == {"section.add", "section.update", "section.delete", "section.setCompleted"}

\* buildSectionCommandPatches: what depends on the whole list is patched with it.
PatchesTo(next, c) ==
    LET done   == Get(next, "completion")
        linked == [i \in 1 .. 3 |-> LET field == <<"completed", "total", "percent">>[i]
                                    IN  SetPatch(<<"completion", field>>, Get(done, field))]
        added  == Last(At(next, "sections"))
    IN  IF next = Thrown THEN Invalid
        ELSE CASE c.type = "section.add"    -> Accept(<<EntityUpsert("sections", c.id, added)>> \o linked)
               [] c.type = "section.delete" -> Accept(<<EntityDelete("sections", c.id)>> \o linked)
               [] c.type = "section.update" ->
                    Accept(<<EntityUpsert("sections", c.id, Obj([body |-> c.value]))>>)
               [] c.type = "section.setCompleted" ->
                    Accept(<<EntityUpsert("sections", c.id, Obj([completed |-> Val(c.completed)]))>> \o linked)

SectionPatches(doc, c) == PatchesTo(ApplyDraftCommand(doc, c), c)

SubmitReview(op, next, version) ==
    IF next # Thrown THEN Accept(<<SetPatch(<<"status">>, Get(next, "status"))>>)
    ELSE IF op.command.revision # version THEN Reject("staleVersion") ELSE Invalid

\* Mutant: the revision is set first, and patches of the operation may set it again.
RevisionFirst(result, version) ==
    IF result.kind = "accept"
    THEN Accept(<<SetPatch(<<"revision">>, Val(version + 1))>> \o result.patches)
    ELSE result

WithRevision(result, version) ==
    IF result.kind = "accept"
    THEN Accept(Append(result.patches, SetPatch(<<"revision">>, Val(version + 1))))
    ELSE result

\* A list and a completion that are not there make the check itself throw.
DraftInvariants(doc) ==
    IF Kind(Get(doc, "sections")) # "list" \/ Get(doc, "completion") = Undefined THEN "strategyFailure"
    ELSE IF /\ UniqueIds(At(doc, "sections"))
            /\ Get(doc, "status") \in {Val("draft"), Val("reviewing"), Val("published")}
            /\ \A field \in {"completed", "total", "percent"} :
                  Get(Get(doc, "completion"), field) = Get(Completion(At(doc, "sections")), field)
    THEN "valid" ELSE "invariantViolation"

\* A command that can be applied is submitted as it is, and shown as its patches.
Adapted(c, type, strategy, result) ==
    IF result.kind = "reject" THEN result
    ELSE [op |-> [type |-> type, strategy |-> strategy, command |-> c], optimistic |-> result.patches]

AdaptDraft(c, doc) ==
    CASE c.type = "draft.rename" -> JsonIntent([type |-> "set", path |-> <<"title">>, value |-> c.value])
      [] c.type \in SectionCommands -> Adapted(c, c.type, "draft.section-command", SectionPatches(doc, c))
      [] c.type = "section.move" ->
           JsonIntent([type |-> "move", collection |-> "sections", id |-> c.id, after |-> c.after])
      [] c.type = "draft.submitReview" -> Adapted(c, c.type, "draft.submit-review", Accept(<<>>))
      [] OTHER -> JsonIntent(c)

----------------------------------------------------------------------------
(* The react-flow example: nodes, and edges between them.                  *)

Node(id)               == Obj([id |-> Val(id), label |-> Val("none"), position |-> Val(0)])
Edge(id, source, target) == Obj([id |-> Val(id), source |-> Val(source), target |-> Val(target)])

InitialGraph ==
    Obj([revision |-> Val(0), nodes |-> List(<<Node("build"), Node("ship")>>),
         edges |-> List(<<Edge("build-ship", "build", "ship")>>)])

Incident(edge, id) == Get(edge, "source") = Val(id) \/ Get(edge, "target") = Val(id)

ApplyGraphCommand(doc, c) ==
    LET nodes == At(doc, "nodes")
        edges == At(doc, "edges")
        WithEach(F(_)) == Put(doc, "nodes", List(EachWithId(nodes, c.id, F)))
        fits ==
          CASE c.type = "node.add" -> ~HasEntity(doc, "nodes", c.id)
            [] c.type = "edge.add" ->
                 ~HasEntity(doc, "edges", c.id) /\ \A id \in {c.source, c.target} : HasEntity(doc, "nodes", id)
            [] c.type = "edge.delete" -> HasEntity(doc, "edges", c.id)
            [] OTHER -> HasEntity(doc, "nodes", c.id)
    IN  IF ~fits THEN Thrown
        ELSE Revised(
          CASE c.type = "node.add"    -> Put(doc, "nodes", List(Append(nodes, Node(c.id))))
            [] c.type = "node.rename" -> WithEach(LAMBDA n : Put(n, "label", c.value))
            [] c.type = "node.move"   -> WithEach(LAMBDA n : Put(n, "position", c.value))
            [] c.type = "node.delete" ->
                 Put(Put(doc, "nodes", List(Others(nodes, c.id))),
                     "edges", List(SelectSeq(edges, LAMBDA e : ~Incident(e, c.id))))
            [] c.type = "edge.add"    -> Put(doc, "edges", List(Append(edges, Edge(c.id, c.source, c.target))))
            [] c.type = "edge.delete" -> Put(doc, "edges", List(Others(edges, c.id))))

\* Mutant: a node is deleted alone.
NoIncidentEdges(doc, id) == <<>>

IncidentEdges(doc, id) == SelectSeq(At(doc, "edges"), LAMBDA e : Incident(e, id))

GraphPatches(doc, c) ==
    IF ApplyGraphCommand(doc, c) = Thrown THEN Invalid
    ELSE CASE c.type = "node.add"    -> Accept(<<EntityUpsert("nodes", c.id, Node(c.id))>>)
           [] c.type = "node.rename" -> Accept(<<EntityUpsert("nodes", c.id, Obj([label |-> c.value]))>>)
           [] c.type = "node.move"   -> Accept(<<EntityUpsert("nodes", c.id, Obj([position |-> c.value]))>>)
           [] c.type = "node.delete" ->
                LET edges == IncidentEdges(doc, c.id)
                IN  Accept(<<EntityDelete("nodes", c.id)>>
                             \o [i \in DOMAIN edges |-> EntityDelete("edges", At(edges[i], "id"))])
           [] c.type = "edge.add"    -> Accept(<<EntityUpsert("edges", c.id, Edge(c.id, c.source, c.target))>>)
           [] c.type = "edge.delete" -> Accept(<<EntityDelete("edges", c.id)>>)

GraphInvariants(doc) ==
    LET nodes == At(doc, "nodes")
        edges == At(doc, "edges")
    IN  IF /\ UniqueIds(nodes) /\ UniqueIds(edges)
           /\ \A i \in DOMAIN edges : \A end \in {"source", "target"} :
                 HasEntity(doc, "nodes", At(edges[i], end))
        THEN "valid" ELSE "invariantViolation"

AdaptGraph(c, doc) ==
    Adapted(c, c.type, "graph.document", GraphPatches(doc, c))

----------------------------------------------------------------------------
(* The blocknote example: an ordered list of blocks.                       *)

Block(id, key, text) == Obj([id |-> Val(id), orderKey |-> key, block |-> Obj([id |-> Val(id), text |-> text])])

InitialBlocks ==
    Obj([blocks |-> List(<<Block("welcome", Rank(1024), Val("none")), Block("intro", Rank(2048), Val("none"))>>)])

BlockPatches(doc, c) ==
    LET blocks == At(doc, "blocks")
        rank   == RankAfter(blocks, c.id, c.after)
    IN  IF c.type \in {"block.insert", "block.move"} /\ c.after # "" /\ PlaceOf(Others(blocks, c.id), c.after) = 0
        THEN Invalid
        ELSE Accept(<<
          CASE c.type = "block.insert" -> EntityUpsert("blocks", c.id, Block(c.id, rank, c.value))
            [] c.type = "block.update" ->
                 EntityUpsert("blocks", c.id,
                     Put(blocks[PlaceOf(blocks, c.id)], "block", Obj([id |-> Val(c.id), text |-> c.value])))
            [] c.type = "block.delete" -> EntityDelete("blocks", c.id)
            [] c.type = "block.move"   -> ListOrder("blocks", c.id, rank)>>)

\* The strategy of the server, and the adapter of the client, which leaves more to it.
BlockSequence(doc, c) ==
    IF HasEntity(doc, "blocks", c.id) = (c.type = "block.insert") THEN Invalid ELSE BlockPatches(doc, c)

AdaptBlock(c, doc) ==
    IF c.type = "block.update" /\ ~HasEntity(doc, "blocks", c.id) THEN Invalid
    ELSE Adapted(c, c.type, "block-document.sequence", BlockPatches(doc, c))

BlockInvariants(doc) ==
    LET blocks == At(doc, "blocks")
    IN  IF UniqueIds(blocks) /\ \A i \in DOMAIN blocks : Get(Get(blocks[i], "block"), "id") = Get(blocks[i], "id")
        THEN "valid" ELSE "invariantViolation"

----------------------------------------------------------------------------
(* A typed model: the metadata of the yjs-hybrid example.                  *)

InitialMetadata == Obj([title |-> Val("none"), status |-> Val("draft")])

Reduce(doc, c) ==
    Put(doc, IF c.type = "metadata.titleChanged" THEN "title" ELSE "status", c.value)

Validate(doc) == Get(doc, "title") # Val("")

\* runModelCommand: the patches of what the command makes of this document.
ModelPatches(doc, c) ==
    IF Validate(Reduce(doc, c)) THEN Accept(DiffJson(doc, Reduce(doc, c))) ELSE Invalid

\* The strategy runs the command again, on the state of the server.
ModelResolve(op, doc) == IF op.type = "model.command" THEN ModelPatches(doc, op.command) ELSE Invalid

AdaptModel(c, doc) ==
    Adapted(c, "model.command", "metadata.commands", ModelPatches(doc, c))

----------------------------------------------------------------------------
(* A pack, as the pipeline and the clients use it.                         *)

InitialJson ==
    Obj([title |-> Val("none"), items |-> List(<<Obj([id |-> Val("a"), orderKey |-> Rank(1024)])>>)])

InitialState(pack) ==
    CASE pack.domain = "json"  -> InitialJson
      [] pack.domain = "draft" -> InitialDraft
      [] pack.domain = "graph" -> InitialGraph
      [] pack.domain = "block" -> InitialBlocks
      [] pack.domain = "model" -> InitialMetadata

Adapt(pack, c, doc) ==
    CASE pack.domain = "json"  -> JsonIntent(c)
      [] pack.domain = "draft" -> AdaptDraft(c, doc)
      [] pack.domain = "graph" -> AdaptGraph(c, doc)
      [] pack.domain = "block" -> AdaptBlock(c, doc)
      [] pack.domain = "model" -> AdaptModel(c, doc)

\* Whether the result is valid, or the code of the rejection.
Invariants(pack, doc) ==
    CASE pack.domain = "draft" -> DraftInvariants(doc)
      [] pack.domain = "graph" -> GraphInvariants(doc)
      [] pack.domain = "block" -> BlockInvariants(doc)
      [] OTHER                 -> "valid"

JsonResolve(op, base, doc, version) ==
    CASE op.strategy = "json.property-lww"     -> PropertyLww(op)
      [] op.strategy = "json.entity-lifecycle" -> EntityLifecycle(op, doc)
      [] op.strategy = "json.list-order"       -> ListOrderStrategy(op, doc)
      [] op.strategy = "json.reject-if-stale"  -> RejectIfStale(op, base, version)

JsonStrategies ==
    {"json.property-lww", "json.entity-lifecycle", "json.list-order", "json.reject-if-stale"}

\* StrategyRegistry.resolve, and the resolve of the strategy it finds.
StrategyResult(pack, op, base, doc, version) ==
    CASE pack.domain = "json" /\ op.strategy \in JsonStrategies -> JsonResolve(op, base, doc, version)
      [] pack.domain = "draft" /\ op.strategy \in JsonStrategies ->
           WithRevision(JsonResolve(op, base, doc, version), version)
      [] pack.domain = "draft" /\ op.strategy = "draft.section-command" ->
           WithRevision(SectionPatches(doc, op.command), version)
      [] pack.domain = "draft" /\ op.strategy = "draft.submit-review" ->
           WithRevision(SubmitReview(op, ApplyDraftCommand(doc, op.command), version), version)
      [] pack.domain = "graph" /\ op.strategy = "graph.document" ->
           WithRevision(GraphPatches(doc, op.command), version)
      [] pack.domain = "block" /\ op.strategy = "block-document.sequence" -> BlockSequence(doc, op.command)
      [] pack.domain = "model" /\ op.strategy = "metadata.commands" -> ModelResolve(op, doc)
      [] OTHER -> Invalid

\* The policies for an operation that was made at an older version.
DefaultPolicy(windowExceeded) == IF windowExceeded THEN "resync" ELSE "resolve"

\* staleDecision, of the action for the type of the operation, or of the default one.
JsonPolicy(pack, op) == IF op.type \in DOMAIN pack.byType THEN pack.byType[op.type] ELSE pack.stale

Rebaseable == (JsonStrategies \ {"json.reject-if-stale"}) \cup {"draft.section-command"}

DraftPolicy(op, windowExceeded) == IF op.strategy \in Rebaseable THEN "resolve" ELSE DefaultPolicy(windowExceeded)

ModelPolicy(pack) == IF pack.stale = "rebase" THEN "resolve" ELSE pack.stale

StalePolicy(pack, op, windowExceeded) ==
    IF pack.domain = "draft" THEN DraftPolicy(op, windowExceeded)
    ELSE IF pack.domain = "model" THEN ModelPolicy(pack)
    ELSE IF pack.stale # "default" THEN JsonPolicy(pack, op)
    ELSE DefaultPolicy(windowExceeded)
====
