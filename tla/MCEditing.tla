---- MODULE MCEditing ----
(***************************************************************************)
(* A small instance of Applications for TLC: Domain Packs of five kinds,   *)
(* what applications do with each, and two pages with a Yjs body.          *)
(***************************************************************************)
EXTENDS Applications

NoTypes == <<>>
AllPacks ==
    {[domain |-> d, stale |-> "default", byType |-> NoTypes] : d \in {"json", "draft", "graph", "block"}}
      \cup {[domain |-> "json", stale |-> "resync", byType |-> ("property.set" :> "resolve" @@ "list.move" :> "reject")],
            [domain |-> "model", stale |-> "rebase", byType |-> NoTypes],
            [domain |-> "model", stale |-> "reject", byType |-> NoTypes]}

CONSTANTS c1, c2, p1, p2

Symmetry == Permutations(Clients)

X == Val("x")
SomeTexts(id) ==
    CASE id = "welcome" -> {X, Val("y")}
      [] id = "notes"   -> {X}
      [] OTHER          -> {}

JsonCommands ==
    {[type |-> "set", path |-> <<"title">>, value |-> X],
     [type |-> "set", path |-> <<"title", "sub">>, value |-> X],
     [type |-> "set", path |-> <<"items">>, value |-> X],
     [type |-> "set", path |-> <<"title", "__proto__">>, value |-> X],
     [type |-> "unset", path |-> <<"title", "sub">>],
     [type |-> "create", collection |-> "items", id |-> "b", value |-> Obj([text |-> X])],
     [type |-> "create", collection |-> "items", id |-> "a", value |-> Obj([orderKey |-> Rank(3072)])],
     [type |-> "delete", collection |-> "items", id |-> "a"],
     [type |-> "move", collection |-> "items", id |-> "a", after |-> "b"],
     [type |-> "transaction", patches |->
        <<EntityUpsert("items", "c", Obj([orderKey |-> Rank(512)])), EntityDelete("items", "a")>>]}

\* The last two are those of a client that does not use the application's commands.
DraftCommands(d) ==
    {[type |-> "draft.rename", value |-> X],
     [type |-> "section.add", id |-> "s", after |-> "intro"],
     [type |-> "section.update", id |-> "plan", value |-> X],
     [type |-> "section.setCompleted", id |-> "plan", completed |-> TRUE],
     [type |-> "section.move", id |-> "plan", after |-> ""],
     [type |-> "section.delete", id |-> "intro"],
     [type |-> "draft.submitReview", revision |-> At(d, "revision")],
     [type |-> "custom", op |-> [type |-> "property.unset", strategy |-> "json.property-lww",
                                 path |-> <<"sections">>]],
     [type |-> "custom", op |-> [type |-> "property.set", strategy |-> "json.property-lww",
                                 path |-> <<"revision">>, value |-> Val(0)]]}

GraphCommands ==
    {[type |-> "node.add", id |-> "test"],
     [type |-> "node.add", id |-> "build"],
     [type |-> "node.rename", id |-> "build", value |-> X],
     [type |-> "node.move", id |-> "build", value |-> Val(1)],
     [type |-> "node.delete", id |-> "build"],
     [type |-> "edge.add", id |-> "ship-build", source |-> "ship", target |-> "build"],
     [type |-> "edge.add", id |-> "build-test", source |-> "build", target |-> "test"],
     [type |-> "edge.delete", id |-> "build-ship"]}

ModelCommands ==
    {[type |-> "metadata.titleChanged", value |-> X],
     [type |-> "metadata.titleChanged", value |-> Val("")],
     [type |-> "metadata.statusChanged", value |-> Val("review")],
     [type |-> "metadata.statusChanged", value |-> Val("published")]}

SomeEdits(p) == IF p.domain = "draft" THEN 2 ELSE 3

SomeCommands(p, d) ==
    CASE p.domain = "json"  -> JsonCommands
      [] p.domain = "draft" -> DraftCommands(d)
      [] p.domain = "graph" -> GraphCommands
      [] p.domain = "block" -> {}
      [] p.domain = "model" -> ModelCommands
====
