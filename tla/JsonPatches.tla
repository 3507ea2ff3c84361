---- MODULE JsonPatches ----
(***************************************************************************)
(* JSON documents, the canonical patches every replica applies             *)
(* (domain-json/src/index.ts), and the difference of two documents that    *)
(* the typed models submit as patches (model/src/index.ts).                *)
(*                                                                         *)
(* A JSON value carries its kind, so that documents in which a list was    *)
(* replaced by a number can be compared.  What throws in the code is the   *)
(* value Thrown.  A path is the sequence of the segments of its pointer.   *)
(***************************************************************************)
EXTENDS Naturals, Sequences, SequencesExt, TLC

Val(x)    == <<"scalar", x>>
Obj(f)    == <<"object", f>>
List(s)   == <<"list", s>>
Undefined == <<"undefined", 0>>
Thrown    == <<"thrown", 0>>
Kind(v)   == v[1]
Data(v)   == v[2]

Get(o, key)        == IF Kind(o) = "object" /\ key \in DOMAIN Data(o) THEN Data(o)[key] ELSE Undefined
At(o, key)         == Data(Get(o, key))
Put(o, key, value) == Obj(key :> value @@ Data(o))
Drop(o, key)       == Obj([k \in DOMAIN Data(o) \ {key} |-> Data(o)[k]])

\* Mutant: an upsert replaces the entity.
Replaced(left, right) == right

\* { ...left, ...right }
Spread(left, right) == Obj(Data(right) @@ Data(left))

\* The entities of a list are its objects, by id.
IsEntity(item, id) == Kind(item) = "object" /\ Get(item, "id") = Val(id)
Entities(doc, collection) == SelectSeq(At(doc, collection), LAMBDA item : Kind(item) = "object")
HasEntity(doc, collection, id) ==
    /\ Kind(Get(doc, collection)) = "list"
    /\ \E i \in DOMAIN At(doc, collection) : IsEntity(At(doc, collection)[i], id)

----------------------------------------------------------------------------
(* Canonical patches.                                                      *)

UnsafeNames == {"", "__proto__", "prototype", "constructor"}

SafePath(path) == path # <<>> /\ \A i \in DOMAIN path : path[i] \notin UnsafeNames

SafePatch(p) ==
    IF p.op \in {"set", "remove"} THEN SafePath(p.path)
    ELSE p.collection \notin UnsafeNames /\ p.id # ""

SetPatch(path, value) == [op |-> "set", path |-> path, value |-> value]
RemovePatch(path)     == [op |-> "remove", path |-> path]
EntityUpsert(collection, id, value) ==
    [op |-> "entityUpsert", collection |-> collection, id |-> id, value |-> Put(value, "id", Val(id))]
EntityDelete(collection, id) == [op |-> "entityDelete", collection |-> collection, id |-> id]
ListOrder(collection, id, position) ==
    [op |-> "listOrder", collection |-> collection, id |-> id, position |-> position]

\* The objects on the way down, made when they are not there or are no objects, and
\* their new versions on the way up.  To remove is to set the undefined value.
SetPointer(root, path, value) ==
    LET last == Len(path)
        old[i \in 1 .. last] ==
            IF i = 1 THEN root
            ELSE LET child == Get(old[i - 1], path[i - 1])
                 IN  IF Kind(child) = "object" THEN child ELSE Obj(<<>>)
        new[i \in 1 .. last] ==
            IF i < last THEN Put(old[i], path[i], new[i + 1])
            ELSE IF value = Undefined THEN Drop(old[i], path[i])
            ELSE Put(old[i], path[i], value)
    IN  new[1]

\* Mutant: an upsert always adds an entity.
UpsertedTwice(items, id, value) == Append(items, value)

Upserted(items, id, value) ==
    IF \E i \in DOMAIN items : IsEntity(items[i], id)
    THEN [items EXCEPT ![SelectInSeq(items, LAMBDA item : IsEntity(item, id))] = Spread(@, value)]
    ELSE Append(items, value)

ApplyPatch(doc, p) ==
    IF ~SafePatch(p) THEN Thrown
    ELSE IF p.op \in {"set", "remove"}
    THEN SetPointer(doc, p.path, IF p.op = "set" THEN p.value ELSE Undefined)
    ELSE IF Kind(Get(doc, p.collection)) # "list" THEN Thrown
    ELSE LET items == At(doc, p.collection)
         IN  Put(doc, p.collection, List(
               CASE p.op = "entityDelete" -> SelectSeq(items, LAMBDA item : ~IsEntity(item, p.id))
                 [] p.op = "entityUpsert" -> Upserted(items, p.id, p.value)
                 [] p.op = "listOrder"    ->
                      [i \in DOMAIN items |-> IF IsEntity(items[i], p.id)
                                              THEN Put(items[i], "orderKey", p.position)
                                              ELSE items[i]]))

\* The first patch that throws ends it.
ApplyPatches(doc, patches) ==
    FoldLeft(LAMBDA d, p : IF d = Thrown THEN d ELSE ApplyPatch(d, p), doc, patches)

----------------------------------------------------------------------------
(* The difference of two documents.                                        *)

RECURSIVE DiffAt(_, _, _)

\* Mutant: what the new document does not have stays.
DiffKept(before, after, path) ==
    IF before = after \/ after = Undefined THEN <<>>
    ELSE IF Kind(before) = "object" /\ Kind(after) = "object"
    THEN DiffAt(before, after, path)
    ELSE <<SetPatch(path, after)>>

DiffValue(before, after, path) ==
    IF before = after THEN <<>>
    ELSE IF after = Undefined THEN <<RemovePatch(path)>>
    ELSE IF Kind(before) = "object" /\ Kind(after) = "object"
    THEN DiffAt(before, after, path)
    ELSE <<SetPatch(path, after)>>

DiffAt(before, after, path) ==
    LET keys == SetToSeq(DOMAIN Data(before) \cup DOMAIN Data(after))
    IN  FlattenSeq([i \in DOMAIN keys |->
            DiffValue(Get(before, keys[i]), Get(after, keys[i]), Append(path, keys[i]))])

DiffJson(before, after) == DiffAt(before, after, <<>>)
====
