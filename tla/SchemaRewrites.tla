---------------------------- MODULE SchemaRewrites ----------------------------
(* JSON schemas on their way to a provider: OpenAI's strict mode and the     *)
(* other transforms of ferrin-schema, the wrapper around the elements of an  *)
(* array output, Google's OpenAPI subset, and the parsing of a provider       *)
(* tool's input by its schema. A schema is a node with its own keywords and   *)
(* its subschemas, each at the segments that lead to it; a pointer is a       *)
(* sequence of segments. A tag says which schema a node is.                   *)
EXTENDS Naturals, Sequences, SequencesExt, FiniteSets, TLC

CONSTANTS
    SchemaJobs,    \* what is done to which schema
    Values         \* the values that tell schemas apart

VARIABLES rewriting   \* the job and what came of it

-----------------------------------------------------------------------------
(* Nodes, pointers, and what a schema accepts.                              *)

Blank == [kind |-> "schema", tag |-> "", types |-> <<>>, list |-> FALSE, required |-> <<>>, additional |-> "absent",
          enum |-> <<>>, nullable |-> FALSE, default |-> <<>>, ref |-> <<>>, id |-> <<>>, kids |-> <<>>]
Kid(at, s) == [at |-> at, s |-> s]
Under(n, keyword) == SelectSeq(n.kids, LAMBDA k : k.at[1] = keyword)
Subschemas(n, keyword) == [i \in DOMAIN Under(n, keyword) |-> Under(n, keyword)[i].s]
Names(n) == {k.at[2] : k \in ToSet(Under(n, "properties"))}
Property(n, name) == SelectSeq(n.kids, LAMBDA k : k.at = <<"properties", name>>)[1].s
Missing == [Blank EXCEPT !.kind = "missing"]

RECURSIVE pointer(_, _)
pointer(n, path) ==
    LET through == SelectSeq(n.kids, LAMBDA k : IsPrefix(k.at, path))
    IN  IF path = <<>> THEN n ELSE IF through = <<>> THEN Missing
        ELSE pointer(through[1].s, SubSeq(path, Len(through[1].at) + 1, Len(path)))

\* The resources of a document: its root and every subschema with an $id.
RECURSIVE collect_resources(_, _)
collect_resources(n, path) ==
    {[id |-> n.id[1], at |-> path] : x \in {y \in {1} : n.id # <<>>}}
    \cup UNION {collect_resources(k.s, path \o k.at) : k \in ToSet(n.kids)}
ResourceAt(root, base) == IF base = "" THEN <<>> ELSE (CHOOSE r \in collect_resources(root, <<>>) : r.id = base).at

\* What a reference in a resource leads to.
Target(root, base, reference) ==
    LET of == IF reference.of = "" THEN base ELSE reference.of
    IN  IF of # "" /\ ~\E r \in collect_resources(root, <<>>) : r.id = of THEN Missing
        ELSE pointer(root, ResourceAt(root, of) \o reference.at)

\* Google reads oneOf like anyOf, and a nullable schema accepts null.
RECURSIVE Accepts(_, _, _)
Accepts(root, n, v) ==
    LET each(keyword) == {s \in ToSet(Subschemas(n, keyword)) : Accepts(root, s, v)}
        items == Under(n, "items")
        held(i) == IF v.keys[i] \in Names(n) THEN Accepts(root, Property(n, v.keys[i]), v.items[i])
                   ELSE IF Under(n, "additionalProperties") # <<>>
                   THEN Accepts(root, Subschemas(n, "additionalProperties")[1], v.items[i])
                   ELSE n.additional # "false"
    IN  \/ n.kind \in {"true", "null"}
        \/ n.nullable /\ v.t = "null"
        \/ /\ n.kind = "schema"
           /\ n.types = <<>> \/ v.t \in ToSet(n.types) \/ (v.t = "integer" /\ "number" \in ToSet(n.types))
           /\ n.enum = <<>> \/ v.s \in {e.s : e \in ToSet(n.enum[1])}
           /\ v.t = "object" => (n.required = <<>> \/ n.required[1] \subseteq ToSet(v.keys)) /\ \A i \in DOMAIN v.keys : held(i)
           /\ v.t = "array" => \A i \in DOMAIN v.items : \A k \in ToSet(items) :
                                 k.at = <<"items">> \/ k.at[2] = ToString(i - 1) => Accepts(root, k.s, v.items[i])
           /\ each("allOf") = ToSet(Subschemas(n, "allOf"))
           /\ \A keyword \in {"anyOf", "oneOf"} : Under(n, keyword) = <<>> \/ each(keyword) # {}
           /\ n.ref = <<>> \/ Accepts(root, Target(root, "", n.ref[1]), v)

-----------------------------------------------------------------------------
(* The transforms of ferrin-schema.                                          *)

type_includes(n, kind) == kind \in ToSet(n.types)

\* Maps cannot be strict.
RECURSIVE validate_strict_maps(_)
validate_strict_maps(n) ==
    /\ n.additional # "true" /\ Under(n, "additionalProperties") = <<>> /\ Under(n, "patternProperties") = <<>>
    /\ \A k \in ToSet(n.kids) : k.at[1] # "propertyNames" => validate_strict_maps(k.s)

\* Mutant: only the type is widened.
make_nullable_Type(s) == [s EXCEPT !.types = IF @ = <<>> THEN @ ELSE Append(@, "null")]
make_nullable(s) == [Blank EXCEPT !.kids = <<Kid(<<"anyOf", "0">>, s), Kid(<<"anyOf", "1">>, [Blank EXCEPT !.types = <<"null">>])>>]
IsObject(n) == IF n.types = <<>> THEN Names(n) # {} ELSE type_includes(n, "object")
Optional(n, k) == IsObject(n) /\ k.at[1] = "properties" /\ (n.required = <<>> \/ k.at[2] \notin n.required[1])

RECURSIVE rewrite_openai_strict(_), Moves(_, _)
rewrite_openai_strict(n) ==
    LET kids == SelectSeq(n.kids, LAMBDA k : k.at # <<"propertyNames">>)
    IN  IF n.kind # "schema" THEN n
        ELSE [n EXCEPT !.kids = [i \in DOMAIN kids |->
                          [kids[i] EXCEPT !.s = rewrite_openai_strict(IF Optional(n, kids[i]) THEN make_nullable(@) ELSE @)]],
                       !.required = IF IsObject(n) /\ Names(n) # {} THEN <<Names(n)>> ELSE @,
                       !.additional = IF IsObject(n) THEN "false" ELSE @]
\* The properties that move under an anyOf, each where the tree has it then.
Moves(n, path) ==
    LET here(k) == path \o k.at
        within(k) == IF Optional(n, k) THEN here(k) \o <<"anyOf", "0">> ELSE here(k)
        kids == SelectSeq(n.kids, LAMBDA k : k.at # <<"propertyNames">>)
        moved == SelectSeq(kids, LAMBDA k : Optional(n, k))
    IN  [i \in DOMAIN moved |-> here(moved[i])] \o FlattenSeq([i \in DOMAIN kids |-> Moves(kids[i].s, within(kids[i]))])

relocate(path, from, to) == IF IsPrefix(from, path) THEN to \o SubSeq(path, Len(from) + 1, Len(path)) ELSE path
Within(m) == m \o <<"anyOf", "0">>

\* Mutant: the place of the resource is taken as it is after the moves.
rewrite_reference_AfterMoves(reference, of, root, moves) ==
    LET resource == ResourceAt(root, of)
        target == FoldLeft(LAMBDA p, m : relocate(p, m, Within(m)), resource \o reference.at, moves)
        relative == SubSeq(target, Len(resource) + 1, Len(target))
    IN  IF IsPrefix(resource, target) THEN [reference EXCEPT !.at = relative] ELSE reference
\* A pointer to, or through, a moved property follows it; one to a resource
\* that is not in the document stays.
rewrite_reference(reference, of, root, moves) ==
    LET resource == ResourceAt(root, of)
        original == FoldLeft(LAMBDA p, m : relocate(p, Within(m), m), resource, Reverse(moves))
        target == FoldLeft(LAMBDA p, m : relocate(p, m, Within(m)), original \o reference.at, moves)
        relative == SubSeq(target, Len(resource) + 1, Len(target))
    IN  IF IsPrefix(resource, target) THEN [reference EXCEPT !.at = relative] ELSE reference

RECURSIVE rewrite(_, _, _, _)
rewrite(n, base, root, moves) ==
    LET here == IF n.id = <<>> THEN base ELSE n.id[1]
        of(r) == IF r.of = "" THEN here ELSE r.of
        known(r) == of(r) = "" \/ \E x \in collect_resources(root, <<>>) : x.id = of(r)
    IN  [n EXCEPT !.ref = IF @ # <<>> /\ known(@[1]) THEN <<rewrite_reference(@[1], of(@[1]), root, moves)>> ELSE @,
                  !.kids = [i \in DOMAIN @ |-> [@[i] EXCEPT !.s = rewrite(@, here, root, moves)]]]
rewrite_local_references(n, moves) == IF moves = <<>> THEN n ELSE rewrite(n, "", n, moves)

to_openai_strict(n) ==
    [ok |-> validate_strict_maps(n), none |-> FALSE,
     s |-> IF validate_strict_maps(n) THEN rewrite_local_references(rewrite_openai_strict(n), Moves(n, <<>>)) ELSE n]

for_each_subschema == {"items", "anyOf", "allOf", "oneOf", "definitions", "$defs"}

RECURSIVE add_additional_properties_false(_)
add_additional_properties_false(n) ==
    LET map == Under(n, "additionalProperties") # <<>>
        visits(k) == k.at[1] \in for_each_subschema \/ (type_includes(n, "object") /\ k.at[1] \in {"properties", "additionalProperties"})
    IN  IF n.kind # "schema" THEN n
        ELSE [n EXCEPT !.additional = IF type_includes(n, "object") /\ ~map THEN "false" ELSE @,
                       !.kids = [i \in DOMAIN @ |-> IF visits(@[i]) THEN [@[i] EXCEPT !.s = add_additional_properties_false(@)] ELSE @[i]]]

RECURSIVE remove_property_names(_)
remove_property_names(n) ==
    LET kids == SelectSeq(n.kids, LAMBDA k : k.at # <<"propertyNames">>)
        visits(k) == k.at[1] \in for_each_subschema \cup {"properties", "additionalProperties"}
    IN  IF n.kind # "schema" THEN n
        ELSE [n EXCEPT !.kids = [i \in DOMAIN kids |-> IF visits(kids[i]) THEN [kids[i] EXCEPT !.s = remove_property_names(@)] ELSE kids[i]]]

\* The element of an array output under its wrapper: pointers into the
\* document lead there, those of a resource of its own stay.
RECURSIVE relocate_refs(_, _)
relocate_refs(n, prefix) ==
    IF n.kind # "schema" \/ n.id # <<>> THEN n
    ELSE [n EXCEPT !.ref = IF @ # <<>> /\ @[1].of = "" THEN <<[@[1] EXCEPT !.at = prefix \o @]>> ELSE @,
                   !.kids = [i \in DOMAIN @ |-> [@[i] EXCEPT !.s = relocate_refs(@, prefix)]]]
ElementsAt == <<"properties", "elements", "items">>
wrapper(n) ==
    [ok |-> TRUE, none |-> FALSE,
     s |-> [Blank EXCEPT !.types = <<"object">>, !.required = <<{"elements"}>>, !.additional = "false",
              !.kids = <<Kid(<<"properties", "elements">>,
                             [Blank EXCEPT !.types = <<"array">>, !.kids = <<Kid(<<"items">>, relocate_refs(n, ElementsAt))>>])>>]]

-----------------------------------------------------------------------------
(* ferrin-google: the OpenAPI subset.                                        *)

Converted(s) == [err |-> "", none |-> FALSE, s |-> s]
ConvertedNone == [err |-> "", none |-> TRUE, s |-> Blank]
Refused(err) == [err |-> err, none |-> FALSE, s |-> Blank]

is_empty_object_schema(n) ==
    n.types = <<"object">> /\ ~n.list /\ Names(n) = {} /\ n.additional # "true" /\ Under(n, "additionalProperties") = <<>>

\* A definition of the root by its name.
referenced_definition(root, reference) ==
    IF reference.of = "" /\ Len(reference.at) = 2 /\ reference.at[1] \in {"$defs", "definitions"}
    THEN pointer(root, reference.at) ELSE Missing

\* What stands beside a $ref replaces what the definition says of the same.
Merged(definition, n) ==
    LET keywords == {k.at[1] : k \in ToSet(n.kids)}
    IN  IF definition.kind = "true" THEN [n EXCEPT !.ref = <<>>]
        ELSE IF definition.kind # "schema" THEN definition
        ELSE [definition EXCEPT !.types = IF n.types = <<>> THEN @ ELSE n.types, !.list = IF n.types = <<>> THEN @ ELSE n.list,
                !.required = IF n.required = <<>> THEN @ ELSE n.required, !.enum = IF n.enum = <<>> THEN @ ELSE n.enum,
                !.additional = IF n.additional = "absent" THEN @ ELSE n.additional,
                !.kids = SelectSeq(@, LAMBDA k : k.at[1] \notin keywords) \o n.kids]

type_allows(n, t) == n.types = <<>> \/ type_includes(n, t)
enum_type(values, n) ==
    LET all(ts) == values # <<>> /\ \A i \in DOMAIN values : values[i].t \in ts
    IN  CASE type_allows(n, "string") /\ all({"string"}) -> "string"
          [] type_allows(n, "number") /\ all({"number", "integer"}) -> "number"
          [] type_allows(n, "integer") /\ all({"integer"}) -> "integer"
          [] type_allows(n, "boolean") /\ all({"boolean"}) -> "boolean"
          [] OTHER -> "none"
\* Mutant: null stays out of the values but the schema is not nullable.
add_enum_to_schema_NotNullable(n, so) ==
    LET values == n.enum[1]
        kept == SelectSeq(values, LAMBDA e : e.t # "null")
        of == enum_type(kept, n)
    IN  IF of = "none" THEN [err |-> "enum", s |-> so]
        ELSE [err |-> "", s |-> [so EXCEPT !.types = <<of>>, !.kids = SelectSeq(@, LAMBDA k : k.at[1] # "anyOf"), !.enum = <<kept>>]]
add_enum_to_schema(n, so) ==
    LET values == n.enum[1]
        nullable == IF n.types = <<>> THEN \E i \in DOMAIN values : values[i].t = "null" ELSE n.list /\ type_includes(n, "null")
        kept == IF nullable THEN SelectSeq(values, LAMBDA e : e.t # "null") ELSE values
        of == enum_type(kept, n)
        single == [so EXCEPT !.kids = SelectSeq(@, LAMBDA k : k.at[1] # "anyOf" \/ ~n.list)]
    IN  CASE values # <<>> /\ (\A i \in DOMAIN values : values[i].t = "null") /\ type_allows(n, "null") ->
               [err |-> "", s |-> [single EXCEPT !.types = <<"null">>]]
          [] of = "none" -> [err |-> "enum", s |-> so]
          [] OTHER -> [err |-> "", s |-> [single EXCEPT !.types = <<of>>, !.nullable = @ \/ nullable, !.enum = <<kept>>]]

\* The type, and of several types an alternative for each but null.
Typed(n) ==
    LET others == SelectSeq(n.types, LAMBDA t : t # "null")
        base == [Blank EXCEPT !.tag = n.tag, !.required = n.required]
    IN  CASE n.types = <<>> -> base
          [] ~n.list -> [base EXCEPT !.types = n.types]
          [] others = <<>> -> [base EXCEPT !.types = <<"null">>]
          [] OTHER -> [base EXCEPT !.nullable = type_includes(n, "null"),
                         !.kids = [i \in DOMAIN others |-> Kid(<<"anyOf", ToString(i - 1)>>, [Blank EXCEPT !.types = <<others[i]>>])]]

NullKind == [Blank EXCEPT !.kind = "null"]
NoKids(so, keyword) == [so EXCEPT !.kids = SelectSeq(@, LAMBDA k : k.at[1] # keyword)]
IsNullSchema(s) == s.types = <<"null">> /\ ~s.list

\* convert_definition and the conversion of a reference, the definitions being
\* resolved in the third place.
RECURSIVE convert_definition(_, _, _, _), convert_all(_, _, _, _)
convert_definition(root, n, is_root, resolving) ==
    LET definition == referenced_definition(root, n.ref[1])
        any == Subschemas(n, "anyOf")
        others == SelectSeq(Under(n, "anyOf"), LAMBDA k : ~IsNullSchema(k.s))
        alone == convert_definition(root, others[1].s, FALSE, resolving)
        typed == IF n.enum = <<>> THEN [err |-> "", s |-> Typed(n)] ELSE add_enum_to_schema(n, Typed(n))
        props == convert_all(root, Under(n, "properties"), TRUE, resolving)
        items == convert_all(root, Under(n, "items"), Under(n, "items") # <<>> /\ Under(n, "items")[1].at = <<"items">>, resolving)
        all == convert_all(root, Under(n, "allOf"), FALSE, resolving)
        anys == convert_all(root, others, FALSE, resolving)
        ones == convert_all(root, Under(n, "oneOf"), FALSE, resolving)
        errs == SelectSeq(<<typed.err, props.err, items.err, all.err>>
                          \o (IF Len(others) = 1 /\ Len(any) > 1 THEN <<alone.err>> ELSE <<anys.err>>) \o <<ones.err>>, LAMBDA e : e # "")
        base == [typed.s EXCEPT !.kids = @ \o props.kids \o items.kids \o all.kids]
        nullable == \E i \in DOMAIN any : IsNullSchema(any[i])
        replaced == {k.at[1] : k \in ToSet(alone.s.kids)}
        united == CASE any = <<>> -> base
                    [] nullable /\ Len(others) = 1 ->
                         IF alone.none \/ alone.s.kind # "schema" THEN base
                         ELSE [base EXCEPT !.nullable = TRUE,
                                 !.types = IF alone.s.types = <<>> THEN @ ELSE alone.s.types,
                                 !.required = IF alone.s.required = <<>> THEN @ ELSE alone.s.required,
                                 !.enum = IF alone.s.enum = <<>> THEN @ ELSE alone.s.enum,
                                 !.kids = SelectSeq(@, LAMBDA k : k.at[1] \notin replaced) \o alone.s.kids]
                    [] OTHER -> [NoKids(base, "anyOf") EXCEPT !.kids = @ \o anys.kids, !.nullable = @ \/ nullable]
    IN  CASE n.kind = "null" -> ConvertedNone
          [] n.kind = "true" -> Converted(Blank)
          [] n.kind = "false" -> Refused("false")
          [] n.ref # <<>> ->
               IF definition = Missing THEN Refused("unsupported")
               ELSE IF n.ref[1].at \in resolving THEN Refused("recursive")
               ELSE convert_definition(root, Merged(definition, n), is_root, resolving \cup {n.ref[1].at})
          [] is_empty_object_schema(n) ->
               IF is_root THEN ConvertedNone ELSE Converted([Blank EXCEPT !.tag = n.tag, !.types = <<"object">>])
          [] errs # <<>> -> Refused(errs[1])
          [] OTHER -> Converted([united EXCEPT !.kids = @ \o ones.kids])
\* The subschemas at a keyword; one that is none is left out or written as null.
convert_all(root, kids, drops, resolving) ==
    LET done == [i \in DOMAIN kids |-> convert_definition(root, kids[i].s, FALSE, resolving)]
        errs == SelectSeq(done, LAMBDA c : c.err # "")
        written == [i \in DOMAIN kids |-> [at |-> kids[i].at, s |-> IF done[i].none THEN NullKind ELSE done[i].s]]
    IN  [err |-> IF errs = <<>> THEN "" ELSE errs[1].err,
         kids |-> SelectSeq(written, LAMBDA k : ~drops \/ k.s # NullKind)]

to_openapi(n) == LET c == convert_definition(n, n, TRUE, {}) IN [ok |-> c.err = "", none |-> c.none, s |-> c.s]

-----------------------------------------------------------------------------
(* The input of a provider tool, parsed by its schema.                       *)

WithFields(v, fields) == [v EXCEPT !.keys = [i \in DOMAIN fields |-> fields[i].key], !.items = [i \in DOMAIN fields |-> fields[i].v]]
Fields(v) == [i \in DOMAIN v.keys |-> [key |-> v.keys[i], v |-> v.items[i]]]

RECURSIVE normalize(_, _, _)
\* Defaults are put in and what no property declares is taken out; of a union
\* the first branch the value keeps to does it, of an intersection all do.
normalize(root, n, v) ==
    LET branches == Subschemas(n, "anyOf") \o Subschemas(n, "oneOf")
        fitting == SelectSeq([i \in DOMAIN branches |-> [s |-> branches[i], v |-> normalize(root, branches[i], v)]],
                             LAMBDA b : Accepts(root, b.s, b.v))
        all == [i \in DOMAIN Subschemas(n, "allOf") |-> normalize(root, Subschemas(n, "allOf")[i], v)]
        merged == FoldLeft(LAMBDA so, x : SelectSeq(so, LAMBDA f : f.key \notin ToSet(x.keys)) \o Fields(x), <<>>, all)
        chosen == CASE fitting # <<>> -> fitting[1].v
                    [] all # <<>> /\ (\A i \in DOMAIN all : all[i].t = "object") -> WithFields(v, merged)
                    [] OTHER -> v
        declared == SelectSeq(Fields(chosen), LAMBDA f : f.key \in Names(n))
        given == SelectSeq(Under(n, "properties"), LAMBDA k : k.at[2] \notin ToSet(chosen.keys) /\ k.s.default # <<>>)
        extra == SelectSeq(Fields(chosen), LAMBDA f : f.key \notin Names(n))
        map == Subschemas(n, "additionalProperties")
        Each(fields, s) == [i \in DOMAIN fields |-> [fields[i] EXCEPT !.v = normalize(root, s, @)]]
        Itself(fields) == [i \in DOMAIN fields |-> [fields[i] EXCEPT !.v = normalize(root, Property(n, fields[i].key), @)]]
        defaults == [i \in DOMAIN given |-> [key |-> given[i].at[2], v |-> normalize(root, given[i].s, given[i].s.default[1])]]
        rest == CASE map # <<>> -> Each(extra, map[1]) [] n.additional = "absent" -> <<>> [] OTHER -> extra
        item(i) == SelectSeq(Under(n, "items"), LAMBDA k : k.at = <<"items">> \/ k.at[2] = ToString(i - 1))
    IN  CASE n.kind # "schema" -> v
          [] n.ref # <<>> -> normalize(root, Target(root, "", n.ref[1]), v)
          [] chosen.t = "object" /\ Names(n) # {} -> WithFields(chosen, Itself(declared) \o defaults \o rest)
          [] chosen.t = "object" /\ map # <<>> -> WithFields(chosen, Each(Fields(chosen), map[1]))
          [] chosen.t = "array" ->
               [chosen EXCEPT !.items = [i \in DOMAIN @ |-> IF item(i) = <<>> THEN @[i] ELSE normalize(root, item(i)[1].s, @[i])]]
          [] OTHER -> chosen

-----------------------------------------------------------------------------
Undone == [ok |-> FALSE, none |-> FALSE, s |-> Blank]
SchemaInit == rewriting \in {[job |-> j, done |-> FALSE, result |-> Undone] : j \in SchemaJobs}
Rewrite(how, result) ==
    /\ ~rewriting.done /\ rewriting.job.how = how
    /\ rewriting' = [rewriting EXCEPT !.done = TRUE, !.result = result]
Rewritten(s) == [ok |-> TRUE, none |-> FALSE, s |-> s]
Strict == Rewrite("strict", to_openai_strict(rewriting.job.s))
Close == Rewrite("closed", Rewritten(add_additional_properties_false(rewriting.job.s)))
Rename == Rewrite("names", Rewritten(remove_property_names(rewriting.job.s)))
Wrap == Rewrite("wrapped", wrapper(rewriting.job.s))
OpenApi == Rewrite("openapi", to_openapi(rewriting.job.s))
Parse == Rewrite("parse", Rewritten(rewriting.job.s))
SchemaNext == Strict \/ Close \/ Rename \/ Wrap \/ OpenApi \/ Parse

-----------------------------------------------------------------------------
(* Properties.                                                              *)

RECURSIVE References(_, _), Nulls(_), Nodes(_)
References(n, base) ==
    LET here == IF n.id = <<>> THEN base ELSE n.id[1]
    IN  {[of |-> n.tag, base |-> here, ref |-> r] : r \in ToSet(n.ref)} \cup UNION {References(k.s, here) : k \in ToSet(n.kids)}
Nulls(v) == v.t = "null" \/ \E i \in DOMAIN v.items : Nulls(v.items[i])
Nodes(n) == {n} \cup UNION {Nodes(k.s) : k \in ToSet(n.kids)}

\* Every reference leads to the schema it led to, wherever the rewrite moved it.
ReferencesKeepTheirTargets ==
    (rewriting.done /\ rewriting.result.ok /\ rewriting.job.how \in {"strict", "closed", "names", "wrapped"}) =>
      \A old \in References(rewriting.job.s, "") :
        \E new \in References(rewriting.result.s, "") :
          /\ new.of = old.of
          /\ Target(rewriting.result.s, new.base, new.ref).tag = Target(rewriting.job.s, old.base, old.ref).tag

\* A strict schema leaves nothing open and nothing out, what was optional may
\* be null instead, and a value of it without nulls is one of the original.
StrictIsExact ==
    LET old == rewriting.job.s
        new == rewriting.result.s
    IN  (rewriting.done /\ rewriting.result.ok /\ rewriting.job.how = "strict") =>
        /\ \A n \in Nodes(new) : Names(n) # {} => n.additional = "false" /\ n.required = <<Names(n)>>
        /\ \A n \in Nodes(old) : \A k \in ToSet(n.kids) :
             (Optional(n, k) /\ n.tag # "") =>
               \E m \in Nodes(new) : m.tag = n.tag /\ Accepts(new, Property(m, k.at[2]), [t |-> "null", s |-> "", keys |-> <<>>, items |-> <<>>])
        /\ \A v \in Values : Accepts(new, new, v) /\ ~Nulls(v) => Accepts(old, old, v)

\* Google is never asked for less than the schema allows, nothing of the
\* result refers elsewhere, and a conversion that fails for recursion has a cycle.
OpenApiIsWider ==
    LET old == rewriting.job.s
        new == rewriting.result.s
    IN  (rewriting.done /\ rewriting.job.how = "openapi") =>
        /\ rewriting.result.ok => \A n \in Nodes(new) : n.ref = <<>>
        /\ (rewriting.result.ok /\ ~rewriting.result.none) => \A v \in Values : Accepts(old, old, v) => Accepts(new, new, v)
        /\ convert_definition(old, old, TRUE, {}).err = "recursive" <=> rewriting.job.cyclic

\* What a tool's schema accepts is still accepted once it is parsed, and
\* parsing it again changes nothing.
ParsedIsAccepted ==
    LET n == rewriting.job.s
    IN  (rewriting.done /\ rewriting.job.how = "parse") =>
        \A v \in Values : Accepts(n, n, v) =>
          LET read == normalize(n, n, v) IN Accepts(n, n, read) /\ normalize(n, n, read) = read

SchemaResultInOrder == ReferencesKeepTheirTargets /\ StrictIsExact /\ OpenApiIsWider /\ ParsedIsAccepted
===============================================================================
