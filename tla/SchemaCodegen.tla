--------------------------- MODULE SchemaCodegen ---------------------------
(***************************************************************************)
(* What qapi-codegen generates from the items of a schema.  process writes *)
(* out commands, events, enums and alternates as they come and keeps       *)
(* structs and unions; process_unions, process_structs and process_events  *)
(* then write out those, in the order of their names.  A union takes the   *)
(* type of its discriminator from its base, and the base struct loses the  *)
(* member, which the tag of the generated enum replaces.                   *)
(*                                                                         *)
(* A generated type is modelled by what serde makes of it: its fields, and *)
(* which of them are flattened.                                            *)
(***************************************************************************)
EXTENDS Naturals, Sequences, SequencesExt, FiniteSets

CONSTANTS
    Schemas,   \* the schemas: sequences of items
    Names,     \* the names of unions and structs, in alphabetical order
    Scalars    \* the types that are no struct, union or enum of the schema

\* A member of a struct or of a branch list, the same with an array of its
\* type, and DataOrType; what items build on is no array.
Member(name, type, opt) == [name |-> name, type |-> type, opt |-> opt,
                            array |-> FALSE]
ArrayOf(m)              == [m EXCEPT !.array = TRUE]
DataOf(fields)          == [kind |-> "data", fields |-> fields, type |-> ""]
TypeOf(type)            == [kind |-> "type", fields |-> <<>>, type |-> type]

ItemKinds == {"command", "struct", "alternate", "enum", "event",
              "combined", "union"}

\* base, data, tag and values are what the kind of item has of them.
Item(kind, id, base, data, tag, values) ==
    [kind |-> kind, id |-> id, base |-> base, data |-> data, tag |-> tag,
     values |-> values]

MemberType == [name : STRING, type : STRING, opt : BOOLEAN, array : BOOLEAN]
DataType   == [kind : {"data", "type"}, fields : Seq(MemberType), type : STRING]
ItemType   == [kind : ItemKinds, id : STRING, base : DataType,
               data : Seq(MemberType), tag : STRING, values : Seq(STRING)]

ASSUME CodegenAssumption ==
    /\ Schemas \subseteq Seq(ItemType)
    /\ \A i, j \in DOMAIN Names : Names[i] = Names[j] => i = j
    /\ {"Dictionary", "Timestamp"} \subseteq Scalars

VARIABLES
    schema,    \* the items read
    phase,     \* "process", "unions", "discriminators", "structs", "events",
               \* "done", "notfound" or "panicked"
    left,      \* the items that are still to be processed
    todo,      \* the names the loop of the phase has still to come to
    types,     \* Context.types: the struct of each name
    unions,    \* Context.unions
    enums,     \* Context.enums
    events,    \* Context.events
    struct_discriminators,
    out,       \* the types written out
    impls      \* the From implementations written out, each with its origin

kept == <<types, unions, enums, events, struct_discriminators>>
vars == <<schema, phase, left, todo, kept, out, impls>>

Put(f, id, v) == [x \in DOMAIN f \cup {id} |-> IF x = id THEN v ELSE f[x]]

TypeOK ==
    /\ schema \in Schemas
    /\ phase \in {"process", "unions", "discriminators", "structs", "events",
                  "done", "notfound", "panicked"}
    /\ \A id \in DOMAIN types : types[id].kind = "struct"
    /\ \A id \in DOMAIN unions : unions[id].kind = "combined"
    /\ \A id \in DOMAIN enums : enums[id].kind = "enum"

Init ==
    /\ schema \in Schemas
    /\ phase = "process" /\ left = schema /\ todo = {}
    /\ types = <<>> /\ unions = <<>> /\ enums = <<>> /\ events = <<>>
    /\ struct_discriminators = <<>>
    /\ out = <<>> /\ impls = {}
-----------------------------------------------------------------------------
(* The types written out.  A newtype variant or struct is one whose only     *)
(* field is flattened.                                                       *)

Field(m, flat) == [name |-> m.name, type |-> m.type, opt |-> m.opt,
                   array |-> m.array, flat |-> flat]

\* A mention of a type without a name: optional or not is lost.
Newtype(m) == <<[Field(m, TRUE) EXCEPT !.opt = FALSE]>>

Fields(members) == [i \in DOMAIN members |-> Field(members[i], FALSE)]

StructOut(id, fields) == [id |-> id, tag |-> "", fields |-> fields,
                          variants |-> <<>>]
EnumOut(id, tag, variants) == [id |-> id, tag |-> tag, fields |-> <<>>,
                               variants |-> variants]
Variant(name, fields) == [name |-> name, fields |-> fields]

WriteOut(decls) == out' = out \o decls

\* typename: a type, or the vector of it.
Typename(m) == [type |-> m.type, array |-> m.array]

\* From<from> for the type of v; of a union for its branch of that number, and
\* for it or for what it wraps.
Impl(v, from, branch, inner) ==
    [type |-> v.id, kind |-> v.kind, from |-> from, branch |-> branch,
     inner |-> inner]
-----------------------------------------------------------------------------
(* process. *)

Processing(kind) ==
    /\ phase = "process" /\ left # <<>> /\ Head(left).kind = kind
    /\ left' = Tail(left) /\ UNCHANGED <<schema, phase, todo>>

\* With 'gen': false a command takes any arguments besides its own.
CommandFields(v) ==
    Fields(v.base.fields) \o (IF v.tag = "nogen"
        THEN <<Field(Member("arguments", "Dictionary", FALSE), TRUE)>>
        ELSE <<>>)

\* A command takes its arguments from its own members or from another type;
\* no struct is written if that type has its own name.
ProcessCommand ==
    /\ Processing("command")
    /\ LET v == Head(left)
       IN  /\ WriteOut(IF v.base.kind = "data"
                       THEN <<StructOut(v.id, CommandFields(v))>>
                       ELSE IF v.base.type = v.id THEN <<>>
                       ELSE <<StructOut(v.id, Newtype(Member("", v.base.type,
                                                             FALSE)))>>)
           /\ impls' = IF v.base.kind = "data" \/ v.base.type = v.id THEN impls
                       ELSE impls \cup {Impl(v,
                                <<Typename(Member("", v.base.type, FALSE))>>,
                                0, FALSE)}
    /\ UNCHANGED kept

ProcessStruct ==
    /\ Processing("struct")
    /\ types' = Put(types, Head(left).id, Head(left))
    /\ UNCHANGED <<unions, enums, events,
             struct_discriminators, out, impls>>

\* An alternate has no optional branch.
ProcessAlternate ==
    /\ phase = "process" /\ left # <<>> /\ Head(left).kind = "alternate"
    /\ LET v == Head(left)
       IN  IF \E i \in DOMAIN v.data : v.data[i].opt
           THEN phase' = "panicked" /\ UNCHANGED <<left, out>>
           ELSE /\ WriteOut(<<EnumOut(v.id, "", [i \in DOMAIN v.data |->
                        Variant(v.data[i].name, Newtype(v.data[i]))])>>)
                /\ left' = Tail(left) /\ UNCHANGED phase
    /\ UNCHANGED <<schema, todo, kept, impls>>

ProcessEnum ==
    /\ Processing("enum")
    /\ enums' = Put(enums, Head(left).id, Head(left))
    /\ WriteOut(<<EnumOut(Head(left).id, "",
                          [i \in DOMAIN Head(left).values |->
                              Variant(Head(left).values[i], <<>>)])>>)
    /\ UNCHANGED <<types, unions, events,
             struct_discriminators, impls>>

\* An event with a type is transparent.
ProcessEvent ==
    /\ Processing("event")
    /\ LET v == Head(left)
       IN  /\ WriteOut(<<StructOut(v.id,
                         IF v.base.kind = "data" THEN Fields(v.base.fields)
                         ELSE Newtype(Member("data", v.base.type, FALSE)))>>)
           /\ events' = Append(events, v.id)
    /\ UNCHANGED <<types, unions, enums,
             struct_discriminators, impls>>

\* A union without base: the branch is the member "data".
ProcessUnion ==
    /\ Processing("union")
    /\ LET v == Head(left)
       IN  WriteOut(<<EnumOut(v.id, IF v.tag = "" THEN "type" ELSE v.tag,
                [i \in DOMAIN v.data |-> Variant(v.data[i].name,
                     Fields(<<[v.data[i] EXCEPT !.name = "data",
                                                !.opt = FALSE]>>))])>>)
    /\ UNCHANGED <<kept, impls>>

ProcessCombinedUnion ==
    /\ Processing("combined")
    /\ unions' = Put(unions, Head(left).id, Head(left))
    /\ UNCHANGED <<types, enums, events,
             struct_discriminators, out, impls>>

\* codegen: when the schema is read, the unions come next.
Processed ==
    /\ phase = "process" /\ left = <<>>
    /\ phase' = "unions" /\ todo' = DOMAIN unions
    /\ UNCHANGED <<schema, left, kept, out, impls>>
-----------------------------------------------------------------------------
(* The loops over a map come to its keys in the order of the alphabet. *)

Precedes(a, b) == \E i, j \in DOMAIN Names :
                     i < j /\ Names[i] = a /\ Names[j] = b

Generating(where, id) ==
    /\ phase = where /\ id \in todo
    /\ \A other \in todo : ~Precedes(other, id)
    /\ todo' = todo \ {id}
-----------------------------------------------------------------------------
(* process_unions: v is the union. *)

\* find() and filter() on the names of members.
Has(members, name) == \E i \in DOMAIN members : members[i].name = name
Find(members, name) ==
    members[CHOOSE i \in DOMAIN members :
                /\ members[i].name = name
                /\ \A j \in 1 .. i - 1 : members[j].name # name]

\* The elements of s at those places, in the order they have in s.
KeepAt(s, places) ==
    LET nth(n) == CHOOSE i \in places :
                      Cardinality({j \in places : j <= i}) = n
    IN  [n \in 1 .. Cardinality(places) |-> s[nth(n)]]
Others(members, name) ==
    KeepAt(members, {i \in DOMAIN members : members[i].name # name})

\* The discriminator, "type" by default.
Discrim(v) == IF v.tag = "" THEN "type" ELSE v.tag

BaseValue(type) == Member("base", type, FALSE)
BaseId(v) == v.id \o "Base"

\* The members among which the discriminator is looked for.
BaseFields(v) == IF v.base.kind = "data" THEN v.base.fields
                                         ELSE types[v.base.type].data

CreateBase(v) == v.base.kind = "data" /\ Len(v.base.fields) > 2

\* What of the base a branch has, as no or one member: the only one that is
\* not the discriminator, or all of them by way of a struct.
Base(v) ==
    IF CreateBase(v) THEN <<BaseValue(BaseId(v))>>
    ELSE IF v.base.kind = "data"
         THEN LET rest == Others(v.base.fields, Discrim(v))
              IN  IF rest = <<>> THEN <<>> ELSE <<rest[1]>>
    ELSE IF Len(BaseFields(v)) <= 1 THEN <<>>
    ELSE <<BaseValue(v.base.type)>>

\* The enumeration of the discriminator.
Discriminator(v) == Find(BaseFields(v), Discrim(v))
Values(v)        == enums[Discriminator(v).type].values

VariantFields(v, name) ==
    CASE Base(v) # <<>> /\ Has(v.data, name) ->
            <<Field(Base(v)[1], Base(v)[1].name = "base"),
              Field(Find(v.data, name), TRUE)>>
      [] Base(v) # <<>> /\ ~Has(v.data, name) -> Newtype(Base(v)[1])
      [] Base(v) = <<>> /\ Has(v.data, name) -> Newtype(Find(v.data, name))
      [] OTHER -> <<>>

\* The branches first, then the values that have none.
Variants(v) ==
    LET rest  == KeepAt(Values(v),
                        {i \in DOMAIN Values(v) : ~Has(v.data, Values(v)[i])})
        names == [i \in DOMAIN v.data |-> v.data[i].name] \o rest
    IN  [i \in DOMAIN names |-> Variant(names[i], VariantFields(v, names[i]))]

\* Mutant: the base of a union is not written out.
BaseOutForgotten(v) == <<>>

BaseOut(v) ==
    IF CreateBase(v)
    THEN <<StructOut(BaseId(v), Fields(Others(v.base.fields, Discrim(v))))>>
    ELSE <<>>

\* Mutant: two branches of one type both get an implementation.
ConvertedAll(v) == DOMAIN v.data

\* The branches whose type no other branch has.
Converted(v) ==
    {i \in DOMAIN v.data :
        \A j \in DOMAIN v.data : v.data[j].type = v.data[i].type => j = i}

\* Struct::newtype and Struct::wrapper_type; the tag marks a struct that is
\* named "...Wrapper".
StructNewtype(s) == s.base.kind = "data" /\ s.base.fields = <<>>
                    /\ Len(s.data) = 1
WrapperType(s)   == s.tag = "wrapper" /\ StructNewtype(s)

Found(b) == b.type \in DOMAIN types \cup DOMAIN unions

\* From<branch> or From<(branch, base)>, and From<what the branch wraps>.
OwnImpl(v, i) ==
    Impl(v, IF Base(v) = <<>> THEN <<Typename(v.data[i])>>
            ELSE <<Typename(v.data[i]), Typename(Base(v)[1])>>, i, FALSE)
InnerImpl(v, i) ==
    Impl(v, <<Typename(types[v.data[i].type].data[1])>>, i, TRUE)

Conversions(v) ==
    {OwnImpl(v, i) : i \in Converted(v)} \cup
    {InnerImpl(v, i) : i \in {j \in Converted(v) :
        /\ Base(v) = <<>>
        /\ v.data[j].type \in DOMAIN types
        /\ WrapperType(types[v.data[j].type])}}

UnionOut(v) ==
    /\ WriteOut(<<EnumOut(v.id, Discrim(v), Variants(v))>> \o BaseOut(v))
    /\ impls' = impls \cup Conversions(v)

\* What stops the generation at a union, in this order: a base that is not
\* there, a discriminator that is no member of it or no enumeration, a branch
\* of no value, an optional one or an array, a branch of a type that is not
\* there.
NoValue(m, v) == \A i \in DOMAIN Values(v) : Values(v)[i] # m.name

Outcome(v) ==
    IF v.base.kind = "type" /\ v.base.type \notin DOMAIN types THEN "notfound"
    ELSE IF ~Has(BaseFields(v), Discrim(v)) THEN "panicked"
    ELSE IF Discriminator(v).type \notin DOMAIN enums THEN "panicked"
    ELSE IF \E i \in DOMAIN v.data : \/ NoValue(v.data[i], v)
                                     \/ v.data[i].opt \/ v.data[i].array
         THEN "panicked"
    ELSE IF Base(v) = <<>> /\ \E i \in Converted(v) : ~Found(v.data[i])
         THEN "notfound"
    ELSE "generated"

\* Mutant: the member goes from the struct at once.
StripAtOnce(v) ==
    /\ types' = IF v.base.kind = "data" THEN types
                ELSE [types EXCEPT ![v.base.type].data = Others(@, Discrim(v))]
    /\ UNCHANGED struct_discriminators

\* The member is noted, for process_structs.
Strip(v) ==
    /\ struct_discriminators' =
           IF v.base.kind = "data" THEN struct_discriminators
           ELSE Put(struct_discriminators, v.base.type, Discrim(v))
    /\ UNCHANGED types

GenerateUnion ==
    /\ \E id \in todo : /\ Generating("unions", id)
                        /\ Outcome(unions[id]) = "generated"
                        /\ UnionOut(unions[id]) /\ Strip(unions[id])
    /\ UNCHANGED <<schema, phase, left, unions, enums, events>>

GenerateUnionFails ==
    /\ \E id \in todo : /\ Generating("unions", id)
                        /\ Outcome(unions[id]) # "generated"
                        /\ phase' = Outcome(unions[id])
    /\ UNCHANGED <<schema, left, kept, out, impls>>

UnionsDone ==
    /\ phase = "unions" /\ todo = {}
    /\ phase' = "discriminators"
    /\ UNCHANGED <<schema, left, todo, kept, out, impls>>
-----------------------------------------------------------------------------
(* process_structs. *)

\* Mutant: the member stays in the struct.
WithoutKept(members, name) == members

Without(members, name) == Others(members, name)

\* The tag of the enum takes the place of the discriminator.
StripDiscriminators ==
    /\ phase = "discriminators"
    /\ types' = [id \in DOMAIN types |->
           IF id \in DOMAIN struct_discriminators
           THEN [types[id] EXCEPT !.data = Without(@, struct_discriminators[id])]
           ELSE types[id]]
    /\ phase' = "structs" /\ todo' = DOMAIN types
    /\ UNCHANGED <<schema, left, unions, enums, events, struct_discriminators,
                   out, impls>>

\* Mutant: the base of a struct is a member like the others.
StructBaseNested(s) ==
    IF s.base.kind = "data" THEN Fields(s.base.fields)
    ELSE <<Field(BaseValue(s.base.type), FALSE)>>

StructBase(s) ==
    IF s.base.kind = "data" THEN Fields(s.base.fields)
    ELSE <<Field(BaseValue(s.base.type), TRUE)>>

\* The only member, or the base if no other member is needed.
Convertible(s) ==
    IF StructNewtype(s) THEN <<s.data[1]>>
    ELSE IF \E i \in DOMAIN s.data : ~s.data[i].opt THEN <<>>
    ELSE IF s.base.kind = "type" THEN <<BaseValue(s.base.type)>>
    ELSE IF Len(s.base.fields) = 1 THEN s.base.fields ELSE <<>>

GenerateStruct ==
    /\ \E id \in todo :
        LET s == types[id]
        IN  /\ Generating("structs", id)
            /\ WriteOut(<<StructOut(s.id, StructBase(s) \o Fields(s.data))>>)
            /\ impls' = IF Convertible(s) = <<>> THEN impls
                        ELSE impls \cup {Impl(s,
                                 <<Typename(Convertible(s)[1])>>, 0, FALSE)}
    /\ UNCHANGED <<schema, phase, left, kept>>

\* process_events: the enum of all events, tagged with their names.
GenerateEvents ==
    /\ phase = "structs" /\ todo = {}
    /\ WriteOut(<<EnumOut("Event", "event",
           [i \in DOMAIN events |-> Variant(events[i],
               Fields(<<Member("data", events[i], FALSE),
                        Member("timestamp", "Timestamp", FALSE)>>))])>>)
    /\ phase' = "done"
    /\ UNCHANGED <<schema, left, todo, kept, impls>>

Finished == phase \in {"done", "notfound", "panicked"} /\ UNCHANGED vars
-----------------------------------------------------------------------------
Process == \/ ProcessCommand \/ ProcessStruct \/ ProcessAlternate
           \/ ProcessEnum \/ ProcessEvent \/ ProcessUnion
           \/ ProcessCombinedUnion \/ Processed

Generate == \/ GenerateUnion \/ GenerateUnionFails \/ UnionsDone
            \/ StripDiscriminators \/ GenerateStruct \/ GenerateEvents

Next == Process \/ Generate \/ Finished

Spec == Init /\ [][Next]_vars
-----------------------------------------------------------------------------
(* The reference: the schema.                                                *)

Done == phase = "done"

Range1(s) == {s[i] : i \in DOMAIN s}

Items(kind) ==
    {schema[i] : i \in {j \in DOMAIN schema : schema[j].kind = kind}}
Ids(kind)   == {v.id : v \in Items(kind)}

\* The names in a schema are unique, but for a command that has the name of
\* the type of its arguments.
NoType(v) == /\ v.kind = "command" /\ v.base.kind # "data"
             /\ v.base.type = v.id
UniqueIds ==
    \A i, j \in {n \in DOMAIN schema : ~NoType(schema[n])} :
        schema[i].id = schema[j].id => i = j

\* Every type that an item mentions is the scalar or the item of that name.
TypesOf(members) == {m.type : m \in Range1(members)}
Mentions(v) ==
    TypesOf(v.base.fields) \cup TypesOf(v.data) \cup
    (IF v.base.kind = "data" THEN {} ELSE {v.base.type})
Declared(type) ==
    \/ type \in Scalars
    \/ \E v \in Range1(schema) : ~NoType(v) /\ v.id = type
Closed == \A v \in Range1(schema) : \A type \in Mentions(v) : Declared(type)

\* The names that the generation makes up itself, those of the bases and of
\* the enum of all events, are nobody else's.
FreshNames ==
    LET items == {v.id : v \in Range1(schema)}
        bases == {u \in Items("combined") : CreateBase(u)}
    IN  /\ "Event" \notin items
        /\ \A u \in bases : BaseId(u) \notin items \cup {"Event"}
        /\ \A u, w \in bases : BaseId(u) = BaseId(w) => u.id = w.id

\* The types that a type which was written out mentions.
Mentioned(d) ==
    TypesOf(d.fields) \cup
    UNION {TypesOf(d.variants[j].fields) : j \in DOMAIN d.variants}

\* What is written out is complete: a type that is mentioned is declared, if
\* the schema has the types it mentions, and no type is declared twice, if the
\* schema does not use a name twice.
OutClosed ==
    Done =>
        /\ Closed => \A d \in Range1(out) : \A type \in Mentioned(d) :
               type \in Scalars \/ \E e \in Range1(out) : e.id = type
        /\ UniqueIds /\ FreshNames =>
               \A i, j \in DOMAIN out : out[i].id = out[j].id => i = j

\* A struct of that name is a wrapper of what has that typename.
Wraps(id, name) ==
    \E s \in Items("struct") :
        s.id = id /\ WrapperType(s) /\ Typename(s.data[1]) = name

\* Rust refuses two implementations of From for the same types: a union gets
\* two only if a branch wraps the type of another branch, or two branches wrap
\* the same type.
ImplsDistinct ==
    UniqueIds => \A a, b \in impls :
        a # b /\ a.type = b.type /\ a.from = b.from =>
            \E v \in Items("combined") : \E i, j \in DOMAIN v.data :
                /\ v.id = a.type
                /\ \/ Wraps(v.data[i].type, Typename(v.data[j]))
                   \/ /\ i # j
                      /\ \E w \in Range1(a.from) : /\ Wraps(v.data[i].type, w)
                                                  /\ Wraps(v.data[j].type, w)

\* The members of the base of a union itself, not those it inherits.
BaseMembers(v) ==
    IF v.base.kind = "data" THEN {v.base.fields}
    ELSE {s.data : s \in {t \in Items("struct") : t.id = v.base.type}}

\* What a union mentions is not there: its base, its discriminator among the
\* members of the base, the enumeration of it, or a branch among the values.
BaseUnknown(v) == BaseMembers(v) = {}
DiscriminatorUnknown(v) ==
    \E members \in BaseMembers(v) : ~Has(members, Discrim(v))
ValueUnknown(v) ==
    \E members \in BaseMembers(v) : \E m \in Range1(members) :
        /\ m.name = Discrim(v)
        /\ \/ m.type \notin Ids("enum")
           \/ \E e \in Items("enum") : \E b \in Range1(v.data) :
                e.id = m.type /\ b.name \notin Range1(e.values)

\* codegen stops only at a schema that it cannot know how to generate: a type
\* is missing, a discriminator is not a member of the base itself, a branch is
\* of no value, or a branch is optional or, of a union, an array.
StopsForCause ==
    phase \in {"notfound", "panicked"} =>
        \/ \E v \in Items("alternate") : \E m \in Range1(v.data) : m.opt
        \/ \E v \in Items("combined") :
            \/ BaseUnknown(v) \/ DiscriminatorUnknown(v) \/ ValueUnknown(v)
            \/ \E m \in Range1(v.data) :
                \/ m.opt \/ m.array
                \/ m.type \notin Ids("struct") \cup Ids("combined")
=============================================================================
