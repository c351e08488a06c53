----------------------------- MODULE SchemaWire -----------------------------
(***************************************************************************)
(* What the types that SchemaCodegen writes out are on the wire, against   *)
(* what the schema says.                                                   *)
(***************************************************************************)
EXTENDS SchemaCodegen

ItemOf(id)   == CHOOSE v \in Items("struct") : v.id = id
WireMember(m) == [name |-> m.name, opt |-> m.opt]
WireMembers(members) == [i \in DOMAIN members |-> WireMember(members[i])]

RECURSIVE SchemaMembers(_)
SchemaMembers(data) ==
    IF data.kind = "data" THEN WireMembers(data.fields)
    ELSE SchemaMembers(ItemOf(data.type).base)
         \o WireMembers(ItemOf(data.type).data)

(* What serde writes and expects for the types that were generated; a        *)
(* flattened or transparent field that is no struct is a member "?".         *)

Decl(id) == SelectInSeq(out, LAMBDA d : d.id = id)

RECURSIVE Wire(_)
Wire(fields) ==
    FlattenSeq([i \in DOMAIN fields |->
        IF ~fields[i].flat THEN <<WireMember(fields[i])>>
        ELSE IF fields[i].type = "Dictionary" THEN <<>>
        ELSE IF \/ fields[i].array \/ Decl(fields[i].type) = 0
                \/ out[Decl(fields[i].type)].tag # ""
             THEN <<[name |-> "?", opt |-> FALSE]>>
        ELSE Wire(out[Decl(fields[i].type)].fields)])

\* The same members, each once.
Same(wire, members) ==
    /\ Range1(wire) = Range1(members)
    /\ Len(wire) = Cardinality(Range1(wire))

\* A struct that is the base of a union, or inherits from one, lacks the
\* discriminator wherever it is used.
RECURSIVE Stripped(_)
Stripped(data) ==
    /\ data.kind = "type"
    /\ \/ \E u \in Items("combined") : u.base = data
       \/ Stripped(ItemOf(data.type).base)

\* A struct, and the arguments of a command and the data of an event, have on
\* the wire the members the schema gives them, inherited ones flattened among
\* them, and exactly those; the exception is the base of a union.
StructWire ==
    Done =>
        /\ \A s \in Items("struct") :
            Same(Wire(out[Decl(s.id)].fields), SchemaMembers(TypeOf(s.id)))
                <=> ~Stripped(TypeOf(s.id))
        /\ \A v \in Items("command") \cup Items("event") :
            Same(Wire(out[Decl(v.id)].fields), SchemaMembers(v.base))
                <=> ~Stripped(v.base)

UnionWireAt(v, n) ==
    LET own == SelectSeq(out[Decl(v.id)].variants, LAMBDA w : w.name = n)
    IN  /\ Len(own) = 1
        /\ Same(<<[name |-> Discrim(v), opt |-> FALSE]>> \o Wire(own[1].fields),
                SchemaMembers(v.base)
                \o (IF Has(v.data, n)
                    THEN SchemaMembers(TypeOf(Find(v.data, n).type)) ELSE <<>>))

\* The unions that are generated as the schema says: the base is inline, and
\* every value has a branch if it has two members; or it is a struct that has
\* more members than the discriminator itself or inherits none, and no union
\* later in the alphabet takes another discriminator from it.
Supported(v, n) ==
    IF v.base.kind = "data"
    THEN Len(v.base.fields) # 2 \/ Has(v.data, n)
    ELSE /\ \/ Len(ItemOf(v.base.type).data) > 1
            \/ SchemaMembers(ItemOf(v.base.type).base) = <<>>
         /\ struct_discriminators[v.base.type] = Discrim(v)

\* The members of the base itself, and the values of the discriminator.
OwnBase(v) == IF v.base.kind = "data" THEN v.base.fields
              ELSE ItemOf(v.base.type).data
ValuesOf(v) ==
    LET e == CHOOSE e \in Items("enum") :
                e.id = Find(OwnBase(v), Discrim(v)).type
    IN  Range1(e.values)

\* Not checked by the code for a union whose base has other members.
BranchesExist ==
    \A v \in Items("combined") :
        \A m \in Range1(v.data) : m.type \in Ids("struct")

\* For every value of the discriminator a union has one variant, with the
\* members of the base and of the branch and the discriminator once, as the
\* tag; but for the unions that are not Supported, and for each of those it
\* does not.
UnionWire ==
    Done /\ BranchesExist => \A v \in Items("combined") : \A n \in ValuesOf(v) :
        UnionWireAt(v, n) <=> Supported(v, n)
=============================================================================
