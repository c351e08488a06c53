------------------------ MODULE SchemaCodegenProofs ------------------------
(***************************************************************************)
(* Theorems about SchemaCodegen for every schema: what the generation      *)
(* stops for, which implementations of From it writes twice, that the      *)
(* types it writes mention no type that it does not write, and what of a   *)
(* struct and of a union is in them.                                       *)
(***************************************************************************)
EXTENDS SchemaCodegen, StreamLemmas, FiniteSetTheorems,
        WellFoundedInduction, TLAPS

-----------------------------------------------------------------------------
(* What the maps hold.                                                       *)

MapOf(f, kind) == \A id \in DOMAIN f : f[id] \in Items(kind) /\ f[id].id = id

\* The structs are those of the schema until their discriminators go.
MapsHold ==
    /\ MapOf(unions, "combined") /\ MapOf(enums, "enum")
    /\ \A id \in DOMAIN types : /\ id \in Ids("struct")
                                /\ types[id].kind = "struct" /\ types[id].id = id
    /\ phase \in {"process", "unions", "discriminators"} => MapOf(types, "struct")

\* An item has been put into its map, or is still to be processed.
MapsComplete ==
    /\ \A v \in Items("struct") : v.id \in DOMAIN types \/ v \in Range1(left)
    /\ \A v \in Items("combined") : v.id \in DOMAIN unions \/ v \in Range1(left)
    /\ \A v \in Items("enum") : v.id \in DOMAIN enums \/ v \in Range1(left)

LoopsHold ==
    /\ schema \in Seq(ItemType)
    /\ left \in Seq(ItemType) /\ Range1(left) \subseteq Range1(schema)
    /\ phase \in {"unions", "discriminators"} => left = <<>>
    /\ phase = "unions" => todo \subseteq DOMAIN unions
    /\ phase = "structs" => todo \subseteq DOMAIN types

\* Where an implementation of From comes from.
OfUnion(v, a) ==
    /\ a = Impl(v, a.from, a.branch, a.inner) /\ a.branch \in Converted(v)
    /\ IF a.inner THEN \E w : a.from = <<w>> /\ Wraps(v.data[a.branch].type, w)
                  ELSE /\ a.inner = FALSE
                       /\ a.from[1] = Typename(v.data[a.branch])

Origin(a) ==
    \/ \E v \in Items("command") \cup Items("struct") :
          ~NoType(v) /\ a = Impl(v, a.from, 0, FALSE)
    \/ \E v \in Items("combined") : OfUnion(v, a)

ImplsHold == \A a \in impls : Origin(a)

Maps == LoopsHold /\ MapsHold /\ MapsComplete

IInv == TypeOK /\ Maps /\ ImplsHold /\ StopsForCause

-----------------------------------------------------------------------------
(* The schema, and the maps filled from it.                                  *)

LEMMA SchemaStays == [Next]_vars => schema' = schema
BY DEF Next, Process, Generate, Finished, vars, Processing, ProcessCommand,
   ProcessStruct, ProcessAlternate, ProcessEnum, ProcessEvent, ProcessUnion,
   ProcessCombinedUnion, Processed, GenerateUnion, GenerateUnionFails,
   UnionsDone, StripDiscriminators, GenerateStruct, GenerateEvents

\* The item that is processed is one of the schema.
LEMMA HeadItem ==
    ASSUME LoopsHold, left # <<>>
    PROVE  /\ Head(left) \in Items(Head(left).kind) /\ Head(left) \in ItemType
           /\ Tail(left) \in Seq(ItemType)
           /\ Range1(left) = Range1(Tail(left)) \cup {Head(left)}
<1>1. left \in Seq(ItemType) /\ Range1(left) \subseteq Range1(schema)
  BY DEF LoopsHold
<1>2. /\ Tail(left) \in Seq(ItemType) /\ Head(left) \in ItemType
      /\ Head(left) = left[1] /\ Len(left) \in Nat /\ Len(left) >= 1
      /\ DOMAIN left = 1 .. Len(left) /\ DOMAIN Tail(left) = 1 .. Len(left) - 1
      /\ \A i \in DOMAIN Tail(left) : i + 1 \in DOMAIN left
                                      /\ Tail(left)[i] = left[i + 1]
  BY <1>1, TailFacts
<1>3. ASSUME NEW v \in Range1(left)
      PROVE  v = Head(left) \/ v \in Range1(Tail(left))
  <2> PICK i \in DOMAIN left : v = left[i]
    BY DEF Range1
  <2>1. CASE i = 1
    BY <1>2, <2>1
  <2>2. CASE i # 1
    <3>1. i - 1 \in DOMAIN Tail(left) /\ (i - 1) + 1 = i
      BY <1>2, <2>2
    <3>2. Tail(left)[i - 1] = v
      BY <1>2, <3>1
    <3> QED
      BY <3>1, <3>2 DEF Range1
  <2> QED
    BY <2>1, <2>2
<1>4. Range1(Tail(left)) \subseteq Range1(left) /\ Head(left) \in Range1(left)
  <2>1. 1 \in DOMAIN left
    BY <1>2
  <2> QED
    BY <1>2, <2>1 DEF Range1
<1>5. Head(left) \in Items(Head(left).kind)
  BY <1>1, <1>4 DEF Range1, Items
<1> QED
  BY <1>2, <1>3, <1>4, <1>5

\* The kinds are told apart.
LEMMA ItemKind ==
    ASSUME NEW kind, NEW v \in Items(kind)
    PROVE  v.kind = kind /\ v.id \in Ids(kind)
BY DEF Items, Ids

\* What insert() does to a map.
LEMMA PutItem ==
    ASSUME NEW f, NEW kind, NEW v \in Items(kind), MapOf(f, kind)
    PROVE  MapOf(Put(f, v.id, v), kind)
<1> SUFFICES ASSUME NEW id \in DOMAIN Put(f, v.id, v)
             PROVE  Put(f, v.id, v)[id] \in Items(kind) /\ Put(f, v.id, v)[id].id = id
  BY DEF MapOf
<1>1. CASE id = v.id
  <2>1. Put(f, v.id, v)[id] = v
    BY <1>1 DEF Put
  <2> QED
    BY <1>1, <2>1
<1>2. CASE id # v.id
  <2>1. id \in DOMAIN f /\ Put(f, v.id, v)[id] = f[id]
    BY <1>2 DEF Put
  <2> QED
    BY <2>1 DEF MapOf
<1> QED
  BY <1>1, <1>2

-----------------------------------------------------------------------------
(* The steps keep the maps.                                                  *)

LEMMA MapsInit == Init => Maps
<1> SUFFICES ASSUME Init PROVE Maps
  OBVIOUS
<1>1. schema \in Seq(ItemType) /\ left = schema /\ phase = "process"
  BY CodegenAssumption DEF Init
<1>2. types = <<>> /\ unions = <<>> /\ enums = <<>>
  BY DEF Init
<1>3. DOMAIN types = {} /\ DOMAIN unions = {} /\ DOMAIN enums = {}
  BY <1>2
<1>4. MapsHold
  BY <1>3 DEF MapsHold, MapOf
<1>5. MapsComplete
  BY <1>1 DEF MapsComplete, Items, Range1
<1> QED
  BY <1>1, <1>4, <1>5 DEF Maps, LoopsHold

\* An item whose kind has no map, or whose map is f.
LEMMA ProcessMaps ==
    ASSUME Maps, schema' = schema, phase = "process",
           phase' \in {"process", "panicked"}, left # <<>>,
           left' = Tail(left) \/ left' = left,
           \/ UNCHANGED types /\ (left' = left \/ Head(left).kind # "struct")
           \/ types' = Put(types, Head(left).id, Head(left))
              /\ Head(left).kind = "struct",
           \/ UNCHANGED unions /\ (left' = left \/ Head(left).kind # "combined")
           \/ unions' = Put(unions, Head(left).id, Head(left))
              /\ Head(left).kind = "combined",
           \/ UNCHANGED enums /\ (left' = left \/ Head(left).kind # "enum")
           \/ enums' = Put(enums, Head(left).id, Head(left))
              /\ Head(left).kind = "enum"
    PROVE  Maps'
<1> DEFINE v == Head(left)
<1>1. /\ v \in Items(v.kind) /\ Tail(left) \in Seq(ItemType)
      /\ Range1(left) = Range1(Tail(left)) \cup {v}
  BY HeadItem DEF Maps
<1>2. \A kind : Items(kind)' = Items(kind) /\ Ids(kind)' = Ids(kind)
  BY DEF Items, Ids
<1>3. Range1(left)' \subseteq Range1(left) /\ Range1(schema)' = Range1(schema)
  BY <1>1 DEF Range1
<1>4. LoopsHold'
  BY <1>1, <1>3 DEF LoopsHold, Maps
<1>5. /\ MapOf(types, "struct") /\ MapOf(unions, "combined")
      /\ MapOf(enums, "enum")
  BY DEF Maps, MapsHold
<1>6. MapOf(types', "struct") /\ MapOf(unions', "combined") /\ MapOf(enums', "enum")
  BY <1>1, <1>5, PutItem
<1>7. MapsHold'
  <2>1. /\ MapOf(types, "struct")' /\ MapOf(unions, "combined")'
        /\ MapOf(enums, "enum")'
    BY <1>2, <1>6 DEF MapOf
  <2>2. \A id \in DOMAIN types' : types'[id] \in Items("struct") /\ types'[id].id = id
    BY <1>6 DEF MapOf
  <2>3. \A id \in DOMAIN types' : /\ id \in Ids("struct")
                                  /\ types'[id].kind = "struct"
    BY <2>2, ItemKind
  <2> QED
    BY <1>2, <2>1, <2>2, <2>3 DEF MapsHold
<1>8. MapsComplete'
  <2>1. \A x \in Range1(left) : x = v \/ x \in Range1(left)'
    BY <1>1 DEF Range1
  <2>2. \A x \in Items("struct") : x.id \in DOMAIN types' \/ x \in Range1(left)'
    <3> SUFFICES ASSUME NEW x \in Items("struct"), x.id \notin DOMAIN types'
                 PROVE  x \in Range1(left)'
      OBVIOUS
    <3>1. x.id \notin DOMAIN types /\ x.kind = "struct"
      BY ItemKind DEF Put
    <3>2. x \in Range1(left)
      BY <3>1 DEF Maps, MapsComplete
    <3>3. CASE x = v
      BY <3>1, <3>2, <3>3 DEF Range1, Put
    <3> QED
      BY <2>1, <3>2, <3>3
  <2>3. \A x \in Items("combined") : x.id \in DOMAIN unions' \/ x \in Range1(left)'
    <3> SUFFICES ASSUME NEW x \in Items("combined"), x.id \notin DOMAIN unions'
                 PROVE  x \in Range1(left)'
      OBVIOUS
    <3>1. x.id \notin DOMAIN unions /\ x.kind = "combined"
      BY ItemKind DEF Put
    <3>2. x \in Range1(left)
      BY <3>1 DEF Maps, MapsComplete
    <3>3. CASE x = v
      BY <3>1, <3>2, <3>3 DEF Range1, Put
    <3> QED
      BY <2>1, <3>2, <3>3
  <2>4. \A x \in Items("enum") : x.id \in DOMAIN enums' \/ x \in Range1(left)'
    <3> SUFFICES ASSUME NEW x \in Items("enum"), x.id \notin DOMAIN enums'
                 PROVE  x \in Range1(left)'
      OBVIOUS
    <3>1. x.id \notin DOMAIN enums /\ x.kind = "enum"
      BY ItemKind DEF Put
    <3>2. x \in Range1(left)
      BY <3>1 DEF Maps, MapsComplete
    <3>3. CASE x = v
      BY <3>1, <3>2, <3>3 DEF Range1, Put
    <3> QED
      BY <2>1, <3>2, <3>3
  <2> QED
    BY <1>2, <2>2, <2>3, <2>4 DEF MapsComplete
<1> QED
  BY <1>4, <1>7, <1>8 DEF Maps

\* The loops that come after leave the maps, but for process_structs.
LEMMA GenerateMaps ==
    ASSUME Maps, UNCHANGED <<schema, left, unions, enums, types>>,
           phase' \in {"unions", "discriminators"} => left = <<>>,
           phase' \in {"process", "unions", "discriminators"} =>
               phase \in {"process", "unions", "discriminators"},
           phase' = "unions" => todo' \subseteq DOMAIN unions,
           phase' = "structs" => todo' \subseteq DOMAIN types
    PROVE  Maps'
<1>1. \A kind : Items(kind)' = Items(kind) /\ Ids(kind)' = Ids(kind)
  BY DEF Items, Ids
<1>2. LoopsHold'
  <2>1. Range1(left)' = Range1(left) /\ Range1(schema)' = Range1(schema)
    BY DEF Range1
  <2> QED
    BY <2>1 DEF Maps, LoopsHold
<1>3. MapsHold'
  BY <1>1 DEF Maps, MapsHold, MapOf
<1>4. MapsComplete'
  BY <1>1 DEF Maps, MapsComplete, Range1
<1> QED
  BY <1>2, <1>3, <1>4 DEF Maps

LEMMA StripMaps == ASSUME Maps, StripDiscriminators PROVE Maps'
<1>1. /\ UNCHANGED <<schema, left, unions, enums>> /\ DOMAIN types' = DOMAIN types
      /\ phase = "discriminators" /\ phase' = "structs" /\ todo' = DOMAIN types'
  BY DEF StripDiscriminators
<1>2. \A kind : Items(kind)' = Items(kind) /\ Ids(kind)' = Ids(kind)
  BY <1>1 DEF Items, Ids
<1>3. LoopsHold'
  <2>1. Range1(left)' = Range1(left) /\ Range1(schema)' = Range1(schema)
    BY <1>1 DEF Range1
  <2> QED
    BY <1>1, <2>1 DEF Maps, LoopsHold
<1>4. MapsHold'
  <2>1. ASSUME NEW id \in DOMAIN types
        PROVE  types'[id].kind = "struct" /\ types'[id].id = id
    <3>1. types[id] \in Items("struct") /\ types[id].id = id
      BY <1>1 DEF Maps, MapsHold, MapOf
    <3>2. types[id] \in ItemType
      <4>1. \A i \in DOMAIN schema : schema[i] \in ItemType
        BY DEF Maps, LoopsHold
      <4> QED
        BY <3>1, <4>1 DEF Items
    <3>3. types[id].kind = "struct"
      BY <3>1, ItemKind
    <3>4. \/ types'[id] = types[id]
          \/ \E data : types'[id] = [types[id] EXCEPT !.data = data]
      BY DEF StripDiscriminators
    <3> QED
      BY <3>1, <3>2, <3>3, <3>4 DEF ItemType
  <2>2. MapOf(unions, "combined")' /\ MapOf(enums, "enum")'
    BY <1>1, <1>2 DEF Maps, MapsHold, MapOf
  <2> QED
    BY <1>1, <1>2, <2>1, <2>2 DEF Maps, MapsHold
<1>5. MapsComplete'
  BY <1>1, <1>2 DEF Maps, MapsComplete, Range1
<1> QED
  BY <1>3, <1>4, <1>5 DEF Maps

LEMMA MapsStep == Maps /\ [Next]_vars => Maps'
<1> SUFFICES ASSUME Maps, [Next]_vars PROVE Maps'
  OBVIOUS
<1>0. phase \in {"unions", "discriminators"} => left = <<>>
  BY DEF Maps, LoopsHold
<1>1. CASE ProcessCommand
  BY <1>1, ProcessMaps DEF ProcessCommand, Processing, kept
<1>2. CASE ProcessStruct
  BY <1>2, ProcessMaps DEF ProcessStruct, Processing
<1>3. CASE ProcessAlternate
  <2>1. /\ UNCHANGED <<schema, types, unions, enums>> /\ phase = "process"
        /\ left # <<>> /\ Head(left).kind = "alternate"
    BY <1>3 DEF ProcessAlternate, kept
  <2>2. \/ phase' = "panicked" /\ left' = left
        \/ phase' = phase /\ left' = Tail(left)
    BY <1>3 DEF ProcessAlternate
  <2> QED
    BY <2>1, <2>2, ProcessMaps
<1>4. CASE ProcessEnum
  BY <1>4, ProcessMaps DEF ProcessEnum, Processing
<1>5. CASE ProcessEvent
  BY <1>5, ProcessMaps DEF ProcessEvent, Processing
<1>6. CASE ProcessUnion
  BY <1>6, ProcessMaps DEF ProcessUnion, Processing, kept
<1>7. CASE ProcessCombinedUnion
  BY <1>7, ProcessMaps DEF ProcessCombinedUnion, Processing
<1>8. CASE Processed
  BY <1>8, GenerateMaps DEF Processed, kept
<1>9. CASE GenerateUnion
  <2>1. /\ UNCHANGED <<schema, phase, left, unions, enums, types>>
        /\ phase = "unions" /\ todo' \subseteq todo
    BY <1>9 DEF GenerateUnion, Generating, Strip
  <2> QED
    BY <1>0, <2>1, GenerateMaps DEF Maps, LoopsHold
<1>10. CASE GenerateUnionFails
  <2>1. /\ UNCHANGED <<schema, left, unions, enums, types>>
        /\ phase' \in {"panicked", "notfound"}
    BY <1>10 DEF GenerateUnionFails, Outcome, kept
  <2> QED
    BY <2>1, GenerateMaps
<1>11. CASE UnionsDone
  BY <1>0, <1>11, GenerateMaps DEF UnionsDone, kept
<1>12. CASE StripDiscriminators
  BY <1>12, StripMaps
<1>13. CASE GenerateStruct
  <2>1. /\ UNCHANGED <<schema, phase, left, unions, enums, types>>
        /\ phase = "structs" /\ todo' \subseteq todo
    BY <1>13 DEF GenerateStruct, Generating, kept
  <2> QED
    BY <2>1, GenerateMaps DEF Maps, LoopsHold
<1>14. CASE GenerateEvents
  BY <1>14, GenerateMaps DEF GenerateEvents, kept
<1>15. CASE UNCHANGED vars
  BY <1>0, <1>15, GenerateMaps DEF vars, kept, Maps, LoopsHold
<1> QED
  BY <1>1, <1>2, <1>3, <1>4, <1>5, <1>6, <1>7, <1>8, <1>9, <1>10, <1>11, <1>12,
     <1>13, <1>14, <1>15 DEF Next, Process, Generate, Finished

-----------------------------------------------------------------------------
(* Why the generation stops.                                                 *)

\* Every set of numbers has a least one: the intervals up to its members are
\* finite sets, and those are well-founded under inclusion.
LEMMA LeastNumber ==
    ASSUME NEW S, S \subseteq Nat, S # {}
    PROVE  \E m \in S : \A n \in S : m <= n
<1> DEFINE R == StrictSubsetOrdering(Nat)
           T == {1 .. i : i \in S}
<1>1. IsWellFoundedOn(R, FiniteSubsetsOf(Nat))
  BY FS_StrictSubsetOrderingWellFounded
<1>2. T \subseteq FiniteSubsetsOf(Nat) /\ T # {}
  <2>1. \A i \in S : IsFiniteSet(1 .. i) /\ 1 .. i \subseteq Nat
    BY FS_Interval
  <2> QED
    BY <2>1 DEF FiniteSubsetsOf
<1>3. PICK X \in T : \A Y \in T : <<Y, X>> \notin R
  <2> HIDE DEF R, T
  <2> QED
    BY <1>1, <1>2, WFMin
<1> PICK m \in S : X = 1 .. m
  OBVIOUS
<1>4. ASSUME NEW n \in S PROVE m <= n
  <2>1. SUFFICES ASSUME n < m PROVE FALSE
    OBVIOUS
  <2>2. 1 .. n \subseteq 1 .. m /\ m \in 1 .. m /\ m \notin 1 .. n
    BY <2>1
  <2>3. <<1 .. n, 1 .. m>> \in R
    BY <2>2 DEF StrictSubsetOrdering
  <2> QED
    BY <1>3, <2>3
<1> QED
  BY <1>4

\* find() finds the member if there is one.
LEMMA FindFacts ==
    ASSUME NEW members \in Seq(MemberType), NEW name, Has(members, name)
    PROVE  Find(members, name) \in Range1(members) /\ Find(members, name).name = name
<1> DEFINE S == {i \in DOMAIN members : members[i].name = name}
<1>1. S \subseteq Nat /\ S # {}
  BY DEF Has
<1>2. \E m \in S : \A n \in S : m <= n
  <2> HIDE DEF S
  <2> QED
    BY <1>1, LeastNumber
<1> PICK m \in S : \A n \in S : m <= n
  BY <1>2
<1>3. \A j \in 1 .. m - 1 : members[j].name # name
  <2> SUFFICES ASSUME NEW j \in 1 .. m - 1, members[j].name = name PROVE FALSE
    OBVIOUS
  <2>1. m \in 1 .. Len(members) /\ DOMAIN members = 1 .. Len(members)
        /\ Len(members) \in Nat
    OBVIOUS
  <2>2. j \in 1 .. Len(members) /\ j < m
    BY <2>1
  <2>3. m <= j
    BY <2>1, <2>2
  <2> QED
    BY <2>1, <2>2, <2>3
<1> DEFINE First(i) == /\ members[i].name = name
                       /\ \A j \in 1 .. i - 1 : members[j].name # name
           f == CHOOSE i \in DOMAIN members : First(i)
<1>4. \E i \in DOMAIN members : First(i)
  BY <1>3
<1>5. f \in DOMAIN members /\ First(f)
  <2> HIDE DEF First
  <2> QED
    BY <1>4
<1>6. Find(members, name) = members[f]
  BY DEF Find
<1> QED
  BY <1>5, <1>6 DEF Range1

\* The members that are looked at are those of the base.
LEMMA BaseFieldsFacts ==
    ASSUME Maps, phase = "unions", NEW v \in Items("combined"),
           v.base.kind = "data" \/ v.base.type \in DOMAIN types
    PROVE  BaseFields(v) \in BaseMembers(v) /\ BaseFields(v) \in Seq(MemberType)
<1>1. \A kind : \A x \in Items(kind) : x \in ItemType
  <2>1. \A i \in DOMAIN schema : schema[i] \in ItemType
    BY DEF Maps, LoopsHold
  <2> QED
    BY <2>1 DEF Items
<1>2. CASE v.base.kind = "data"
  <2>1. v.base.fields \in Seq(MemberType)
    BY <1>1 DEF ItemType, DataType
  <2> QED
    BY <1>2, <2>1 DEF BaseFields, BaseMembers
<1>3. CASE v.base.kind # "data"
  <2>1. types[v.base.type] \in Items("struct") /\ types[v.base.type].id = v.base.type
    BY <1>3 DEF Maps, MapsHold, MapOf
  <2>2. types[v.base.type].data \in Seq(MemberType)
    BY <1>1, <2>1 DEF ItemType
  <2> QED
    BY <1>3, <2>1, <2>2 DEF BaseFields, BaseMembers
<1> QED
  BY <1>2, <1>3

\* What the schema must have for the generation to stop.
Cause ==
    \/ \E v \in Items("alternate") : \E m \in Range1(v.data) : m.opt
    \/ \E v \in Items("combined") :
        \/ BaseUnknown(v) \/ DiscriminatorUnknown(v) \/ ValueUnknown(v)
        \/ \E m \in Range1(v.data) :
            \/ m.opt \/ m.array
            \/ m.type \notin Ids("struct") \cup Ids("combined")

LEMMA FailureCause ==
    ASSUME Maps, phase = "unions", NEW v \in Items("combined"),
           Outcome(v) # "generated"
    PROVE  Cause
<1>0. /\ \A x \in Items("struct") : x.id \in DOMAIN types
      /\ \A x \in Items("combined") : x.id \in DOMAIN unions
      /\ \A x \in Items("enum") : x.id \in DOMAIN enums
  <2>1. left = <<>>
    BY DEF Maps, LoopsHold
  <2>2. Range1(left) = {}
    BY <2>1 DEF Range1
  <2> QED
    BY <2>2 DEF Maps, MapsComplete
<1>1. CASE v.base.kind = "type" /\ v.base.type \notin DOMAIN types
  <2>1. BaseMembers(v) = {}
    BY <1>0, <1>1 DEF BaseMembers
  <2> QED
    BY <2>1 DEF Cause, BaseUnknown
<1>2. CASE ~(v.base.kind = "type" /\ v.base.type \notin DOMAIN types)
  <2>0. v.base.kind \in {"data", "type"}
    <3>1. \A i \in DOMAIN schema : schema[i] \in ItemType
      BY DEF Maps, LoopsHold
    <3> QED
      BY <3>1 DEF Items, ItemType, DataType
  <2>1. BaseFields(v) \in BaseMembers(v) /\ BaseFields(v) \in Seq(MemberType)
    BY <1>2, <2>0, BaseFieldsFacts
  <2>2. CASE ~Has(BaseFields(v), Discrim(v))
    BY <2>1, <2>2 DEF Cause, DiscriminatorUnknown
  <2>3. CASE Has(BaseFields(v), Discrim(v))
    <3>1. /\ Discriminator(v) \in Range1(BaseFields(v))
          /\ Discriminator(v).name = Discrim(v)
      BY <2>1, <2>3, FindFacts DEF Discriminator
    <3>2. CASE Discriminator(v).type \notin DOMAIN enums
      <4>1. Discriminator(v).type \notin Ids("enum")
        BY <1>0, <3>2 DEF Ids
      <4> QED
        BY <2>1, <3>1, <4>1 DEF Cause, ValueUnknown
    <3>3. ASSUME NEW i \in DOMAIN v.data, v.data[i].opt \/ v.data[i].array
          PROVE  Cause
      BY <3>3 DEF Cause, Range1
    <3>4. ASSUME Discriminator(v).type \in DOMAIN enums,
                 NEW i \in DOMAIN v.data, NoValue(v.data[i], v)
          PROVE  Cause
      <4>1. /\ enums[Discriminator(v).type] \in Items("enum")
            /\ enums[Discriminator(v).type].id = Discriminator(v).type
        BY <3>4 DEF Maps, MapsHold, MapOf
      <4>2. v.data[i].name \notin Range1(Values(v)) /\ v.data[i] \in Range1(v.data)
        BY <3>4 DEF NoValue, Range1
      <4>3. ValueUnknown(v)
        BY <2>1, <3>1, <4>1, <4>2 DEF ValueUnknown, Values
      <4> QED
        BY <4>3 DEF Cause
    <3>5. ASSUME NEW i \in Converted(v), ~Found(v.data[i]) PROVE Cause
      <4>1. v.data[i].type \notin Ids("struct") \cup Ids("combined")
        BY <1>0, <3>5 DEF Found, Ids
      <4>2. v.data[i] \in Range1(v.data)
        BY DEF Converted, Range1
      <4> QED
        BY <4>1, <4>2 DEF Cause
    <3> QED
      BY <1>2, <2>3, <3>2, <3>3, <3>4, <3>5 DEF Outcome
  <2> QED
    BY <2>2, <2>3
<1> QED
  BY <1>1, <1>2

LEMMA StopsStep == Maps /\ StopsForCause /\ [Next]_vars => StopsForCause'
<1> SUFFICES ASSUME Maps, StopsForCause, [Next]_vars PROVE StopsForCause'
  OBVIOUS
<1>0. Cause' = Cause
  <2>1. schema' = schema
    BY SchemaStays
  <2> QED
    BY <2>1 DEF Cause, BaseUnknown, DiscriminatorUnknown, ValueUnknown,
       BaseMembers, Has, Discrim, Range1, Items, Ids
<1> SUFFICES ASSUME phase' \in {"notfound", "panicked"} PROVE Cause
  BY <1>0 DEF StopsForCause, Cause
<1>1. CASE phase \in {"notfound", "panicked"}
  BY <1>1 DEF StopsForCause, Cause
<1>2. CASE ProcessAlternate
  <2>1. /\ left # <<>> /\ Head(left).kind = "alternate" /\ phase = "process"
        /\ \E i \in DOMAIN Head(left).data : Head(left).data[i].opt
    BY <1>2 DEF ProcessAlternate
  <2>2. Head(left) \in Items("alternate")
    BY <2>1, HeadItem DEF Maps
  <2> QED
    BY <2>1, <2>2 DEF Cause, Range1
<1>3. CASE GenerateUnionFails
  <2> PICK id \in todo : phase = "unions" /\ Outcome(unions[id]) # "generated"
    BY <1>3 DEF GenerateUnionFails, Generating
  <2>1. unions[id] \in Items("combined")
    BY DEF Maps, LoopsHold, MapsHold, MapOf
  <2> QED
    BY <2>1, FailureCause
<1>4. ASSUME phase \notin {"notfound", "panicked"}, ~ProcessAlternate,
             ~GenerateUnionFails
      PROVE  FALSE
  BY <1>4 DEF Next, Process, Generate, Finished, vars, Processing,
     ProcessCommand, ProcessStruct, ProcessEnum, ProcessEvent, ProcessUnion,
     ProcessCombinedUnion, Processed, GenerateUnion, Generating, UnionsDone,
     StripDiscriminators, GenerateStruct, GenerateEvents
<1> QED
  BY <1>1, <1>2, <1>3, <1>4

-----------------------------------------------------------------------------
(* The implementations of From.                                              *)

LEMMA OwnOrigin ==
    ASSUME NEW v \in Items("combined"), NEW i \in Converted(v)
    PROVE  Origin(OwnImpl(v, i))
<1> DEFINE a == OwnImpl(v, i)
<1>1. /\ a = Impl(v, a.from, i, FALSE) /\ a.branch = i /\ a.inner = FALSE
      /\ a.from[1] = Typename(v.data[i])
  BY DEF OwnImpl, Impl
<1>2. OfUnion(v, a)
  <2> HIDE DEF a
  <2> QED
    BY <1>1 DEF OfUnion
<1> QED
  BY <1>2 DEF Origin

LEMMA InnerOrigin ==
    ASSUME Maps, phase = "unions", NEW v \in Items("combined"),
           NEW i \in Converted(v), v.data[i].type \in DOMAIN types,
           WrapperType(types[v.data[i].type])
    PROVE  Origin(InnerImpl(v, i))
<1> DEFINE a == InnerImpl(v, i)
           w == Typename(types[v.data[i].type].data[1])
<1>1. a = Impl(v, a.from, i, TRUE) /\ a.branch = i /\ a.inner = TRUE /\ a.from = <<w>>
  BY DEF InnerImpl, Impl
<1>2. Wraps(v.data[i].type, w)
  <2>1. /\ types[v.data[i].type] \in Items("struct")
        /\ types[v.data[i].type].id = v.data[i].type
    BY DEF Maps, MapsHold, MapOf
  <2> QED
    BY <2>1 DEF Wraps
<1>3. OfUnion(v, a)
  <2> HIDE DEF a, w
  <2> QED
    BY <1>1, <1>2 DEF OfUnion
<1> QED
  BY <1>3 DEF Origin

LEMMA ImplsStep == Maps /\ ImplsHold /\ [Next]_vars => ImplsHold'
<1> SUFFICES ASSUME Maps, ImplsHold, [Next]_vars PROVE ImplsHold'
  OBVIOUS
<1>1. \A a : Origin(a)' = Origin(a)
  <2>1. schema' = schema
    BY SchemaStays
  <2>2. \A kind : Items(kind)' = Items(kind)
    BY <2>1 DEF Items
  <2> QED
    BY <2>1, <2>2 DEF Origin, OfUnion, Impl, NoType, TypeOf, Converted, Wraps,
       WrapperType, StructNewtype, Items, Typename
<1>2. ASSUME \A a \in impls' : a \in impls \/ Origin(a)
      PROVE  ImplsHold'
  BY <1>1, <1>2 DEF ImplsHold
<1>3. CASE ProcessCommand
  <2> DEFINE v == Head(left)
  <2>1. left # <<>> /\ v.kind = "command"
    BY <1>3 DEF ProcessCommand, Processing
  <2>2. v \in Items("command") /\ v \in ItemType
    BY <2>1, HeadItem DEF Maps
  <2>3. CASE v.base.kind = "data" \/ v.base.type = v.id
    BY <1>2, <1>3, <2>3 DEF ProcessCommand
  <2>4. CASE ~(v.base.kind = "data" \/ v.base.type = v.id)
    <3> PICK from : impls' = impls \cup {Impl(v, from, 0, FALSE)}
      BY <1>3, <2>4 DEF ProcessCommand
    <3>2. ~NoType(v)
      BY <2>4 DEF NoType
    <3>3. Origin(Impl(v, from, 0, FALSE))
      BY <2>2, <3>2 DEF Origin, Impl
    <3> QED
      BY <1>2, <3>3
  <2> QED
    BY <2>3, <2>4
<1>4. CASE GenerateUnion
  <2> PICK id \in todo : phase = "unions" /\ UnionOut(unions[id])
    BY <1>4 DEF GenerateUnion, Generating
  <2> PICK v \in Items("combined") : v = unions[id]
    BY DEF Maps, LoopsHold, MapsHold, MapOf
  <2>1. impls' = impls \cup Conversions(v)
    BY DEF UnionOut
  <2>2. \A a \in Conversions(v) : Origin(a)
    BY OwnOrigin, InnerOrigin DEF Conversions
  <2> QED
    BY <1>2, <2>1, <2>2
<1>5. CASE GenerateStruct
  <2> PICK id \in todo :
         /\ phase = "structs"
         /\ \/ impls' = impls
            \/ \E from : impls' = impls \cup {Impl(types[id], from, 0, FALSE)}
    BY <1>5 DEF GenerateStruct, Generating
  <2>1. /\ id \in Ids("struct") /\ types[id].kind = "struct" /\ types[id].id = id
    BY DEF Maps, LoopsHold, MapsHold
  <2> PICK v \in Items("struct") : v.id = id
    BY <2>1 DEF Ids
  <2>2. v.kind = "struct"
    BY ItemKind
  <2>3. ~NoType(v)
    BY <2>2 DEF NoType
  <2>4. ASSUME NEW from PROVE Origin(Impl(types[id], from, 0, FALSE))
    <3>1. Impl(types[id], from, 0, FALSE) = Impl(v, from, 0, FALSE)
      BY <2>1, <2>2 DEF Impl
    <3>2. Impl(v, from, 0, FALSE).from = from
      BY DEF Impl
    <3> QED
      BY <2>3, <3>1, <3>2 DEF Origin
  <2> QED
    BY <1>2, <2>4
<1>6. CASE ~ProcessCommand /\ ~GenerateUnion /\ ~GenerateStruct
  <2>1. impls' = impls
    BY <1>6 DEF Next, Process, Generate, Finished, vars, ProcessStruct,
       ProcessAlternate, ProcessEnum, ProcessEvent, ProcessUnion,
       ProcessCombinedUnion, Processed, GenerateUnionFails, UnionsDone,
       StripDiscriminators, GenerateEvents
  <2> QED
    BY <1>2, <2>1
<1> QED
  BY <1>3, <1>4, <1>5, <1>6

\* Two items with one name are one.
LEMMA UniqueItem ==
    ASSUME UniqueIds, NEW k, NEW l, NEW u \in Items(k), NEW v \in Items(l),
           ~NoType(u), ~NoType(v), u.id = v.id
    PROVE  u = v
BY DEF UniqueIds, Items

\* The element of a one-element sequence.
LEMMA OneElement ==
  ASSUME NEW w, NEW x, <<w>> = <<x>>
  PROVE  w = x /\ w \in Range1(<<w>>)
<1>1. w = x
  OBVIOUS
<1>2. DOMAIN <<w>> = {1} /\ <<w>>[1] = w
  OBVIOUS
<1>3. w \in Range1(<<w>>)
  BY <1>2 DEF Range1
<1> QED
  BY <1>1, <1>3

LEMMA OriginsDiffer == ImplsHold => ImplsDistinct
<1> SUFFICES ASSUME ImplsHold, UniqueIds, NEW a \in impls, NEW b \in impls,
                    a # b, a.type = b.type, a.from = b.from
             PROVE
      \E v \in Items("combined") : \E i, j \in DOMAIN v.data :
          /\ v.id = a.type
          /\ \/ Wraps(v.data[i].type, Typename(v.data[j]))
             \/ /\ i # j
                /\ \E w \in Range1(a.from) : /\ Wraps(v.data[i].type, w)
                                            /\ Wraps(v.data[j].type, w)
  BY DEF ImplsDistinct
<1>1. ASSUME NEW c \in impls
      PROVE  \/ \E v \in Items("command") \cup Items("struct") :
                    ~NoType(v) /\ v.id = c.type /\ c = Impl(v, c.from, 0, FALSE)
             \/ \E v \in Items("combined") :
                    ~NoType(v) /\ v.id = c.type /\ OfUnion(v, c)
  <2>1. CASE \E v \in Items("command") \cup Items("struct") :
                 ~NoType(v) /\ c = Impl(v, c.from, 0, FALSE)
    BY <2>1 DEF Impl
  <2>2. CASE \E v \in Items("combined") : OfUnion(v, c)
    <3> PICK v \in Items("combined") : OfUnion(v, c)
      BY <2>2
    <3>1. ~NoType(v)
      BY ItemKind DEF NoType
    <3>2. v.id = c.type
      BY DEF OfUnion, Impl
    <3> QED
      BY <3>1, <3>2
  <2> QED
    BY <2>1, <2>2 DEF ImplsHold, Origin
<1>2. \A u \in Items("command") \cup Items("struct") : u.kind # "combined"
  BY ItemKind
<1>3. \A v \in Items("combined") : v.kind = "combined"
  BY ItemKind
<1>4. PICK v \in Items("combined") : v.id = a.type /\ OfUnion(v, a) /\ OfUnion(v, b)
  <2>1. CASE \E u \in Items("command") \cup Items("struct") :
                 ~NoType(u) /\ u.id = a.type /\ a = Impl(u, a.from, 0, FALSE)
    <3> PICK u \in Items("command") \cup Items("struct") :
           ~NoType(u) /\ u.id = a.type /\ a = Impl(u, a.from, 0, FALSE)
      BY <2>1
    <3>1. CASE \E t \in Items("command") \cup Items("struct") :
                 ~NoType(t) /\ t.id = b.type /\ b = Impl(t, b.from, 0, FALSE)
      <4> PICK t \in Items("command") \cup Items("struct") :
           ~NoType(t) /\ t.id = b.type /\ b = Impl(t, b.from, 0, FALSE)
        BY <3>1
      <4>1. u = t
        BY UniqueItem
      <4> QED
        BY <4>1
    <3>2. CASE \E t \in Items("combined") : ~NoType(t) /\ t.id = b.type
      BY <1>2, <1>3, <3>2, UniqueItem
    <3> QED
      BY <1>1, <3>1, <3>2
  <2>2. CASE \E u \in Items("combined") :
                 ~NoType(u) /\ u.id = a.type /\ OfUnion(u, a)
    <3> PICK u \in Items("combined") :
           ~NoType(u) /\ u.id = a.type /\ OfUnion(u, a)
      BY <2>2
    <3>1. CASE \E t \in Items("command") \cup Items("struct") :
                 ~NoType(t) /\ t.id = b.type
      BY <1>2, <1>3, <3>1, UniqueItem
    <3>2. CASE \E t \in Items("combined") :
                 ~NoType(t) /\ t.id = b.type /\ OfUnion(t, b)
      <4> PICK t \in Items("combined") :
             ~NoType(t) /\ t.id = b.type /\ OfUnion(t, b)
        BY <3>2
      <4>1. u = t
        BY UniqueItem
      <4> QED
        BY <4>1
    <3> QED
      BY <1>1, <3>1, <3>2
  <2> QED
    BY <1>1, <2>1, <2>2
<1> DEFINE i == a.branch
           j == b.branch
<1>5. /\ i \in Converted(v) /\ j \in Converted(v)
      /\ i \in DOMAIN v.data /\ j \in DOMAIN v.data
  BY <1>4 DEF OfUnion, Converted
<1>6. CASE a.inner /\ b.inner
  <2>1. a.inner = TRUE /\ b.inner = TRUE
    BY <1>4, <1>6 DEF OfUnion
  <2> PICK w : a.from = <<w>> /\ Wraps(v.data[i].type, w)
    BY <1>4, <1>6 DEF OfUnion
  <2> PICK x : b.from = <<x>> /\ Wraps(v.data[j].type, x)
    BY <1>4, <1>6 DEF OfUnion
  <2>2. w = x /\ w \in Range1(a.from)
    <3>1. <<w>> = <<x>>
      BY <1>4 DEF OfUnion
    <3>2. w = x /\ w \in Range1(<<w>>)
      BY <3>1, OneElement
    <3> QED
      BY <3>2
  <2>3. i # j
    BY <1>4, <2>1 DEF OfUnion
  <2> QED
    BY <1>4, <1>5, <2>2, <2>3
<1>7. CASE a.inner /\ ~b.inner
  <2> PICK w : a.from = <<w>> /\ Wraps(v.data[i].type, w)
    BY <1>4, <1>7 DEF OfUnion
  <2>1. w = Typename(v.data[j])
    BY <1>4, <1>7 DEF OfUnion
  <2> QED
    BY <1>4, <1>5, <2>1
<1>8. CASE ~a.inner /\ b.inner
  <2> PICK w : b.from = <<w>> /\ Wraps(v.data[j].type, w)
    BY <1>4, <1>8 DEF OfUnion
  <2>1. w = Typename(v.data[i])
    BY <1>4, <1>8 DEF OfUnion
  <2> QED
    BY <1>4, <1>5, <2>1
<1>9. CASE ~a.inner /\ ~b.inner
  <2>1. v.data[i].type = v.data[j].type /\ a.inner = b.inner
    <3>1. Typename(v.data[i]) = Typename(v.data[j]) /\ a.inner = b.inner
      BY <1>4, <1>9 DEF OfUnion
    <3>2. v.data[i].type = Typename(v.data[i]).type
          /\ v.data[j].type = Typename(v.data[j]).type
      BY DEF Typename
    <3> QED
      BY <3>1, <3>2
  <2>2. i = j
    BY <1>5, <2>1 DEF Converted
  <2> QED
    BY <1>4, <2>1, <2>2 DEF OfUnion
<1> QED
  BY <1>6, <1>7, <1>8, <1>9

-----------------------------------------------------------------------------
(* The theorems.                                                             *)

LEMMA CodegenInit == Init => IInv
<1> SUFFICES ASSUME Init PROVE IInv
  OBVIOUS
<1>1. schema \in Schemas /\ phase = "process" /\ impls = {}
  BY DEF Init
<1>2. types = <<>> /\ unions = <<>> /\ enums = <<>>
  BY DEF Init
<1>3. DOMAIN types = {} /\ DOMAIN unions = {} /\ DOMAIN enums = {}
  BY <1>2
<1>4. TypeOK
  BY <1>1, <1>3 DEF TypeOK
<1>5. ImplsHold /\ StopsForCause
  BY <1>1 DEF ImplsHold, StopsForCause
<1> QED
  BY <1>4, <1>5, MapsInit DEF IInv

LEMMA CodegenType == TypeOK /\ Maps' /\ [Next]_vars => TypeOK'
<1> SUFFICES ASSUME TypeOK, Maps', [Next]_vars PROVE TypeOK'
  OBVIOUS
<1>1. schema' \in Schemas
  BY SchemaStays DEF TypeOK
<1>2. phase' \in {"process", "unions", "discriminators", "structs", "events",
                  "done", "notfound", "panicked"}
  BY DEF TypeOK, Next, Process, Generate, Finished, vars, Processing,
     ProcessCommand, ProcessStruct, ProcessAlternate, ProcessEnum,
     ProcessEvent, ProcessUnion, ProcessCombinedUnion, Processed,
     GenerateUnion, GenerateUnionFails, Outcome, UnionsDone,
     StripDiscriminators, GenerateStruct, GenerateEvents
<1>3. /\ \A id \in DOMAIN types' : types'[id].kind = "struct"
      /\ \A id \in DOMAIN unions' : unions'[id].kind = "combined"
      /\ \A id \in DOMAIN enums' : enums'[id].kind = "enum"
  BY DEF Maps, MapsHold, MapOf, Items
<1> QED
  BY <1>1, <1>2, <1>3 DEF TypeOK

THEOREM CodegenInvariant == Spec => []IInv
<1>1. IInv /\ [Next]_vars => IInv'
  BY MapsStep, CodegenType, ImplsStep, StopsStep DEF IInv
<1> QED
  BY CodegenInit, <1>1, PTL DEF Spec

\* For every schema the generation stops only for what the schema lacks: no
\* order of items and no sharing of bases between unions makes it stop.
THEOREM FailuresAreOfSchema == Spec => []StopsForCause
<1>1. IInv => StopsForCause
  BY DEF IInv
<1> QED
  BY CodegenInvariant, <1>1, PTL

\* For every schema whose names are unique, the only types that get two
\* implementations of From for the same type are the unions with a branch that
\* wraps the type of another branch, or the same type as another branch.
THEOREM ConversionsDiffer == Spec => []ImplsDistinct
<1>1. IInv => ImplsDistinct
  BY OriginsDiffer DEF IInv
<1> QED
  BY CodegenInvariant, <1>1, PTL

\* A bounded one has a greatest one.
LEMMA GreatestNumber ==
    ASSUME NEW m \in Nat, NEW S, S \subseteq 1 .. m, S # {}
    PROVE  \E g \in S : \A j \in S : j <= g
<1> DEFINE T == {m - i : i \in S}
<1>1. \A i \in S : i \in Nat /\ i <= m
  OBVIOUS
<1>2. T \subseteq Nat /\ T # {}
  <2>1. \A i \in Nat : i <= m => m - i \in Nat
    OBVIOUS
  <2> QED
    BY <1>1, <2>1
<1>3. \E t \in T : \A u \in T : t <= u
  <2> HIDE DEF T
  <2> QED
    BY <1>2, LeastNumber
<1> PICK g \in S : \A u \in T : m - g <= u
  BY <1>3
<1>4. ASSUME NEW j \in S PROVE j <= g
  <2>1. m - g <= m - j
    OBVIOUS
  <2> QED
    BY <1>1, <2>1
<1> QED
  BY <1>4

\* Of the members of a set of numbers there is a first, a second, and so on.
LEMMA NthExists ==
    ASSUME NEW m \in Nat, NEW S, S \subseteq 1 .. m,
           NEW n \in 1 .. Cardinality(S)
    PROVE  \E i \in S : Cardinality({j \in S : j <= i}) = n
<1> DEFINE UpTo(i) == {j \in S : j <= i}
           T == {i \in S : Cardinality(UpTo(i)) >= n}
<1>1. \A U \in SUBSET S : IsFiniteSet(U) /\ Cardinality(U) \in Nat
  <2>1. IsFiniteSet(1 .. m)
    BY FS_Interval
  <2>2. \A U \in SUBSET S : IsFiniteSet(U)
    BY <2>1, FS_Subset
  <2> QED
    BY <2>2, FS_CardinalityType
<1>2. n \in Nat /\ n >= 1 /\ n <= Cardinality(S)
  BY <1>1
<1>3. T \subseteq Nat /\ T # {}
  <2>1. S # {}
    BY <1>2, FS_EmptySet
  <2> PICK g \in S : \A j \in S : j <= g
    BY <2>1, GreatestNumber
  <2>2. UpTo(g) = S
    OBVIOUS
  <2>3. g \in T /\ g \in Nat
    <3>1. Cardinality(UpTo(g)) = Cardinality(S)
      BY <2>2
    <3>2. Cardinality(UpTo(g)) >= n
      <4> HIDE DEF UpTo
      <4> QED
        BY <1>1, <1>2, <3>1
    <3>3. g \in Nat
      OBVIOUS
    <3> HIDE DEF UpTo
    <3> QED
      BY <3>2, <3>3
  <2>4. T \subseteq Nat
    <3>1. T \subseteq S
      <4> HIDE DEF UpTo
      <4> QED
        OBVIOUS
    <3>2. S \subseteq Nat
      OBVIOUS
    <3> HIDE DEF T
    <3> QED
      BY <3>1, <3>2
  <2> HIDE DEF T
  <2> QED
    BY <2>3, <2>4
<1>4. \E i \in T : \A j \in T : i <= j
  <2> HIDE DEF T
  <2> QED
    BY <1>3, LeastNumber
<1> PICK i \in T : \A j \in T : i <= j
  BY <1>4
<1> DEFINE Below == {j \in S : j < i}
<1>5. Cardinality(UpTo(i)) = Cardinality(Below) + 1
  <2>1. UpTo(i) = Below \cup {i} /\ i \notin Below
    <3>1. S \subseteq Nat /\ i \in S
      OBVIOUS
    <3>2. \A j, k \in Nat : (j <= k <=> j < k \/ j = k) /\ ~(k < k)
      OBVIOUS
    <3>3. i \in Nat /\ \A j \in S : j \in Nat /\ (j <= i <=> j < i \/ j = i)
      BY <3>1, <3>2
    <3>4. \A j : j \in UpTo(i) <=> j \in Below \/ j = i
      BY <3>1, <3>3
    <3>5. i \notin Below
      BY <3>2, <3>3
    <3> HIDE DEF UpTo, Below
    <3> QED
      BY <3>4, <3>5
  <2>2. IsFiniteSet(Below)
    BY <1>1
  <2> HIDE DEF UpTo, Below
  <2> QED
    BY <2>1, <2>2, FS_AddElement
<1>6. Cardinality(Below) < n
  <2>1. CASE Below = {}
    BY <1>2, <2>1, FS_EmptySet
  <2>2. CASE Below # {}
    <3>1. Below \subseteq 1 .. m
      OBVIOUS
    <3>2. \E p \in Below : \A j \in Below : j <= p
      <4> HIDE DEF Below
      <4> QED
        BY <2>2, <3>1, GreatestNumber
    <3> PICK p \in Below : \A j \in Below : j <= p
      BY <3>2
    <3>3. UpTo(p) = Below
      <4>1. S \subseteq Nat /\ p \in S /\ p < i /\ i \in Nat
        OBVIOUS
      <4>2. \A j \in Nat : j <= p => j < i
        BY <4>1
      <4> QED
        BY <4>1, <4>2
    <3>4. p \in S /\ p < i /\ p \in Nat /\ i \in Nat
      OBVIOUS
    <3>5. p \notin T
      BY <3>4
    <3>6. Cardinality(UpTo(p)) \in Nat /\ ~(Cardinality(UpTo(p)) >= n)
      BY <1>1, <3>4, <3>5
    <3> QED
      BY <1>2, <3>3, <3>6
  <2> QED
    BY <2>1, <2>2
<1>7. Cardinality(Below) \in Nat /\ Cardinality(UpTo(i)) >= n
  BY <1>1
<1>8. Cardinality(UpTo(i)) = n
  BY <1>2, <1>5, <1>6, <1>7
<1> QED
  BY <1>8

\* filter() makes up no element.
LEMMA KeepAtFacts ==
    ASSUME NEW S, NEW s \in Seq(S), NEW places, places \subseteq DOMAIN s
    PROVE  /\ KeepAt(s, places) \in Seq(S)
           /\ \A n \in DOMAIN KeepAt(s, places) :
                 \E i \in places : KeepAt(s, places)[n] = s[i]
<1>1. Len(s) \in Nat /\ places \subseteq 1 .. Len(s)
  OBVIOUS
<1> DEFINE Nth(n) == CHOOSE i \in places :
                         Cardinality({j \in places : j <= i}) = n
           t == KeepAt(s, places)
<1>2. t = [n \in 1 .. Cardinality(places) |-> s[Nth(n)]]
  BY DEF KeepAt
<1>3. ASSUME NEW n \in 1 .. Cardinality(places) PROVE Nth(n) \in places
  BY <1>1, NthExists
<1>4. Cardinality(places) \in Nat
  <2>1. IsFiniteSet(1 .. Len(s))
    BY <1>1, FS_Interval
  <2> QED
    BY <1>1, <2>1, FS_Subset, FS_CardinalityType
<1> HIDE DEF Nth
<1>5. ASSUME NEW n \in 1 .. Cardinality(places) PROVE s[Nth(n)] \in S
  BY <1>3
<1>6. t \in [1 .. Cardinality(places) -> S]
  BY <1>2, <1>5
<1>7. t \in Seq(S) /\ DOMAIN t = 1 .. Cardinality(places)
  BY <1>4, <1>6, SeqDef
<1> QED
  BY <1>2, <1>3, <1>7

-----------------------------------------------------------------------------
(* What is written out.                                                      *)

IsSeq(s) == s \in Seq(Range1(s))

\* The types that may be mentioned without being a base.
AllTypes ==
    Scalars \cup Ids("event") \cup UNION {Mentions(v) : v \in Range1(schema)}

IdsOut == {d.id : d \in Range1(out)}

\* Two sequences that are joined.
LEMMA JoinRange ==
    ASSUME NEW s, NEW t, IsSeq(s), IsSeq(t)
    PROVE  IsSeq(s \o t) /\ Range1(s \o t) = Range1(s) \cup Range1(t)
<1> DEFINE S == Range1(s) \cup Range1(t)
           u == s \o t
<1>1. s \in Seq(S) /\ t \in Seq(S)
  <2>1. s \in Seq(Range1(s)) /\ t \in Seq(Range1(t))
    BY DEF IsSeq
  <2> HIDE DEF S
  <2>2. \A i \in DOMAIN s : s[i] \in S
    BY DEF S, Range1
  <2>3. \A i \in DOMAIN t : t[i] \in S
    BY DEF S, Range1
  <2> QED
    BY <2>1, <2>2, <2>3
<1> HIDE DEF S
<1>2. /\ u \in Seq(S) /\ Len(s) \in Nat /\ Len(t) \in Nat
      /\ DOMAIN u = 1 .. Len(s) + Len(t)
      /\ DOMAIN s = 1 .. Len(s) /\ DOMAIN t = 1 .. Len(t)
      /\ \A i \in 1 .. Len(s) : u[i] = s[i]
      /\ \A i \in 1 .. Len(t) : u[i + Len(s)] = t[i]
  <2>1. DOMAIN s = 1 .. Len(s) /\ DOMAIN t = 1 .. Len(t)
    BY <1>1
  <2> QED
    BY <1>1, <2>1, JoinFacts
<1> HIDE DEF u
<1>3. Range1(u) \subseteq S
  <2> SUFFICES ASSUME NEW i \in DOMAIN u PROVE u[i] \in S
    BY DEF Range1
  <2> QED
    BY <1>2
<1>4. S \subseteq Range1(u)
  <2>1. ASSUME NEW i \in DOMAIN s PROVE s[i] \in Range1(u)
    <3>1. i \in DOMAIN u /\ u[i] = s[i]
      BY <1>2
    <3> QED
      BY <3>1 DEF Range1
  <2>2. ASSUME NEW i \in DOMAIN t PROVE t[i] \in Range1(u)
    <3>1. i + Len(s) \in DOMAIN u /\ u[i + Len(s)] = t[i]
      BY <1>2
    <3> QED
      BY <3>1 DEF Range1
  <2> QED
    BY <2>1, <2>2 DEF S, Range1
<1>5. Range1(u) = S
  BY <1>3, <1>4
<1> QED
  BY <1>2, <1>5 DEF IsSeq, S, u

\* A sequence of one element, and of none.
LEMMA SingleFacts ==
    ASSUME NEW x
    PROVE  IsSeq(<<x>>) /\ Range1(<<x>>) = {x}
<1>1. DOMAIN <<x>> = {1} /\ <<x>>[1] = x /\ <<x>> \in Seq({x})
  OBVIOUS
<1>2. Range1(<<x>>) = {x}
  BY <1>1 DEF Range1
<1> QED
  BY <1>1, <1>2 DEF IsSeq

LEMMA NothingFacts == IsSeq(<<>>) /\ Range1(<<>>) = {}
<1>1. DOMAIN <<>> = {}
  OBVIOUS
<1>2. Range1(<<>>) = {}
  BY <1>1 DEF Range1
<1> QED
  BY <1>2 DEF IsSeq

\* The names in what is joined are different.
Once(s) == \A i, j \in DOMAIN s : s[i].id = s[j].id => i = j

LEMMA JoinOnce ==
    ASSUME NEW s, NEW t, IsSeq(s), IsSeq(t), Once(s), Once(t),
           \A d \in Range1(s) : \A e \in Range1(t) : d.id # e.id
    PROVE  Once(s \o t)
<1> DEFINE S == Range1(s) \cup Range1(t)
           u == s \o t
<1>1. s \in Seq(S) /\ t \in Seq(S)
  <2>1. s \in Seq(Range1(s)) /\ t \in Seq(Range1(t))
    BY DEF IsSeq
  <2> HIDE DEF S
  <2>2. \A i \in DOMAIN s : s[i] \in S
    BY DEF S, Range1
  <2>3. \A i \in DOMAIN t : t[i] \in S
    BY DEF S, Range1
  <2> QED
    BY <2>1, <2>2, <2>3
<1> HIDE DEF S
<1>2. /\ Len(s) \in Nat /\ Len(t) \in Nat
      /\ DOMAIN u = 1 .. Len(s) + Len(t)
      /\ DOMAIN s = 1 .. Len(s) /\ DOMAIN t = 1 .. Len(t)
      /\ \A i \in 1 .. Len(s) : u[i] = s[i]
      /\ \A i \in 1 .. Len(t) : u[i + Len(s)] = t[i]
  <2>1. DOMAIN s = 1 .. Len(s) /\ DOMAIN t = 1 .. Len(t)
    BY <1>1
  <2> QED
    BY <1>1, <2>1, JoinFacts
<1> HIDE DEF u
<1>3. ASSUME NEW i \in DOMAIN u
      PROVE  \/ i \in DOMAIN s /\ u[i] = s[i]
             \/ \E k \in DOMAIN t : i = k + Len(s) /\ u[i] = t[k]
  <2>1. CASE i <= Len(s)
    BY <1>2, <2>1
  <2>2. CASE ~(i <= Len(s))
    <3>1. i - Len(s) \in 1 .. Len(t) /\ i = (i - Len(s)) + Len(s)
      BY <1>2, <2>2
    <3> QED
      BY <1>2, <3>1
  <2> QED
    BY <2>1, <2>2
<1> SUFFICES ASSUME NEW i \in DOMAIN u, NEW j \in DOMAIN u, u[i].id = u[j].id
             PROVE  i = j
  BY DEF Once, u
<1>4. \A k \in DOMAIN s : s[k] \in Range1(s)
  BY DEF Range1
<1>5. \A k \in DOMAIN t : t[k] \in Range1(t)
  BY DEF Range1
<1> QED
  BY <1>3, <1>4, <1>5 DEF Once

LEMMA SingleOnce == ASSUME NEW x PROVE Once(<<x>>)
<1>1. DOMAIN <<x>> = {1}
  OBVIOUS
<1> QED
  BY <1>1 DEF Once

-----------------------------------------------------------------------------
(* The types that are mentioned.                                             *)

\* The types of fields are those of the members they are made from.
LEMMA FieldsTypes ==
    ASSUME NEW S, NEW members \in Seq(S)
    PROVE  /\ TypesOf(Fields(members)) = TypesOf(members)
           /\ IsSeq(Fields(members))
<1> DEFINE f == Fields(members)
<1>1. /\ f = [i \in DOMAIN members |-> Field(members[i], FALSE)]
      /\ Len(members) \in Nat /\ DOMAIN members = 1 .. Len(members)
  BY DEF Fields
<1>2. \A i \in DOMAIN members : f[i].type = members[i].type
  BY <1>1 DEF Field
<1>3. TypesOf(f) = TypesOf(members)
  <2>1. DOMAIN f = DOMAIN members
    BY <1>1
  <2> HIDE DEF f
  <2>2. \A x : x \in TypesOf(f) <=> \E i \in DOMAIN f : x = f[i].type
    BY DEF TypesOf, Range1
  <2>3. \A x : x \in TypesOf(members) <=> \E i \in DOMAIN members : x = members[i].type
    BY DEF TypesOf, Range1
  <2>4. \A x : x \in TypesOf(f) <=> x \in TypesOf(members)
    BY <1>2, <2>1, <2>2, <2>3
  <2> QED
    BY <2>4
<1>4. f \in [1 .. Len(members) -> Range1(f)]
  BY <1>1 DEF Range1
<1> HIDE DEF f
<1>5. f \in Seq(Range1(f))
  BY ZenonT(60), <1>1, <1>4, SeqDef
<1> QED
  BY <1>3, <1>5 DEF IsSeq, f

LEMMA NewtypeTypes ==
    ASSUME NEW m PROVE TypesOf(Newtype(m)) = {m.type}
<1> DEFINE f == [Field(m, TRUE) EXCEPT !.opt = FALSE]
<1>1. f.type = m.type
  BY DEF Field
<1>2. Newtype(m) = <<f>>
  BY DEF Newtype
<1> HIDE DEF f
<1>3. Range1(<<f>>) = {f}
  BY SingleFacts
<1> QED
  BY <1>1, <1>2, <1>3 DEF TypesOf

LEMMA SingleTypes ==
    ASSUME NEW x PROVE TypesOf(<<x>>) = {x.type}
<1>1. Range1(<<x>>) = {x}
  BY SingleFacts
<1> QED
  BY <1>1 DEF TypesOf

LEMMA NoTypes == TypesOf(<<>>) = {}
BY NothingFacts DEF TypesOf

LEMMA JoinTypes ==
    ASSUME NEW s, NEW t, IsSeq(s), IsSeq(t)
    PROVE  TypesOf(s \o t) = TypesOf(s) \cup TypesOf(t)
<1>1. Range1(s \o t) = Range1(s) \cup Range1(t)
  BY JoinRange
<1> QED
  BY <1>1 DEF TypesOf

\* What a struct or an enum mentions.
LEMMA StructMentions ==
    ASSUME NEW id, NEW fields
    PROVE  /\ Mentioned(StructOut(id, fields)) = TypesOf(fields)
           /\ StructOut(id, fields).id = id
<1>1. DOMAIN <<>> = {}
  OBVIOUS
<1>2. /\ StructOut(id, fields).fields = fields
      /\ StructOut(id, fields).variants = <<>>
      /\ StructOut(id, fields).id = id
  BY DEF StructOut
<1> QED
  BY <1>1, <1>2 DEF Mentioned

LEMMA EnumMentions ==
    ASSUME NEW id, NEW tag, NEW variants, NEW T,
           \A j \in DOMAIN variants : TypesOf(variants[j].fields) \subseteq T
    PROVE  /\ Mentioned(EnumOut(id, tag, variants)) \subseteq T
           /\ EnumOut(id, tag, variants).id = id
<1>1. /\ EnumOut(id, tag, variants).fields = <<>>
      /\ EnumOut(id, tag, variants).variants = variants
      /\ EnumOut(id, tag, variants).id = id
  BY DEF EnumOut
<1>2. Mentioned(EnumOut(id, tag, variants)) =
         UNION {TypesOf(variants[j].fields) : j \in DOMAIN variants}
  BY <1>1, NoTypes DEF Mentioned
<1> QED
  BY <1>1, <1>2

\* What an item mentions.
LEMMA ItemFacts ==
    ASSUME Maps, NEW v \in Range1(schema)
    PROVE  /\ v \in ItemType
           /\ v.base.fields \in Seq(MemberType) /\ v.data \in Seq(MemberType)
           /\ TypesOf(v.base.fields) \subseteq AllTypes
           /\ TypesOf(v.data) \subseteq AllTypes
           /\ v.base.kind # "data" => v.base.type \in AllTypes
<1>1. v \in ItemType
  <2>1. \A i \in DOMAIN schema : schema[i] \in ItemType
    BY DEF Maps, LoopsHold
  <2> QED
    BY <2>1 DEF Range1
<1>2. v.base \in DataType /\ v.data \in Seq(MemberType)
  BY <1>1 DEF ItemType
<1>3. v.base.fields \in Seq(MemberType)
  BY <1>2 DEF DataType
<1>4. Mentions(v) \subseteq AllTypes
  BY DEF AllTypes
<1> QED
  BY <1>1, <1>2, <1>3, <1>4 DEF Mentions

\* Less members mention less types.
LEMMA KeepTypes ==
    ASSUME NEW members \in Seq(MemberType), NEW name
    PROVE  /\ Others(members, name) \in Seq(MemberType)
           /\ TypesOf(Others(members, name)) \subseteq TypesOf(members)
<1> DEFINE places == {i \in DOMAIN members : members[i].name # name}
           t == Others(members, name)
<1>1. t = KeepAt(members, places) /\ places \subseteq DOMAIN members
  BY DEF Others
<1> HIDE DEF places, t
<1>2. t \in Seq(MemberType) /\ \A n \in DOMAIN t : \E i \in places : t[n] = members[i]
  BY <1>1, KeepAtFacts
<1> QED
  BY <1>1, <1>2 DEF TypesOf, Range1, t

-----------------------------------------------------------------------------
(* What the steps write.                                                     *)

\* process writes the item that is processed, or nothing.
WroteItem ==
    LET v == Head(left)
    IN  /\ phase = "process" /\ phase' = "process" /\ left # <<>>
        /\ left' = Tail(left) /\ v.kind \notin {"struct", "combined"}
        /\ UNCHANGED <<schema, todo, types, unions>>
        /\ IF NoType(v) THEN out' = out
           ELSE \E d : /\ d.id = v.id /\ out' = out \o <<d>>
                       /\ Mentioned(d) \subseteq AllTypes

\* process_unions writes a union and the base it may need.
WroteUnion ==
    /\ phase = "unions" /\ phase' = "unions"
    /\ UNCHANGED <<schema, left, types, unions, events>>
    /\ \E id \in todo : \E v \in Items("combined") : \E d :
        /\ todo' = todo \ {id} /\ v.id = id /\ d.id = id
        /\ out' = out \o (<<d>> \o BaseOut(v))
        /\ Mentioned(d) \subseteq
               AllTypes \cup (IF CreateBase(v) THEN {BaseId(v)} ELSE {})

\* process_structs writes a struct.
WroteStruct ==
    /\ phase = "structs" /\ phase' = "structs"
    /\ UNCHANGED <<schema, left, types, unions, events>>
    /\ \E id \in todo : \E d :
        /\ todo' = todo \ {id} /\ d.id = id /\ out' = out \o <<d>>
        /\ Mentioned(d) \subseteq AllTypes

\* process_events writes the last type.
WroteEvents ==
    /\ phase = "structs" /\ todo = {} /\ phase' = "done"
    /\ UNCHANGED <<schema, left, types, unions, events>>
    /\ \E d : /\ d.id = "Event" /\ out' = out \o <<d>>
              /\ Mentioned(d) \subseteq AllTypes

\* The structs mention what they do in the schema, or less.
StructsMention ==
    \A id \in DOMAIN types :
        /\ types[id].data \in Seq(MemberType)
        /\ types[id].base.fields \in Seq(MemberType)
        /\ TypesOf(types[id].data) \subseteq AllTypes
        /\ TypesOf(types[id].base.fields) \subseteq AllTypes
        /\ types[id].base.kind # "data" => types[id].base.type \in AllTypes

EventsHold == events \in Seq(Ids("event"))

\* The item at the head is one of the schema.
LEMMA HeadFacts ==
    ASSUME Maps, left # <<>>
    PROVE  /\ Head(left) \in Range1(schema) /\ Head(left) \in ItemType
           /\ Head(left) \in Items(Head(left).kind)
           /\ left \in Seq(ItemType)
<1>1. Head(left) \in Items(Head(left).kind) /\ Head(left) \in ItemType
  BY HeadItem DEF Maps
<1>2. Head(left) \in Range1(schema)
  BY <1>1 DEF Items, Range1
<1> QED
  BY <1>1, <1>2 DEF Maps, LoopsHold

\* One lemma for each action that writes.
LEMMA CommandWrites == ASSUME Maps, ProcessCommand PROVE WroteItem
<1> DEFINE v == Head(left)
<1>1. /\ left # <<>> /\ phase = "process" /\ v.kind = "command"
      /\ left' = Tail(left) /\ UNCHANGED <<schema, phase, todo, types, unions>>
  BY DEF ProcessCommand, Processing, kept
<1>2. v \in Range1(schema)
  BY <1>1, HeadFacts
<1>3. /\ v.base.fields \in Seq(MemberType)
      /\ TypesOf(v.base.fields) \subseteq AllTypes
      /\ v.base.kind # "data" => v.base.type \in AllTypes
  BY <1>2, ItemFacts
<1>4. CASE v.base.kind = "data"
  <2> DEFINE d == StructOut(v.id, CommandFields(v))
  <2>1. out' = out \o <<d>> /\ ~NoType(v)
    BY <1>4 DEF ProcessCommand, WriteOut, NoType
  <2>2. d.id = v.id /\ Mentioned(d) = TypesOf(CommandFields(v))
    BY StructMentions
  <2> DEFINE a == Field(Member("arguments", "Dictionary", FALSE), TRUE)
             more == IF v.tag = "nogen" THEN <<a>> ELSE <<>>
  <2>3. IsSeq(more) /\ TypesOf(more) \subseteq {"Dictionary"}
    <3>1. a.type = "Dictionary"
      BY DEF Field, Member
    <3> HIDE DEF a
    <3>2. IsSeq(<<a>>) /\ TypesOf(<<a>>) = {a.type}
      BY SingleFacts, SingleTypes
    <3>3. IsSeq(<<>>) /\ TypesOf(<<>>) = {}
      BY NothingFacts, NoTypes
    <3>4. CASE v.tag = "nogen"
      BY <3>1, <3>2, <3>4
    <3>5. CASE v.tag # "nogen"
      BY <3>3, <3>5
    <3> QED
      BY <3>4, <3>5
  <2>4. CommandFields(v) = Fields(v.base.fields) \o more
    BY DEF CommandFields
  <2>5. "Dictionary" \in AllTypes
    BY CodegenAssumption DEF AllTypes
  <2> HIDE DEF more, d
  <2>6. TypesOf(CommandFields(v)) = TypesOf(Fields(v.base.fields)) \cup TypesOf(more)
    BY <1>3, <2>3, <2>4, FieldsTypes, JoinTypes
  <2>7. Mentioned(d) \subseteq AllTypes
    BY <1>3, <2>2, <2>3, <2>5, <2>6, FieldsTypes
  <2> QED
    BY <1>1, <2>1, <2>2, <2>7 DEF WroteItem
<1>5. CASE v.base.kind # "data" /\ v.base.type # v.id
  <2> DEFINE m == Member("", v.base.type, FALSE)
             d == StructOut(v.id, Newtype(m))
  <2>1. out' = out \o <<d>> /\ ~NoType(v)
    BY <1>5 DEF ProcessCommand, WriteOut, NoType
  <2>2. d.id = v.id /\ Mentioned(d) = TypesOf(Newtype(m))
    BY StructMentions
  <2>3. TypesOf(Newtype(m)) = {v.base.type}
    <3>1. m.type = v.base.type
      BY DEF Member
    <3> QED
      BY <3>1, NewtypeTypes
  <2> HIDE DEF m, d
  <2> QED
    BY <1>1, <1>3, <1>5, <2>1, <2>2, <2>3 DEF WroteItem
<1>6. CASE v.base.kind # "data" /\ v.base.type = v.id
  <2>1. NoType(v)
    BY <1>1, <1>6 DEF NoType
  <2>2. out' = out \o <<>>
    BY <1>6 DEF ProcessCommand, WriteOut
  <2> QED
    BY <1>1, <2>1, <2>2 DEF WroteItem
<1> QED
  BY <1>4, <1>5, <1>6

LEMMA EnumWrites == ASSUME Maps, ProcessEnum PROVE WroteItem
<1> DEFINE v == Head(left)
           variants == [i \in DOMAIN v.values |-> Variant(v.values[i], <<>>)]
           d == EnumOut(v.id, "", variants)
<1>1. /\ left # <<>> /\ phase = "process" /\ v.kind = "enum"
      /\ left' = Tail(left) /\ UNCHANGED <<schema, phase, todo, types, unions>>
      /\ out' = out \o <<d>>
  BY DEF ProcessEnum, Processing, WriteOut
<1>2. \A i \in DOMAIN variants : TypesOf(variants[i].fields) \subseteq AllTypes
  BY NoTypes DEF Variant
<1> HIDE DEF variants
<1>3. d.id = v.id /\ Mentioned(d) \subseteq AllTypes
  BY <1>2, EnumMentions
<1>4. ~NoType(v)
  BY <1>1 DEF NoType
<1> HIDE DEF d
<1> QED
  BY <1>1, <1>3, <1>4 DEF WroteItem

LEMMA AlternateWrites ==
    ASSUME Maps, ProcessAlternate, phase' # "panicked" PROVE WroteItem
<1> DEFINE v == Head(left)
           variants == [i \in DOMAIN v.data |->
                           Variant(v.data[i].name, Newtype(v.data[i]))]
           d == EnumOut(v.id, "", variants)
<1>1. /\ left # <<>> /\ phase = "process" /\ v.kind = "alternate"
      /\ left' = Tail(left) /\ UNCHANGED <<schema, phase, todo, types, unions>>
      /\ out' = out \o <<d>>
  BY DEF ProcessAlternate, WriteOut, kept
<1>2. ASSUME NEW i \in DOMAIN variants
      PROVE  TypesOf(variants[i].fields) \subseteq AllTypes
  <2>1. variants[i].fields = Newtype(v.data[i]) /\ i \in DOMAIN v.data
    BY DEF Variant
  <2>2. TypesOf(v.data) \subseteq AllTypes
    BY <1>1, HeadFacts, ItemFacts
  <2>3. v.data[i].type \in TypesOf(v.data)
    BY <2>1 DEF TypesOf, Range1
  <2> HIDE DEF variants
  <2> QED
    BY <2>1, <2>2, <2>3, NewtypeTypes
<1> HIDE DEF variants
<1>3. d.id = v.id /\ Mentioned(d) \subseteq AllTypes
  BY <1>2, EnumMentions
<1>4. ~NoType(v)
  BY <1>1 DEF NoType
<1> HIDE DEF d
<1> QED
  BY <1>1, <1>3, <1>4 DEF WroteItem

\* The member of a branch of a union without base has the type of the branch.
LEMMA DataMember ==
    ASSUME NEW members \in Seq(MemberType), NEW i \in DOMAIN members
    PROVE  [members[i] EXCEPT !.name = "data", !.opt = FALSE].type
             = members[i].type
<1>1. members[i] \in MemberType
  OBVIOUS
<1> QED
  BY <1>1 DEF MemberType

LEMMA UnionWrites == ASSUME Maps, ProcessUnion PROVE WroteItem
<1> DEFINE v == Head(left)
           m(i) == [v.data[i] EXCEPT !.name = "data", !.opt = FALSE]
           variants == [i \in DOMAIN v.data |->
                           Variant(v.data[i].name, Fields(<<m(i)>>))]
           d == EnumOut(v.id, IF v.tag = "" THEN "type" ELSE v.tag, variants)
<1>1. /\ left # <<>> /\ phase = "process" /\ v.kind = "union"
      /\ left' = Tail(left) /\ UNCHANGED <<schema, phase, todo, types, unions>>
      /\ out' = out \o <<d>>
  BY DEF ProcessUnion, Processing, WriteOut, kept
<1>2. ASSUME NEW i \in DOMAIN variants
      PROVE  TypesOf(variants[i].fields) \subseteq AllTypes
  <2>1. variants[i].fields = Fields(<<m(i)>>) /\ i \in DOMAIN v.data
    BY DEF Variant
  <2>2. TypesOf(v.data) \subseteq AllTypes /\ v.data \in Seq(MemberType)
    BY <1>1, HeadFacts, ItemFacts
  <2>3. v.data[i].type \in TypesOf(v.data)
    BY <2>1 DEF TypesOf, Range1
  <2>4. m(i).type = v.data[i].type
    BY <2>1, <2>2, DataMember
  <2> HIDE DEF variants, m
  <2>5. TypesOf(Fields(<<m(i)>>)) = {v.data[i].type}
    <3>1. <<m(i)>> \in Seq({m(i)})
      OBVIOUS
    <3> QED
      BY <2>4, <3>1, FieldsTypes, SingleTypes
  <2> QED
    BY <2>1, <2>2, <2>3, <2>5
<1> HIDE DEF variants
<1>3. d.id = v.id /\ Mentioned(d) \subseteq AllTypes
  BY <1>2, EnumMentions
<1>4. ~NoType(v)
  BY <1>1 DEF NoType
<1> HIDE DEF d
<1> QED
  BY <1>1, <1>3, <1>4 DEF WroteItem

LEMMA EventWrites == ASSUME Maps, ProcessEvent PROVE WroteItem
<1> DEFINE v == Head(left)
           m == Member("data", v.base.type, FALSE)
           fields == IF v.base.kind = "data" THEN Fields(v.base.fields)
                     ELSE Newtype(m)
           d == StructOut(v.id, fields)
<1>1. /\ left # <<>> /\ phase = "process" /\ v.kind = "event"
      /\ left' = Tail(left) /\ UNCHANGED <<schema, phase, todo, types, unions>>
      /\ out' = out \o <<d>>
  BY DEF ProcessEvent, Processing, WriteOut
<1>2. /\ v.base.fields \in Seq(MemberType)
      /\ TypesOf(v.base.fields) \subseteq AllTypes
      /\ v.base.kind # "data" => v.base.type \in AllTypes
  BY <1>1, HeadFacts, ItemFacts
<1>3. TypesOf(fields) \subseteq AllTypes
  <2>1. m.type = v.base.type
    BY DEF Member
  <2> HIDE DEF m
  <2>2. CASE v.base.kind = "data"
    BY <1>2, <2>2, FieldsTypes
  <2>3. CASE v.base.kind # "data"
    BY <1>2, <2>1, <2>3, NewtypeTypes
  <2> QED
    BY <2>2, <2>3
<1> HIDE DEF fields
<1>4. d.id = v.id /\ Mentioned(d) \subseteq AllTypes
  BY <1>3, StructMentions
<1>5. ~NoType(v)
  BY <1>1 DEF NoType
<1> HIDE DEF d
<1> QED
  BY <1>1, <1>4, <1>5 DEF WroteItem

\* The members of a variant are of the base and of the branch.
LEMMA VariantMentions ==
    ASSUME Maps, phase = "unions", NEW v \in Items("combined"),
           Outcome(v) = "generated", NEW name
    PROVE  TypesOf(VariantFields(v, name)) \subseteq
               AllTypes \cup (IF CreateBase(v) THEN {BaseId(v)} ELSE {})
<1> DEFINE T == AllTypes \cup (IF CreateBase(v) THEN {BaseId(v)} ELSE {})
<1>0. v \in Range1(schema)
  BY DEF Items, Range1
<1>1. /\ v.base.fields \in Seq(MemberType) /\ v.data \in Seq(MemberType)
      /\ TypesOf(v.base.fields) \subseteq AllTypes
      /\ TypesOf(v.data) \subseteq AllTypes
      /\ v.base.kind # "data" => v.base.type \in AllTypes
  BY <1>0, ItemFacts
<1>2. Base(v) = <<>> \/ \E b : Base(v) = <<b>> /\ b.type \in T
  <2>1. CASE CreateBase(v)
    BY <2>1 DEF Base, BaseValue, Member
  <2>2. CASE ~CreateBase(v) /\ v.base.kind = "data"
    <3> DEFINE rest == Others(v.base.fields, Discrim(v))
    <3>1. Base(v) = IF rest = <<>> THEN <<>> ELSE <<rest[1]>>
      BY <2>2 DEF Base
    <3>2. rest \in Seq(MemberType) /\ TypesOf(rest) \subseteq AllTypes
      BY <1>1, KeepTypes
    <3> HIDE DEF rest
    <3>3. ASSUME rest # <<>> PROVE rest[1].type \in AllTypes
      <4>1. 1 \in DOMAIN rest
        BY <3>2, <3>3, TailFacts
      <4>2. rest[1].type \in TypesOf(rest)
        BY <4>1 DEF TypesOf, Range1
      <4> QED
        BY <3>2, <4>2
    <3> QED
      BY <3>1, <3>3
  <2>3. CASE ~CreateBase(v) /\ v.base.kind # "data"
    BY <1>1, <2>3 DEF Base, BaseValue, Member
  <2> QED
    BY <2>1, <2>2, <2>3
<1>3. ASSUME Has(v.data, name) PROVE Find(v.data, name).type \in T
  <2>1. Find(v.data, name) \in Range1(v.data)
    BY <1>1, <1>3, FindFacts
  <2> QED
    BY <1>1, <2>1 DEF TypesOf
<1> HIDE DEF T
<1> DEFINE own == Find(v.data, name)
<1>4. CASE Base(v) = <<>>
  <2>1. CASE Has(v.data, name)
    <3>1. VariantFields(v, name) = Newtype(own)
      BY <1>4, <2>1 DEF VariantFields
    <3> QED
      BY <1>3, <2>1, <3>1, NewtypeTypes DEF T
  <2>2. CASE ~Has(v.data, name)
    <3>1. VariantFields(v, name) = <<>>
      BY <1>4, <2>2 DEF VariantFields
    <3> QED
      BY <3>1, NoTypes
  <2> QED
    BY <2>1, <2>2
<1>5. CASE Base(v) # <<>>
  <2> PICK b : Base(v) = <<b>> /\ b.type \in T
    BY <1>2, <1>5
  <2>0. Base(v)[1] = b
    OBVIOUS
  <2>1. CASE Has(v.data, name)
    <3> DEFINE f == Field(b, b.name = "base")
               g == Field(own, TRUE)
    <3>1. VariantFields(v, name) = <<f, g>>
      BY <1>5, <2>0, <2>1 DEF VariantFields
    <3>2. f.type = b.type /\ g.type = own.type
      BY DEF Field
    <3>3. TypesOf(<<f, g>>) = {f.type, g.type}
      <4> HIDE DEF f, g
      <4>1. DOMAIN <<f, g>> = {1, 2} /\ <<f, g>>[1] = f /\ <<f, g>>[2] = g
        OBVIOUS
      <4> QED
        BY <4>1 DEF TypesOf, Range1
    <3> HIDE DEF f, g
    <3> QED
      BY <1>3, <2>1, <3>1, <3>2, <3>3 DEF T
  <2>2. CASE ~Has(v.data, name)
    <3>1. VariantFields(v, name) = Newtype(b)
      BY <1>5, <2>0, <2>2 DEF VariantFields
    <3> QED
      BY <3>1, NewtypeTypes DEF T
  <2> QED
    BY <2>1, <2>2
<1> QED
  BY <1>4, <1>5

\* A variant has the fields of its name.
LEMMA VariantsFacts ==
    ASSUME NEW v, NEW j \in DOMAIN Variants(v)
    PROVE  \E name : Variants(v)[j].fields = VariantFields(v, name)
<1> DEFINE rest  == KeepAt(Values(v),
                        {i \in DOMAIN Values(v) : ~Has(v.data, Values(v)[i])})
           names == [i \in DOMAIN v.data |-> v.data[i].name] \o rest
<1>1. Variants(v) =
         [i \in DOMAIN names |-> Variant(names[i], VariantFields(v, names[i]))]
  BY DEF Variants
<1> HIDE DEF names
<1> QED
  BY <1>1 DEF Variant

LEMMA CombinedWrites == ASSUME Maps, GenerateUnion PROVE WroteUnion
<1>1. /\ phase = "unions" /\ phase' = "unions"
      /\ UNCHANGED <<schema, left, types, unions, events>>
  BY DEF GenerateUnion, Generating, Strip
<1> PICK id \in todo : /\ todo' = todo \ {id} /\ Outcome(unions[id]) = "generated"
                       /\ UnionOut(unions[id])
  BY DEF GenerateUnion, Generating
<1> PICK v \in Items("combined") : v = unions[id] /\ v.id = id
  BY <1>1 DEF Maps, LoopsHold, MapsHold, MapOf
<1> DEFINE d == EnumOut(v.id, Discrim(v), Variants(v))
           T == AllTypes \cup (IF CreateBase(v) THEN {BaseId(v)} ELSE {})
<1>2. out' = out \o (<<d>> \o BaseOut(v))
  BY DEF UnionOut, WriteOut
<1>3. ASSUME NEW j \in DOMAIN Variants(v)
      PROVE  TypesOf(Variants(v)[j].fields) \subseteq T
  <2> PICK name : Variants(v)[j].fields = VariantFields(v, name)
    BY VariantsFacts
  <2> QED
    BY <1>1, VariantMentions
<1> HIDE DEF T
<1>4. d.id = v.id /\ Mentioned(d) \subseteq T
  BY ZenonT(60), <1>3, EnumMentions
<1> HIDE DEF d
<1> QED
  BY <1>1, <1>2, <1>4 DEF WroteUnion, T

LEMMA StructWrites ==
    ASSUME Maps, StructsMention, GenerateStruct PROVE WroteStruct
<1>1. /\ phase = "structs" /\ phase' = "structs"
      /\ UNCHANGED <<schema, left, types, unions, events>>
  BY DEF GenerateStruct, Generating, kept
<1> PICK id \in todo :
       /\ todo' = todo \ {id}
       /\ WriteOut(<<StructOut(types[id].id,
                      StructBase(types[id]) \o Fields(types[id].data))>>)
  BY DEF GenerateStruct, Generating
<1> DEFINE s == types[id]
           d == StructOut(s.id, StructBase(s) \o Fields(s.data))
<1>2. s.id = id /\ id \in DOMAIN types
  BY <1>1 DEF Maps, LoopsHold, MapsHold
<1>3. /\ s.data \in Seq(MemberType) /\ s.base.fields \in Seq(MemberType)
      /\ TypesOf(s.data) \subseteq AllTypes
      /\ TypesOf(s.base.fields) \subseteq AllTypes
      /\ s.base.kind # "data" => s.base.type \in AllTypes
  BY <1>2 DEF StructsMention
<1>4. out' = out \o <<d>>
  BY DEF WriteOut
<1> HIDE DEF s
<1>5. IsSeq(StructBase(s)) /\ TypesOf(StructBase(s)) \subseteq AllTypes
  <2>1. CASE s.base.kind = "data"
    BY <1>3, <2>1, FieldsTypes DEF StructBase
  <2>2. CASE s.base.kind # "data"
    <3> DEFINE f == Field(BaseValue(s.base.type), TRUE)
    <3>1. f.type = s.base.type
      BY DEF Field, BaseValue, Member
    <3>2. StructBase(s) = <<f>>
      BY <2>2 DEF StructBase
    <3> HIDE DEF f
    <3> QED
      BY <1>3, <2>2, <3>1, <3>2, SingleFacts, SingleTypes
  <2> QED
    BY <2>1, <2>2
<1>6. TypesOf(StructBase(s) \o Fields(s.data)) \subseteq AllTypes
  BY <1>3, <1>5, FieldsTypes, JoinTypes
<1>7. d.id = s.id /\ Mentioned(d) \subseteq AllTypes
  BY <1>6, StructMentions
<1> HIDE DEF d
<1>8. d.id = id
  BY <1>2, <1>7
<1> QED
  BY <1>1, <1>4, <1>7, <1>8 DEF WroteStruct

LEMMA EventsWrite == ASSUME Maps, EventsHold, GenerateEvents PROVE WroteEvents
<1> DEFINE m(i) == Member("data", events[i], FALSE)
           t == Member("timestamp", "Timestamp", FALSE)
           variants == [i \in DOMAIN events |->
                           Variant(events[i], Fields(<<m(i), t>>))]
           d == EnumOut("Event", "event", variants)
<1>1. /\ phase = "structs" /\ todo = {} /\ phase' = "done"
      /\ UNCHANGED <<schema, left, types, unions, events>>
      /\ out' = out \o <<d>>
  BY DEF GenerateEvents, WriteOut, kept
<1>2. ASSUME NEW i \in DOMAIN variants
      PROVE  TypesOf(variants[i].fields) \subseteq AllTypes
  <2>1. variants[i].fields = Fields(<<m(i), t>>) /\ i \in DOMAIN events
    BY DEF Variant
  <2>2. events[i] \in Ids("event")
    BY <2>1 DEF EventsHold
  <2>3. m(i).type = events[i] /\ t.type = "Timestamp"
    BY DEF Member
  <2>4. events[i] \in AllTypes /\ "Timestamp" \in AllTypes
    BY <2>2, CodegenAssumption DEF AllTypes
  <2> HIDE DEF variants, m, t
  <2>5. /\ <<m(i), t>> \in Seq({m(i), t})
        /\ TypesOf(<<m(i), t>>) = {m(i).type, t.type}
    <3>1. /\ DOMAIN <<m(i), t>> = {1, 2} /\ <<m(i), t>>[1] = m(i)
          /\ <<m(i), t>>[2] = t /\ <<m(i), t>> \in Seq({m(i), t})
      OBVIOUS
    <3> QED
      BY <3>1 DEF TypesOf, Range1
  <2> QED
    BY <2>1, <2>3, <2>4, <2>5, FieldsTypes
<1> HIDE DEF variants
<1>3. d.id = "Event" /\ Mentioned(d) \subseteq AllTypes
  BY <1>2, EnumMentions
<1> HIDE DEF d
<1> QED
  BY <1>1, <1>3 DEF WroteEvents

\* The steps that write nothing.
WroteNothing ==
    /\ UNCHANGED <<schema, out>>
    /\ \/ /\ phase = "process" /\ phase' = "process"
          /\ left # <<>> /\ left' = Tail(left)
          /\ \/ /\ Head(left).kind = "struct" /\ UNCHANGED unions
                /\ types' = Put(types, Head(left).id, Head(left))
             \/ /\ Head(left).kind = "combined" /\ UNCHANGED types
                /\ unions' = Put(unions, Head(left).id, Head(left))
       \/ /\ phase = "process" /\ left = <<>>
          /\ phase' = "unions" /\ todo' = DOMAIN unions
          /\ UNCHANGED <<left, types, unions>>
       \/ /\ phase = "unions" /\ todo = {} /\ phase' = "discriminators"
          /\ UNCHANGED <<left, types, unions>>
       \/ /\ phase = "discriminators" /\ phase' = "structs"
          /\ todo' = DOMAIN types /\ DOMAIN types' = DOMAIN types
          /\ UNCHANGED <<left, unions>>
       \/ /\ phase' \in {"panicked", "notfound"}
          /\ UNCHANGED <<left, types, unions>>
       \/ UNCHANGED <<phase, todo, left, types, unions>>

\* Every step is one of those.
LEMMA Writes ==
    ASSUME Maps, StructsMention, EventsHold, [Next]_vars
    PROVE  WroteItem \/ WroteUnion \/ WroteStruct \/ WroteEvents \/ WroteNothing
<1>1. CASE ProcessCommand
  BY <1>1, CommandWrites
<1>2. CASE ProcessStruct
  BY <1>2 DEF ProcessStruct, Processing, WroteNothing
<1>3. CASE ProcessAlternate
  <2>1. CASE phase' = "panicked"
    BY <1>3, <2>1 DEF ProcessAlternate, kept, WroteNothing
  <2> QED
    BY <1>3, <2>1, AlternateWrites
<1>4. CASE ProcessEnum
  BY <1>4, EnumWrites
<1>5. CASE ProcessEvent
  BY <1>5, EventWrites
<1>6. CASE ProcessUnion
  BY <1>6, UnionWrites
<1>7. CASE ProcessCombinedUnion
  BY <1>7 DEF ProcessCombinedUnion, Processing, WroteNothing
<1>8. CASE Processed
  BY <1>8 DEF Processed, kept, WroteNothing
<1>9. CASE GenerateUnion
  BY <1>9, CombinedWrites
<1>10. CASE GenerateUnionFails
  BY <1>10 DEF GenerateUnionFails, Outcome, kept, WroteNothing
<1>11. CASE UnionsDone
  BY <1>11 DEF UnionsDone, kept, WroteNothing
<1>12. CASE StripDiscriminators
  <2>1. DOMAIN types' = DOMAIN types
    BY <1>12 DEF StripDiscriminators
  <2> QED
    BY <1>12, <2>1 DEF StripDiscriminators, WroteNothing
<1>13. CASE GenerateStruct
  BY <1>13, StructWrites
<1>14. CASE GenerateEvents
  BY <1>14, EventsWrite
<1>15. CASE UNCHANGED vars
  BY <1>15 DEF vars, kept, WroteNothing
<1> QED
  BY <1>1, <1>2, <1>3, <1>4, <1>5, <1>6, <1>7, <1>8, <1>9, <1>10, <1>11, <1>12,
     <1>13, <1>14, <1>15 DEF Next, Process, Generate, Finished

\* What depends on the schema alone stays.
LEMMA SchemaSame ==
    ASSUME schema' = schema
    PROVE  /\ AllTypes' = AllTypes /\ Range1(schema)' = Range1(schema)
           /\ \A kind : Items(kind)' = Items(kind) /\ Ids(kind)' = Ids(kind)
           /\ UniqueIds' = UniqueIds /\ FreshNames' = FreshNames
           /\ Closed' = Closed
<1>1. Range1(schema)' = Range1(schema)
  BY DEF Range1
<1>2. \A kind : Items(kind)' = Items(kind)
  BY DEF Items
<1>3. \A kind : Ids(kind)' = Ids(kind)
  BY <1>2 DEF Ids
<1>4. AllTypes' = AllTypes
  BY <1>1, <1>3 DEF AllTypes
<1>5. UniqueIds' = UniqueIds
  BY DEF UniqueIds
<1>6. FreshNames' = FreshNames
  BY <1>1, <1>2 DEF FreshNames
<1>7. Closed' = Closed
  BY <1>1 DEF Closed, Declared
<1> QED
  BY <1>1, <1>2, <1>3, <1>4, <1>5, <1>6, <1>7

\* The names of the events, and what the structs mention.
LEMMA EventsStep == Maps /\ EventsHold /\ [Next]_vars => EventsHold'
<1> SUFFICES ASSUME Maps, EventsHold, [Next]_vars PROVE EventsHold'
  OBVIOUS
<1>1. Ids("event")' = Ids("event")
  BY SchemaStays, SchemaSame
<1>2. CASE events' = events
  BY <1>1, <1>2 DEF EventsHold
<1>3. CASE ProcessEvent
  <2>1. left # <<>> /\ Head(left).kind = "event" /\ events' = Append(events, Head(left).id)
    BY <1>3 DEF ProcessEvent, Processing
  <2>2. Head(left).id \in Ids("event")
    BY <2>1, HeadFacts, ItemKind
  <2>3. Append(events, Head(left).id) \in Seq(Ids("event"))
    BY <2>2 DEF EventsHold
  <2> QED
    BY <1>1, <2>1, <2>3 DEF EventsHold
<1>4. events' = events \/ ProcessEvent
  BY DEF Next, Process, Generate, Finished, vars, kept, ProcessCommand,
     ProcessStruct, ProcessAlternate, ProcessEnum, ProcessUnion,
     ProcessCombinedUnion, Processed, GenerateUnion, GenerateUnionFails,
     UnionsDone, StripDiscriminators, GenerateStruct, GenerateEvents
<1> QED
  BY <1>2, <1>3, <1>4

LEMMA StructsStep == Maps /\ StructsMention /\ [Next]_vars => StructsMention'
<1> SUFFICES ASSUME Maps, StructsMention, [Next]_vars PROVE StructsMention'
  OBVIOUS
<1>1. AllTypes' = AllTypes
  BY SchemaStays, SchemaSame
<1> DEFINE Good(s) == /\ s.data \in Seq(MemberType)
                      /\ s.base.fields \in Seq(MemberType)
                      /\ TypesOf(s.data) \subseteq AllTypes
                      /\ TypesOf(s.base.fields) \subseteq AllTypes
                      /\ s.base.kind # "data" => s.base.type \in AllTypes
<1>2. \A id \in DOMAIN types : Good(types[id])
  BY DEF StructsMention
<1>3. ASSUME \A id \in DOMAIN types' : Good(types'[id]) PROVE StructsMention'
  BY <1>1, <1>3 DEF StructsMention, TypesOf, Range1
<1>4. CASE types' = types
  <2>1. \A id \in DOMAIN types' : Good(types'[id])
    <3> HIDE DEF Good
    <3> QED
      BY <1>2, <1>4
  <2> QED
    BY <1>3, <2>1
<1>5. CASE ProcessStruct
  <2>1. left # <<>> /\ types' = Put(types, Head(left).id, Head(left))
    BY <1>5 DEF ProcessStruct, Processing
  <2>2. Good(Head(left))
    BY <2>1, HeadFacts, ItemFacts
  <2>3. \A id \in DOMAIN types' : Good(types'[id])
    <3> HIDE DEF Good
    <3> QED
      BY <1>2, <2>1, <2>2 DEF Put
  <2> QED
    BY <1>3, <2>3
<1>6. CASE StripDiscriminators
  <2>1. ASSUME NEW id \in DOMAIN types' PROVE Good(types'[id])
    <3>1. /\ id \in DOMAIN types
          /\ types'[id] = IF id \in DOMAIN struct_discriminators
                          THEN [types[id] EXCEPT !.data =
                                   Without(@, struct_discriminators[id])]
                          ELSE types[id]
      BY <1>6 DEF StripDiscriminators
    <3>2. Good(types[id])
      <4> HIDE DEF Good
      <4> QED
        BY <1>2, <3>1
    <3>3. CASE id \notin DOMAIN struct_discriminators
      <4> HIDE DEF Good
      <4> QED
        BY <3>1, <3>2, <3>3
    <3>4. CASE id \in DOMAIN struct_discriminators
      <4> DEFINE name == struct_discriminators[id]
                 s == types[id]
                 rest == Others(s.data, name)
      <4>1. types'[id] = [s EXCEPT !.data = rest]
        BY <3>1, <3>4 DEF Without
      <4>2. s \in ItemType
        <5>1. phase = "discriminators"
          BY <1>6 DEF StripDiscriminators
        <5>2. s \in Items("struct")
          BY <3>1, <5>1 DEF Maps, MapsHold, MapOf
        <5> QED
          BY <5>2, ItemFacts DEF Items, Range1
      <4>3. rest \in Seq(MemberType) /\ TypesOf(rest) \subseteq TypesOf(s.data)
        BY <3>2, KeepTypes
      <4>4. types'[id].data = rest /\ types'[id].base = s.base
        <5> HIDE DEF rest, s
        <5> QED
          BY <4>1, <4>2 DEF ItemType
      <4> HIDE DEF rest
      <4> QED
        BY <3>2, <4>3, <4>4
    <3> QED
      BY <3>3, <3>4
  <2> QED
    BY <1>3, <2>1
<1>7. types' = types \/ ProcessStruct \/ StripDiscriminators
  BY DEF Next, Process, Generate, Finished, vars, kept, ProcessCommand,
     ProcessAlternate, ProcessEnum, ProcessEvent, ProcessUnion, Strip,
     ProcessCombinedUnion, Processed, GenerateUnion, GenerateUnionFails,
     UnionsDone, GenerateStruct, GenerateEvents
<1> QED
  BY <1>4, <1>5, <1>6, <1>7

\* What is mentioned is of the schema or written out, a base with its union.
MentionsHold ==
    /\ IsSeq(out)
    /\ \A d \in Range1(out) : Mentioned(d) \subseteq AllTypes \cup IdsOut

\* The base of a union.
LEMMA BaseOutFacts ==
    ASSUME Maps, NEW v \in Items("combined")
    PROVE  /\ IsSeq(BaseOut(v)) /\ Once(BaseOut(v))
           /\ \A d \in Range1(BaseOut(v)) :
                 CreateBase(v) /\ d.id = BaseId(v) /\ Mentioned(d) \subseteq AllTypes
           /\ CreateBase(v) => \E d \in Range1(BaseOut(v)) : d.id = BaseId(v)
<1> DEFINE rest == Others(v.base.fields, Discrim(v))
           d == StructOut(BaseId(v), Fields(rest))
<1>1. CASE CreateBase(v)
  <2>1. BaseOut(v) = <<d>>
    BY <1>1 DEF BaseOut
  <2>2. /\ v.base.fields \in Seq(MemberType)
        /\ TypesOf(v.base.fields) \subseteq AllTypes
    <3>1. v \in Range1(schema)
      BY DEF Items, Range1
    <3> QED
      BY <3>1, ItemFacts
  <2>3. rest \in Seq(MemberType) /\ TypesOf(rest) \subseteq AllTypes
    BY <2>2, KeepTypes
  <2> HIDE DEF rest
  <2>4. d.id = BaseId(v) /\ Mentioned(d) \subseteq AllTypes
    BY <2>3, StructMentions, FieldsTypes
  <2> HIDE DEF d
  <2> QED
    BY <1>1, <2>1, <2>4, SingleFacts, SingleOnce
<1>2. CASE ~CreateBase(v)
  <2>1. BaseOut(v) = <<>>
    BY <1>2 DEF BaseOut
  <2>2. DOMAIN <<>> = {}
    OBVIOUS
  <2> QED
    BY <1>2, <2>1, <2>2, NothingFacts DEF Once
<1> QED
  BY <1>1, <1>2

\* What is written after what was written.
LEMMA Written ==
    ASSUME MentionsHold, NEW decls, IsSeq(decls), out' = out \o decls,
           schema' = schema,
           \A d \in Range1(decls) :
               Mentioned(d) \subseteq AllTypes \cup {e.id : e \in Range1(decls)}
    PROVE  /\ MentionsHold' /\ Range1(out)' = Range1(out) \cup Range1(decls)
           /\ IdsOut' = IdsOut \cup {e.id : e \in Range1(decls)}
<1>1. IsSeq(out)
  BY DEF MentionsHold
<1>2. IsSeq(out \o decls) /\ Range1(out \o decls) = Range1(out) \cup Range1(decls)
  BY <1>1, JoinRange
<1>3. IsSeq(out)' /\ Range1(out)' = Range1(out) \cup Range1(decls)
  BY <1>2 DEF IsSeq, Range1
<1>4. IdsOut' = IdsOut \cup {e.id : e \in Range1(decls)}
  BY <1>3 DEF IdsOut
<1>5. AllTypes' = AllTypes
  BY SchemaSame
<1>6. \A d \in Range1(out)' : Mentioned(d) \subseteq AllTypes \cup IdsOut'
  BY <1>3, <1>4 DEF MentionsHold
<1>7. \A d \in Range1(out)' : Mentioned(d)' = Mentioned(d)
  BY DEF Mentioned, TypesOf, Range1
<1> QED
  BY <1>3, <1>4, <1>5, <1>6, <1>7 DEF MentionsHold

LEMMA WrittenOne ==
    ASSUME MentionsHold, NEW d, out' = out \o <<d>>, schema' = schema,
           Mentioned(d) \subseteq AllTypes
    PROVE  /\ MentionsHold' /\ Range1(out)' = Range1(out) \cup {d}
           /\ IdsOut' = IdsOut \cup {d.id}
<1>1. IsSeq(<<d>>) /\ Range1(<<d>>) = {d}
  BY SingleFacts
<1> DEFINE decls == <<d>>
<1> HIDE DEF decls
<1>2. IsSeq(decls) /\ Range1(decls) = {d} /\ out' = out \o decls
  BY <1>1 DEF decls
<1> QED
  BY <1>2, Written

LEMMA WrittenUnion ==
    ASSUME Maps, MentionsHold, schema' = schema, NEW v \in Items("combined"),
           NEW d, out' = out \o (<<d>> \o BaseOut(v)),
           d.id = v.id,
           Mentioned(d) \subseteq
               AllTypes \cup (IF CreateBase(v) THEN {BaseId(v)} ELSE {})
    PROVE  /\ MentionsHold' /\ IsSeq(<<d>> \o BaseOut(v))
           /\ Range1(out)' = Range1(out) \cup {d} \cup Range1(BaseOut(v))
           /\ IdsOut \subseteq IdsOut' /\ v.id \in IdsOut'
<1> DEFINE decls == <<d>> \o BaseOut(v)
<1>1. IsSeq(decls) /\ Range1(decls) = {d} \cup Range1(BaseOut(v))
  BY SingleFacts, BaseOutFacts, JoinRange
<1>2. \A e \in Range1(decls) :
         Mentioned(e) \subseteq AllTypes \cup {x.id : x \in Range1(decls)}
  <2> HIDE DEF decls
  <2> SUFFICES ASSUME NEW e \in Range1(decls)
               PROVE  Mentioned(e) \subseteq
                         AllTypes \cup {x.id : x \in Range1(decls)}
    OBVIOUS
  <2>1. CASE e = d
    <3>1. CreateBase(v) => \E x \in Range1(decls) : x.id = BaseId(v)
      BY <1>1, BaseOutFacts
    <3> QED
      BY <2>1, <3>1
  <2>2. CASE e \in Range1(BaseOut(v))
    BY <2>2, BaseOutFacts
  <2> QED
    BY <1>1, <2>1, <2>2
<1> HIDE DEF decls
<1>3. out' = out \o decls
  BY DEF decls
<1>4. /\ MentionsHold' /\ Range1(out)' = Range1(out) \cup Range1(decls)
      /\ IdsOut' = IdsOut \cup {e.id : e \in Range1(decls)}
  BY <1>1, <1>2, <1>3, Written
<1> QED
  BY <1>1, <1>4 DEF decls

\* Every step keeps what is written out, and what it mentions known.
LEMMA MentionsStep ==
    ASSUME Maps, StructsMention, EventsHold, MentionsHold, [Next]_vars
    PROVE  MentionsHold' /\ IdsOut \subseteq IdsOut'
<1>0. schema' = schema
  BY SchemaStays
<1>1. CASE out' = out
  <2>1. Range1(out)' = Range1(out) /\ IsSeq(out)'
    BY <1>1 DEF Range1, MentionsHold, IsSeq
  <2>2. IdsOut' = IdsOut /\ AllTypes' = AllTypes
    BY <1>0, <2>1, SchemaSame DEF IdsOut
  <2>3. \A d \in Range1(out) : Mentioned(d)' = Mentioned(d)
    BY DEF Mentioned, TypesOf, Range1
  <2> QED
    BY <2>1, <2>2, <2>3 DEF MentionsHold
<1>2. ASSUME NEW d, out' = out \o <<d>>, Mentioned(d) \subseteq AllTypes
      PROVE  MentionsHold' /\ IdsOut \subseteq IdsOut'
  BY <1>0, <1>2, WrittenOne
<1>3. CASE WroteUnion
  <2> PICK v \in Items("combined") : \E d :
         /\ v.id = d.id
         /\ out' = out \o (<<d>> \o BaseOut(v))
         /\ Mentioned(d) \subseteq
               AllTypes \cup (IF CreateBase(v) THEN {BaseId(v)} ELSE {})
    BY <1>3 DEF WroteUnion
  <2> PICK d :
         /\ v.id = d.id
         /\ out' = out \o (<<d>> \o BaseOut(v))
         /\ Mentioned(d) \subseteq
               AllTypes \cup (IF CreateBase(v) THEN {BaseId(v)} ELSE {})
    OBVIOUS
  <2> QED
    BY <1>0, WrittenUnion
<1>4. CASE WroteItem
  BY <1>1, <1>2, <1>4 DEF WroteItem
<1>5. CASE WroteStruct
  BY <1>2, <1>5 DEF WroteStruct
<1>6. CASE WroteEvents
  BY <1>2, <1>6 DEF WroteEvents
<1>7. CASE WroteNothing
  BY <1>1, <1>7 DEF WroteNothing
<1> QED
  BY <1>3, <1>4, <1>5, <1>6, <1>7, Writes

\* Every item has been written out, or is still to be.
AllWritten ==
    /\ \A v \in Range1(schema) : \/ v.kind \in {"struct", "combined"}
                                 \/ NoType(v) \/ v.id \in IdsOut
                                 \/ v \in Range1(left)
    /\ \A id \in DOMAIN unions : \/ phase = "process" \/ id \in IdsOut
                                 \/ phase = "unions" /\ id \in todo
                                 \/ phase \in {"panicked", "notfound"}
    /\ \A id \in DOMAIN types :
          \/ phase \in {"process", "unions", "discriminators"} \/ id \in IdsOut
          \/ phase = "structs" /\ id \in todo
          \/ phase \in {"panicked", "notfound"}
    /\ phase \notin {"process", "panicked", "notfound"} => left = <<>>

LEMMA AllWrittenStep ==
    ASSUME Maps, StructsMention, EventsHold, MentionsHold, AllWritten, [Next]_vars
    PROVE  AllWritten'
<1>0. /\ schema' = schema /\ Range1(schema)' = Range1(schema)
      /\ IdsOut \subseteq IdsOut'
      /\ \A v : NoType(v)' = NoType(v)
  BY SchemaStays, SchemaSame, MentionsStep DEF NoType
<1>1. ASSUME left # <<>>, left' = Tail(left)
      PROVE  Range1(left) = Range1(left)' \cup {Head(left)}
  <2>1. Range1(left) = Range1(Tail(left)) \cup {Head(left)}
    BY <1>1, HeadItem DEF Maps
  <2> QED
    BY <1>1, <2>1 DEF Range1
<1>2. left' = left => Range1(left)' = Range1(left)
  BY DEF Range1
<1>3. CASE WroteItem
  <2>1. /\ phase = "process" /\ phase' = "process" /\ left # <<>>
        /\ left' = Tail(left) /\ UNCHANGED <<types, unions>>
    BY <1>3 DEF WroteItem
  <2>2. NoType(Head(left)) \/ Head(left).id \in IdsOut'
    <3> SUFFICES ASSUME ~NoType(Head(left)) PROVE Head(left).id \in IdsOut'
      OBVIOUS
    <3> PICK d : /\ d.id = Head(left).id /\ out' = out \o <<d>>
                 /\ Mentioned(d) \subseteq AllTypes
      BY <1>3 DEF WroteItem
    <3> QED
      BY <1>0, WrittenOne
  <2>3. \A v \in Range1(left) : v = Head(left) \/ v \in Range1(left)'
    BY <1>1, <2>1
  <2> QED
    BY <1>0, <2>1, <2>2, <2>3 DEF AllWritten
<1>4. CASE WroteUnion
  <2> PICK id \in todo, v \in Items("combined") : \E d :
         /\ todo' = todo \ {id} /\ v.id = id /\ d.id = id
         /\ out' = out \o (<<d>> \o BaseOut(v))
         /\ Mentioned(d) \subseteq
               AllTypes \cup (IF CreateBase(v) THEN {BaseId(v)} ELSE {})
    BY <1>4 DEF WroteUnion
  <2> PICK d :
         /\ todo' = todo \ {id} /\ v.id = id /\ d.id = id
         /\ out' = out \o (<<d>> \o BaseOut(v))
         /\ Mentioned(d) \subseteq
               AllTypes \cup (IF CreateBase(v) THEN {BaseId(v)} ELSE {})
    OBVIOUS
  <2>1. id \in IdsOut'
    BY <1>0, WrittenUnion
  <2>2. /\ phase = "unions" /\ phase' = "unions" /\ left' = left
        /\ UNCHANGED <<types, unions>>
    BY <1>4 DEF WroteUnion
  <2> QED
    BY <1>0, <1>2, <2>1, <2>2 DEF AllWritten
<1>5. CASE WroteStruct
  <2> PICK id \in todo : \E d :
         /\ todo' = todo \ {id} /\ d.id = id /\ out' = out \o <<d>>
         /\ Mentioned(d) \subseteq AllTypes
    BY <1>5 DEF WroteStruct
  <2> PICK d :
         /\ todo' = todo \ {id} /\ d.id = id /\ out' = out \o <<d>>
         /\ Mentioned(d) \subseteq AllTypes
    OBVIOUS
  <2>1. id \in IdsOut'
    BY <1>0, WrittenOne
  <2>2. /\ phase = "structs" /\ phase' = "structs" /\ left' = left
        /\ UNCHANGED <<types, unions>>
    BY <1>5 DEF WroteStruct
  <2> QED
    BY <1>0, <1>2, <2>1, <2>2 DEF AllWritten
<1>6. CASE WroteEvents
  <2>1. /\ phase = "structs" /\ todo = {} /\ phase' = "done" /\ left' = left
        /\ UNCHANGED <<types, unions>>
    BY <1>6 DEF WroteEvents
  <2> QED
    BY <1>0, <1>2, <2>1 DEF AllWritten
<1>7. CASE WroteNothing
  <2>1. IdsOut' = IdsOut
    BY <1>7 DEF WroteNothing, IdsOut, Range1
  <2>2. CASE /\ phase = "process" /\ phase' = "process"
             /\ left # <<>> /\ left' = Tail(left)
             /\ Head(left).kind \in {"struct", "combined"}
    <3>1. \A v \in Range1(left) : v = Head(left) \/ v \in Range1(left)'
      BY <1>1, <2>2
    <3> QED
      BY <1>0, <2>2, <3>1 DEF AllWritten
  <2>3. CASE phase = "process" /\ phase' = "unions" /\ left = <<>>
             /\ todo' = DOMAIN unions /\ UNCHANGED <<left, types, unions>>
    BY <1>0, <1>2, <2>3 DEF AllWritten
  <2>4. CASE phase = "unions" /\ todo = {} /\ phase' = "discriminators"
             /\ UNCHANGED <<left, types, unions>>
    BY <1>0, <1>2, <2>4 DEF AllWritten
  <2>5. CASE /\ phase = "discriminators" /\ phase' = "structs"
             /\ todo' = DOMAIN types /\ DOMAIN types' = DOMAIN types
             /\ UNCHANGED <<left, unions>>
    BY <1>0, <1>2, <2>5 DEF AllWritten
  <2>6. CASE phase' \in {"panicked", "notfound"} /\ UNCHANGED <<left, types, unions>>
    BY <1>0, <1>2, <2>6 DEF AllWritten
  <2>7. CASE UNCHANGED <<phase, todo, left, types, unions>>
    BY <1>0, <1>2, <2>7 DEF AllWritten
  <2> QED
    BY <1>7, <2>2, <2>3, <2>4, <2>5, <2>6, <2>7 DEF WroteNothing
<1> QED
  BY <1>3, <1>4, <1>5, <1>6, <1>7, Writes

\* The items that are still to be processed are the last ones of the schema.
NumProcessed == Len(schema) - Len(left)
LeftSuffix ==
    /\ Len(left) <= Len(schema)
    /\ \A i \in DOMAIN left : left[i] = schema[i + NumProcessed]

\* A name that was written out is that of an item that came before, or of a
\* union or a struct that its loop has left behind, or of the base of a union.
Place(id) ==
    \/ \E n \in 1 .. NumProcessed :
        /\ ~NoType(schema[n]) /\ schema[n].id = id
        /\ schema[n].kind \notin {"struct", "combined"}
    \/ /\ phase # "process"
       /\ \E u \in Items("combined") : /\ phase = "unions" => u.id \notin todo
                                       /\ \/ id = u.id
                                          \/ CreateBase(u) /\ id = BaseId(u)
    \/ /\ phase \in {"structs", "done"}
       /\ \E s \in Items("struct") : /\ phase = "structs" => s.id \notin todo
                                     /\ id = s.id
    \/ phase = "done" /\ id = "Event"

OnceHolds ==
    UniqueIds /\ FreshNames => Once(out) /\ \A d \in Range1(out) : Place(d.id)

\* Where in the schema the item at the head is.
LEMMA PlaceFacts ==
    ASSUME Maps, LeftSuffix
    PROVE  /\ NumProcessed \in Nat
           /\ left # <<>> =>
                 /\ NumProcessed + 1 \in DOMAIN schema
                 /\ schema[NumProcessed + 1] = Head(left)
           /\ DOMAIN schema = 1 .. Len(schema) /\ Len(schema) \in Nat
           /\ NumProcessed <= Len(schema)
<1>1. /\ schema \in Seq(ItemType) /\ left \in Seq(ItemType)
      /\ Len(schema) \in Nat /\ Len(left) \in Nat
      /\ DOMAIN schema = 1 .. Len(schema)
  BY DEF Maps, LoopsHold
<1>2. NumProcessed \in Nat /\ NumProcessed <= Len(schema)
  BY <1>1 DEF LeftSuffix, NumProcessed
<1>3. ASSUME left # <<>>
      PROVE  /\ NumProcessed + 1 \in DOMAIN schema
             /\ schema[NumProcessed + 1] = Head(left)
  <2>1. Len(left) >= 1 /\ Head(left) = left[1] /\ 1 \in DOMAIN left
    BY <1>1, <1>3, TailFacts
  <2>2. left[1] = schema[1 + NumProcessed]
    BY <2>1 DEF LeftSuffix
  <2>3. NumProcessed + 1 \in 1 .. Len(schema) /\ 1 + NumProcessed = NumProcessed + 1
    BY <1>1, <2>1 DEF NumProcessed, LeftSuffix
  <2> QED
    BY <1>1, <2>1, <2>2, <2>3
<1> QED
  BY <1>1, <1>2, <1>3

LEMMA LeftStep ==
    ASSUME Maps, LeftSuffix, schema' = schema,
           left' = left \/ (left # <<>> /\ left' = Tail(left))
    PROVE  /\ LeftSuffix'
           /\ left' = left => NumProcessed' = NumProcessed
           /\ left # <<>> /\ left' = Tail(left) => NumProcessed' = NumProcessed + 1
<1>1. /\ Len(schema) \in Nat /\ left \in Seq(ItemType) /\ Len(left) \in Nat
      /\ NumProcessed \in Nat
  BY PlaceFacts DEF Maps, LoopsHold
<1>2. CASE left' = left
  <2>1. NumProcessed' = NumProcessed
    BY <1>2 DEF NumProcessed
  <2>2. LeftSuffix'
    BY <1>2, <2>1 DEF LeftSuffix
  <2>3. ASSUME left # <<>>, left' = Tail(left) PROVE FALSE
    <3>1. Len(Tail(left)) = Len(left) - 1
      BY <1>1, <2>3, TailFacts
    <3> QED
      BY <1>1, <1>2, <2>3, <3>1
  <2> QED
    BY <2>1, <2>2, <2>3
<1>3. CASE left # <<>> /\ left' = Tail(left)
  <2>1. /\ Len(left') = Len(left) - 1 /\ Len(left) >= 1
        /\ DOMAIN left' = 1 .. Len(left) - 1
        /\ \A i \in DOMAIN left' : i + 1 \in DOMAIN left /\ left'[i] = left[i + 1]
    BY <1>1, <1>3, TailFacts
  <2>2. NumProcessed' = NumProcessed + 1
    <3>1. NumProcessed' = Len(schema) - (Len(left) - 1)
      BY <2>1 DEF NumProcessed
    <3>2. \A a, b \in Nat : a - (b - 1) = (a - b) + 1
      OBVIOUS
    <3> QED
      BY <1>1, <3>1, <3>2 DEF NumProcessed
  <2>3. Len(left') <= Len(schema)
    BY <1>1, <2>1 DEF LeftSuffix
  <2>4. ASSUME NEW i \in DOMAIN left' PROVE left'[i] = schema[i + NumProcessed']
    <3>1. left'[i] = schema[(i + 1) + NumProcessed]
      BY <2>1, <2>4 DEF LeftSuffix
    <3>2. (i + 1) + NumProcessed = i + (NumProcessed + 1)
      BY <1>1, <2>1
    <3> QED
      BY <2>2, <3>1, <3>2
  <2>5. left' # left
    BY <1>1, <2>1
  <2> QED
    BY <1>3, <2>2, <2>3, <2>4, <2>5 DEF LeftSuffix
<1> QED
  BY <1>2, <1>3

LEMMA LeftMoves ==
    ASSUME Maps, StructsMention, EventsHold, [Next]_vars
    PROVE  left' = left \/ (left # <<>> /\ left' = Tail(left))
<1>1. CASE WroteItem
  BY <1>1 DEF WroteItem
<1>2. CASE WroteUnion
  BY <1>2 DEF WroteUnion
<1>3. CASE WroteStruct
  BY <1>3 DEF WroteStruct
<1>4. CASE WroteEvents
  BY <1>4 DEF WroteEvents
<1>5. CASE WroteNothing
  BY <1>5 DEF WroteNothing
<1> QED
  BY <1>1, <1>2, <1>3, <1>4, <1>5, Writes

LEMMA LeftSuffixStep ==
    ASSUME Maps, LeftSuffix, StructsMention, EventsHold, [Next]_vars
    PROVE  LeftSuffix'
<1>1. schema' = schema
  BY SchemaStays
<1>2. left' = left \/ (left # <<>> /\ left' = Tail(left))
  BY LeftMoves
<1> QED
  BY <1>1, <1>2, LeftStep

\* A step leaves the names behind that were behind.
LEMMA PlaceStays ==
    ASSUME Maps, LeftSuffix, StructsMention, EventsHold, [Next]_vars,
           NEW id, Place(id)
    PROVE  Place(id)'
<1>1. /\ schema' = schema /\ \A kind : Items(kind)' = Items(kind)
      /\ \A v : NoType(v)' = NoType(v) /\ CreateBase(v)' = CreateBase(v)
                /\ BaseId(v)' = BaseId(v)
  BY SchemaStays, SchemaSame DEF NoType, CreateBase, BaseId
<1>2. NumProcessed \in Nat /\ (NumProcessed' = NumProcessed \/ NumProcessed' = NumProcessed + 1)
  <2>1. left' = left \/ (left # <<>> /\ left' = Tail(left))
    BY LeftMoves
  <2> QED
    BY <1>1, <2>1, LeftStep, PlaceFacts
<1>3. CASE \E n \in 1 .. NumProcessed :
               /\ ~NoType(schema[n]) /\ schema[n].id = id
               /\ schema[n].kind \notin {"struct", "combined"}
  <2>1. 1 .. NumProcessed \subseteq 1 .. NumProcessed'
    BY <1>2
  <2> QED
    BY <1>1, <1>3, <2>1 DEF Place
<1>4. /\ phase # "process" => phase' # "process"
      /\ phase # "process" /\ phase' = "unions" => phase = "unions" /\ todo' \subseteq todo
      /\ phase = "structs" => \/ phase' = "structs" /\ todo' \subseteq todo
                              \/ phase' \in {"panicked", "notfound", "done"}
      /\ phase = "structs" => phase' \notin {"panicked", "notfound"}
      /\ phase = "done" => phase' = "done"
  BY DEF Next, Process, Generate, Finished, vars, Processing, ProcessCommand,
     ProcessStruct, ProcessAlternate, ProcessEnum, ProcessEvent, ProcessUnion,
     ProcessCombinedUnion, Processed, GenerateUnion, GenerateUnionFails,
     Generating, UnionsDone, StripDiscriminators, GenerateStruct,
     GenerateEvents, Outcome
<1>5. CASE /\ phase # "process"
           /\ \E u \in Items("combined") : /\ phase = "unions" => u.id \notin todo
                                           /\ \/ id = u.id
                                              \/ CreateBase(u) /\ id = BaseId(u)
  <2> PICK u \in Items("combined") : /\ phase = "unions" => u.id \notin todo
                                     /\ \/ id = u.id
                                        \/ CreateBase(u) /\ id = BaseId(u)
    BY <1>5
  <2>1. phase' # "process" /\ (phase' = "unions" => u.id \notin todo')
    BY <1>4, <1>5
  <2>2. u \in Items("combined")'
    BY <1>1
  <2>3. id = u.id \/ (CreateBase(u)' /\ id = BaseId(u)')
    BY DEF CreateBase, BaseId
  <2> QED
    BY <2>1, <2>2, <2>3 DEF Place
<1>6. CASE /\ phase \in {"structs", "done"}
           /\ \E s \in Items("struct") : /\ phase = "structs" => s.id \notin todo
                                         /\ id = s.id
  <2> PICK s \in Items("struct") : /\ phase = "structs" => s.id \notin todo
                                   /\ id = s.id
    BY <1>6
  <2>1. phase' \in {"structs", "done"} /\ (phase' = "structs" => s.id \notin todo')
    BY <1>4, <1>6
  <2>2. s \in Items("struct")'
    BY <1>1
  <2> QED
    BY <2>1, <2>2 DEF Place
<1>7. CASE phase = "done" /\ id = "Event"
  BY <1>4, <1>7 DEF Place
<1> QED
  BY <1>3, <1>5, <1>6, <1>7 DEF Place

\* A name that is new is written out once.
LEMMA OnceMore ==
    ASSUME MentionsHold, Once(out), NEW decls, IsSeq(decls), Once(decls),
           \A d \in Range1(out) : \A e \in Range1(decls) : d.id # e.id,
           out' = out \o decls
    PROVE  Once(out')
<1>1. IsSeq(out)
  BY DEF MentionsHold
<1> QED
  BY <1>1, JoinOnce

\* What the item of a name that was processed is not.
LEMMA ProcessedDiffers ==
    ASSUME Maps, LeftSuffix, UniqueIds, NEW kind \in {"struct", "combined"},
           NEW v \in Items(kind), NEW n \in 1 .. NumProcessed,
           ~NoType(schema[n]), schema[n].id = v.id,
           schema[n].kind \notin {"struct", "combined"}
    PROVE  FALSE
<1>1. n \in DOMAIN schema
  BY PlaceFacts
<1>2. schema[n] \in Items(schema[n].kind)
  BY <1>1 DEF Items
<1>3. v.kind = kind
  BY ItemKind
<1>4. ~NoType(v)
  BY <1>3 DEF NoType
<1>5. schema[n] = v
  BY <1>2, <1>4, UniqueItem
<1> QED
  BY <1>3, <1>5

\* The names made up, item by item.
LEMMA FreshFacts ==
    ASSUME FreshNames
    PROVE  /\ \A kind : \A v \in Items(kind) : v.id # "Event"
           /\ \A u \in Items("combined") : CreateBase(u) =>
                 /\ \A kind : \A v \in Items(kind) : BaseId(u) # v.id
                 /\ \A n \in DOMAIN schema : BaseId(u) # schema[n].id
                 /\ BaseId(u) # "Event"
                 /\ \A w \in Items("combined") :
                       CreateBase(w) /\ BaseId(u) = BaseId(w) => u.id = w.id
           /\ \A n \in DOMAIN schema : schema[n].id # "Event"
<1> DEFINE items == {v.id : v \in Range1(schema)}
<1>1. \A kind : \A v \in Items(kind) : v.id \in items
  BY DEF Items, Range1
<1>2. \A n \in DOMAIN schema : schema[n].id \in items
  BY DEF Range1
<1>3. /\ "Event" \notin items
      /\ \A u \in Items("combined") : CreateBase(u) =>
            /\ BaseId(u) \notin items /\ BaseId(u) # "Event"
            /\ \A w \in Items("combined") :
                  CreateBase(w) /\ BaseId(u) = BaseId(w) => u.id = w.id
  BY DEF FreshNames
<1> HIDE DEF items
<1> QED
  BY <1>1, <1>2, <1>3

\* The item that is processed has a name that was not written out.
LEMMA ItemIsNew ==
    ASSUME Maps, LeftSuffix, UniqueIds, phase = "process", left # <<>>,
           ~NoType(Head(left)), NEW id, Place(id)
    PROVE  id # Head(left).id
<1> SUFFICES ASSUME id = Head(left).id PROVE FALSE
  OBVIOUS
<1> PICK n \in 1 .. NumProcessed : ~NoType(schema[n]) /\ schema[n].id = id
  BY DEF Place
<1>1. /\ NumProcessed \in Nat /\ NumProcessed + 1 \in DOMAIN schema
      /\ schema[NumProcessed + 1] = Head(left)
      /\ n \in DOMAIN schema
  BY PlaceFacts
<1>2. n = NumProcessed + 1
  BY <1>1 DEF UniqueIds
<1> QED
  BY <1>1, <1>2

\* Neither has the union, nor its base.
LEMMA UnionIsNew ==
    ASSUME Maps, LeftSuffix, UniqueIds, FreshNames, phase = "unions",
           NEW v \in Items("combined"), v.id \in todo, NEW id, Place(id)
    PROVE  id # v.id /\ (CreateBase(v) => id # BaseId(v))
<1>1. CASE \E n \in 1 .. NumProcessed :
               /\ ~NoType(schema[n]) /\ schema[n].id = id
               /\ schema[n].kind \notin {"struct", "combined"}
  <2> PICK n \in 1 .. NumProcessed :
               /\ ~NoType(schema[n]) /\ schema[n].id = id
               /\ schema[n].kind \notin {"struct", "combined"}
    BY <1>1
  <2>1. id # v.id
    BY ProcessedDiffers
  <2>2. n \in DOMAIN schema
    BY PlaceFacts
  <2>3. CreateBase(v) => id # BaseId(v)
    BY <2>2, FreshFacts
  <2> QED
    BY <2>1, <2>3
<1>2. CASE \E u \in Items("combined") : /\ u.id \notin todo
                                        /\ \/ id = u.id
                                           \/ CreateBase(u) /\ id = BaseId(u)
  <2> PICK u \in Items("combined") : /\ u.id \notin todo
                                     /\ \/ id = u.id
                                        \/ CreateBase(u) /\ id = BaseId(u)
    BY <1>2
  <2>1. u.id # v.id
    OBVIOUS
  <2>2. CASE id = u.id
    BY <2>1, <2>2, FreshFacts
  <2>3. CASE CreateBase(u) /\ id = BaseId(u)
    BY <2>1, <2>3, FreshFacts
  <2> QED
    BY <2>2, <2>3
<1> QED
  BY <1>1, <1>2 DEF Place

LEMMA StructIsNew ==
    ASSUME Maps, LeftSuffix, UniqueIds, FreshNames, phase = "structs",
           NEW v \in Items("struct"), v.id \in todo, NEW id, Place(id)
    PROVE  id # v.id
<1>0. v.kind = "struct" /\ ~NoType(v)
  <2>1. v.kind = "struct"
    BY ItemKind
  <2> QED
    BY <2>1 DEF NoType
<1>1. CASE \E n \in 1 .. NumProcessed :
               /\ ~NoType(schema[n]) /\ schema[n].id = id
               /\ schema[n].kind \notin {"struct", "combined"}
  BY <1>1, ProcessedDiffers
<1>2. CASE \E u \in Items("combined") : \/ id = u.id
                                        \/ CreateBase(u) /\ id = BaseId(u)
  <2> PICK u \in Items("combined") : \/ id = u.id
                                     \/ CreateBase(u) /\ id = BaseId(u)
    BY <1>2
  <2>1. u.kind = "combined" /\ ~NoType(u)
    <3>1. u.kind = "combined"
      BY ItemKind
    <3> QED
      BY <3>1 DEF NoType
  <2>2. CASE id = u.id
    BY <1>0, <2>1, <2>2, UniqueItem
  <2>3. CASE CreateBase(u) /\ id = BaseId(u)
    BY <2>3, FreshFacts
  <2> QED
    BY <2>2, <2>3
<1>3. CASE \E s \in Items("struct") : s.id \notin todo /\ id = s.id
  BY <1>3
<1> QED
  BY <1>1, <1>2, <1>3 DEF Place

LEMMA EventIsNew ==
    ASSUME Maps, LeftSuffix, FreshNames, phase = "structs", NEW id, Place(id)
    PROVE  id # "Event"
<1>1. CASE \E n \in 1 .. NumProcessed : schema[n].id = id
  <2> PICK n \in 1 .. NumProcessed : schema[n].id = id
    BY <1>1
  <2>1. n \in DOMAIN schema
    BY PlaceFacts
  <2> QED
    BY <2>1, FreshFacts
<1>2. CASE \E u \in Items("combined") : id = u.id \/ (CreateBase(u) /\ id = BaseId(u))
  BY <1>2, FreshFacts
<1>3. CASE \E s \in Items("struct") : id = s.id
  BY <1>3, FreshFacts
<1> QED
  BY <1>1, <1>2, <1>3 DEF Place

\* No step writes out a name for the second time.
LEMMA OnceStep ==
    ASSUME Maps, LeftSuffix, StructsMention, EventsHold, MentionsHold,
           OnceHolds, [Next]_vars
    PROVE  OnceHolds'
<1>0. /\ schema' = schema /\ UniqueIds' = UniqueIds /\ FreshNames' = FreshNames
      /\ \A kind : Items(kind)' = Items(kind)
  BY SchemaStays, SchemaSame
<1> SUFFICES ASSUME UniqueIds, FreshNames
             PROVE  Once(out') /\ \A d \in Range1(out') : Place(d.id)'
  BY <1>0 DEF OnceHolds, Once, Range1
<1>1. Once(out) /\ \A d \in Range1(out) : Place(d.id) /\ Place(d.id)'
  BY PlaceStays DEF OnceHolds
<1>2. IsSeq(out)
  BY DEF MentionsHold
<1>3. ASSUME NEW d, out' = out \o <<d>>, Place(d.id)',
             \A e \in Range1(out) : e.id # d.id
      PROVE  Once(out') /\ \A e \in Range1(out') : Place(e.id)'
  <2>1. IsSeq(<<d>>) /\ Range1(<<d>>) = {d} /\ Once(<<d>>)
    BY SingleFacts, SingleOnce
  <2> DEFINE decls == <<d>>
  <2> HIDE DEF decls
  <2>2. IsSeq(decls) /\ Range1(decls) = {d} /\ Once(decls) /\ out' = out \o decls
    BY <1>3, <2>1 DEF decls
  <2>3. Once(out')
    BY <1>1, <1>3, <2>2, OnceMore
  <2>4. Range1(out \o decls) = Range1(out) \cup Range1(decls)
    BY <1>2, <2>2, JoinRange
  <2>5. \A e \in Range1(out') : e \in Range1(out) \/ e = d
    BY <2>2, <2>4
  <2> QED
    BY <1>1, <1>3, <2>3, <2>5
<1>4. CASE out' = out
  BY <1>1, <1>4
<1>5. CASE WroteItem
  <2> DEFINE v == Head(left)
  <2>1. CASE NoType(v)
    BY <1>4, <1>5, <2>1 DEF WroteItem
  <2>2. CASE ~NoType(v)
    <3>1. /\ phase = "process" /\ left # <<>> /\ left' = Tail(left)
          /\ v.kind \notin {"struct", "combined"}
      BY <1>5 DEF WroteItem
    <3> PICK d : d.id = v.id /\ out' = out \o <<d>>
      BY <1>5, <2>2 DEF WroteItem
    <3>2. \A e \in Range1(out) : e.id # d.id
      BY <1>1, <2>2, <3>1, ItemIsNew
    <3>3. /\ NumProcessed' = NumProcessed + 1 /\ NumProcessed \in Nat
          /\ schema[NumProcessed + 1] = v
      BY <1>0, <3>1, LeftStep, PlaceFacts
    <3>4. Place(d.id)'
      <4> PICK n \in 1 .. NumProcessed' : n = NumProcessed + 1
        BY <3>3
      <4>1. ~NoType(schema[n])' /\ schema'[n].id = d.id /\ schema'[n].kind = v.kind
        BY <1>0, <2>2, <3>3 DEF NoType
      <4> QED
        BY <3>1, <4>1 DEF Place
    <3> QED
      BY <1>3, <3>2, <3>4
  <2> QED
    BY <2>1, <2>2
<1>6. CASE WroteStruct
  <2> PICK id \in todo : \E d :
         /\ todo' = todo \ {id} /\ d.id = id /\ out' = out \o <<d>>
         /\ Mentioned(d) \subseteq AllTypes
    BY <1>6 DEF WroteStruct
  <2> PICK d : todo' = todo \ {id} /\ d.id = id /\ out' = out \o <<d>>
    OBVIOUS
  <2>1. phase = "structs" /\ phase' = "structs"
    BY <1>6 DEF WroteStruct
  <2> PICK v \in Items("struct") : v.id = id
    BY SMTT(30), <2>1 DEF Maps, LoopsHold, MapsHold, Ids
  <2>2. \A e \in Range1(out) : e.id # d.id
    BY <1>1, <2>1, StructIsNew
  <2>3. Place(d.id)'
    <3>1. v \in Items("struct")' /\ v.id \notin todo'
      BY <1>0
    <3> QED
      BY <2>1, <3>1 DEF Place
  <2> QED
    BY <1>3, <2>2, <2>3
<1>7. CASE WroteEvents
  <2> PICK d : d.id = "Event" /\ out' = out \o <<d>>
    BY <1>7 DEF WroteEvents
  <2>1. phase = "structs" /\ phase' = "done"
    BY <1>7 DEF WroteEvents
  <2>2. \A e \in Range1(out) : e.id # d.id
    BY <1>1, <2>1, EventIsNew
  <2>3. Place(d.id)'
    BY <2>1 DEF Place
  <2> QED
    BY <1>3, <2>2, <2>3
<1>8. CASE WroteUnion
  <2> PICK id \in todo, v \in Items("combined") : \E d :
         /\ todo' = todo \ {id} /\ v.id = id /\ d.id = id
         /\ out' = out \o (<<d>> \o BaseOut(v))
         /\ Mentioned(d) \subseteq
               AllTypes \cup (IF CreateBase(v) THEN {BaseId(v)} ELSE {})
    BY <1>8 DEF WroteUnion
  <2> PICK d : /\ todo' = todo \ {id} /\ v.id = id /\ d.id = id
               /\ out' = out \o (<<d>> \o BaseOut(v))
    OBVIOUS
  <2>1. phase = "unions" /\ phase' = "unions"
    BY <1>8 DEF WroteUnion
  <2> DEFINE decls == <<d>> \o BaseOut(v)
             one == <<d>>
  <2>2. IsSeq(one) /\ Range1(one) = {d} /\ Once(one)
    BY SingleFacts, SingleOnce
  <2>3. /\ IsSeq(BaseOut(v)) /\ Once(BaseOut(v))
        /\ \A e \in Range1(BaseOut(v)) : CreateBase(v) /\ e.id = BaseId(v)
    BY BaseOutFacts
  <2>4. CreateBase(v) => BaseId(v) # v.id
    BY FreshFacts
  <2> HIDE DEF one
  <2>5. IsSeq(one \o BaseOut(v)) /\ Once(one \o BaseOut(v))
        /\ Range1(one \o BaseOut(v)) = {d} \cup Range1(BaseOut(v))
    BY <2>2, <2>3, <2>4, JoinRange, JoinOnce
  <2>6. IsSeq(decls) /\ Once(decls) /\ Range1(decls) = {d} \cup Range1(BaseOut(v))
    BY <2>5 DEF one
  <2> HIDE DEF decls
  <2>7. out' = out \o decls
    BY DEF decls
  <2>8. \A e \in Range1(out) : \A f \in Range1(decls) : e.id # f.id
    <3> SUFFICES ASSUME NEW e \in Range1(out), NEW f \in Range1(decls)
                 PROVE  e.id # f.id
      OBVIOUS
    <3>1. e.id # v.id /\ (CreateBase(v) => e.id # BaseId(v))
      <4>1. Place(e.id) /\ v.id \in todo
        BY <1>1
      <4> QED
        BY <2>1, <4>1, UnionIsNew
    <3>2. f.id = v.id \/ (CreateBase(v) /\ f.id = BaseId(v))
      BY <2>3, <2>6
    <3> QED
      BY <3>1, <3>2
  <2>9. Once(out')
    BY <1>1, <2>6, <2>7, <2>8, OnceMore
  <2>10. \A e \in Range1(out') : e \in Range1(out) \/ e \in Range1(decls)
    <3>1. Range1(out \o decls) = Range1(out) \cup Range1(decls)
      BY <1>2, <2>6, JoinRange
    <3> QED
      BY <2>7, <3>1
  <2>11. ASSUME NEW e \in Range1(decls) PROVE Place(e.id)'
    <3>1. v \in Items("combined")' /\ v.id \notin todo' /\ phase' # "process"
      BY <1>0, <2>1
    <3>2. e.id = v.id \/ (CreateBase(v)' /\ e.id = BaseId(v)')
      BY <2>3, <2>6 DEF CreateBase, BaseId
    <3> QED
      BY <3>1, <3>2 DEF Place
  <2> QED
    BY <1>1, <2>9, <2>10, <2>11
<1>9. CASE WroteNothing
  BY <1>4, <1>9 DEF WroteNothing
<1> QED
  BY <1>5, <1>6, <1>7, <1>8, <1>9, Writes

-----------------------------------------------------------------------------
(* What is written out is closed.                                            *)

WrittenInv ==
    /\ LeftSuffix /\ StructsMention /\ EventsHold
    /\ MentionsHold /\ AllWritten /\ OnceHolds

LEMMA WrittenInit == Init => WrittenInv
<1> SUFFICES ASSUME Init PROVE WrittenInv
  OBVIOUS
<1>1. /\ schema \in Seq(ItemType) /\ left = schema /\ phase = "process"
      /\ types = <<>> /\ unions = <<>> /\ events = <<>> /\ out = <<>>
  BY CodegenAssumption DEF Init
<1>2. DOMAIN types = {} /\ DOMAIN unions = {}
  BY <1>1
<1>3. LeftSuffix
  <2>1. Len(schema) \in Nat
    BY <1>1
  <2>2. NumProcessed = 0 /\ Len(left) <= Len(schema)
    BY <1>1, <2>1 DEF NumProcessed
  <2>3. \A i \in DOMAIN left : i + 0 = i
    BY <1>1
  <2> QED
    BY <1>1, <2>2, <2>3 DEF LeftSuffix
<1>4. StructsMention /\ EventsHold
  BY <1>1, <1>2 DEF StructsMention, EventsHold
<1>5. IsSeq(out) /\ Range1(out) = {} /\ DOMAIN out = {}
  BY <1>1, NothingFacts
<1>6. MentionsHold
  BY <1>5 DEF MentionsHold
<1>7. AllWritten
  BY <1>1, <1>2 DEF AllWritten
<1>8. OnceHolds
  BY <1>5 DEF OnceHolds, Once
<1> QED
  BY <1>3, <1>4, <1>6, <1>7, <1>8 DEF WrittenInv

LEMMA WrittenStep == Maps /\ WrittenInv /\ [Next]_vars => WrittenInv'
<1> SUFFICES ASSUME Maps, WrittenInv, [Next]_vars PROVE WrittenInv'
  OBVIOUS
<1>1. /\ LeftSuffix /\ StructsMention /\ EventsHold
      /\ MentionsHold /\ AllWritten /\ OnceHolds
  BY DEF WrittenInv
<1>2. LeftSuffix' /\ EventsHold' /\ StructsMention'
  BY <1>1, LeftSuffixStep, EventsStep, StructsStep
<1>3. MentionsHold'
  BY <1>1, MentionsStep
<1>4. AllWritten'
  BY <1>1, AllWrittenStep
<1>5. OnceHolds'
  BY <1>1, OnceStep
<1> QED
  BY <1>2, <1>3, <1>4, <1>5 DEF WrittenInv

LEMMA WrittenClosed == Maps /\ WrittenInv => OutClosed
<1> SUFFICES ASSUME Maps, WrittenInv, Done PROVE
      /\ Closed => \A d \in Range1(out) : \A type \in Mentioned(d) :
             type \in Scalars \/ \E e \in Range1(out) : e.id = type
      /\ UniqueIds /\ FreshNames => Once(out)
  BY DEF OutClosed, Once
<1>1. /\ MentionsHold /\ AllWritten /\ OnceHolds /\ phase = "done"
  BY DEF WrittenInv, Done
<1>2. ASSUME NEW v \in Range1(schema), ~NoType(v) PROVE v.id \in IdsOut
  <2>1. left = <<>> /\ Range1(left) = {}
    BY <1>1, NothingFacts DEF AllWritten
  <2>2. v \in Items(v.kind)
    BY DEF Items, Range1
  <2>3. CASE v.kind = "struct"
    <3>1. v.id \in DOMAIN types
      BY <2>1, <2>2, <2>3 DEF Maps, MapsComplete
    <3> QED
      BY <1>1, <3>1 DEF AllWritten
  <2>4. CASE v.kind = "combined"
    <3>1. v.id \in DOMAIN unions
      BY <2>1, <2>2, <2>4 DEF Maps, MapsComplete
    <3> QED
      BY <1>1, <3>1 DEF AllWritten
  <2>5. CASE v.kind \notin {"struct", "combined"}
    BY <1>1, <1>2, <2>1, <2>5 DEF AllWritten
  <2> QED
    BY <2>3, <2>4, <2>5
<1>3. ASSUME Closed, NEW type \in AllTypes PROVE type \in Scalars \cup IdsOut
  <2>1. CASE type \in Scalars
    BY <2>1
  <2>2. CASE type \in Ids("event")
    <3> PICK v \in Items("event") : v.id = type
      BY <2>2 DEF Ids
    <3>1. v.kind = "event" /\ v \in Range1(schema)
      BY ItemKind DEF Items, Range1
    <3>2. ~NoType(v)
      BY <3>1 DEF NoType
    <3> QED
      BY <1>2, <3>1, <3>2
  <2>3. CASE \E v \in Range1(schema) : type \in Mentions(v)
    <3>1. Declared(type)
      BY <1>3, <2>3 DEF Closed
    <3> QED
      BY <1>2, <3>1 DEF Declared
  <2> QED
    BY <2>1, <2>2, <2>3 DEF AllTypes
<1>4. ASSUME Closed, NEW d \in Range1(out), NEW type \in Mentioned(d)
      PROVE  type \in Scalars \/ \E e \in Range1(out) : e.id = type
  <2>1. type \in AllTypes \cup IdsOut
    BY <1>1 DEF MentionsHold
  <2>2. type \in Scalars \cup IdsOut
    BY <1>3, <1>4, <2>1
  <2> QED
    BY <2>2 DEF IdsOut
<1> QED
  BY <1>1, <1>4 DEF OnceHolds

\* For every schema that has the types it mentions, the generated code has the
\* types it mentions, the base structs it makes up included; for every schema
\* that uses no name twice and none of the names that are made up, it declares
\* no type twice.
THEOREM GeneratedTypesAreClosed == Spec => []OutClosed
<1>1. IInv => Maps
  BY DEF IInv
<1>2. Maps /\ WrittenInv => OutClosed
  BY WrittenClosed
<1> QED
  BY CodegenInvariant, <1>1, <1>2, WrittenInit, WrittenStep, PTL DEF Spec

-----------------------------------------------------------------------------
(* What of a struct is written out.                                          *)

\* The unions that have the struct s as their base.
UnionsOn(id) == {u \in Items("combined") : u.base.kind # "data" /\ u.base.type = id}

\* Of those the one that comes last.
LastOn(id) == {u \in UnionsOn(id) : \A w \in UnionsOn(id) : ~Precedes(u.id, w.id)}

\* The struct as the schema has it, or without a discriminator.
StructAs(s, members) == StructOut(s.id, StructBase(s) \o Fields(members))
StructForm(d, s) ==
    \/ UnionsOn(s.id) = {} /\ d = StructAs(s, s.data)
    \/ \E u \in LastOn(s.id) : d = StructAs(s, Others(s.data, Discrim(u)))

StructsAsInSchema ==
    Done /\ UniqueIds =>
        \A s \in Items("struct") : \E d \in Range1(out) : StructForm(d, s)

\* The discriminators that are noted, and those that are still to be.
NotedHold ==
    /\ phase = "process" => DOMAIN struct_discriminators = {}
    /\ \A id \in DOMAIN struct_discriminators : \E u \in UnionsOn(id) :
          /\ struct_discriminators[id] = Discrim(u)
          /\ phase = "unions" => u.id \notin todo
          /\ \A w \in UnionsOn(id) : \/ phase = "unions" /\ w.id \in todo
                                     \/ phase \in {"panicked", "notfound"}
                                     \/ ~Precedes(u.id, w.id)
    /\ \A u \in Items("combined") :
          \/ u.base.kind = "data" \/ phase \in {"process", "panicked", "notfound"}
          \/ phase = "unions" /\ u.id \in todo
          \/ u.base.type \in DOMAIN struct_discriminators
    /\ phase = "unions" =>
          \A p \in DOMAIN unions \ todo : \A t \in todo : ~Precedes(t, p)

\* The member is gone when the structs are written out.
FormHold ==
    phase \in {"structs", "done"} =>
        \A id \in DOMAIN types : \A s \in Items("struct") :
            s.id = id => \/ UnionsOn(id) = {} /\ types[id] = s
                         \/ \E u \in LastOn(id) : types[id] =
                               [s EXCEPT !.data = Others(s.data, Discrim(u))]

\* The structs that are written out.
StructsOut ==
    /\ phase = "structs" => \A id \in DOMAIN types \ todo :
          StructAs(types[id], types[id].data) \in Range1(out)
    /\ phase = "done" => \A id \in DOMAIN types :
          StructAs(types[id], types[id].data) \in Range1(out)

\* Only the loop over the unions notes a discriminator.
LEMMA NotedStep ==
    ASSUME Maps, UniqueIds, NotedHold, [Next]_vars PROVE NotedHold'
<1>0. /\ schema' = schema /\ \A kind : Items(kind)' = Items(kind)
      /\ \A id : UnionsOn(id)' = UnionsOn(id) /\ LastOn(id)' = LastOn(id)
  <2>1. schema' = schema /\ \A kind : Items(kind)' = Items(kind)
    BY SchemaStays, SchemaSame
  <2> QED
    BY <2>1 DEF UnionsOn, LastOn
<1>1. CASE GenerateUnion
  <2>1. phase = "unions" /\ phase' = "unions"
    BY <1>1 DEF GenerateUnion, Generating
  <2> PICK id \in todo : /\ todo' = todo \ {id} /\ Strip(unions[id])
                         /\ \A other \in todo : ~Precedes(other, id)
    BY <1>1 DEF GenerateUnion, Generating
  <2>9. \A other \in todo : ~Precedes(other, id)
    OBVIOUS
  <2> PICK v \in Items("combined") : v = unions[id] /\ v.id = id
    BY <2>1 DEF Maps, LoopsHold, MapsHold, MapOf
  <2>2. \A u \in Items("combined") : u.id = id => u = v
    <3> SUFFICES ASSUME NEW u \in Items("combined"), u.id = id PROVE u = v
      OBVIOUS
    <3>1. u.kind = "combined" /\ v.kind = "combined"
      BY ItemKind
    <3>2. ~NoType(u) /\ ~NoType(v)
      BY <3>1 DEF NoType
    <3> QED
      BY <3>2, UniqueItem
  <2>5. v.id \in todo /\ todo' = todo \ {v.id}
    OBVIOUS
  <2>6. ~Precedes(v.id, v.id)
    BY CodegenAssumption DEF Precedes
  <2>7. \A w \in Items("combined") : w.id \in todo \/ ~Precedes(v.id, w.id)
    <3>1. \A w \in Items("combined") : w.id \in DOMAIN unions
      <4>1. left = <<>> /\ Range1(left) = {}
        BY <2>1, NothingFacts DEF Maps, LoopsHold
      <4> QED
        BY <4>1 DEF Maps, MapsComplete
    <3> QED
      BY <2>1, <2>5, <3>1 DEF NotedHold
  <2>8. \A p \in DOMAIN unions' \ todo' : \A t \in todo' : ~Precedes(t, p)
    <3>1. unions' = unions /\ \A t \in todo' : ~Precedes(t, v.id)
      BY <1>1, <2>5, <2>9 DEF GenerateUnion
    <3> QED
      BY <2>1, <2>5, <3>1 DEF NotedHold
  <2>3. CASE v.base.kind = "data"
    <3>1. struct_discriminators' = struct_discriminators
      BY <2>3 DEF Strip
    <3>2. \A x : \A w \in UnionsOn(x) : w # v
      BY <2>3 DEF UnionsOn
    <3>3. ASSUME NEW x \in DOMAIN struct_discriminators'
          PROVE  \E u \in UnionsOn(x) :
                    /\ struct_discriminators'[x] = Discrim(u) /\ u.id \notin todo'
                    /\ \A w \in UnionsOn(x) : w.id \in todo' \/ ~Precedes(u.id, w.id)
      <4> PICK u \in UnionsOn(x) :
               /\ struct_discriminators[x] = Discrim(u) /\ u.id \notin todo
               /\ \A w \in UnionsOn(x) : w.id \in todo \/ ~Precedes(u.id, w.id)
        BY <2>1, <3>1 DEF NotedHold
      <4>1. \A w \in UnionsOn(x) : w.id \in todo' \/ ~Precedes(u.id, w.id)
        BY <2>2, <2>5, <3>2 DEF UnionsOn
      <4> QED
        BY <2>5, <3>1, <4>1
    <3>4. \A u \in Items("combined") :
             \/ u.base.kind = "data" \/ u.id \in todo'
             \/ u.base.type \in DOMAIN struct_discriminators'
      BY <2>1, <2>2, <2>3, <3>1 DEF NotedHold
    <3> QED
      BY <1>0, <2>1, <2>8, <3>3, <3>4 DEF NotedHold, Discrim
  <2>4. CASE v.base.kind # "data"
    <3>1. struct_discriminators' =
             Put(struct_discriminators, v.base.type, Discrim(v))
      BY <2>4 DEF Strip
    <3>2. /\ DOMAIN struct_discriminators' =
                DOMAIN struct_discriminators \cup {v.base.type}
          /\ struct_discriminators'[v.base.type] = Discrim(v)
          /\ \A x \in DOMAIN struct_discriminators : x # v.base.type =>
                struct_discriminators'[x] = struct_discriminators[x]
      BY <3>1 DEF Put
    <3>3. v \in UnionsOn(v.base.type)
      BY <2>4 DEF UnionsOn
    <3>4. ASSUME NEW x \in DOMAIN struct_discriminators'
          PROVE  \E u \in UnionsOn(x) :
                    /\ struct_discriminators'[x] = Discrim(u) /\ u.id \notin todo'
                    /\ \A w \in UnionsOn(x) : w.id \in todo' \/ ~Precedes(u.id, w.id)
      <4>1. CASE x = v.base.type
        <5>1. \A w \in UnionsOn(x) : w.id \in todo' \/ ~Precedes(v.id, w.id)
          BY <2>5, <2>6, <2>7 DEF UnionsOn
        <5> QED
          BY <2>5, <3>2, <3>3, <4>1, <5>1
      <4>2. CASE x # v.base.type
        <5> PICK u \in UnionsOn(x) :
               /\ struct_discriminators[x] = Discrim(u) /\ u.id \notin todo
               /\ \A w \in UnionsOn(x) : w.id \in todo \/ ~Precedes(u.id, w.id)
          BY <2>1, <3>2, <4>2 DEF NotedHold
        <5>1. \A w \in UnionsOn(x) : w # v
          BY <4>2 DEF UnionsOn
        <5>2. \A w \in UnionsOn(x) : w.id \in todo' \/ ~Precedes(u.id, w.id)
          BY <2>2, <2>5, <5>1 DEF UnionsOn
        <5> QED
          BY <2>5, <3>2, <4>2, <5>2
      <4> QED
        BY <4>1, <4>2
    <3>5. \A u \in Items("combined") :
             \/ u.base.kind = "data" \/ u.id \in todo'
             \/ u.base.type \in DOMAIN struct_discriminators'
      BY <2>1, <2>2, <3>2 DEF NotedHold
    <3> QED
      BY <1>0, <2>1, <2>8, <3>4, <3>5 DEF NotedHold, Discrim
  <2> QED
    BY <2>3, <2>4
<1>2. CASE Processed
  <2>1. \A u \in Items("combined") : u.id \in DOMAIN unions
    <3>1. left = <<>> /\ Range1(left) = {}
      BY <1>2, NothingFacts DEF Processed
    <3> QED
      BY <3>1 DEF Maps, MapsComplete
  <2> QED
    BY <1>0, <1>2, <2>1 DEF Processed, kept, NotedHold, Discrim
<1>3. CASE ~GenerateUnion /\ ~Processed
  <2>1. struct_discriminators' = struct_discriminators
    BY <1>3 DEF Next, Process, Generate, Finished, vars, kept, ProcessCommand,
       ProcessStruct, ProcessAlternate, ProcessEnum, ProcessEvent, ProcessUnion,
       ProcessCombinedUnion, GenerateUnionFails, UnionsDone,
       StripDiscriminators, GenerateStruct, GenerateEvents
  <2>2. \/ phase' = phase /\ (phase = "unions" => todo' = todo /\ unions' = unions)
        \/ phase' \in {"panicked", "notfound"}
        \/ phase = "unions" /\ todo = {} /\ phase' = "discriminators"
        \/ phase \notin {"process", "unions", "panicked", "notfound"}
           /\ phase' \notin {"process", "unions"}
    BY <1>3 DEF Next, Process, Generate, Finished, vars, kept, Processing,
       ProcessCommand, ProcessStruct, ProcessAlternate, ProcessEnum,
       ProcessEvent, ProcessUnion, ProcessCombinedUnion, GenerateUnionFails,
       Generating, Outcome, UnionsDone, StripDiscriminators, GenerateStruct,
       GenerateEvents
  <2> SUFFICES
        /\ phase' = "process" => DOMAIN struct_discriminators = {}
        /\ \A id \in DOMAIN struct_discriminators : \E u \in UnionsOn(id) :
              /\ struct_discriminators[id] = Discrim(u)
              /\ phase' = "unions" => u.id \notin todo'
              /\ \A w \in UnionsOn(id) : \/ phase' = "unions" /\ w.id \in todo'
                                         \/ phase' \in {"panicked", "notfound"}
                                         \/ ~Precedes(u.id, w.id)
        /\ \A u \in Items("combined") :
              \/ u.base.kind = "data" \/ phase' \in {"process", "panicked", "notfound"}
              \/ phase' = "unions" /\ u.id \in todo'
              \/ u.base.type \in DOMAIN struct_discriminators
        /\ phase' = "unions" =>
              \A p \in DOMAIN unions' \ todo' : \A t \in todo' : ~Precedes(t, p)
    BY <1>0, <2>1 DEF NotedHold, Discrim
  <2> USE DEF NotedHold
  <2>3. CASE phase' = phase /\ phase = "unions" /\ todo' = todo /\ unions' = unions
    BY <2>3
  <2>4. CASE phase' = phase /\ phase # "unions"
    BY <2>4
  <2>5. CASE phase' \in {"panicked", "notfound"}
    BY <2>5
  <2>6. CASE phase = "unions" /\ todo = {} /\ phase' = "discriminators"
    BY <2>6
  <2>7. CASE phase \notin {"process", "unions", "panicked", "notfound"}
             /\ phase' \notin {"process", "unions"}
    BY <2>7
  <2> QED
    BY <2>2, <2>3, <2>4, <2>5, <2>6, <2>7
<1> QED
  BY <1>1, <1>2, <1>3

\* Only StripDiscriminators takes a member away.
LEMMA FormStep ==
    ASSUME Maps, UniqueIds, NotedHold, FormHold, [Next]_vars PROVE FormHold'
<1>0. /\ schema' = schema /\ \A kind : Items(kind)' = Items(kind)
      /\ \A id : UnionsOn(id)' = UnionsOn(id) /\ LastOn(id)' = LastOn(id)
  <2>1. schema' = schema /\ \A kind : Items(kind)' = Items(kind)
    BY SchemaStays, SchemaSame
  <2> QED
    BY <2>1 DEF UnionsOn, LastOn
<1>1. CASE StripDiscriminators
  <2>0. phase = "discriminators" /\ phase' = "structs"
    BY <1>1 DEF StripDiscriminators
  <2> SUFFICES ASSUME NEW id \in DOMAIN types', NEW s \in Items("struct"), s.id = id
               PROVE  \/ UnionsOn(id) = {} /\ types'[id] = s
                      \/ \E u \in LastOn(id) : types'[id] =
                            [s EXCEPT !.data = Others(s.data, Discrim(u))]
    BY <1>0 DEF FormHold, Discrim, Others, KeepAt
  <2>1. id \in DOMAIN types /\ types[id] = s
    <3>1. id \in DOMAIN types
      BY <1>1 DEF StripDiscriminators
    <3>2. types[id] \in Items("struct") /\ types[id].id = id
      BY <2>0, <3>1 DEF Maps, MapsHold, MapOf
    <3>3. s.kind = "struct" /\ types[id].kind = "struct"
      BY <3>2, ItemKind
    <3>4. ~NoType(s) /\ ~NoType(types[id])
      BY <3>3 DEF NoType
    <3> QED
      BY <3>1, <3>2, <3>4, UniqueItem
  <2>2. CASE id \in DOMAIN struct_discriminators
    <3> PICK u \in LastOn(id) : struct_discriminators[id] = Discrim(u)
      BY <2>0, <2>2 DEF NotedHold, LastOn
    <3>1. types'[id] = [s EXCEPT !.data = Others(s.data, Discrim(u))]
      BY <1>1, <2>1, <2>2 DEF StripDiscriminators, Without
    <3> QED
      BY <3>1
  <2>3. CASE id \notin DOMAIN struct_discriminators
    <3>1. types'[id] = s
      BY <1>1, <2>1, <2>3 DEF StripDiscriminators
    <3>2. UnionsOn(id) = {}
      BY <2>0, <2>3 DEF NotedHold, UnionsOn
    <3> QED
      BY <3>1, <3>2
  <2> QED
    BY <2>2, <2>3
<1>2. CASE types' = types /\ (phase' \in {"structs", "done"} => phase \in {"structs", "done"})
  <2> SUFFICES ASSUME phase' \in {"structs", "done"},
                      NEW id \in DOMAIN types', NEW s \in Items("struct"), s.id = id
               PROVE  \/ UnionsOn(id) = {} /\ types'[id] = s
                      \/ \E u \in LastOn(id) : types'[id] =
                            [s EXCEPT !.data = Others(s.data, Discrim(u))]
    BY <1>0 DEF FormHold, Discrim, Others, KeepAt
  <2> QED
    BY <1>2 DEF FormHold
<1>3. CASE phase' \notin {"structs", "done"}
  BY <1>3 DEF FormHold
<1>4. \/ StripDiscriminators
      \/ types' = types /\ (phase' \in {"structs", "done"} => phase \in {"structs", "done"})
      \/ phase' \notin {"structs", "done"}
  BY DEF Next, Process, Generate, Finished, vars, kept, Processing,
     ProcessCommand, ProcessStruct, ProcessAlternate, ProcessEnum,
     ProcessEvent, ProcessUnion, ProcessCombinedUnion, Processed,
     GenerateUnion, Strip, GenerateUnionFails, Generating, Outcome, UnionsDone,
     GenerateStruct, GenerateEvents
<1> QED
  BY <1>1, <1>2, <1>3, <1>4

\* What is written out stays.
LEMMA OutGrows ==
    ASSUME Maps, StructsMention, EventsHold, MentionsHold, [Next]_vars
    PROVE  \A d \in Range1(out) : d \in Range1(out)'
<1>1. IsSeq(out)
  BY DEF MentionsHold
<1>2. ASSUME NEW d, out' = out \o <<d>>
      PROVE  \A e \in Range1(out) : e \in Range1(out)'
  <2>1. IsSeq(<<d>>)
    BY SingleFacts
  <2> DEFINE decls == <<d>>
  <2> HIDE DEF decls
  <2>2. IsSeq(decls) /\ out' = out \o decls
    BY <1>2, <2>1 DEF decls
  <2> QED
    BY <1>1, <2>2, JoinRange DEF Range1
<1>3. CASE out' = out
  BY <1>3 DEF Range1
<1>4. CASE WroteUnion
  <2> PICK d, v : v \in Items("combined") /\ out' = out \o (<<d>> \o BaseOut(v))
    BY <1>4 DEF WroteUnion
  <2>1. IsSeq(<<d>>) /\ IsSeq(BaseOut(v))
    BY SingleFacts, BaseOutFacts
  <2> DEFINE one == <<d>>
             decls == one \o BaseOut(v)
  <2> HIDE DEF one
  <2>2. IsSeq(decls)
    BY <2>1, JoinRange DEF one
  <2>3. out' = out \o decls
    BY DEF one
  <2> HIDE DEF decls
  <2> QED
    BY <1>1, <2>2, <2>3, JoinRange DEF Range1
<1>5. CASE WroteItem
  BY <1>2, <1>3, <1>5 DEF WroteItem
<1>6. CASE WroteStruct
  BY <1>2, <1>6 DEF WroteStruct
<1>7. CASE WroteEvents
  BY <1>2, <1>7 DEF WroteEvents
<1>8. CASE WroteNothing
  BY <1>3, <1>8 DEF WroteNothing
<1> QED
  BY <1>4, <1>5, <1>6, <1>7, <1>8, Writes

LEMMA StructsOutStep ==
    ASSUME Maps, StructsMention, EventsHold, MentionsHold, StructsOut, [Next]_vars
    PROVE  StructsOut'
<1>1. \A d \in Range1(out) : d \in Range1(out)'
  BY OutGrows
<1>2. CASE GenerateStruct
  <2>1. phase = "structs" /\ phase' = "structs" /\ types' = types
    BY <1>2 DEF GenerateStruct, Generating, kept
  <2> PICK id \in todo :
         /\ todo' = todo \ {id}
         /\ WriteOut(<<StructAs(types[id], types[id].data)>>)
    BY <1>2 DEF GenerateStruct, Generating, StructAs
  <2> DEFINE d == StructAs(types[id], types[id].data)
             decls == <<d>>
  <2>2. IsSeq(decls) /\ Range1(decls) = {d}
    BY SingleFacts
  <2>3. out' = out \o decls
    BY DEF WriteOut
  <2>4. IsSeq(out)
    BY DEF MentionsHold
  <2> HIDE DEF d, decls
  <2>5. d \in Range1(out)'
    <3>1. d \in Range1(out \o decls)
      BY <2>2, <2>4, JoinRange
    <3>2. Range1(out)' = Range1(out \o decls)
      BY <2>3 DEF Range1
    <3> QED
      BY <3>1, <3>2
  <2>6. \A x \in DOMAIN types : x \notin todo' =>
           StructAs(types[x], types[x].data) \in Range1(out)'
    <3> SUFFICES ASSUME NEW x \in DOMAIN types, x \notin todo'
                 PROVE  StructAs(types[x], types[x].data) \in Range1(out)'
      OBVIOUS
    <3>1. CASE x = id
      BY <2>5, <3>1 DEF d
    <3>2. CASE x # id
      BY <1>1, <2>1, <3>2 DEF StructsOut
    <3> QED
      BY <3>1, <3>2
  <2> QED
    BY <2>1, <2>6 DEF StructsOut, StructAs, StructBase
<1>3. CASE GenerateEvents
  <2>1. phase = "structs" /\ phase' = "done" /\ types' = types /\ todo = {}
    BY <1>3 DEF GenerateEvents, kept
  <2>2. \A x \in DOMAIN types :
           StructAs(types[x], types[x].data) \in Range1(out)'
    BY <1>1, <2>1 DEF StructsOut
  <2> QED
    BY <2>1, <2>2 DEF StructsOut, StructAs, StructBase
<1>4. CASE StripDiscriminators
  <2>1. phase' = "structs" /\ todo' = DOMAIN types'
    BY <1>4 DEF StripDiscriminators
  <2> QED
    BY <2>1 DEF StructsOut
<1>5. CASE types' = types /\ todo' = todo /\ phase' = phase
  BY <1>1, <1>5 DEF StructsOut, StructAs, StructBase
<1>6. CASE phase' \notin {"structs", "done"}
  BY <1>6 DEF StructsOut
<1>7. \/ GenerateStruct \/ GenerateEvents \/ StripDiscriminators
      \/ types' = types /\ todo' = todo /\ phase' = phase
      \/ phase' \notin {"structs", "done"}
  BY DEF Next, Process, Generate, Finished, vars, kept, Processing,
     ProcessCommand, ProcessStruct, ProcessAlternate, ProcessEnum,
     ProcessEvent, ProcessUnion, ProcessCombinedUnion, Processed,
     GenerateUnion, Strip, GenerateUnionFails, Generating, Outcome, UnionsDone
<1> QED
  BY <1>2, <1>3, <1>4, <1>5, <1>6, <1>7

\* All of it, for a schema that uses no name twice.
StructsInv == (UniqueIds => NotedHold /\ FormHold) /\ StructsOut

LEMMA StructsInit == Init => StructsInv
<1> SUFFICES ASSUME Init PROVE StructsInv
  OBVIOUS
<1>1. phase = "process" /\ struct_discriminators = <<>>
  BY DEF Init
<1>2. DOMAIN struct_discriminators = {}
  BY <1>1
<1> QED
  BY <1>1, <1>2 DEF StructsInv, NotedHold, FormHold, StructsOut

LEMMA StructsInvStep ==
    Maps /\ WrittenInv /\ StructsInv /\ [Next]_vars => StructsInv'
<1> SUFFICES ASSUME Maps, WrittenInv, StructsInv, [Next]_vars PROVE StructsInv'
  OBVIOUS
<1>1. StructsMention /\ EventsHold /\ MentionsHold /\ StructsOut
  BY DEF WrittenInv, StructsInv
<1>2. StructsOut'
  BY <1>1, StructsOutStep
<1>3. UniqueIds' = UniqueIds
  BY SchemaStays, SchemaSame
<1>4. UniqueIds => NotedHold' /\ FormHold'
  BY NotedStep, FormStep DEF StructsInv
<1> QED
  BY <1>2, <1>3, <1>4 DEF StructsInv

LEMMA StructsHold == Maps /\ WrittenInv /\ StructsInv => StructsAsInSchema
<1> SUFFICES ASSUME Maps, WrittenInv, StructsInv, Done, UniqueIds,
                    NEW s \in Items("struct")
             PROVE  \E d \in Range1(out) : StructForm(d, s)
  BY DEF StructsAsInSchema
<1>1. phase = "done" /\ FormHold /\ StructsOut
  BY DEF Done, StructsInv
<1>2. s.id \in DOMAIN types
  <2>1. left = <<>> /\ Range1(left) = {}
    BY <1>1, NothingFacts DEF WrittenInv, AllWritten
  <2> QED
    BY <2>1 DEF Maps, MapsComplete
<1> DEFINE d == StructAs(types[s.id], types[s.id].data)
<1>3. d \in Range1(out)
  BY <1>1, <1>2 DEF StructsOut
<1>4. CASE UnionsOn(s.id) = {} /\ types[s.id] = s
  BY <1>3, <1>4 DEF StructForm
<1>5. CASE \E u \in LastOn(s.id) : types[s.id] =
              [s EXCEPT !.data = Others(s.data, Discrim(u))]
  <2> PICK u \in LastOn(s.id) : types[s.id] =
              [s EXCEPT !.data = Others(s.data, Discrim(u))]
    BY <1>5
  <2>1. schema \in Seq(ItemType) /\ s \in ItemType
    BY DEF Maps, LoopsHold, Items
  <2>2. /\ types[s.id].id = s.id /\ types[s.id].base = s.base
        /\ types[s.id].data = Others(s.data, Discrim(u))
    BY <2>1 DEF ItemType
  <2>3. d = StructAs(s, Others(s.data, Discrim(u)))
    BY <2>2 DEF StructAs, StructBase
  <2> QED
    BY <1>3, <2>3 DEF StructForm
<1> QED
  BY <1>1, <1>2, <1>4, <1>5 DEF FormHold

\* Whatever the order of the unions, and however many have one base: every
\* struct is written out with the members it has in the schema, less the
\* discriminator of the union that comes last among those that have it as
\* their base, and with nothing less if there is no such union.
THEOREM StructsAreOfSchema == Spec => []StructsAsInSchema
<1>1. IInv => Maps
  BY DEF IInv
<1>2. Maps /\ WrittenInv /\ StructsInv => StructsAsInSchema
  BY StructsHold
<1> QED
  BY CodegenInvariant, <1>1, <1>2, WrittenInit, WrittenStep, StructsInit,
     StructsInvStep, PTL DEF Spec

-----------------------------------------------------------------------------
(* What of a union is written out.                                           *)

Distinct(s) == \A i, j \in DOMAIN s : s[i] = s[j] => i = j
BranchesDiffer(v) ==
    \A i, j \in DOMAIN v.data : v.data[i].name = v.data[j].name => i = j

\* The enumeration of the discriminator, as the schema has it.
ValuesIn(v, e) == \E members \in BaseMembers(v) :
    Has(members, Discrim(v)) /\ e.id = Find(members, Discrim(v)).type

\* Every value has a variant, with the branch of that name flattened into it.
UnionForm(d, v) ==
    /\ d.id = v.id /\ d.tag = Discrim(v)
    /\ \E e \in Items("enum") :
        /\ ValuesIn(v, e)
        /\ Range1(e.values) = {w.name : w \in Range1(d.variants)}
        /\ BranchesDiffer(v) /\ Distinct(e.values) =>
              \A i, j \in DOMAIN d.variants :
                  d.variants[i].name = d.variants[j].name => i = j
    /\ \A w \in Range1(d.variants) : Has(v.data, w.name) =>
          \E f \in Range1(w.fields) : f.flat /\ f.type = Find(v.data, w.name).type

UnionsCoverValues ==
    Done /\ UniqueIds =>
        \A v \in Items("combined") : \E d \in Range1(out) : UnionForm(d, v)

\* filter() leaves out no element that it should keep, and gives none twice.
LEMMA KeepAtAll ==
    ASSUME NEW S, NEW s \in Seq(S), NEW places, places \subseteq DOMAIN s
    PROVE  /\ \A i \in places : \E n \in DOMAIN KeepAt(s, places) :
                 KeepAt(s, places)[n] = s[i]
           /\ Distinct(s) => Distinct(KeepAt(s, places))
<1> DEFINE UpTo(i) == {j \in places : j <= i}
           Nth(n) == CHOOSE i \in places : Cardinality(UpTo(i)) = n
           t == KeepAt(s, places)
<1>1. Len(s) \in Nat /\ places \subseteq 1 .. Len(s)
  OBVIOUS
<1>2. /\ DOMAIN t = 1 .. Cardinality(places)
      /\ \A n \in 1 .. Cardinality(places) : t[n] = s[Nth(n)]
  BY DEF KeepAt
<1>3. \A U \in SUBSET places : IsFiniteSet(U) /\ Cardinality(U) \in Nat
  <2>1. IsFiniteSet(1 .. Len(s))
    BY <1>1, FS_Interval
  <2>2. \A U \in SUBSET places : IsFiniteSet(U)
    BY <1>1, <2>1, FS_Subset
  <2> QED
    BY <2>2, FS_CardinalityType
<1>4. ASSUME NEW n \in 1 .. Cardinality(places)
      PROVE  Nth(n) \in places /\ Cardinality(UpTo(Nth(n))) = n
  <2>1. \E i \in places : Cardinality(UpTo(i)) = n
    BY <1>1, NthExists
  <2> HIDE DEF UpTo
  <2> QED
    BY <2>1
<1>5. ASSUME NEW i \in places, NEW k \in places, i < k
      PROVE  Cardinality(UpTo(i)) # Cardinality(UpTo(k))
  <2>1. i \in Nat /\ k \in Nat /\ \A j \in places : j \in Nat
    BY <1>1
  <2>2. k \in UpTo(k) /\ k \notin UpTo(i)
    BY <1>5, <2>1
  <2>3. UpTo(i) \subseteq UpTo(k)
    <3>1. \A j \in Nat : j <= i => j <= k
      BY <1>5, <2>1
    <3> QED
      BY <2>1, <3>1
  <2> HIDE DEF UpTo
  <2>4. IsFiniteSet(UpTo(k))
    BY <1>3 DEF UpTo
  <2> QED
    BY <2>2, <2>3, <2>4, FS_Subset
<1>6. ASSUME NEW i \in places, NEW k \in places,
             Cardinality(UpTo(i)) = Cardinality(UpTo(k))
      PROVE  i = k
  <2>1. i \in Nat /\ k \in Nat
    BY <1>1
  <2>2. i < k \/ k < i \/ i = k
    BY <2>1
  <2> HIDE DEF UpTo
  <2> QED
    BY <1>5, <1>6, <2>2
<1>7. ASSUME NEW i \in places
      PROVE  \E n \in DOMAIN t : t[n] = s[i]
  <2> DEFINE n == Cardinality(UpTo(i))
  <2>1. i \in UpTo(i) /\ UpTo(i) \subseteq places
    BY <1>1
  <2>2. n \in 1 .. Cardinality(places)
    <3> HIDE DEF UpTo
    <3>1. IsFiniteSet(places) /\ IsFiniteSet(UpTo(i)) /\ n \in Nat
          /\ Cardinality(places) \in Nat
      BY <1>3, <2>1
    <3>2. n <= Cardinality(places)
      BY <2>1, <3>1, FS_Subset
    <3>3. n # 0
      BY <2>1, <3>1, FS_EmptySet
    <3> HIDE DEF n
    <3> QED
      BY <3>1, <3>2, <3>3
  <2> HIDE DEF n, Nth, UpTo
  <2>3. Nth(n) \in places /\ Cardinality(UpTo(Nth(n))) = n
    BY <1>4, <2>2
  <2>4. Nth(n) = i
    BY <1>6, <2>3 DEF n
  <2> QED
    BY <1>2, <2>2, <2>4
<1>8. ASSUME Distinct(s), NEW n \in DOMAIN t, NEW m \in DOMAIN t, t[n] = t[m]
      PROVE  n = m
  <2> HIDE DEF Nth, UpTo
  <2>1. Nth(n) \in places /\ Nth(m) \in places
        /\ Cardinality(UpTo(Nth(n))) = n /\ Cardinality(UpTo(Nth(m))) = m
    BY <1>2, <1>4
  <2>2. Nth(n) = Nth(m)
    BY <1>2, <1>8, <2>1 DEF Distinct
  <2> QED
    BY <2>1, <2>2
<1> QED
  BY <1>7, <1>8 DEF Distinct

\* The names of the variants: those of the branches, then the values that have
\* none.
LEMMA VariantNames ==
    ASSUME NEW v, v.data \in Seq(MemberType), Values(v) \in Seq(STRING),
           \A i \in DOMAIN v.data : ~NoValue(v.data[i], v)
    PROVE  /\ Range1(Values(v)) = {w.name : w \in Range1(Variants(v))}
           /\ BranchesDiffer(v) /\ Distinct(Values(v)) =>
                 \A i, j \in DOMAIN Variants(v) :
                     Variants(v)[i].name = Variants(v)[j].name => i = j
<1> DEFINE places == {i \in DOMAIN Values(v) : ~Has(v.data, Values(v)[i])}
           rest   == KeepAt(Values(v), places)
           own    == [i \in DOMAIN v.data |-> v.data[i].name]
           names  == own \o rest
<1>1. Variants(v) =
         [i \in DOMAIN names |-> Variant(names[i], VariantFields(v, names[i]))]
  BY DEF Variants
<1>2. own \in Seq(STRING) /\ Range1(own) \subseteq Range1(Values(v))
  <2>1. \A i \in DOMAIN v.data : v.data[i].name \in STRING
    <3>1. \A i \in DOMAIN v.data : v.data[i] \in MemberType
      OBVIOUS
    <3> QED
      BY <3>1 DEF MemberType
  <2>2. \A i \in DOMAIN v.data : v.data[i].name \in Range1(Values(v))
    BY DEF NoValue, Range1
  <2>3. DOMAIN own = DOMAIN v.data /\ \A i \in DOMAIN own : own[i] = v.data[i].name
    OBVIOUS
  <2>4. own \in Seq(STRING)
    BY <2>1
  <2> HIDE DEF own
  <2> QED
    BY <2>2, <2>3, <2>4 DEF Range1
<1>3. /\ rest \in Seq(STRING)
      /\ \A n \in DOMAIN rest : \E i \in places : rest[n] = Values(v)[i]
      /\ \A i \in places : \E n \in DOMAIN rest : rest[n] = Values(v)[i]
      /\ Distinct(Values(v)) => Distinct(rest)
  <2>1. places \subseteq DOMAIN Values(v)
    OBVIOUS
  <2> HIDE DEF places
  <2> QED
    BY <2>1, KeepAtFacts, KeepAtAll
<1>4. \A n \in DOMAIN rest : rest[n] \in Range1(Values(v)) /\ ~Has(v.data, rest[n])
  BY <1>3 DEF Range1
<1>5. \A n \in Range1(Values(v)) : Has(v.data, n) => n \in Range1(own)
  <2> SUFFICES ASSUME NEW n, Has(v.data, n) PROVE n \in Range1(own)
    OBVIOUS
  <2> PICK i \in DOMAIN v.data : v.data[i].name = n
    BY DEF Has
  <2>1. i \in DOMAIN own /\ own[i] = n
    OBVIOUS
  <2> HIDE DEF own
  <2> QED
    BY <2>1 DEF Range1
<1>6. \A n \in Range1(Values(v)) : ~Has(v.data, n) => n \in Range1(rest)
  <2> SUFFICES ASSUME NEW i \in DOMAIN Values(v), ~Has(v.data, Values(v)[i])
               PROVE  Values(v)[i] \in Range1(rest)
    BY DEF Range1
  <2>1. i \in places
    OBVIOUS
  <2> HIDE DEF places, rest
  <2> QED
    BY <1>3, <2>1 DEF Range1
<1>7. \A i \in DOMAIN own : Has(v.data, own[i])
  BY DEF Has
<1>8. BranchesDiffer(v) => Distinct(own)
  BY DEF BranchesDiffer, Distinct
<1> HIDE DEF own, rest
<1>9. Range1(names) = Range1(Values(v))
  <2>1. IsSeq(own) /\ IsSeq(rest)
    BY <1>2, <1>3 DEF IsSeq, Range1
  <2>2. Range1(names) = Range1(own) \cup Range1(rest)
    BY <2>1, JoinRange
  <2>3. Range1(rest) \subseteq Range1(Values(v))
    BY <1>4 DEF Range1
  <2> QED
    BY <1>2, <1>5, <1>6, <2>2, <2>3
<1>10. BranchesDiffer(v) /\ Distinct(Values(v)) => Distinct(names)
  <2> SUFFICES ASSUME Distinct(own), Distinct(rest),
                      NEW i \in DOMAIN names, NEW j \in DOMAIN names,
                      names[i] = names[j]
               PROVE  i = j
    BY <1>3, <1>8 DEF Distinct
  <2>1. /\ Len(own) \in Nat /\ Len(rest) \in Nat
        /\ DOMAIN names = 1 .. Len(own) + Len(rest)
        /\ DOMAIN own = 1 .. Len(own) /\ DOMAIN rest = 1 .. Len(rest)
        /\ \A n \in 1 .. Len(own) : names[n] = own[n]
        /\ \A n \in 1 .. Len(rest) : names[n + Len(own)] = rest[n]
    BY <1>2, <1>3, JoinFacts
  <2> HIDE DEF names
  <2>2. ASSUME NEW n \in DOMAIN names, n \notin DOMAIN own
        PROVE  n - Len(own) \in DOMAIN rest /\ names[n] = rest[n - Len(own)]
    <3>1. n \in 1 .. Len(own) + Len(rest) /\ n \notin 1 .. Len(own)
      BY <2>1, <2>2
    <3>2. n - Len(own) \in 1 .. Len(rest) /\ (n - Len(own)) + Len(own) = n
      BY <2>1, <3>1
    <3> QED
      BY <2>1, <3>2
  <2>3. CASE i \in DOMAIN own /\ j \in DOMAIN own
    BY <2>1, <2>3 DEF Distinct
  <2>4. CASE i \in DOMAIN own /\ j \notin DOMAIN own
    BY <1>4, <1>7, <2>1, <2>2, <2>4
  <2>5. CASE i \notin DOMAIN own /\ j \in DOMAIN own
    BY <1>4, <1>7, <2>1, <2>2, <2>5
  <2>6. CASE i \notin DOMAIN own /\ j \notin DOMAIN own
    <3>1. i - Len(own) = j - Len(own)
      BY <2>2, <2>6 DEF Distinct
    <3> QED
      BY <2>1, <3>1
  <2> QED
    BY <2>3, <2>4, <2>5, <2>6
<1> HIDE DEF names
<1>11. DOMAIN Variants(v) = DOMAIN names
       /\ \A i \in DOMAIN names : Variants(v)[i].name = names[i]
  BY <1>1 DEF Variant
<1>12. Range1(names) = {w.name : w \in Range1(Variants(v))}
  BY <1>11 DEF Range1
<1> QED
  BY <1>9, <1>10, <1>11, <1>12 DEF Distinct

\* The branch is flattened into the variant of its name.
LEMMA VariantBranch ==
    ASSUME NEW v, NEW name, Has(v.data, name)
    PROVE  \E f \in Range1(VariantFields(v, name)) :
               f.flat /\ f.type = Find(v.data, name).type
<1> DEFINE m == Find(v.data, name)
<1>1. CASE Base(v) # <<>>
  <2> DEFINE g == Field(Base(v)[1], Base(v)[1].name = "base")
             f == Field(m, TRUE)
  <2>1. VariantFields(v, name) = <<g, f>>
    BY <1>1 DEF VariantFields
  <2>2. f.flat /\ f.type = m.type
    BY DEF Field
  <2>3. f \in Range1(<<g, f>>)
    <3> HIDE DEF f, g
    <3>1. DOMAIN <<g, f>> = {1, 2} /\ <<g, f>>[2] = f
      OBVIOUS
    <3> QED
      BY <3>1 DEF Range1
  <2> QED
    BY <2>1, <2>2, <2>3
<1>2. CASE Base(v) = <<>>
  <2> DEFINE f == [Field(m, TRUE) EXCEPT !.opt = FALSE]
  <2>1. VariantFields(v, name) = <<f>>
    BY <1>2 DEF VariantFields, Newtype
  <2>2. f.flat /\ f.type = m.type
    BY DEF Field
  <2>3. f \in Range1(<<f>>)
    <3> HIDE DEF f
    <3> QED
      BY SingleFacts
  <2> QED
    BY <2>1, <2>2, <2>3
<1> QED
  BY <1>1, <1>2

\* The form depends on the schema only.
LEMMA FormSame ==
    ASSUME schema' = schema, NEW d, NEW v, UnionForm(d, v)
    PROVE  UnionForm(d, v)'
<1>1. \A kind : Items(kind)' = Items(kind)
  BY SchemaSame
<1>2. BaseMembers(v)' = BaseMembers(v) /\ Discrim(v)' = Discrim(v)
  BY <1>1 DEF BaseMembers, Discrim
<1>3. \A e : ValuesIn(v, e) => ValuesIn(v, e)'
  BY <1>2 DEF ValuesIn, Has, Find
<1> QED
  BY <1>1, <1>2, <1>3 DEF UnionForm, BranchesDiffer, Distinct, Range1, Has, Find

\* What process_unions writes has this form.
LEMMA UnionHasForm ==
    ASSUME Maps, phase = "unions", NEW v \in Items("combined"),
           Outcome(v) = "generated"
    PROVE  UnionForm(EnumOut(v.id, Discrim(v), Variants(v)), v)
<1> DEFINE d == EnumOut(v.id, Discrim(v), Variants(v))
           m == Find(BaseFields(v), Discrim(v))
<1>1. d.id = v.id /\ d.tag = Discrim(v) /\ d.variants = Variants(v)
  BY DEF EnumOut
<1>2. v \in ItemType /\ v.data \in Seq(MemberType)
  <2>1. schema \in Seq(ItemType)
    BY DEF Maps, LoopsHold
  <2>2. v \in ItemType
    BY <2>1 DEF Items
  <2> QED
    BY <2>2 DEF ItemType
<1>3. /\ v.base.kind = "data" \/ v.base.type \in DOMAIN types
      /\ Has(BaseFields(v), Discrim(v)) /\ m.type \in DOMAIN enums
      /\ \A i \in DOMAIN v.data : ~NoValue(v.data[i], v)
  BY <1>2 DEF Outcome, Discriminator, ItemType, DataType
<1>4. BaseFields(v) \in BaseMembers(v)
  BY <1>3, BaseFieldsFacts
<1> DEFINE e == enums[m.type]
<1>5. e \in Items("enum") /\ e.id = m.type
  BY <1>3 DEF Maps, MapsHold, MapOf
<1>6. Values(v) = e.values
  BY DEF Values, Discriminator
<1> HIDE DEF m
<1>7. e.values \in Seq(STRING)
  <2>1. e \in ItemType
    BY <1>5 DEF Maps, LoopsHold, Items
  <2> QED
    BY <2>1 DEF ItemType
<1> HIDE DEF e
<1>8. ValuesIn(v, e)
  BY <1>3, <1>4, <1>5 DEF ValuesIn, m
<1>9. /\ Range1(e.values) = {w.name : w \in Range1(Variants(v))}
      /\ BranchesDiffer(v) /\ Distinct(e.values) =>
            \A i, j \in DOMAIN Variants(v) :
                Variants(v)[i].name = Variants(v)[j].name => i = j
  BY <1>2, <1>3, <1>6, <1>7, VariantNames
<1>10. ASSUME NEW w \in Range1(Variants(v)), Has(v.data, w.name)
       PROVE  \E f \in Range1(w.fields) :
                  f.flat /\ f.type = Find(v.data, w.name).type
  <2> DEFINE places == {i \in DOMAIN Values(v) : ~Has(v.data, Values(v)[i])}
             names == [i \in DOMAIN v.data |-> v.data[i].name]
                         \o KeepAt(Values(v), places)
  <2>2. Variants(v) =
           [i \in DOMAIN names |-> Variant(names[i], VariantFields(v, names[i]))]
    BY DEF Variants
  <2> HIDE DEF names
  <2>1. w.fields = VariantFields(v, w.name)
    BY <2>2 DEF Variant, Range1
  <2> QED
    BY <1>10, <2>1, VariantBranch
<1> HIDE DEF d
<1> QED
  BY <1>1, <1>5, <1>8, <1>9, <1>10 DEF UnionForm, d

\* A union has been written out, or is still to be.
UnionsOut ==
    \A v \in Items("combined") : \/ phase \in {"process", "panicked", "notfound"}
                                 \/ phase = "unions" /\ v.id \in todo
                                 \/ \E d \in Range1(out) : UnionForm(d, v)

LEMMA UnionsOutStep ==
    ASSUME Maps, StructsMention, EventsHold, MentionsHold, UniqueIds, UnionsOut,
           [Next]_vars
    PROVE  UnionsOut'
<1>0. schema' = schema /\ \A kind : Items(kind)' = Items(kind)
  BY SchemaStays, SchemaSame
<1>1. \A d \in Range1(out) : d \in Range1(out)'
  BY OutGrows
<1>2. ASSUME NEW v, NEW d \in Range1(out), UnionForm(d, v)
      PROVE  \E e \in Range1(out)' : UnionForm(e, v)'
  <2>1. UnionForm(d, v)'
    BY <1>0, <1>2, FormSame
  <2> QED
    BY <1>1, <2>1
<1> SUFFICES ASSUME NEW v \in Items("combined")
             PROVE  \/ phase' \in {"process", "panicked", "notfound"}
                    \/ phase' = "unions" /\ v.id \in todo'
                    \/ \E d \in Range1(out)' : UnionForm(d, v)'
  BY <1>0 DEF UnionsOut
<1>3. CASE \E d \in Range1(out) : UnionForm(d, v)
  BY <1>2, <1>3
<1>4. CASE GenerateUnion /\ ~(\E d \in Range1(out) : UnionForm(d, v))
  <2>1. phase = "unions" /\ phase' = "unions" /\ v.id \in todo
    BY <1>4 DEF UnionsOut, GenerateUnion, Generating
  <2> PICK id \in todo : /\ todo' = todo \ {id} /\ Outcome(unions[id]) = "generated"
                         /\ UnionOut(unions[id])
    BY <1>4 DEF GenerateUnion, Generating
  <2>2. CASE v.id # id
    BY <2>1, <2>2
  <2>3. CASE v.id = id
    <3>1. unions[id] \in Items("combined") /\ unions[id].id = id
      BY <2>1 DEF Maps, LoopsHold, MapsHold, MapOf
    <3>2. unions[id] = v
      <4>1. v.kind = "combined" /\ unions[id].kind = "combined"
        BY <3>1, ItemKind
      <4>2. ~NoType(v) /\ ~NoType(unions[id])
        BY <4>1 DEF NoType
      <4> QED
        BY <2>3, <3>1, <4>2, UniqueItem
    <3> PICK d : d = EnumOut(v.id, Discrim(v), Variants(v))
      OBVIOUS
    <3> DEFINE one == <<d>>
               decls == one \o BaseOut(v)
    <3>3. UnionForm(d, v) /\ out' = out \o decls
      <4>1. Outcome(v) = "generated" /\ UnionOut(v)
        BY <3>2
      <4>2. UnionForm(d, v)
        BY <2>1, <4>1, UnionHasForm
      <4> QED
        BY <4>1, <4>2 DEF UnionOut, WriteOut
    <3>4. IsSeq(one) /\ Range1(one) = {d}
      BY SingleFacts
    <3>5. IsSeq(BaseOut(v)) /\ IsSeq(out)
      BY BaseOutFacts DEF MentionsHold
    <3> HIDE DEF one
    <3>6. IsSeq(decls) /\ d \in Range1(decls)
      BY <3>4, <3>5, JoinRange
    <3> HIDE DEF decls
    <3>7. d \in Range1(out \o decls)
      BY <3>5, <3>6, JoinRange
    <3>8. d \in Range1(out)'
      BY <3>3, <3>7 DEF Range1
    <3>9. UnionForm(d, v)'
      BY <1>0, <3>3, FormSame
    <3> QED
      BY <3>8, <3>9
  <2> QED
    BY <2>2, <2>3
<1>5. CASE Processed
  <2>1. v.id \in DOMAIN unions
    <3>1. left = <<>> /\ Range1(left) = {}
      BY <1>5, NothingFacts DEF Processed
    <3> QED
      BY <3>1 DEF Maps, MapsComplete
  <2> QED
    BY <1>5, <2>1 DEF Processed
<1>6. CASE ~GenerateUnion /\ ~Processed /\ ~(\E d \in Range1(out) : UnionForm(d, v))
  <2>1. \/ phase' \in {"process", "panicked", "notfound"}
        \/ phase' = phase /\ (phase = "unions" => todo' = todo)
        \/ phase = "unions" /\ todo = {}
        \/ phase \notin {"process", "unions", "panicked", "notfound"}
    BY <1>6 DEF Next, Process, Generate, Finished, vars, kept, Processing,
       ProcessCommand, ProcessStruct, ProcessAlternate, ProcessEnum,
       ProcessEvent, ProcessUnion, ProcessCombinedUnion, GenerateUnionFails,
       Generating, Outcome, UnionsDone, StripDiscriminators, GenerateStruct,
       GenerateEvents
  <2> QED
    BY <1>6, <2>1 DEF UnionsOut
<1> QED
  BY <1>3, <1>4, <1>5, <1>6

UnionsInv == UniqueIds => UnionsOut

LEMMA UnionsInit == Init => UnionsInv
BY DEF Init, UnionsInv, UnionsOut

LEMMA UnionsInvStep ==
    Maps /\ WrittenInv /\ UnionsInv /\ [Next]_vars => UnionsInv'
<1> SUFFICES ASSUME Maps, WrittenInv, UnionsInv, [Next]_vars PROVE UnionsInv'
  OBVIOUS
<1>1. StructsMention /\ EventsHold /\ MentionsHold
  BY DEF WrittenInv
<1>2. UniqueIds' = UniqueIds
  BY SchemaStays, SchemaSame
<1>3. UniqueIds => UnionsOut'
  BY <1>1, UnionsOutStep DEF UnionsInv
<1> QED
  BY <1>2, <1>3 DEF UnionsInv

\* A union that shares its base with others, or was read before the base or
\* the enumeration was: for every value of its discriminator the enum that is
\* generated has a variant, and for nothing else, with the branch of that name
\* flattened into it; and no two of one name if the schema repeats none.
THEOREM UnionsCoverTheirValues == Spec => []UnionsCoverValues
<1>1. IInv => Maps
  BY DEF IInv
<1>2. UnionsInv => UnionsCoverValues
  BY DEF UnionsInv, UnionsOut, UnionsCoverValues, Done
<1> QED
  BY CodegenInvariant, <1>1, <1>2, WrittenInit, WrittenStep, UnionsInit,
     UnionsInvStep, PTL DEF Spec

=============================================================================
