-------------------------- MODULE MCSchemaCodegen --------------------------
(***************************************************************************)
(* Schemas with two unions U and V, which may share their base B, structs  *)
(* that inherit from it or wrap D, and a command and an event with a type  *)
(* of their own or with S; the command may have the name of its type.      *)
(***************************************************************************)
EXTENDS SchemaWire

\* The discriminators k and k2, one that is no enumeration, and members that
\* are no discriminators.
k  == Member("k", "K", FALSE)
k2 == Member("k2", "K", FALSE)
ks == Member("k", "str", FALSE)
x  == Member("x", "str", TRUE)
y  == ArrayOf(Member("y", "str", FALSE))

Enumeration == Item("enum", "K", DataOf(<<>>), <<>>, "", <<"a", "b">>)
Root        == Item("struct", "R", DataOf(<<>>), <<Member("r", "str", FALSE)>>,
                    "", <<>>)
Leaf        == Item("struct", "D", DataOf(<<>>), <<Member("d", "str", FALSE)>>,
                    "", <<>>)

Twin        == Item("struct", "T", DataOf(<<>>), <<Member("w", "D", FALSE)>>,
                    "wrapper", <<>>)

Bases == {Item("struct", "B", base, data, "", <<>>) :
             base \in {DataOf(<<>>), TypeOf("R")},
             data \in {<<k>>, <<k, x>>, <<k, k2>>, <<k2>>, <<x, k, k2>>, <<ks, x>>}}

Structs == {Item("struct", "S", DataOf(<<>>), <<Member("w", "D", FALSE)>>,
                 "wrapper", <<>>),
            Item("struct", "S", DataOf(<<>>),
                 <<ArrayOf(Member("w", "D", FALSE))>>, "wrapper", <<>>),
            Item("struct", "S", DataOf(<<Member("s", "str", FALSE)>>),
                 <<Member("w", "str", TRUE)>>, "", <<>>),
            Item("struct", "S", TypeOf("B"), <<Member("w", "str", FALSE)>>, "",
                 <<>>)}

Branches == {<<>>,
             <<Member("a", "D", FALSE)>>,
             <<Member("a", "D", FALSE), Member("b", "D", FALSE)>>,
             <<Member("b", "S", FALSE), Member("a", "D", FALSE)>>,
             <<Member("b", "S", FALSE), Member("a", "T", FALSE)>>,
             <<Member("b", "M", FALSE)>>,   \* a type that does not exist
             <<Member("c", "D", FALSE)>>,   \* a value that does not
             <<Member("a", "D", TRUE)>>,
             <<ArrayOf(Member("a", "D", FALSE))>>}

Unions == {Item("combined", "U", base, data, "k", <<>>) :
              base \in {TypeOf("B"), TypeOf("M")} \cup
                  {DataOf(f) : f \in {<<k>>, <<ks>>, <<x, k>>, <<k, y>>, 
                                      <<k, x, y>>, <<x, y>>}},
              data \in Branches}

Others2 == {<<>>} \cup
    {<<Item("combined", "V", TypeOf("B"), <<Member("a", "D", FALSE)>>, tag,
            <<>>)>> : tag \in {"k", "k2"}}

Uses == {<<Item("command", "c", TypeOf("S"), <<>>, "", <<>>),
           Item("event", "E", DataOf(<<x, y>>), <<>>, "", <<>>)>>,
         <<Item("command", "S", TypeOf("S"), <<>>, "", <<>>),
           Item("event", "E", TypeOf("D"), <<>>, "", <<>>)>>,
         <<Item("command", "c", DataOf(<<x, y>>), <<>>, "nogen", <<>>),
           Item("event", "E", TypeOf("S"), <<>>, "", <<>>)>>}

\* A branch and the base of a union have no member in common.
Distinct(u, s) == s.base = TypeOf("B") => \A m \in Range1(u.data) : m.type # "S"

Legacy(opt) ==
    <<Item("alternate", "A", DataOf(<<>>), <<Member("one", "D", FALSE),
                                       Member("two", "str", opt)>>, "", <<>>),
      Item("union", "L", DataOf(<<>>), <<ArrayOf(Member("a", "D", FALSE))>>,
           "", <<>>),
      Leaf>>

SomeSchemas ==
    {<<u>> \o v \o use \o <<s, Enumeration, b, Root, Leaf, Twin>> :
        <<u, v, use, s, b>> \in
            {t \in Unions \X Others2 \X Uses \X Structs \X Bases :
                Distinct(t[1], t[4])}}
    \cup {Legacy(opt) : opt \in BOOLEAN}

SomeNames   == <<"B", "D", "R", "S", "T", "U", "V">>
SomeScalars == {"str", "Timestamp", "Dictionary"}
=============================================================================
