------------------------- MODULE SchemaParserProofs -------------------------
(***************************************************************************)
(* Theorems about SchemaParser for every file: what the iterator gives are *)
(* the objects of the file, in order, and without an error all of them;    *)
(* and there is no error if each of them starts a line.                    *)
(***************************************************************************)
EXTENDS SchemaParser, FiniteSetTheorems, StreamLemmas, TLAPS

-----------------------------------------------------------------------------
(* The tokens of the stripped text, and where they stand in the file.        *)

\* Lines that stay keep their order.
LEMMA RowTypes ==
    ASSUME NEW n \in Nat
    PROVE  /\ Row(n) \in Nat /\ IsFiniteSet({m \in 1 .. n : Kept(m)})
           /\ n # 0 /\ Kept(n) => Row(n) > 0
<1> DEFINE K == {m \in 1 .. n : Kept(m)}
<1>1. IsFiniteSet(1 .. n)
  BY FS_Interval
<1>2. IsFiniteSet(K)
  BY <1>1, FS_Subset
<1>3. Cardinality(K) \in Nat
  BY <1>2, FS_CardinalityType
<1>4. ASSUME n # 0, Kept(n) PROVE Cardinality(K) > 0
  <2>1. n \in K
    BY <1>4
  <2>2. K # {}
    BY <2>1
  <2>3. Cardinality(K) # 0
    BY <1>2, <2>2, FS_EmptySet
  <2> QED
    BY <1>3, <2>3
<1> QED
  BY <1>2, <1>3, <1>4 DEF Row

LEMMA RowOrder ==
    ASSUME NEW m \in Nat, NEW n \in Nat, m < n, Kept(n)
    PROVE  Row(m) < Row(n)
<1> DEFINE M == {k \in 1 .. m : Kept(k)}
           N == {k \in 1 .. n : Kept(k)}
<1>1. IsFiniteSet(M) /\ IsFiniteSet(N)
  BY RowTypes
<1>2. M \subseteq N /\ n \in N /\ n \notin M
  OBVIOUS
<1>3. Cardinality(M \cup {n}) = Cardinality(M) + 1 /\ IsFiniteSet(M \cup {n})
  BY <1>1, <1>2, FS_AddElement
<1>4. M \cup {n} \subseteq N
  BY <1>2
<1>5. Cardinality(M \cup {n}) <= Cardinality(N)
  BY <1>1, <1>4, FS_Subset
<1>6. Cardinality(M) \in Nat /\ Cardinality(N) \in Nat
  BY <1>1, FS_CardinalityType
<1>7. Cardinality(M) < Cardinality(N)
  BY <1>3, <1>5, <1>6
<1> QED
  BY <1>7 DEF Row

\* The places that are not in a comment, said without tokens.
LEMMA VisiblePlaces ==
    ASSUME text \in Seq(Lines)
    PROVE  /\ \A n, i : <<n, i>> \in Visible <=>
                  n \in DOMAIN text /\ i \in Uncommented(n)
           /\ \A p \in Visible : \E n, i : p = <<n, i>>
           /\ \A n \in DOMAIN text : \A i \in Uncommented(n) :
                  n \in Nat \ {0} /\ i \in Nat \ {0} /\ Kept(n)
                  /\ text[n][i] \in Token \ {"#"}
<1>1. \A n \in DOMAIN text : n \in Nat \ {0} /\ text[n] \in Seq(Token)
  BY ParserAssumption
<1>2. \A n, i : <<n, i>> \in Visible <=> n \in DOMAIN text /\ i \in Uncommented(n)
  BY DEF Visible, Uncommented
<1>3. \A p \in Visible : \E n, i : p = <<n, i>>
  BY DEF Visible
<1>4. ASSUME NEW n \in DOMAIN text, NEW i \in Uncommented(n)
      PROVE  i \in Nat \ {0} /\ Kept(n) /\ text[n][i] \in Token \ {"#"}
  <2> PICK line \in Seq(Token) : line = text[n]
    BY <1>1
  <2>1. i \in DOMAIN line /\ \A j \in 1 .. i : line[j] # "#"
    BY DEF Uncommented
  <2>2. i \in Nat \ {0} /\ i \in 1 .. i /\ 1 \in 1 .. i
    BY <2>1
  <2>3. line[i] \in Token /\ line[i] # "#" /\ line[1] # "#" /\ line # <<>>
    BY <2>1, <2>2
  <2> QED
    BY <2>2, <2>3 DEF Kept
<1> QED
  BY <1>1, <1>2, <1>3, <1>4

\* The tokens that stay: those of the places that are not in a comment.
LEMMA StripTokens ==
    ASSUME text \in Seq(Lines)
    PROVE  /\ \A t \in StripComments :
                  \E n \in DOMAIN text : \E i \in Uncommented(n) : t = TokenAt(n, i)
           /\ \A n \in DOMAIN text : \A i \in Uncommented(n) :
                  /\ TokenAt(n, i) \in StripComments
                  /\ n \in Nat \ {0} /\ i \in Nat \ {0} /\ Kept(n)
                  /\ text[n][i] \in Token \ {"#"} /\ Row(n) \in Nat \ {0}
                  /\ <<n, i>> \in Visible
           /\ StripComments \subseteq [token : Token \ {"#"}, at : Place,
                                      line : Nat \ {0}, col : Nat \ {0}]
<1>1. ASSUME NEW t \in StripComments
      PROVE  \E n \in DOMAIN text : \E i \in Uncommented(n) : t = TokenAt(n, i)
  BY DEF StripComments
<1>2. ASSUME NEW n \in DOMAIN text, NEW i \in Uncommented(n)
      PROVE  /\ TokenAt(n, i) \in StripComments
             /\ n \in Nat \ {0} /\ i \in Nat \ {0} /\ Kept(n)
             /\ text[n][i] \in Token \ {"#"} /\ Row(n) \in Nat \ {0}
             /\ <<n, i>> \in Visible
  <2>1. /\ n \in Nat \ {0} /\ i \in Nat \ {0} /\ Kept(n)
        /\ text[n][i] \in Token \ {"#"} /\ <<n, i>> \in Visible
    BY VisiblePlaces
  <2>2. Row(n) \in Nat \ {0}
    <3>1. n \in Nat /\ n # 0
      BY <2>1
    <3>2. Row(n) \in Nat /\ Row(n) > 0
      BY <2>1, <3>1, RowTypes
    <3> QED
      BY <3>2
  <2>3. TokenAt(n, i) \in StripComments
    BY <2>1 DEF StripComments
  <2> QED
    BY <2>1, <2>2, <2>3
<1>3. ASSUME NEW t \in StripComments
      PROVE  t \in [token : Token \ {"#"}, at : Place,
                    line : Nat \ {0}, col : Nat \ {0}]
  <2> PICK n \in DOMAIN text : \E i \in Uncommented(n) : t = TokenAt(n, i)
    BY <1>1
  <2> PICK i \in Uncommented(n) : t = TokenAt(n, i)
    OBVIOUS
  <2> QED
    BY <1>2 DEF TokenAt, Place
<1> QED
  BY <1>1, <1>2, <1>3

\* What data knows of the file.  The order of its tokens is that of their
\* places, total, and their rows are those of the lines they come from.
Stripped ==
    /\ \A t \in data : /\ t.line \in Nat \ {0} /\ t.col \in Nat \ {0}
                       /\ t.token \in Token \ {"#"} /\ t.at \in Place
                       /\ t.at \in Visible /\ At(t.at) = t.token
    /\ \A p \in Visible : \E t \in data : t.at = p
    /\ \A t, u \in data : /\ Before(t, u) <=> Earlier(t.at, u.at)
                          /\ t.line = u.line <=> t.at[1] = u.at[1]
                          /\ t = u \/ Before(t, u) \/ Before(u, t)

LEMMA StripFacts ==
    ASSUME text \in Seq(Lines), data = StripComments
    PROVE  Stripped
<1>1. ASSUME NEW t \in data
      PROVE  \E n \in DOMAIN text : \E i \in Uncommented(n) : t = TokenAt(n, i)
  BY StripTokens
<1>2. ASSUME NEW n \in DOMAIN text, NEW i \in Uncommented(n)
      PROVE  /\ TokenAt(n, i) \in data
             /\ n \in Nat \ {0} /\ i \in Nat \ {0} /\ Kept(n)
             /\ text[n][i] \in Token \ {"#"} /\ Row(n) \in Nat \ {0}
             /\ <<n, i>> \in Visible
  BY StripTokens
<1>3. ASSUME NEW t \in data
      PROVE  /\ t.line \in Nat \ {0} /\ t.col \in Nat \ {0}
             /\ t.token \in Token \ {"#"} /\ t.at \in Place
             /\ t.at \in Visible /\ At(t.at) = t.token
  <2> PICK n \in DOMAIN text : \E i \in Uncommented(n) : t = TokenAt(n, i)
    BY <1>1
  <2> PICK i \in Uncommented(n) : t = TokenAt(n, i)
    OBVIOUS
  <2> QED
    BY <1>2 DEF TokenAt, At, Place
<1>4. ASSUME NEW p \in Visible PROVE \E t \in data : t.at = p
  <2> PICK n, i : p = <<n, i>>
    BY VisiblePlaces
  <2>1. n \in DOMAIN text /\ i \in Uncommented(n)
    BY VisiblePlaces
  <2>2. TokenAt(n, i) \in data /\ TokenAt(n, i).at = p
    BY <1>2, <2>1 DEF TokenAt
  <2> QED
    BY <2>2
<1>5. ASSUME NEW t \in data, NEW u \in data
      PROVE  /\ Before(t, u) <=> Earlier(t.at, u.at)
             /\ t.line = u.line <=> t.at[1] = u.at[1]
             /\ t = u \/ Before(t, u) \/ Before(u, t)
  <2> PICK n \in DOMAIN text : \E i \in Uncommented(n) : t = TokenAt(n, i)
    BY <1>1
  <2> PICK i \in Uncommented(n) : t = TokenAt(n, i)
    OBVIOUS
  <2> PICK m \in DOMAIN text : \E j \in Uncommented(m) : u = TokenAt(m, j)
    BY <1>1
  <2> PICK j \in Uncommented(m) : u = TokenAt(m, j)
    OBVIOUS
  <2>1. /\ n \in Nat /\ m \in Nat /\ i \in Nat /\ j \in Nat
        /\ Row(n) \in Nat /\ Row(m) \in Nat /\ Kept(n) /\ Kept(m)
    BY <1>2
  <2>2. n < m => Row(n) < Row(m)
    BY <2>1, RowOrder
  <2>3. m < n => Row(m) < Row(n)
    BY <2>1, RowOrder
  <2>4. /\ t.line = Row(n) /\ t.col = i /\ t.at = <<n, i>>
        /\ u.line = Row(m) /\ u.col = j /\ u.at = <<m, j>>
        /\ n = m /\ i = j => t = u
    BY DEF TokenAt
  <2>5. n < m \/ m < n \/ n = m
    BY <2>1
  <2>6. n = m => Row(n) = Row(m)
    OBVIOUS
  <2>7. /\ Before(t, u) <=> Row(n) < Row(m) \/ (Row(n) = Row(m) /\ i < j)
        /\ Before(u, t) <=> Row(m) < Row(n) \/ (Row(m) = Row(n) /\ j < i)
        /\ Earlier(t.at, u.at) <=> n < m \/ (n = m /\ i < j)
    BY <2>4 DEF Before, Earlier
  <2>8. Row(n) < Row(m) <=> n < m
    BY <2>1, <2>2, <2>3, <2>5, <2>6
  <2>9. Row(m) < Row(n) <=> m < n
    BY <2>1, <2>2, <2>3, <2>5, <2>6
  <2>10. Row(n) = Row(m) <=> n = m
    BY <2>1, <2>2, <2>3, <2>5, <2>6
  <2>11. i < j \/ j < i \/ i = j
    BY <2>1
  <2> QED
    BY <2>4, <2>5, <2>7, <2>8, <2>9, <2>10, <2>11
<1> QED
  BY <1>3, <1>4, <1>5 DEF Stripped

\* The order of the tokens is strict.
LEMMA TokenOrder ==
    ASSUME Stripped
    PROVE  /\ \A t \in data : ~Before(t, t)
           /\ \A t, u \in data : ~(Before(t, u) /\ Before(u, t))
           /\ \A t, u, v \in data : Before(t, u) /\ Before(u, v) => Before(t, v)
           /\ \A t, u \in data : Before(t, u) => t.line <= u.line
           /\ \A t, u, v \in data : Before(t, u) /\ Before(u, v) /\ t.line = v.line
                                     => t.line = u.line
<1>1. \A t \in data : t.line \in Nat /\ t.col \in Nat
  BY DEF Stripped
<1> QED
  BY <1>1 DEF Before

-----------------------------------------------------------------------------
(* What serde_json finds in a text.                                          *)

\* A text has one first token, and one place where an object closes.
LEMMA FirstUnique ==
    ASSUME Stripped, NEW str \in SUBSET data, NEW t, NEW u,
           First(str, t), First(str, u)
    PROVE  t = u
BY DEF First, Stripped

LEMMA ItemUnique ==
    ASSUME Stripped, NEW str \in SUBSET data, NEW o, NEW c, NEW p, NEW d,
           IsItem(str, o, c), IsItem(str, p, d)
    PROVE  o = p /\ c = d
<1>1. First(str, o) /\ First(str, p)
  BY DEF IsItem
<1>2. o = p
  BY <1>1, FirstUnique
<1>3. {u \in After(str, o) : u.token # "member"} \in SUBSET data
  BY DEF After
<1>4. c = d
  BY <1>2, <1>3, FirstUnique DEF IsItem, Closes
<1> QED
  BY <1>2, <1>4

\* The tokens of an item: the brace, members, the brace.
LEMMA ItemTokens ==
    ASSUME Stripped, NEW str \in SUBSET data, NEW o, NEW c, IsItem(str, o, c)
    PROVE  /\ o \in str /\ c \in str /\ Before(o, c)
           /\ o.token = "{" /\ c.token = "}"
           /\ \A u \in str : u = o \/ Before(o, u)
           /\ \A u \in str : u = o \/ u = c \/ Before(c, u)
                                \/ (u.token = "member" /\ Before(u, c))
<1>1. First(str, o) /\ o.token = "{" /\ c.token = "}"
  BY DEF IsItem
<1>2. First({u \in After(str, o) : u.token # "member"}, c)
  BY DEF IsItem, Closes
<1>3. o \in str /\ c \in str /\ Before(o, c)
  BY <1>1, <1>2 DEF First, After
<1>4. \A u \in str : u = o \/ Before(o, u)
  BY <1>1, <1>3 DEF First, Stripped
<1>5. ASSUME NEW u \in str, u # o, u # c, ~Before(c, u)
      PROVE  u.token = "member" /\ Before(u, c)
  <2>1. Before(u, c) /\ u \in After(str, o)
    BY <1>3, <1>4, <1>5 DEF Stripped, After
  <2> QED
    BY <1>2, <2>1 DEF First
<1> QED
  BY <1>1, <1>3, <1>4, <1>5

\* What parses before the place of an error is an item at the start of the
\* rest, and the error is at what comes behind it, whatever the error was.
LEMMA CutItem ==
    ASSUME Stripped, NEW t \in Rest, NEW o, Parsed(Upto(t), o)
    PROVE  \E c \in Rest : IsItem(Rest, o, c) /\ First(After(Rest, c), t)
<1> PICK c \in Upto(t) : IsItem(Upto(t), o, c) /\ After(Upto(t), c) = {}
  BY DEF Parsed
<1>1. Upto(t) \in SUBSET data /\ Rest \in SUBSET data /\ t \in data
  BY DEF Upto, Rest
<1>2. \A u, v \in Rest : Before(u, v) /\ v \in Upto(t) => u \in Upto(t)
  BY <1>1, TokenOrder DEF Upto
<1>3. /\ o \in Upto(t) /\ Before(o, c) /\ o.token = "{" /\ c.token = "}"
      /\ c \in Rest /\ o \in Rest /\ Before(c, t)
  BY <1>1, ItemTokens DEF Upto
<1>4. First(Rest, o)
  BY <1>2, <1>3 DEF IsItem, First
<1>5. Closes(Rest, o, c)
  <2>1. First({u \in After(Upto(t), o) : u.token # "member"}, c)
    BY DEF IsItem, Closes
  <2>2. c \in After(Rest, o) /\ c.token # "member"
    BY <1>3 DEF After
  <2>3. ASSUME NEW u \in After(Rest, o), u.token # "member" PROVE ~Before(u, c)
    <3>1. Before(u, c) => u \in After(Upto(t), o)
      BY <1>2, <1>3 DEF After
    <3> QED
      BY <2>1, <2>3, <3>1 DEF First
  <2> QED
    BY <2>2, <2>3 DEF Closes, First
<1>6. \E m \in After(Rest, o) : Before(m, c)
  BY DEF IsItem, After, Upto
<1>7. First(After(Rest, c), t)
  <2>1. t \in After(Rest, c)
    BY <1>3 DEF After
  <2>2. ASSUME NEW u \in After(Rest, c), Before(u, t) PROVE FALSE
    <3>1. u \in After(Upto(t), c)
      BY <2>2 DEF After, Upto
    <3> QED
      BY <3>1
  <2> QED
    BY <2>1, <2>2 DEF First
<1> QED
  BY <1>3, <1>4, <1>5, <1>6, <1>7 DEF IsItem

-----------------------------------------------------------------------------
(* The inductive invariant.                                                  *)

Opening(str) == {o \in str : o.token = "{"}

InOrder == \A i, j \in DOMAIN items : i < j => Earlier(items[i], items[j])

\* Every object of the lines that were passed was given, in order and once.
Clean ==
    /\ InOrder
    /\ {items[i] : i \in DOMAIN items} = {o.at : o \in Opening(data \ Rest)}

\* The last item was the first object of the rest, and will be again.
Stuck ==
    /\ items # <<>>
    /\ \E o, c, t \in Rest :
         /\ IsItem(Rest, o, c) /\ First(After(Rest, c), t)
         /\ t.line = o.line /\ o.at = items[Len(items)]

Complete ==
    /\ InOrder
    /\ Objects # {} /\ Objects = {items[i] : i \in DOMAIN items}

TextInv ==
    /\ status = "new" => items = <<>> /\ pos = 0 /\ ~eof
    /\ status # "new" => data = StripComments

PlaceInv ==
    /\ status = "more" /\ ~eof => Clean \/ Stuck
    /\ eof => Complete
    /\ status = "done" => eof

IInv == TypeOK /\ TextInv /\ PlaceInv /\ NothingSkipped

\* The objects of the file are those of the text that is parsed.
LEMMA ObjectTokens ==
    ASSUME Stripped
    PROVE  /\ Objects = {o.at : o \in Opening(data)}
           /\ \A o \in Opening(data) : o \in data /\ o.at \in Objects
<1>1. ASSUME NEW o \in Opening(data) PROVE o \in data /\ o.at \in Objects
  BY DEF Stripped, Objects, Opening
<1>2. ASSUME NEW p \in Objects PROVE p \in {o.at : o \in Opening(data)}
  <2>1. p \in Visible /\ At(p) = "{"
    BY DEF Objects
  <2> PICK o \in data : o.at = p
    BY <2>1 DEF Stripped
  <2>2. o.token = "{"
    BY <2>1 DEF Stripped
  <2> QED
    BY <2>2 DEF Opening
<1>3. Objects \subseteq {o.at : o \in Opening(data)}
  BY <1>2
<1>4. {o.at : o \in Opening(data)} \subseteq Objects
  BY <1>1
<1> QED
  BY <1>1, <1>3, <1>4

\* Nothing else stands between the first item of the rest and what is before.
LEMMA FirstObject ==
    ASSUME Stripped, pos \in Nat, NEW o, NEW c, IsItem(Rest, o, c)
    PROVE  /\ o \in Opening(data) /\ o.line > pos
           /\ \A p \in Opening(data) : Before(p, o) <=> p \in data \ Rest
           /\ \A p \in data \ Rest : \A u \in Rest : Before(p, u)
<1>1. Rest \in SUBSET data /\ \A t \in data : t.line \in Nat /\ t.col \in Nat
  BY DEF Rest, Stripped
<1>2. o \in Rest /\ o.token = "{" /\ \A u \in Rest : u = o \/ Before(o, u)
  BY <1>1, ItemTokens
<1>3. o.line > pos /\ o \in Opening(data)
  BY <1>1, <1>2 DEF Rest, Opening
<1>4. ASSUME NEW p \in data \ Rest, NEW u \in Rest PROVE Before(p, u)
  BY <1>1, <1>4 DEF Rest, Before
<1>5. ASSUME NEW p \in Opening(data), Before(p, o) PROVE p \in data \ Rest
  BY <1>1, <1>2, <1>5, TokenOrder DEF Opening
<1> QED
  BY <1>2, <1>3, <1>4, <1>5 DEF Opening

\* From a clean state: the next item is the next object.
LEMMA CleanGives ==
    ASSUME TypeOK, Stripped, Clean, NothingSkipped, NEW o, NEW c,
           IsItem(Rest, o, c), UNCHANGED text, items' = Append(items, o.at)
    PROVE  /\ NothingSkipped' /\ InOrder'
           /\ {items'[i] : i \in DOMAIN items'}
                 = {items[i] : i \in DOMAIN items} \cup {o.at}
<1> PICK p \in Objects : p = o.at
  BY ObjectTokens, FirstObject DEF TypeOK
<1>1. /\ Len(items) \in Nat /\ DOMAIN items = 1 .. Len(items)
      /\ Len(items') = Len(items) + 1 /\ DOMAIN items' = 1 .. Len(items) + 1
      /\ items'[Len(items) + 1] = p
      /\ \A i \in DOMAIN items : items'[i] = items[i]
  <2>1. items \in Seq(Place) /\ o.at \in Place
    BY FirstObject DEF TypeOK, Stripped, Opening
  <2> QED
    BY <2>1, AppendFacts
<1>2. ASSUME NEW i \in DOMAIN items
      PROVE  \E u \in Opening(data \ Rest) : u.at = items[i]
  BY DEF Clean
<1>3. ASSUME NEW i \in DOMAIN items PROVE Earlier(items[i], p)
  <2> PICK u \in Opening(data \ Rest) : u.at = items[i]
    BY <1>2
  <2>1. u \in Opening(data) /\ u \in data \ Rest
    BY DEF Opening
  <2>2. Before(u, o) /\ o \in data /\ u \in data
    BY <2>1, FirstObject DEF Opening, TypeOK
  <2> QED
    BY <2>2 DEF Stripped
<1>4. ASSUME NEW q \in Objects, Earlier(q, p)
      PROVE  \E i \in DOMAIN items : items[i] = q
  <2> PICK u \in Opening(data) : u.at = q
    BY ObjectTokens
  <2>1. u \in data /\ o \in data
    BY FirstObject DEF Opening, TypeOK
  <2>2. Before(u, o)
    BY <1>4, <2>1 DEF Stripped
  <2>3. u \in Opening(data \ Rest)
    BY <2>2, FirstObject DEF Opening, TypeOK
  <2> QED
    BY <2>3 DEF Clean
<1>5. InOrder'
  <2> SUFFICES ASSUME NEW i \in DOMAIN items', NEW j \in DOMAIN items', i < j
               PROVE  Earlier(items'[i], items'[j])
    BY DEF InOrder
  <2>1. i \in DOMAIN items /\ (j \in DOMAIN items \/ j = Len(items) + 1)
    BY <1>1
  <2> QED
    BY <1>1, <1>3, <2>1 DEF Clean, InOrder
<1>6. NothingSkipped'
  <2>1. Objects' = Objects /\ \A q : Crowded(q)' = Crowded(q)
    BY ZenonT(60) DEF Objects, Visible, At, Crowded
  <2> SUFFICES ASSUME NEW i \in DOMAIN items'
               PROVE
      /\ items'[i] \in Objects
      /\ i = 1 => \A q \in Objects : ~Earlier(q, items'[i])
      /\ i > 1 => \/ items'[i] = items'[i - 1] /\ Crowded(items'[i])
                  \/ /\ Earlier(items'[i - 1], items'[i])
                     /\ \A q \in Objects : ~(/\ Earlier(items'[i - 1], q)
                                             /\ Earlier(q, items'[i]))
    BY <2>1 DEF NothingSkipped
  <2>2. CASE i \in DOMAIN items
    <3>1. i > 1 => i - 1 \in DOMAIN items
      BY <1>1, <2>2
    <3> QED
      BY <1>1, <2>2, <3>1 DEF NothingSkipped
  <2>3. CASE i \notin DOMAIN items
    <3>1. i = Len(items) + 1 /\ items'[i] = p
      BY <1>1, <2>3
    <3>2. ASSUME i = 1, NEW q \in Objects, Earlier(q, p) PROVE FALSE
      BY <1>1, <1>4, <3>1, <3>2
    <3>3. ASSUME i > 1
          PROVE  /\ Earlier(items'[i - 1], p)
                 /\ \A q \in Objects : ~(Earlier(items'[i - 1], q) /\ Earlier(q, p))
      <4>1. i - 1 \in DOMAIN items /\ i - 1 = Len(items)
        BY <1>1, <3>1, <3>3
      <4>2. items'[i - 1] = items[Len(items)] /\ Len(items) \in DOMAIN items
        BY <1>1, <4>1
      <4>3. ASSUME NEW q \in Objects, Earlier(items[Len(items)], q), Earlier(q, p)
            PROVE  FALSE
        <5> PICK k \in DOMAIN items : items[k] = q
          BY <1>4, <4>3
        <5>1. k = Len(items) \/ k < Len(items)
          BY <1>1
        <5>2. k = Len(items) \/ Earlier(q, items[Len(items)])
          BY <4>2, <5>1 DEF Clean, InOrder
        <5>3. q \in Place /\ items[Len(items)] \in Place
          BY <4>2 DEF TypeOK
        <5> QED
          BY <4>3, <5>2, <5>3 DEF Earlier, Place
      <4> QED
        BY <1>3, <4>2, <4>3
    <3> QED
      BY <3>1, <3>2, <3>3
  <2> QED
    BY <2>2, <2>3
<1>7. {items'[i] : i \in DOMAIN items'} = {items[i] : i \in DOMAIN items} \cup {p}
  <2>1. ASSUME NEW i \in DOMAIN items'
        PROVE  items'[i] \in {items[j] : j \in DOMAIN items} \cup {p}
    BY <1>1
  <2>2. ASSUME NEW i \in DOMAIN items PROVE items[i] \in {items'[j] : j \in DOMAIN items'}
    BY <1>1
  <2>3. p \in {items'[j] : j \in DOMAIN items'}
    BY <1>1
  <2> QED
    BY <2>1, <2>2, <2>3
<1> QED
  BY <1>5, <1>6, <1>7

-----------------------------------------------------------------------------
(* The steps.                                                                *)

\* What data and text say of each other outlasts the steps that leave them.
LEMMA ParserType == TypeOK /\ TextInv /\ [Next]_vars => TypeOK' /\ TextInv'
<1> SUFFICES ASSUME TypeOK, TextInv, [Next]_vars PROVE TypeOK' /\ TextInv'
  OBVIOUS
<1>1. CASE FromString
  <2>1. text \in Seq(Lines)
    BY DEF TypeOK
  <2>2. text' = text /\ data' = StripComments
    BY <1>1 DEF FromString
  <2>3. data' = StripComments'
    BY <2>2 DEF StripComments, Kept, Uncommented, TokenAt, Row
  <2>4. data' \subseteq [token : Token \ {"#"}, at : Place,
                         line : Nat \ {0}, col : Nat \ {0}]
    BY <2>1, <2>2, StripTokens
  <2> QED
    BY <1>1, <2>3, <2>4 DEF FromString, TypeOK, TextInv
<1>2. ASSUME UNCHANGED <<text, data>>, status' = "new" <=> status = "new",
             status' \in {"new", "more", "done", "error"}, pos' \in Nat,
             eof' \in BOOLEAN, items' \in Seq(Place),
             status' = "new" => UNCHANGED <<items, pos, eof>>
      PROVE  TypeOK' /\ TextInv'
  <2>1. StripComments' = StripComments
    BY <1>2 DEF StripComments, Kept, Uncommented, TokenAt, Row
  <2> QED
    BY <1>2, <2>1 DEF TypeOK, TextInv
<1>3. ASSUME NEW str \in SUBSET data, Give(str)
      PROVE  /\ UNCHANGED <<text, data>> /\ items' \in Seq(Place)
             /\ status' \in {"more", "error"}
  <2>1. \A o \in str : o.at \in Place
    BY DEF TypeOK
  <2>2. items \in Seq(Place)
    BY DEF TypeOK
  <2> QED
    BY <1>3, <2>1, <2>2 DEF Give
<1>4. CASE NextLast
  <2>1. Rest \in SUBSET data
    BY DEF Rest
  <2> QED
    BY <1>2, <1>3, <1>4, <2>1 DEF NextLast, Polled, TypeOK
<1>5. CASE NextErr
  BY <1>2, <1>5 DEF NextErr, Polled, TypeOK
<1>6. CASE NextCut
  <2> PICK t \in Rest : Advance(t) /\ Give(Upto(t))
    BY <1>6 DEF NextCut
  <2>1. Upto(t) \in SUBSET data
    BY DEF Rest, Upto
  <2>2. t.line \in Nat /\ pos \in Nat /\ t.line > pos
    BY DEF TypeOK, Rest
  <2>3. pos' \in Nat
    BY <2>2 DEF Advance, Line
  <2> QED
    BY <1>2, <1>3, <1>6, <2>1, <2>3 DEF NextCut, Polled, TypeOK
<1>7. CASE NextNone
  BY <1>2, <1>7 DEF NextNone, TypeOK
<1>8. CASE UNCHANGED vars
  BY <1>2, <1>8 DEF vars, TypeOK
<1> QED
  BY <1>1, <1>4, <1>5, <1>6, <1>7, <1>8 DEF Next, Step, Finished

\* When nothing moves, the item that is given again is the one before, and
\* what keeps the parser there is on its line.
LEMMA StuckGives ==
    ASSUME TypeOK, Stripped, Stuck, NothingSkipped, NEW o, NEW c, NEW t,
           IsItem(Rest, o, c), First(After(Rest, c), t),
           UNCHANGED text, items' = Append(items, o.at)
    PROVE  NothingSkipped' /\ t.line = o.line
<1>1. Rest \in SUBSET data /\ After(Rest, c) \in SUBSET data
  BY DEF Rest, After
<1>2. /\ t.line = o.line /\ items # <<>> /\ o.at = items[Len(items)]
  <2> PICK p \in Rest, d \in Rest, u \in Rest :
         /\ IsItem(Rest, p, d) /\ First(After(Rest, d), u)
         /\ u.line = p.line /\ p.at = items[Len(items)]
    BY DEF Stuck
  <2>1. o = p /\ c = d
    BY <1>1, ItemUnique
  <2>2. t = u
    BY <1>1, <2>1, FirstUnique
  <2> QED
    BY <2>1, <2>2 DEF Stuck
<1>3. /\ o \in data /\ c \in data /\ t \in data
      /\ o.token = "{" /\ c.token = "}" /\ Before(o, c) /\ Before(c, t)
  BY <1>1, ItemTokens DEF First, After
<1>4. Crowded(o.at)
  <2>1. c.line = o.line
    <3>1. \A u \in data : u.line \in Nat
      BY DEF Stripped
    <3> PICK k \in Nat : k = o.line
      BY <1>3, <3>1
    <3> PICK l \in Nat : l = c.line
      BY <1>3, <3>1
    <3>2. Before(o, c) => k <= l
      BY DEF Before
    <3> PICK m \in Nat : m = t.line
      BY <1>3, <3>1
    <3>3. k = m
      BY <1>2
    <3>4. Before(c, t) => l <= m
      BY DEF Before
    <3>5. k <= l /\ l <= m
      BY <1>3, <3>2, <3>4
    <3>6. k = l
      BY <3>3, <3>5
    <3> QED
      BY <3>6
  <2>2. c.at \in Visible /\ t.at \in Visible /\ At(c.at) = "}"
    BY <1>3 DEF Stripped
  <2>3. c.at[1] = o.at[1] /\ t.at[1] = o.at[1]
    BY <1>2, <1>3, <2>1 DEF Stripped
  <2>4. Earlier(o.at, c.at) /\ Earlier(c.at, t.at)
    BY <1>3 DEF Stripped
  <2> QED
    BY <2>2, <2>3, <2>4 DEF Crowded
<1> PICK p \in Place : p = o.at
  BY <1>3 DEF Stripped
<1>5. /\ Len(items) \in Nat \ {0} /\ DOMAIN items = 1 .. Len(items)
      /\ DOMAIN items' = 1 .. Len(items) + 1 /\ items'[Len(items) + 1] = p
      /\ \A i \in DOMAIN items : items'[i] = items[i]
  <2>1. items \in Seq(Place)
    BY DEF TypeOK
  <2> QED
    BY <1>2, <2>1, AppendFacts
<1>6. p \in Objects
  BY <1>2, <1>5 DEF NothingSkipped
<1>7. NothingSkipped'
  <2>1. Objects' = Objects /\ \A q : Crowded(q)' = Crowded(q)
    BY DEF Objects, Visible, At, Crowded
  <2> SUFFICES ASSUME NEW i \in DOMAIN items'
               PROVE
      /\ items'[i] \in Objects
      /\ i = 1 => \A q \in Objects : ~Earlier(q, items'[i])
      /\ i > 1 => \/ items'[i] = items'[i - 1] /\ Crowded(items'[i])
                  \/ /\ Earlier(items'[i - 1], items'[i])
                     /\ \A q \in Objects : ~(/\ Earlier(items'[i - 1], q)
                                             /\ Earlier(q, items'[i]))
    BY <2>1 DEF NothingSkipped
  <2>2. CASE i \in DOMAIN items
    <3>1. i > 1 => i - 1 \in DOMAIN items
      BY <1>5, <2>2
    <3> QED
      BY <1>5, <2>2, <3>1 DEF NothingSkipped
  <2>3. CASE i \notin DOMAIN items
    <3>1. i = Len(items) + 1 /\ items'[i] = p /\ i # 1
      BY <1>5, <2>3
    <3>2. i - 1 \in DOMAIN items /\ i - 1 = Len(items)
      BY <1>5, <3>1
    <3>3. items'[i - 1] = p
      BY <1>2, <1>5, <3>2
    <3> QED
      BY <1>4, <1>6, <3>1, <3>3
  <2> QED
    BY <2>2, <2>3
<1> QED
  BY <1>2, <1>7

LEMMA AtLeast == \A k, n \in Nat : k > n - 1 <=> k >= n
OBVIOUS

\* An error at t, the token behind the first item of the rest: the lines
\* before t are passed, the opening brace with them if it is on one of them.
LEMMA CutRest ==
    ASSUME TypeOK, Stripped, NEW o, NEW c, NEW t,
           IsItem(Rest, o, c), First(After(Rest, c), t),
           UNCHANGED data, pos' = t.line - 1
    PROVE  /\ (Rest' = Rest /\ t.line = o.line) \/ o \notin Rest'
           /\ t.line = o.line => Rest' = Rest
           /\ \A u \in data : u \in Rest' => u \in Rest
           /\ \A u \in data : u \notin Rest' => u # t /\ ~Before(t, u)
<1>1. Rest \in SUBSET data /\ After(Rest, c) \in SUBSET data
  BY DEF Rest, After
<1>2. /\ o \in data /\ t \in data /\ o \in Rest /\ t \in Rest
      /\ Before(o, t) /\ \A u \in Rest : u = o \/ Before(o, u)
  <2>1. /\ o \in Rest /\ c \in Rest /\ t \in Rest
        /\ Before(o, c) /\ Before(c, t) /\ \A u \in Rest : u = o \/ Before(o, u)
    BY <1>1, ItemTokens DEF First, After
  <2>2. o \in data /\ c \in data /\ t \in data
    BY <1>1, <2>1
  <2> QED
    BY <2>1, <2>2, TokenOrder
<1>3. \A u \in data : u.line \in Nat \ {0}
  BY DEF Stripped
<1> PICK n \in Nat : n = pos
  BY DEF TypeOK
<1> PICK first \in Nat \ {0} : first = o.line
  BY <1>2, <1>3
<1> PICK next \in Nat \ {0} : next = t.line
  BY <1>2, <1>3
<1>4. first <= next /\ n < next
  <2>1. Before(o, t) => first <= next
    BY DEF Before
  <2>2. t \in Rest => n < next
    BY DEF Rest
  <2> QED
    BY <1>2, <2>1, <2>2
<1>5. ASSUME NEW u \in data
      PROVE  /\ u \in Rest' => u \in Rest
             /\ u \in Rest' <=> u.line >= next
             /\ u \in Rest => u.line >= first
             /\ u \notin Rest' => u # t /\ ~Before(t, u)
  <2> PICK k \in Nat \ {0} : k = u.line
    BY <1>3
  <2>1. u \in Rest <=> k > n
    BY DEF Rest
  <2>2. u \in Rest' <=> k > next - 1
    <3>1. pos' = next - 1
      OBVIOUS
    <3>2. u \in Rest' <=> k > pos'
      BY DEF Rest
    <3> QED
      BY <3>1, <3>2
  <2>3. u \in Rest' <=> k >= next
    BY <2>2, AtLeast
  <2>4. u \in Rest' => k > n
    <3>1. n < next
      BY <1>4
    <3>2. k >= next => k > n
      BY <3>1
    <3> QED
      BY <2>3, <3>2
  <2>5. u \in Rest => u = o \/ Before(o, u)
    BY <1>2
  <2>6. Before(o, u) => first <= k
    BY DEF Before
  <2>7. u = o => first = k
    OBVIOUS
  <2>8. Before(t, u) => next <= k
    BY DEF Before
  <2>9. u = t => next = k
    OBVIOUS
  <2>10. first <= k => k >= first
    OBVIOUS
  <2>11. next <= k => u \in Rest'
    BY <2>3
  <2>12. u \in Rest => k >= first
    BY <2>5, <2>6, <2>7, <2>10
  <2>13. next = k => next <= k
    OBVIOUS
  <2>14. u \in Rest' => u \in Rest
    BY <2>1, <2>4
  <2>15. u \notin Rest' => ~Before(t, u) /\ u # t
    BY <2>8, <2>9, <2>11, <2>13
  <2> QED
    BY <2>3, <2>12, <2>14, <2>15
<1>6. first = next => Rest' = Rest
  BY <1>1, <1>5 DEF Rest
<1>7. first # next => o \notin Rest'
  <2>1. first # next => ~(first >= next)
    BY <1>4
  <2> QED
    BY <1>2, <1>5, <2>1
<1> QED
  BY <1>5, <1>6, <1>7

\* A line that is passed no further is parsed again.
LEMMA StuckStays ==
    ASSUME TypeOK, Stripped, NEW o, NEW c, NEW t,
           IsItem(Rest, o, c), First(After(Rest, c), t), t.line = o.line,
           UNCHANGED data, items' = Append(items, o.at), pos' = t.line - 1
    PROVE  Stuck'
<1>1. Rest \in SUBSET data /\ After(Rest, c) \in SUBSET data
  BY DEF Rest, After
<1>2. o \in Rest /\ c \in Rest /\ t \in Rest /\ o \in data
  BY <1>1, ItemTokens DEF First, After
<1>3. Rest' = Rest
  BY CutRest
<1>4. items \in Seq(Place) /\ o.at \in Place
  BY <1>2 DEF TypeOK, Stripped
<1>5. items' # <<>> /\ items'[Len(items')] = o.at
  BY <1>4, AppendFacts
<1> QED
  BY <1>2, <1>3, <1>5 DEF Stuck

\* What is given after an item at an error at t, in a clean state.
LEMMA CutMoves ==
    ASSUME TypeOK, Stripped, Clean, NothingSkipped, NEW o, NEW c, NEW t,
           IsItem(Rest, o, c), First(After(Rest, c), t),
           UNCHANGED <<text, data>>, items' = Append(items, o.at),
           pos' = t.line - 1
    PROVE  Clean' \/ Stuck'
<1>1. Rest \in SUBSET data /\ After(Rest, c) \in SUBSET data
  BY DEF Rest, After
<1>2. /\ o \in data /\ t \in data /\ o.token = "{" /\ c.token = "}"
      /\ \A u \in Rest : u = o \/ u = c \/ Before(c, u)
                           \/ (u.token = "member" /\ Before(u, c))
  BY <1>1, ItemTokens DEF First, After
<1>3. CASE Rest' = Rest /\ t.line = o.line
  BY <1>3, StuckStays
<1>4. CASE o \notin Rest'
  <2>2. ASSUME NEW u \in Rest, u \notin Rest', u.token = "{" PROVE u = o
    <3>1. ~Before(t, u) /\ u # t /\ u \in data
      BY <1>1, <2>2, CutRest
    <3>2. Before(u, t)
      BY <1>2, <3>1 DEF Stripped
    <3>3. ~Before(c, u)
      BY <3>2 DEF First, After
    <3> QED
      BY <1>2, <2>2, <3>3
  <2>3. \A u \in data \ Rest : u \notin Rest'
    BY CutRest
  <2>4. Opening(data \ Rest') = Opening(data \ Rest) \cup {o}
    BY <1>2, <1>4, <2>2, <2>3 DEF Opening
  <2>5. {u.at : u \in Opening(data \ Rest')}
           = {u.at : u \in Opening(data \ Rest)} \cup {o.at}
    BY <2>4
  <2>6. /\ InOrder'
        /\ {items'[i] : i \in DOMAIN items'}
              = {items[i] : i \in DOMAIN items} \cup {o.at}
    BY CleanGives
  <2>7. {items'[i] : i \in DOMAIN items'} = {u.at : u \in Opening(data' \ Rest')}
    BY <2>5, <2>6 DEF Clean
  <2> QED
    BY <2>6, <2>7 DEF Clean, Opening
<1> QED
  BY <1>3, <1>4, CutRest

\* A clean state, and nothing behind the next item: then all was given.
LEMMA LastGives ==
    ASSUME TypeOK, Stripped, Clean, NothingSkipped, NEW o, NEW c,
           IsItem(Rest, o, c), After(Rest, c) = {},
           UNCHANGED text, items' = Append(items, o.at)
    PROVE  Complete'
<1>1. Rest \in SUBSET data
  BY DEF Rest
<1>2. /\ o \in Rest /\ o.token = "{" /\ c.token = "}"
      /\ \A u \in Rest : u = o \/ u = c \/ Before(c, u)
                           \/ (u.token = "member" /\ Before(u, c))
  BY <1>1, ItemTokens
<1>3. ASSUME NEW u \in Rest, u.token = "{" PROVE u = o
  BY <1>2, <1>3 DEF After
<1>4. Opening(data) = Opening(data \ Rest) \cup {o}
  BY <1>1, <1>2, <1>3 DEF Opening
<1>5. {u.at : u \in Opening(data)} = {u.at : u \in Opening(data \ Rest)} \cup {o.at}
  BY <1>4
<1>6. /\ InOrder'
      /\ {items'[i] : i \in DOMAIN items'}
            = {items[i] : i \in DOMAIN items} \cup {o.at}
  BY CleanGives
<1>7. Objects = {items'[i] : i \in DOMAIN items'}
  BY <1>5, <1>6, ObjectTokens DEF Clean
<1>8. Objects' = Objects /\ o.at \in Objects
  <2>1. Objects' = Objects
    BY DEF Objects, Visible, At
  <2> QED
    BY <1>5, <2>1, ObjectTokens
<1> QED
  BY <1>6, <1>7, <1>8 DEF Complete

LEMMA ItemsKept ==
    ASSUME UNCHANGED <<text, items>>
    PROVE  (NothingSkipped => NothingSkipped') /\ (Complete => Complete')
<1>1. Objects' = Objects /\ \A q : Crowded(q)' = Crowded(q)
  BY DEF Objects, Visible, At, Crowded
<1> QED
  BY <1>1 DEF NothingSkipped, Complete, InOrder

LEMMA ParserInit == Init => IInv
<1> SUFFICES ASSUME Init PROVE IInv
  OBVIOUS
<1>1. text \in Seq(Lines)
  <2> PICK n \in 0 .. MaxLines : text \in [1 .. n -> Lines]
    BY DEF Init
  <2>1. n \in Nat
    BY ParserAssumption
  <2> QED
    BY <2>1
<1>2. items = <<>> /\ data = {} /\ pos = 0 /\ eof = FALSE /\ status = "new"
  BY DEF Init
<1>3. items \in Seq(Place) /\ DOMAIN items = {}
  BY <1>2
<1>4. TypeOK
  BY <1>1, <1>2, <1>3 DEF TypeOK
<1>5. TextInv /\ PlaceInv
  BY <1>2 DEF TextInv, PlaceInv
<1>6. NothingSkipped
  BY <1>3 DEF NothingSkipped
<1> QED
  BY <1>4, <1>5, <1>6 DEF IInv

LEMMA ParserStep == IInv /\ [Next]_vars => PlaceInv' /\ NothingSkipped'
<1> SUFFICES ASSUME IInv, [Next]_vars PROVE PlaceInv' /\ NothingSkipped'
  OBVIOUS
<1>1. TypeOK /\ TextInv /\ PlaceInv /\ NothingSkipped
  BY DEF IInv
<1>2. ASSUME UNCHANGED <<text, items, eof>>,
             status' = "more" /\ ~eof' =>
                status = "more" /\ UNCHANGED <<data, pos>>,
             status' = "done" => eof'
      PROVE  PlaceInv' /\ NothingSkipped'
  <2>1. NothingSkipped' /\ (Complete => Complete')
    BY <1>1, <1>2, ItemsKept
  <2>2. UNCHANGED <<data, pos>> => (Clean \/ Stuck => Clean' \/ Stuck')
    <3> SUFFICES ASSUME UNCHANGED <<data, pos>>
                 PROVE  Clean \/ Stuck => Clean' \/ Stuck'
      OBVIOUS
    <3>1. Rest' = Rest
      BY DEF Rest
    <3> QED
      BY <1>2, <3>1 DEF Clean, Stuck, InOrder, Opening
  <2> QED
    BY <1>1, <1>2, <2>1, <2>2 DEF PlaceInv
<1>3. ASSUME Polled
      PROVE  /\ Stripped /\ status = "more" /\ ~eof
             /\ Clean \/ Stuck
  <2>1. text \in Seq(Lines) /\ data = StripComments
    BY <1>1, <1>3 DEF TypeOK, TextInv, Polled
  <2>2. Stripped
    BY <2>1, StripFacts
  <2> QED
    BY <1>1, <1>3, <2>2 DEF PlaceInv, Polled
<1>4. CASE FromString
  <2>1. items' = <<>> /\ pos' = 0 /\ ~eof' /\ status' = "more" /\ text' = text
    BY <1>1, <1>4 DEF FromString, TextInv
  <2>2. data' \subseteq [token : Token \ {"#"}, at : Place,
                         line : Nat \ {0}, col : Nat \ {0}]
    BY <1>1, <1>4, StripTokens DEF FromString, TypeOK
  <2>3. Rest' = data'
    <3>1. \A t \in data' : t.line \in Nat \ {0}
      BY <2>2
    <3>2. \A n \in Nat \ {0} : n > 0
      OBVIOUS
    <3>3. \A t \in data' : t.line > pos'
      BY <2>1, <3>1, <3>2
    <3> QED
      BY <3>3 DEF Rest
  <2>4. Clean'
    <3>1. DOMAIN items' = {} /\ data' \ Rest' = {}
      BY <2>1, <2>3
    <3>2. InOrder' /\ {items'[i] : i \in DOMAIN items'} = {}
      BY <3>1 DEF InOrder
    <3>3. {o.at : o \in Opening(data' \ Rest')} = {}
      BY <3>1 DEF Opening
    <3> QED
      BY <3>2, <3>3 DEF Clean, Opening
  <2> QED
    <3>1. NothingSkipped'
      BY <2>1 DEF NothingSkipped
    <3> QED
      BY <2>1, <2>4, <3>1 DEF PlaceInv
<1>5. CASE NextLast
  <2>1. /\ Polled /\ eof' = TRUE /\ Give(Rest)
        /\ \E o \in Rest : Parsed(Rest, o)
    BY <1>5 DEF NextLast
  <2> PICK o \in Rest : /\ Parsed(Rest, o)
                        /\ items' = Append(items, o.at) /\ status' = "more"
                        /\ text' = text
    BY <2>1 DEF Give
  <2> PICK c \in Rest : IsItem(Rest, o, c) /\ After(Rest, c) = {}
    BY DEF Parsed
  <2>2. Clean
    <3>2. ~Stuck
      <4> SUFFICES ASSUME Stuck PROVE FALSE
        OBVIOUS
      <4> PICK p \in Rest, d \in Rest, u \in Rest :
             IsItem(Rest, p, d) /\ First(After(Rest, d), u)
        BY DEF Stuck
      <4>1. Rest \in SUBSET data
        BY DEF Rest
      <4>2. c = d
        BY <1>3, <2>1, <4>1, ItemUnique
      <4> QED
        BY <4>2 DEF First
    <3> QED
      BY <1>3, <2>1, <3>2
  <2>3. NothingSkipped'
    BY <1>1, <1>3, <2>1, <2>2, CleanGives
  <2>4. Complete'
    BY <1>1, <1>3, <2>1, <2>2, LastGives
  <2> QED
    BY <2>1, <2>3, <2>4 DEF PlaceInv
<1>6. CASE NextErr
  BY <1>2, <1>6 DEF NextErr
<1>7. CASE NextCut
  <2>1. Polled /\ UNCHANGED eof
    BY <1>7 DEF NextCut
  <2> PICK t \in Rest : Advance(t) /\ Give(Upto(t))
    BY <1>7 DEF NextCut
  <2>2. CASE status' = "error"
    <3>1. UNCHANGED <<text, items>>
      BY <2>2 DEF Give
    <3> QED
      BY <1>2, <2>1, <2>2, <3>1
  <2>3. CASE status' # "error"
    <3> PICK o \in Upto(t) : /\ Parsed(Upto(t), o)
                             /\ items' = Append(items, o.at) /\ status' = "more"
                             /\ UNCHANGED <<text, data>>
      BY <2>3 DEF Give
    <3> PICK c \in Rest : IsItem(Rest, o, c) /\ First(After(Rest, c), t)
      BY <1>3, <2>1, CutItem
    <3>1. pos' = t.line - 1
      <4>1. \A u \in data : u.line \in Nat
        BY <1>3, <2>1 DEF Stripped
      <4> PICK n \in Nat : n = t.line
        BY <4>1 DEF Rest
      <4> PICK m \in Nat : m = pos
        BY <1>1 DEF TypeOK
      <4>2. pos' = m + (n - m) - 1
        BY DEF Advance, Line
      <4>3. m + (n - m) - 1 = n - 1
        OBVIOUS
      <4> QED
        BY <4>2, <4>3
    <3>2. CASE Clean
      <4>1. NothingSkipped'
        BY <1>1, <1>3, <2>1, <3>2, CleanGives
      <4>2. Clean' \/ Stuck'
        BY <1>1, <1>3, <2>1, <3>1, <3>2, CutMoves
      <4> QED
        BY <1>3, <2>1, <4>1, <4>2 DEF PlaceInv
    <3>3. CASE Stuck
      <4>1. NothingSkipped' /\ t.line = o.line
        BY <1>1, <1>3, <2>1, <3>3, StuckGives
      <4>2. Stuck'
        BY <1>1, <1>3, <2>1, <3>1, <4>1, StuckStays
      <4> QED
        BY <1>3, <2>1, <4>1, <4>2 DEF PlaceInv
    <3> QED
      BY <1>3, <2>1, <3>2, <3>3
  <2> QED
    BY <2>2, <2>3
<1>8. CASE NextNone
  BY <1>2, <1>8 DEF NextNone
<1>9. CASE UNCHANGED vars
  <2>1. UNCHANGED <<text, items, data, pos, eof, status>>
    BY <1>9 DEF vars
  <2> QED
    BY <1>1, <1>2, <2>1 DEF PlaceInv
<1> QED
  BY <1>4, <1>5, <1>6, <1>7, <1>8, <1>9 DEF Next, Step, Finished

THEOREM ParserInvariant == Spec => []IInv
<1>1. IInv /\ [Next]_vars => IInv'
  BY ParserType, ParserStep DEF IInv
<1> QED
  BY ParserInit, <1>1, PTL DEF Spec

-----------------------------------------------------------------------------
\* At every point of the iteration over any file the variables have their
\* types; in particular pos never becomes negative, although next() subtracts.
THEOREM ParserTypes == Spec => []TypeOK
<1>1. IInv => TypeOK
  BY DEF IInv
<1> QED
  BY ParserInvariant, <1>1, PTL

\* Whatever the layout of the file and whatever is in it, the iterator starts
\* with its first object and goes on with the next one; it gives an object
\* again only if something stands behind it on its line.
THEOREM NothingIsSkipped == Spec => []NothingSkipped
<1>1. IInv => NothingSkipped
  BY DEF IInv
<1> QED
  BY ParserInvariant, <1>1, PTL

\* An iteration that ends without an error gave each object of the file once,
\* in order: codegen never takes a part of a schema for the whole.
THEOREM EndIsWhole == Spec => []DoneIsWhole
<1>1. IInv => DoneIsWhole
  BY DEF IInv, PlaceInv, Complete, InOrder, DoneIsWhole
<1> QED
  BY ParserInvariant, <1>1, PTL

-----------------------------------------------------------------------------
(* Files whose objects start lines of their own.                             *)

\* The iteration does not fail, and gives no object twice.
OwnLinesSafe ==
    OwnLines /\ WellFormed =>
        /\ status # "error"
        /\ \A i \in DOMAIN items : i > 1 => Earlier(items[i - 1], items[i])

\* The same of the tokens: t is part of the object from o to c.
Around(o, t, c) ==
    /\ o.token = "{" /\ c.token = "}" /\ Before(o, c)
    /\ t = o \/ t = c \/ (Before(o, t) /\ Before(t, c))
    /\ \E m \in data : Before(o, m) /\ Before(m, c)
    /\ \A m \in data : Before(o, m) /\ Before(m, c) => m.token = "member"

Itemised == data # {} /\ \A t \in data : \E o, c \in data : Around(o, t, c)

\* A text that is not finished goes on with an object.
OwnInv ==
    OwnLines /\ WellFormed =>
        /\ status # "error"
        /\ status = "more" /\ ~eof =>
             Rest # {} /\ \A o \in Rest : First(Rest, o) => o.token = "{"

TokenInv == status # "new" => Stripped /\ (WellFormed => Itemised)

\* No place is before itself.
LEMMA NotEarlier == \A p \in Place : ~Earlier(p, p)
<1> SUFFICES ASSUME NEW p \in Place, Earlier(p, p) PROVE FALSE
  OBVIOUS
<1> PICK a \in Nat, b \in Nat : p = <<a, b>>
  BY DEF Place
<1>1. a < a \/ (a = a /\ b < b)
  BY DEF Earlier
<1> QED
  BY <1>1

\* Nothing on a line is before its first column.
LEMMA FirstColumn ==
    \A p, q \in Place : p[1] = q[1] /\ q[2] = 1 => ~Earlier(p, q)
<1> SUFFICES ASSUME NEW p \in Place, NEW q \in Place, p[1] = q[1], q[2] = 1,
                    Earlier(p, q)
             PROVE  FALSE
  OBVIOUS
<1> PICK a \in Nat \ {0}, b \in Nat \ {0} : p = <<a, b>>
  BY DEF Place
<1> PICK x \in Nat \ {0}, y \in Nat \ {0} : q = <<x, y>>
  BY DEF Place
<1>1. a = x /\ y = 1
  OBVIOUS
<1>2. a < x \/ (a = x /\ b < y)
  BY DEF Earlier
<1> QED
  BY <1>1, <1>2

LEMMA AtMost ==
    \A k, n \in Nat \ {0} : n >= n /\ ((k < n \/ k = n) /\ k >= n => k = n)
OBVIOUS

LEMMA WellFormedTokens == ASSUME Stripped, WellFormed PROVE Itemised
<1>1. data # {}
  BY DEF Stripped, WellFormed
<1>2. ASSUME NEW t \in data PROVE \E o, c \in data : Around(o, t, c)
  <2> PICK p \in Objects, q \in Visible : Encloses(p, t.at, q)
    BY DEF Stripped, WellFormed
  <2>1. p \in Visible /\ At(p) = "{"
    BY DEF Objects
  <2> PICK o \in data : o.at = p
    BY <2>1 DEF Stripped
  <2> PICK c \in data : c.at = q
    BY DEF Stripped
  <2>2. o.token = "{" /\ c.token = "}"
    BY <2>1 DEF Stripped, Encloses
  <2>3. \A u, v \in data : u.at = v.at => u = v
    BY NotEarlier DEF Stripped
  <2>4. Before(o, c) /\ (t = o \/ t = c \/ (Before(o, t) /\ Before(t, c)))
    BY <2>3 DEF Stripped, Encloses
  <2>5. \E m \in data : Before(o, m) /\ Before(m, c)
    <3> PICK r \in Visible : Earlier(p, r) /\ Earlier(r, q)
      BY DEF Encloses
    <3> PICK m \in data : m.at = r
      BY DEF Stripped
    <3> QED
      BY DEF Stripped
  <2>6. ASSUME NEW m \in data, Before(o, m), Before(m, c)
        PROVE  m.token = "member"
    <3>1. m.at \in Visible /\ Earlier(p, m.at) /\ Earlier(m.at, q)
      BY <2>6 DEF Stripped
    <3>2. At(m.at) = "member"
      BY <3>1 DEF Encloses
    <3> QED
      BY <3>2 DEF Stripped
  <2> QED
    BY <2>2, <2>4, <2>5, <2>6 DEF Around
<1> QED
  BY <1>1, <1>2 DEF Itemised

\* What is behind a token of the rest is in the rest.
LEMMA RestGoesOn ==
    ASSUME Stripped, pos \in Nat, NEW u \in Rest, NEW v \in data, Before(u, v)
    PROVE  v \in Rest
<1> PICK k \in Nat : k = u.line
  BY DEF Stripped, Rest
<1> PICK l \in Nat : l = v.line
  BY DEF Stripped
<1> PICK n \in Nat : n = pos
  OBVIOUS
<1>1. k > n
  BY DEF Rest
<1>2. k <= l
  BY DEF Before
<1>3. l > n
  BY <1>1, <1>2
<1> QED
  BY <1>3 DEF Rest

\* The object that starts where the rest does.
LEMMA FirstItem ==
    ASSUME Stripped, pos \in Nat, Itemised, NEW o \in Rest, First(Rest, o),
           o.token = "{"
    PROVE  \E c, m \in Rest :
             /\ c.token = "}" /\ Before(o, m) /\ Before(m, c) /\ Before(o, c)
             /\ \A u \in data : Before(o, u) /\ Before(u, c) => u.token = "member"
<1>1. o \in data
  BY DEF Rest
<1> PICK p \in data, c \in data : Around(p, o, c)
  BY <1>1 DEF Itemised
<1>2. p = o
  BY <1>1 DEF Around
<1> PICK m \in data : Before(o, m) /\ Before(m, c)
  BY <1>2 DEF Around
<1>3. c.token = "}" /\ Before(o, c)
  BY <1>2 DEF Around
<1>4. c \in Rest /\ m \in Rest
  BY <1>3, RestGoesOn
<1> QED
  BY <1>2, <1>3, <1>4 DEF Around

\* In such a text an error has a place: the token behind an item.
LEMMA OwnError ==
    ASSUME Stripped, pos \in Nat, Itemised, Rest # {},
           \A o \in Rest : First(Rest, o) => o.token = "{"
    PROVE  /\ ~ErrorNowhere(Rest)
           /\ \A t \in Rest : ErrorAt(Rest, t) =>
                \E o, c \in Rest : IsItem(Rest, o, c) /\ First(After(Rest, c), t)
<1>1. Rest \in SUBSET data
  BY DEF Rest
<1>2. ASSUME NEW o \in Rest, First(Rest, o), NEW c \in Rest,
             First(After(Rest, o), c), c.token = "}"
      PROVE  FALSE
  <2> PICK d \in Rest, m \in Rest :
         /\ d.token = "}" /\ Before(o, m) /\ Before(m, d)
         /\ \A u \in data : Before(o, u) /\ Before(u, d) => u.token = "member"
    <3>1. o.token = "{"
      BY <1>2
    <3> QED
      BY <1>2, <3>1, FirstItem
  <2>1. m \in After(Rest, o) /\ m.token = "member" /\ Before(o, c)
    BY <1>1, <1>2 DEF After, First
  <2>2. Before(c, m)
    BY <1>1, <1>2, <2>1 DEF First, Stripped
  <2>3. Before(c, d)
    BY <1>1, <2>2, TokenOrder
  <2>4. c.token = "member"
    BY <1>1, <2>1, <2>3
  <2> QED
    BY <1>2, <2>4
<1>3. ~ErrorNowhere(Rest)
  BY <1>2 DEF ErrorNowhere, First
<1>4. ASSUME NEW t \in Rest, ErrorAt(Rest, t)
      PROVE  \E o, c \in Rest : IsItem(Rest, o, c) /\ First(After(Rest, c), t)
  <2>1. CASE First(Rest, t) /\ t.token = "}"
    BY <2>1
  <2>2. ASSUME NEW o \in Rest, First(Rest, o), Closes(Rest, o, t), t.token = "{"
        PROVE  FALSE
    <3> PICK d \in Rest :
           /\ d.token = "}" /\ Before(o, d)
           /\ \A u \in data : Before(o, u) /\ Before(u, d) => u.token = "member"
      BY <2>2, FirstItem
    <3>1. d \in {u \in After(Rest, o) : u.token # "member"}
      BY DEF After
    <3>2. ~Before(d, t) /\ Before(o, t)
      BY <2>2, <3>1 DEF Closes, First, After
    <3>3. Before(t, d)
      BY <1>1, <2>2, <3>2 DEF Stripped
    <3> QED
      BY <1>1, <2>2, <3>2, <3>3
  <2>3. ASSUME NEW o \in Rest, First(Rest, o),
               \A u \in After(Rest, o) : u.token = "member"
        PROVE  FALSE
    <3> PICK d \in Rest : d.token = "}" /\ Before(o, d)
      BY <2>3, FirstItem
    <3> QED
      BY <2>3 DEF After
  <2>4. CASE \E o, c \in Rest : IsItem(Rest, o, c) /\ First(After(Rest, c), t)
    BY <2>4
  <2> QED
    BY <1>4, <2>1, <2>2, <2>3, <2>4 DEF ErrorAt
<1> QED
  BY <1>3, <1>4

\* What is before the token behind an item parses.
LEMMA CutParses ==
    ASSUME Stripped, NEW o \in Rest, NEW c \in Rest, NEW t \in Rest,
           IsItem(Rest, o, c), First(After(Rest, c), t)
    PROVE  o \in Upto(t) /\ Parsed(Upto(t), o)
<1>1. Rest \in SUBSET data /\ Upto(t) \in SUBSET Rest
  BY DEF Rest, Upto
<1>2. Before(o, c) /\ Before(c, t) /\ o.token = "{" /\ c.token = "}" /\ First(Rest, o)
  BY <1>1, ItemTokens DEF First, After, IsItem
<1>3. Before(o, t) /\ o \in Upto(t) /\ c \in Upto(t)
  BY <1>1, <1>2, TokenOrder DEF Upto
<1>4. First(Upto(t), o)
  BY <1>1, <1>2, <1>3 DEF First
<1>5. Closes(Upto(t), o, c)
  <2>1. First({u \in After(Rest, o) : u.token # "member"}, c)
    BY DEF IsItem, Closes
  <2>2. c \in After(Upto(t), o) /\ c.token # "member"
    BY <1>2, <1>3 DEF After
  <2>3. \A u \in After(Upto(t), o) : u \in After(Rest, o)
    BY <1>1 DEF After
  <2> QED
    BY <2>1, <2>2, <2>3 DEF Closes, First
<1>6. \E m \in After(Upto(t), o) : Before(m, c)
  <2> PICK m \in After(Rest, o) : Before(m, c)
    BY DEF IsItem
  <2>1. m \in Rest /\ Before(o, m)
    BY DEF After
  <2>2. Before(m, t)
    BY <1>1, <1>2, <2>1, TokenOrder
  <2> QED
    BY <2>1, <2>2 DEF After, Upto
<1>7. After(Upto(t), c) = {}
  <2> SUFFICES ASSUME NEW u \in After(Upto(t), c) PROVE FALSE
    OBVIOUS
  <2>1. u \in Rest /\ Before(c, u) /\ Before(u, t)
    BY DEF After, Upto
  <2>2. u \in After(Rest, c)
    BY <2>1 DEF After
  <2> QED
    BY <2>1, <2>2 DEF First
<1> QED
  BY <1>2, <1>3, <1>4, <1>5, <1>6, <1>7 DEF Parsed, IsItem

\* Behind an object another one opens.
LEMMA NextOpens ==
    ASSUME Stripped, pos \in Nat, Itemised, NEW c \in Rest, c.token = "}",
           NEW t, First(After(Rest, c), t)
    PROVE  t \in Rest /\ Before(c, t) /\ t.token = "{"
<1>1. t \in Rest /\ Before(c, t) /\ \A u \in After(Rest, c) : ~Before(u, t)
  BY DEF First, After
<1>2. Rest \in SUBSET data /\ c \in data /\ t \in data
  BY <1>1 DEF Rest
<1> PICK p \in data, d \in data : Around(p, t, d)
  BY <1>2 DEF Itemised
<1>3. t = d \/ t = p \/ Before(t, d)
  BY DEF Around
<1>4. CASE t # p
  <2>1. Before(p, t)
    BY <1>4 DEF Around
  <2>2. ~Before(c, p)
    <3> SUFFICES ASSUME Before(c, p) PROVE FALSE
      OBVIOUS
    <3>1. p \in Rest
      BY RestGoesOn
    <3>2. p \in After(Rest, c)
      BY <3>1 DEF After
    <3> QED
      BY <1>1, <2>1, <3>2
  <2>3. p # c
    BY DEF Around
  <2>4. Before(p, c)
    BY <1>2, <2>2, <2>3 DEF Stripped
  <2>5. Before(c, d)
    BY <1>1, <1>2, <1>3, <1>4, TokenOrder
  <2>6. c.token = "member"
    BY <1>2, <2>4, <2>5 DEF Around
  <2> QED
    BY <2>6
<1>5. CASE t = p
  BY <1>1, <1>5 DEF Around
<1> QED
  BY <1>4, <1>5

\* The lines that are left start with it.
LEMMA RestOpens ==
    ASSUME Stripped, Stripped', UNCHANGED <<text, data>>, OwnLines,
           NEW t \in data, t.token = "{", pos' = t.line - 1
    PROVE  t \in Rest' /\ \A o \in Rest' : First(Rest', o) => o = t
<1> PICK n \in Nat \ {0} : n = t.line
  BY DEF Stripped
<1>1. \A k \in Nat \ {0} : k > n - 1 <=> k >= n
  BY AtLeast
<1>2. ASSUME NEW u \in data PROVE u \in Rest' <=> u.line >= n
  <2> PICK k \in Nat \ {0} : k = u.line
    BY DEF Stripped
  <2>1. pos' = n - 1
    OBVIOUS
  <2>2. u \in Rest' <=> k > n - 1
    BY <2>1 DEF Rest
  <2> QED
    BY <1>1, <2>2
<1>3. n >= n
  BY AtMost
<1>4. t \in Rest'
  BY <1>2, <1>3
<1>5. t.at \in Objects /\ t.at[2] = 1
  BY DEF Stripped, Objects, OwnLines
<1>6. ASSUME NEW o \in data, o.line >= n PROVE ~Before(o, t)
  <2> SUFFICES ASSUME Before(o, t) PROVE FALSE
    OBVIOUS
  <2> PICK k \in Nat \ {0} : k = o.line
    BY DEF Stripped
  <2>1. k < n \/ k = n
    BY DEF Before
  <2>2. k = n
    <3>1. k >= n
      BY <1>6
    <3>2. (k < n \/ k = n) /\ k >= n => k = n
      BY AtMost
    <3> QED
      BY <2>1, <3>1, <3>2
  <2>3. o.at[1] = t.at[1] /\ Earlier(o.at, t.at)
    <3>1. o.line = t.line
      BY <2>2
    <3>2. o.at[1] = t.at[1]
      BY <3>1 DEF Stripped
    <3>3. Earlier(o.at, t.at)
      BY DEF Stripped
    <3> QED
      BY <3>2, <3>3
  <2>4. o.at \in Place /\ t.at \in Place
    BY DEF Stripped
  <2> QED
    BY <1>5, <2>3, <2>4, FirstColumn
<1>7. ASSUME NEW o \in Rest', First(Rest', o) PROVE o = t
  <2>1. o \in data
    BY DEF Rest
  <2>2. o.line >= n
    BY <1>2, <2>1
  <2>3. ~Before(o, t) /\ ~Before(t, o)
    <3>1. First(Rest', o) => ~Before(t, o)
      BY <1>4 DEF First
    <3> QED
      BY <1>6, <1>7, <2>1, <2>2, <3>1
  <2> QED
    BY <2>1, <2>3 DEF Stripped
<1> QED
  BY <1>4, <1>7

\* Such objects are followed by nothing on their line.
LEMMA OwnNotCrowded ==
    ASSUME Stripped, Itemised, OwnLines, NEW p \in Objects
    PROVE  ~Crowded(p)
<1> SUFFICES ASSUME Crowded(p) PROVE FALSE
  OBVIOUS
<1> PICK r, q \in Visible : /\ r[1] = p[1] /\ q[1] = p[1] /\ At(r) = "}"
                            /\ Earlier(p, r) /\ Earlier(r, q)
  BY DEF Crowded
<1> PICK c \in data : c.at = r
  BY DEF Stripped
<1> PICK t \in data : t.at = q
  BY DEF Stripped
<1>1. c.token = "}" /\ Before(c, t) /\ c.line = t.line
  <2>1. c.token = "}" /\ Before(c, t)
    BY DEF Stripped
  <2>2. c.line = t.line
    BY ZenonT(60) DEF Stripped
  <2> QED
    BY <2>1, <2>2
<1> PICK o \in data, d \in data : Around(o, t, d)
  BY DEF Itemised
<1>2. o = t \/ Before(o, t)
  BY DEF Around
<1>3. CASE Before(c, o)
  <2>1. c.line = o.line
    BY <1>1, <1>2, <1>3, TokenOrder
  <2>2. c.at[1] = o.at[1] /\ Earlier(c.at, o.at)
    <3>1. c.at[1] = o.at[1]
      BY <2>1 DEF Stripped
    <3>2. Earlier(c.at, o.at)
      BY <1>3 DEF Stripped
    <3> QED
      BY <3>1, <3>2
  <2>3. o.at \in Objects
    BY DEF Stripped, Objects, Around
  <2>4. o.at[2] = 1
    BY <2>3 DEF OwnLines
  <2>5. c.at \in Place /\ o.at \in Place
    BY DEF Stripped
  <2> QED
    BY <2>2, <2>4, <2>5, FirstColumn
<1>4. CASE ~Before(c, o)
  <2>1. o # c
    BY <1>1 DEF Around
  <2>2. Before(o, c)
    BY <1>4, <2>1 DEF Stripped
  <2>3. t # o
    BY <1>1, <1>4
  <2>4. t = d \/ Before(t, d)
    BY <2>3 DEF Around
  <2>5. Before(c, d)
    BY <1>1, <2>4, TokenOrder
  <2>6. c.token = "member"
    BY <2>2, <2>5 DEF Around
  <2> QED
    BY <1>1, <2>6
<1> QED
  BY <1>3, <1>4

LEMMA ParserTokens == IInv => TokenInv
<1> SUFFICES ASSUME IInv, status # "new" PROVE Stripped /\ (WellFormed => Itemised)
  BY DEF TokenInv
<1>1. text \in Seq(Lines) /\ data = StripComments
  BY DEF IInv, TypeOK, TextInv
<1>2. Stripped
  BY <1>1, StripFacts
<1> QED
  BY <1>2, WellFormedTokens

LEMMA OwnStep ==
    IInv /\ TokenInv /\ TokenInv' /\ OwnInv /\ [Next]_vars => OwnInv'
<1> SUFFICES ASSUME IInv, TokenInv, TokenInv', OwnInv, [Next]_vars,
                    OwnLines', WellFormed'
             PROVE  /\ status' # "error"
                    /\ status' = "more" /\ ~eof' =>
                         Rest' # {}
                         /\ \A o \in Rest' : First(Rest', o) => o.token = "{"
  BY DEF OwnInv, First, Before
<1>1. text' = text
  BY DEF Next, Step, Finished, vars, FromString, NextLast, NextErr, NextCut,
         NextNone, Give
<1>2. OwnLines /\ WellFormed
  <2>1. Visible' = Visible /\ Objects' = Objects
    BY <1>1 DEF Visible, Objects, At
  <2>2. \A o, p, c : Encloses(o, p, c)' = Encloses(o, p, c)
    BY <1>1, <2>1 DEF Encloses, At, Earlier
  <2>3. OwnLines
    BY <2>1 DEF OwnLines
  <2>4. WellFormed
    BY <2>1, <2>2 DEF WellFormed
  <2> QED
    BY <2>3, <2>4
<1>3. /\ status # "error"
      /\ status = "more" /\ ~eof =>
            Rest # {} /\ \A o \in Rest : First(Rest, o) => o.token = "{"
  BY <1>2 DEF OwnInv
<1>4. pos \in Nat
  BY DEF IInv, TypeOK
<1>5. ASSUME Polled
      PROVE  /\ Stripped /\ Itemised /\ status = "more" /\ ~eof
             /\ Rest # {} /\ \A o \in Rest : First(Rest, o) => o.token = "{"
  BY <1>2, <1>3, <1>5 DEF Polled, TokenInv
<1>6. CASE FromString
  <2>1. status' = "more" /\ pos' = 0
    BY <1>6 DEF FromString, IInv, TextInv
  <2>2. Stripped' /\ Itemised'
    BY <2>1 DEF TokenInv
  <2>3. Rest' = data'
    <3>1. \A t \in data' : t.line \in Nat \ {0}
      BY <2>2 DEF Stripped
    <3>2. \A n \in Nat \ {0} : n > 0
      OBVIOUS
    <3>3. \A t \in data' : t.line > pos'
      BY <2>1, <3>1, <3>2
    <3> QED
      BY <3>3 DEF Rest
  <2>4. ASSUME NEW o \in data', First(data', o) PROVE o.token = "{"
    <3> PICK p \in data', c \in data' : Around(p, o, c)'
      BY <2>2 DEF Itemised
    <3>1. p.token = "{" /\ (o = p \/ Before(p, o))
      BY DEF Around, Before
    <3>2. ~Before(p, o)
      BY <2>4 DEF First
    <3> QED
      BY <3>1, <3>2
  <2>5. data' # {}
    BY <2>2 DEF Itemised
  <2> QED
    BY <2>1, <2>3, <2>4, <2>5
<1>7. CASE NextLast
  BY <1>7 DEF NextLast, Give
<1>8. CASE NextErr
  <2>1. Polled /\ ErrorNowhere(Rest)
    BY <1>8 DEF NextErr
  <2> QED
    BY <1>4, <1>5, <2>1, OwnError
<1>9. CASE NextCut
  <2>1. Polled
    BY <1>9 DEF NextCut
  <2> PICK t \in Rest : ErrorAt(Rest, t) /\ Advance(t) /\ Give(Upto(t))
    BY <1>9 DEF NextCut
  <2> PICK o \in Rest, c \in Rest :
         IsItem(Rest, o, c) /\ First(After(Rest, c), t)
    BY <1>4, <1>5, <2>1, OwnError
  <2>2. Stripped /\ Itemised /\ Rest \in SUBSET data /\ t \in data
    BY <1>5, <2>1 DEF Rest
  <2>3. c.token = "}"
    BY <2>2, ItemTokens
  <2>4. t.token = "{"
    BY <1>4, <2>2, <2>3, NextOpens
  <2>5. o \in Upto(t) /\ Parsed(Upto(t), o)
    BY <2>2, CutParses
  <2>6. status' = "more" /\ data' = data
    BY <2>5 DEF Give
  <2>7. pos' = t.line - 1
    <3> PICK n \in Nat : n = t.line
      BY <2>2 DEF Stripped
    <3> PICK m \in Nat : m = pos
      BY <1>4
    <3>1. pos' = m + (n - m) - 1
      BY DEF Advance, Line
    <3>2. m + (n - m) - 1 = n - 1
      OBVIOUS
    <3> QED
      BY <3>1, <3>2
  <2>8. Stripped'
    BY <2>6 DEF TokenInv
  <2>9. t \in Rest' /\ \A u \in Rest' : First(Rest', u) => u = t
    BY <1>1, <1>2, <2>2, <2>4, <2>6, <2>7, <2>8, RestOpens
  <2> QED
    BY <2>4, <2>6, <2>9
<1>10. CASE NextNone
  BY <1>10 DEF NextNone
<1>11. CASE UNCHANGED vars
  <2>1. UNCHANGED <<data, pos, eof, status>>
    BY <1>11 DEF vars
  <2>2. Rest' = Rest
    BY <2>1 DEF Rest
  <2> QED
    BY <1>3, <2>1, <2>2
<1> QED
  BY <1>6, <1>7, <1>8, <1>9, <1>10, <1>11 DEF Next, Step, Finished

\* A file whose objects have a member and start lines of their own is read
\* without an error, whatever its lines and comments are otherwise, and no item
\* is given twice: next() finds each place to cut the text at.
THEOREM OwnLinesAreSafe == Spec => []OwnLinesSafe
<1>1. Init => OwnInv
  BY DEF Init, OwnInv
<1>2. IInv /\ TokenInv /\ OwnInv => OwnLinesSafe
  <2> SUFFICES ASSUME IInv, TokenInv, OwnInv, OwnLines, WellFormed
               PROVE  /\ status # "error"
                      /\ \A i \in DOMAIN items :
                            i > 1 => Earlier(items[i - 1], items[i])
    BY DEF OwnLinesSafe
  <2>1. status # "error"
    BY DEF OwnInv
  <2>2. ASSUME NEW i \in DOMAIN items, i > 1
        PROVE  Earlier(items[i - 1], items[i])
    <3>1. status # "new"
      BY <2>2 DEF IInv, TextInv
    <3>2. Stripped /\ Itemised
      BY <3>1 DEF TokenInv
    <3>3. items[i] \in Objects
      BY DEF IInv, NothingSkipped
    <3>4. ~Crowded(items[i])
      BY <3>2, <3>3, OwnNotCrowded
    <3> QED
      BY <2>2, <3>4 DEF IInv, NothingSkipped
  <2> QED
    BY <2>1, <2>2
<1> QED
  BY ParserInvariant, ParserTokens, OwnStep, <1>1, <1>2, PTL DEF Spec

=============================================================================
