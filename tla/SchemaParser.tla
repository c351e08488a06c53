---------------------------- MODULE SchemaParser ----------------------------
(***************************************************************************)
(* How qapi-parser splits a schema file into its items.  strip_comments    *)
(* drops comments and blank lines.  Parser::next lets serde_json parse     *)
(* what is left, cuts the text at the place of the error it reports, most  *)
(* often the characters that trail the first object, parses that again,    *)
(* and moves on by the whole lines before the place of the error.          *)
(*                                                                         *)
(* A line is a sequence of tokens: the braces of an object, a member of    *)
(* it, and "#".  An item needs a member, an object without one matches no  *)
(* variant of Spec.  A text is the set of its tokens, each with its place. *)
(***************************************************************************)
EXTENDS Naturals, Sequences, FiniteSets

CONSTANTS
    Lines,     \* the lines a file is made of
    MaxLines,  \* bound on the lines of a file
    MaxItems   \* bound on what is taken from the iterator

Token == {"{", "}", "member", "#"}

ASSUME ParserAssumption ==
    /\ Lines \subseteq Seq(Token)
    /\ MaxLines \in Nat /\ MaxItems \in Nat

VARIABLES
    text,    \* the file
    data,    \* Parser.data: its tokens, each with its place in the file, and
             \* its line and column in data
    pos,     \* Parser.pos: how many lines of data were passed
    eof,     \* Parser.eof
    items,   \* the places of the objects the iterator has given
    status   \* "new", "more", "done", or "error": include() stops at an Err

vars == <<text, data, pos, eof, items, status>>

Place == (Nat \ {0}) \X (Nat \ {0})

TypeOK ==
    /\ text \in Seq(Lines)
    /\ data \subseteq [token : Token \ {"#"}, at : Place,
                       line : Nat \ {0}, col : Nat \ {0}]
    /\ pos \in Nat
    /\ eof \in BOOLEAN
    /\ items \in Seq(Place)
    /\ status \in {"new", "more", "done", "error"}

Init ==
    /\ text \in UNION {[1 .. n -> Lines] : n \in 0 .. MaxLines}
    /\ data = {} /\ pos = 0 /\ eof = FALSE
    /\ items = <<>> /\ status = "new"
-----------------------------------------------------------------------------
(* strip_comments. *)

\* Lines that are a comment or blank go, the others move up.
Kept(n) == text[n] # <<>> /\ text[n][1] # "#"
Row(n)  == Cardinality({m \in 1 .. n : Kept(m)})

\* Of a line the tokens up to its first "#" stay.
Uncommented(n) == {i \in DOMAIN text[n] : \A j \in 1 .. i : text[n][j] # "#"}

TokenAt(n, i) == [token |-> text[n][i], at |-> <<n, i>>,
                  line |-> Row(n), col |-> i]

StripComments ==
    UNION {{TokenAt(n, i) : i \in Uncommented(n)} :
              n \in {m \in DOMAIN text : Kept(m)}}

\* from_string(strip_comments(str)).
FromString ==
    /\ status = "new"
    /\ data' = StripComments
    /\ status' = "more"
    /\ UNCHANGED <<text, pos, eof, items>>
-----------------------------------------------------------------------------
(* serde_json::from_str on a text str.                                       *)

Before(t, u)  == t.line < u.line \/ (t.line = u.line /\ t.col < u.col)
First(str, t) == t \in str /\ \A u \in str : ~Before(u, t)
After(str, t) == {u \in str : Before(t, u)}

\* c is the first token behind the opening brace o that is not a member.
Closes(str, o, c) == First({u \in After(str, o) : u.token # "member"}, c)

\* str starts with an object that is an item, from o to c.
IsItem(str, o, c) ==
    /\ First(str, o) /\ o.token = "{"
    /\ Closes(str, o, c) /\ c.token = "}"
    /\ \E m \in After(str, o) : Before(m, c)

\* It is parsed: it is the item that starts at o and nothing else.
Parsed(str, o) == \E c \in str : IsItem(str, o, c) /\ After(str, c) = {}

\* The error is reported at the token t: what trails an item, a closing brace
\* at the start, an opening one in an object, the end of an open object.
ErrorAt(str, t) ==
    \/ \E o, c \in str : IsItem(str, o, c) /\ First(After(str, c), t)
    \/ First(str, t) /\ t.token = "}"
    \/ \E o \in str :
        /\ First(str, o) /\ o.token = "{"
        /\ \/ Closes(str, o, t) /\ t.token = "{"
           \/ /\ \A u \in After(str, o) : u.token = "member"
              /\ t \in str /\ After(str, t) = {}

\* It has no place, or column 0: there is no text, or no Spec but a value that
\* ends where it should.
ErrorNowhere(str) ==
    \/ str = {}
    \/ \E o \in str :
        /\ First(str, o)
        /\ \/ o.token = "member"
           \/ o.token = "{" /\ \E c \in str : /\ First(After(str, o), c)
                                              /\ c.token = "}"
-----------------------------------------------------------------------------
(* Parser::next. *)

\* &self.data[self.pos..], and the line an error at t has in it.
Rest    == {t \in data : t.line > pos}
Line(t) == t.line - pos

\* Mutant: the text is cut behind the character the error is at.
UptoIncluded(t) == {u \in Rest : u = t \/ Before(u, t)}

\* The text before the place of an error.
Upto(t) == {u \in Rest : Before(u, t)}

Give(str) ==
    /\ \/ \E o \in str : /\ Parsed(str, o)
                         /\ items' = Append(items, o.at) /\ status' = "more"
       \/ /\ \A o \in str : ~Parsed(str, o)
          /\ status' = "error" /\ UNCHANGED items
    /\ UNCHANGED <<text, data>>

Polled == status = "more" /\ ~eof

\* The rest is one object.
NextLast ==
    /\ Polled /\ \E o \in Rest : Parsed(Rest, o)
    /\ eof' = TRUE /\ UNCHANGED pos
    /\ Give(Rest)

\* The error has no place: it is given, and would be again.
NextErr ==
    /\ Polled /\ ErrorNowhere(Rest)
    /\ status' = "error"
    /\ UNCHANGED <<text, data, pos, eof, items>>

\* Mutant: the line of the error is passed, too.
AdvancePast(t) == pos' = pos + Line(t)

Advance(t) == pos' = pos + Line(t) - 1

\* The error has a place: what is before it is parsed again.
NextCut ==
    /\ Polled /\ Len(items) < MaxItems
    /\ \E t \in Rest : ErrorAt(Rest, t) /\ Advance(t) /\ Give(Upto(t))
    /\ UNCHANGED eof

\* The iterator gives None.
NextNone ==
    /\ status = "more" /\ eof
    /\ status' = "done"
    /\ UNCHANGED <<text, data, pos, eof, items>>

\* Nothing is taken from the iterator any more.
Finished ==
    /\ status \in {"done", "error"} \/ Len(items) = MaxItems
    /\ UNCHANGED vars
-----------------------------------------------------------------------------
Step == FromString \/ NextLast \/ NextErr \/ NextCut \/ NextNone

Next == Step \/ Finished

Spec == Init /\ [][Next]_vars

\* include() takes the next item as long as there is one.
FairSpec == Spec /\ WF_vars(Step)
-----------------------------------------------------------------------------
\* The reference: the places of the tokens outside comments, in the order of
\* the file, and of those that start an object.
Visible == {p \in UNION {{n} \X DOMAIN text[n] : n \in DOMAIN text} :
              \A i \in 1 .. p[2] : text[p[1]][i] # "#"}

At(p)         == text[p[1]][p[2]]
Earlier(p, q) == p[1] < q[1] \/ (p[1] = q[1] /\ p[2] < q[2])
Objects       == {p \in Visible : At(p) = "{"}

\* Behind an object that starts at p the line goes on.
Crowded(p) ==
    \E c, q \in Visible : /\ c[1] = p[1] /\ q[1] = p[1] /\ At(c) = "}"
                          /\ Earlier(p, c) /\ Earlier(c, q)

\* The iterator starts with the first object of a file and goes on with the
\* next one, whatever the layout of the file; it gives one again only if
\* something else stands behind it on its line.
NothingSkipped ==
    \A i \in DOMAIN items :
      /\ items[i] \in Objects
      /\ i = 1 => \A p \in Objects : ~Earlier(p, items[i])
      /\ i > 1 => \/ items[i] = items[i - 1] /\ Crowded(items[i])
                  \/ /\ Earlier(items[i - 1], items[i])
                     /\ \A p \in Objects : ~(/\ Earlier(items[i - 1], p)
                                             /\ Earlier(p, items[i]))

\* When the parser says that a file has ended, what codegen processed is the
\* whole file, each object once and in order, whatever was in it.
DoneIsWhole ==
    status = "done" =>
      /\ \A i, j \in DOMAIN items : i < j => Earlier(items[i], items[j])
      /\ Objects # {} /\ Objects = {items[i] : i \in DOMAIN items}

\* Every object starts a line of the file.
OwnLines == \A p \in Objects : p[2] = 1

\* The object that starts at o and ends at c has a member, and p is part of it.
Encloses(o, p, c) ==
    /\ At(c) = "}" /\ Earlier(o, c)
    /\ p = o \/ p = c \/ (Earlier(o, p) /\ Earlier(p, c))
    /\ \E m \in Visible : Earlier(o, m) /\ Earlier(m, c)
    /\ \A m \in Visible : Earlier(o, m) /\ Earlier(m, c) => At(m) = "member"

\* Outside comments there are only such objects.
WellFormed == /\ Visible # {}
              /\ \A p \in Visible : \E o \in Objects, c \in Visible : Encloses(o, p, c)

\* If every object starts a line and is a schema item, the iteration ends
\* without an error.
OwnLinesParse == OwnLines /\ WellFormed ~> status = "done"
=============================================================================
