------------------------ MODULE SchemaIncludesProofs ------------------------
(***************************************************************************)
(* Theorems about SchemaIncludes, for every set of files and names: the    *)
(* context an include is resolved in, what has been read at the end, and   *)
(* what bounds the reading.                                                *)
(***************************************************************************)
EXTENDS SchemaIncludes, StreamLemmas, FiniteSetTheorems, TLAPS

USE DEF vars

-----------------------------------------------------------------------------
(* Stacks.                                                                   *)

\* The last element, and what is left when it is popped.
LEMMA FrontFacts ==
    ASSUME NEW S, NEW s \in Seq(S), s # <<>>
    PROVE  /\ Len(s) \in Nat /\ Len(s) >= 1 /\ DOMAIN s = 1 .. Len(s)
           /\ Last(s) = s[Len(s)] /\ Len(s) \in DOMAIN s /\ Last(s) \in S
           /\ Front(s) \in Seq(S) /\ Len(Front(s)) = Len(s) - 1
           /\ DOMAIN Front(s) = 1 .. Len(s) - 1
           /\ \A i \in DOMAIN Front(s) : Front(s)[i] = s[i]
<1>1. Len(s) \in Nat /\ Len(s) >= 1 /\ DOMAIN s = 1 .. Len(s)
  BY TailFacts
<1>2. Len(s) - 1 \in Nat /\ Len(s) - 1 <= Len(s)
  BY <1>1
<1> DEFINE t == SubSeq(s, 1, Len(s) - 1)
<1>3. \A i \in 1 .. Len(s) - 1 : s[i] \in S
  BY <1>1
<1>4. /\ t \in Seq(S)
      /\ Len(t) = IF 1 <= Len(s) - 1 THEN (Len(s) - 1) - 1 + 1 ELSE 0
      /\ \A i \in 1 .. (Len(s) - 1) - 1 + 1 : t[i] = s[1 + i - 1]
  BY <1>2, <1>3, SubSeqProperties
<1> HIDE DEF t
<1>5. Len(t) = Len(s) - 1 /\ DOMAIN t = 1 .. Len(s) - 1
  <2>1. \A n \in Nat : n >= 1 => (IF 1 <= n - 1 THEN (n - 1) - 1 + 1 ELSE 0) = n - 1
    OBVIOUS
  <2>2. Len(t) = Len(s) - 1
    BY <1>1, <1>4, <2>1
  <2> QED
    BY <1>4, <2>2
<1>6. \A i \in 1 .. Len(s) - 1 : t[i] = s[i]
  BY <1>2, <1>4
<1> QED
  BY <1>1, <1>4, <1>5, <1>6 DEF t, Front, Last

\* The last element is replaced.
LEMMA ReplaceFacts ==
    ASSUME NEW S, NEW s \in Seq(S), s # <<>>, NEW x \in S
    PROVE  LET t == Append(Front(s), x)
           IN  /\ t \in Seq(S) /\ t # <<>> /\ Len(t) = Len(s) /\ DOMAIN t = DOMAIN s
               /\ t[Len(s)] = x /\ Last(t) = x
               /\ \A i \in DOMAIN s : i # Len(s) => t[i] = s[i]
<1> DEFINE u == Front(s)
           t == Append(u, x)
<1>1. /\ Len(s) \in Nat /\ Len(s) >= 1 /\ DOMAIN s = 1 .. Len(s)
      /\ u \in Seq(S) /\ Len(u) = Len(s) - 1
      /\ DOMAIN u = 1 .. Len(s) - 1
      /\ \A i \in DOMAIN u : u[i] = s[i]
  BY FrontFacts
<1> HIDE DEF u
<1>2. /\ t \in Seq(S) /\ Len(t) = Len(u) + 1 /\ DOMAIN t = 1 .. Len(u) + 1
      /\ t[Len(u) + 1] = x
      /\ \A i \in DOMAIN u : t[i] = u[i]
  <2>1. u \in Seq(S)
    BY <1>1
  <2> QED
    BY <2>1, AppendFacts
<1> HIDE DEF t
<1>3. Len(u) + 1 = Len(s)
  BY <1>1
<1>4. \A i \in DOMAIN s : i # Len(s) => i \in DOMAIN u
  BY <1>1
<1>5. Len(t) = Len(s) /\ t[Len(s)] = x /\ DOMAIN t = DOMAIN s
  BY <1>1, <1>2, <1>3
<1>6. t # <<>>
  BY <1>1, <1>5
<1>7. Last(t) = x
  BY <1>5 DEF Last
<1>8. \A i \in DOMAIN s : i # Len(s) => t[i] = s[i]
  BY <1>1, <1>2, <1>4
<1> QED
  BY <1>2, <1>5, <1>6, <1>7, <1>8 DEF t, u

\* A path that is joined, and the directory of one.
LEMMA PathFacts ==
    ASSUME NEW p \in Path, NEW q \in Path, q # <<>>
    PROVE  /\ Join(p, q) \in Path /\ Join(p, q) # <<>>
           /\ Parent(q) \in Path
           /\ Join(<<>>, q) = q
<1>1. Join(p, q) \in Path /\ Len(Join(p, q)) = Len(p) + Len(q)
  BY DEF Join, Path
<1>2. Len(p) \in Nat /\ Len(q) \in Nat /\ Len(q) >= 1
  BY TailFacts DEF Path
<1>3. Join(p, q) # <<>>
  BY <1>1, <1>2
<1>4. Parent(q) \in Path
  BY FrontFacts DEF Parent, Path
<1>5. Join(<<>>, q) = q
  BY ConcatEmptySeq DEF Join, Path
<1> QED
  BY <1>1, <1>3, <1>4, <1>5

-----------------------------------------------------------------------------
(* Types, and the stack of contexts.                                         *)

LEMMA TypeInit == ASSUME Init PROVE TypeOK /\ ContextFollows
<1>1. content \in [Files -> Seq(Item)]
  <2>1. \A n \in Nat : [1 .. n -> Item] \subseteq Seq(Item)
    BY SeqDef
  <2>2. UNION {[1 .. n -> Item] : n \in 0 .. MaxItems} \subseteq Seq(Item)
    BY <2>1, IncludesAssumption
  <2> QED
    BY <2>2 DEF Init
<1>2. << <<>> >> \in Seq(Path) /\ Len(<< <<>> >>) = 1 /\ << <<>> >>[1] = <<>>
  <2>1. <<>> \in Path
    BY DEF Path
  <2> QED
    BY <2>1
<1>3. frames = <<>> /\ includes = <<>> /\ read = <<>> /\ included = {}
  BY DEF Init
<1>4. frames \in Seq(Frame) /\ includes \in Seq(Names) /\ read \in Seq(Files)
      /\ included \subseteq Path /\ Len(frames) = 0 /\ DOMAIN frames = {}
  BY <1>3
<1> QED
  BY <1>1, <1>2, <1>4 DEF Init, TypeOK, ContextFollows

\* The innermost call.
LEMMA TopFacts ==
    ASSUME TypeOK, frames # <<>>
    PROVE  /\ Len(frames) \in Nat /\ Len(frames) >= 1 /\ DOMAIN frames = 1 .. Len(frames)
           /\ Len(frames) \in DOMAIN frames /\ Top = frames[Len(frames)] /\ Top \in Frame
           /\ Top.path \in Path /\ Top.rest \in Nat /\ Top.todo \in Seq(Names)
<1>1. frames \in Seq(Frame)
  BY DEF TypeOK
<1>2. /\ Len(frames) \in Nat /\ Len(frames) >= 1 /\ DOMAIN frames = 1 .. Len(frames)
      /\ Last(frames) = frames[Len(frames)] /\ Len(frames) \in DOMAIN frames
      /\ Last(frames) \in Frame
  BY <1>1, FrontFacts
<1>3. \A f \in Frame : f.path \in Path /\ f.rest \in Nat /\ f.todo \in Seq(Names)
  BY DEF Frame
<1> QED
  BY <1>2, <1>3 DEF Top

\* It goes on.
LEMMA SetTopFacts ==
    ASSUME TypeOK, frames # <<>>, NEW f \in Frame, SetTop(f)
    PROVE  /\ frames' \in Seq(Frame) /\ frames' # <<>>
           /\ Len(frames') = Len(frames) /\ DOMAIN frames' = DOMAIN frames
           /\ frames'[Len(frames)] = f /\ Top' = f
           /\ \A i \in DOMAIN frames : i # Len(frames) => frames'[i] = frames[i]
<1>1. frames \in Seq(Frame) /\ frames' = Append(Front(frames), f)
  BY DEF TypeOK, SetTop
<1> QED
  BY <1>1, ReplaceFacts DEF Top

\* It returns, or fails.
LEMMA PopFacts ==
    ASSUME TypeOK, frames # <<>>, frames' = Front(frames)
    PROVE  /\ frames' \in Seq(Frame) /\ Len(frames') = Len(frames) - 1
           /\ DOMAIN frames' = 1 .. Len(frames) - 1
           /\ \A i \in DOMAIN frames' : i \in DOMAIN frames /\ frames'[i] = frames[i]
                                        /\ i # Len(frames)
<1>1. /\ Len(frames) \in Nat /\ Len(frames) >= 1 /\ DOMAIN frames = 1 .. Len(frames)
      /\ frames' \in Seq(Frame) /\ Len(frames') = Len(frames) - 1
      /\ DOMAIN frames' = 1 .. Len(frames) - 1
      /\ \A i \in DOMAIN frames' : frames'[i] = frames[i]
  <2>1. frames \in Seq(Frame)
    BY DEF TypeOK
  <2> QED
    BY <2>1, FrontFacts
<1>2. \A i \in 1 .. Len(frames) - 1 : i \in 1 .. Len(frames) /\ i # Len(frames)
  <2>1. \A n \in Nat : \A i \in 1 .. n - 1 : i \in 1 .. n /\ i # n
    OBVIOUS
  <2> QED
    BY <1>1, <2>1
<1> QED
  BY <1>1, <1>2

\* The context is the directory of the innermost file.
LEMMA ContextFacts ==
    ASSUME TypeOK, ContextFollows
    PROVE  /\ Context \in Path /\ paths # <<>>
           /\ IncludePath \in Path /\ IncludePath # <<>> /\ OpenPath = IncludePath
           /\ Parent(IncludePath) \in Path
           /\ frames = <<>> => Context = <<>> /\ IncludePath = argument
           /\ frames # <<>> => Context = Parent(Top.path)
<1>1. Len(frames) \in Nat
  BY DEF TypeOK
<1>2. paths \in Seq(Path) /\ paths # <<>> /\ Len(paths) = Len(frames) + 1
  BY <1>1 DEF TypeOK, ContextFollows
<1>3. Context \in Path /\ Context = paths[Len(frames) + 1]
  BY <1>2, FrontFacts DEF Context
<1>4. argument \in Path /\ argument # <<>>
  BY IncludesAssumption DEF TypeOK
<1>5. IncludePath \in Path /\ IncludePath # <<>>
  BY <1>3, <1>4, PathFacts DEF IncludePath
<1>6. Parent(IncludePath) \in Path
  BY <1>5, PathFacts
<1>7. ASSUME frames = <<>> PROVE Context = <<>> /\ IncludePath = argument
  <2>1. Context = <<>>
    BY <1>3, <1>7 DEF ContextFollows
  <2> QED
    BY <1>3, <1>4, <2>1, PathFacts DEF IncludePath
<1>8. ASSUME frames # <<>> PROVE Context = Parent(Top.path)
  BY <1>3, <1>8, TopFacts DEF ContextFollows
<1> QED
  BY <1>2, <1>3, <1>5, <1>6, <1>7, <1>8 DEF OpenPath, IncludePath

\* What the loop calls include() with, and what is left for it.
LEMMA LoopFacts ==
    ASSUME TypeOK, Looping, Top.todo # <<>>
    PROVE  /\ Head(Top.todo) \in Names /\ Tail(Top.todo) \in Seq(Names)
           /\ Head(Top.todo) = Top.todo[1] /\ 1 \in DOMAIN Top.todo
           /\ \A i \in DOMAIN Top.todo : i # 1 =>
                  Top.todo[i] = Tail(Top.todo)[i - 1] /\ i - 1 \in DOMAIN Tail(Top.todo)
           /\ \A i \in DOMAIN Tail(Top.todo) :
                  i + 1 \in DOMAIN Top.todo /\ Tail(Top.todo)[i] = Top.todo[i + 1]
<1> DEFINE s == Top.todo
<1>1. s \in Seq(Names) /\ s # <<>>
  BY TopFacts DEF Looping
<1> DEFINE u == Tail(s)
<1>2. /\ Head(s) \in Names /\ u \in Seq(Names) /\ Head(s) = s[1] /\ Len(s) \in Nat
      /\ Len(s) >= 1 /\ DOMAIN s = 1 .. Len(s) /\ DOMAIN u = 1 .. Len(s) - 1
      /\ \A i \in DOMAIN u : i + 1 \in DOMAIN s /\ u[i] = s[i + 1]
  <2> HIDE DEF s
  <2> QED
    BY <1>1, TailFacts
<1> HIDE DEF s, u
<1>3. \A i \in DOMAIN s : i # 1 => i - 1 \in DOMAIN u /\ (i - 1) + 1 = i
  <2> SUFFICES ASSUME NEW i \in 1 .. Len(s), i # 1
               PROVE  i - 1 \in 1 .. Len(s) - 1 /\ (i - 1) + 1 = i
    BY <1>2
  <2> QED
    BY <1>2
<1>4. \A i \in DOMAIN s : i # 1 => s[i] = u[i - 1] /\ i - 1 \in DOMAIN u
  BY <1>2, <1>3
<1>5. 1 \in DOMAIN s
  BY <1>2
<1> QED
  BY <1>2, <1>4, <1>5 DEF s, u

LEMMA TypeStep ==
    ASSUME TypeOK, ContextFollows, FramesInv, [Next]_vars
    PROVE  TypeOK' /\ ContextFollows'
<1>0. /\ Len(frames) \in Nat /\ paths \in Seq(Path) /\ paths # <<>>
      /\ Len(paths) = Len(frames) + 1 /\ frames \in Seq(Frame) /\ paths[1] = <<>>
      /\ DOMAIN frames = 1 .. Len(frames)
  BY ContextFacts DEF TypeOK, ContextFollows
<1>a. ASSUME UNCHANGED paths, Len(frames') = Len(frames), DOMAIN frames' = DOMAIN frames,
             \A i \in DOMAIN frames : frames'[i].path = frames[i].path
      PROVE  ContextFollows'
  BY <1>a DEF ContextFollows, Parent
<1>b. ASSUME frames # <<>>, frames' = Front(frames), Drop
      PROVE  ContextFollows' /\ paths' \in Seq(Path) /\ frames' \in Seq(Frame)
  <2>1. /\ frames' \in Seq(Frame) /\ Len(frames') = Len(frames) - 1 /\ Len(frames) >= 1
        /\ DOMAIN frames' = 1 .. Len(frames) - 1
        /\ \A i \in DOMAIN frames' : i \in DOMAIN frames /\ frames'[i] = frames[i]
    BY <1>b, PopFacts, TopFacts
  <2>2. /\ paths' \in Seq(Path) /\ Len(paths') = Len(paths) - 1
        /\ DOMAIN paths' = 1 .. Len(paths) - 1
        /\ \A i \in DOMAIN paths' : paths'[i] = paths[i]
    BY <1>0, <1>b, FrontFacts DEF Drop
  <2>3. \A i \in DOMAIN frames' : i + 1 \in DOMAIN paths'
    BY <1>0, <2>1, <2>2
  <2>4. 1 \in DOMAIN paths'
    BY <1>0, <2>1, <2>2
  <2>5. Len(paths') = Len(frames') + 1
    BY <1>0, <2>1, <2>2
  <2>6. \A i \in DOMAIN frames' : paths'[i + 1] = Parent(frames'[i].path)
    BY <2>1, <2>2, <2>3 DEF ContextFollows
  <2> QED
    BY <1>0, <2>1, <2>2, <2>4, <2>5, <2>6 DEF ContextFollows, Parent
<1>c. ASSUME frames # <<>>, NEW f \in Frame, SetTop(f), f.path = Top.path, UNCHANGED paths
      PROVE  ContextFollows' /\ frames' \in Seq(Frame)
  BY <1>a, <1>c, SetTopFacts, TopFacts
<1>1. CASE IncludeKnown
  BY <1>1, <1>a DEF IncludeKnown, TypeOK
<1>2. CASE IncludeOpens
  <2> DEFINE p == IncludePath
             f == [path |-> p, todo |-> <<>>, rest |-> Len(content[Resolve(p)])]
  <2>1. p \in Path /\ Parent(p) \in Path /\ OpenPath = p
    BY ContextFacts
  <2>2. Resolve(p) \in Files
    BY <1>2, <2>1 DEF IncludeOpens, Opens
  <2>3. f \in Frame
    <3>1. Len(content[Resolve(p)]) \in Nat
      BY <2>2 DEF TypeOK
    <3>2. <<>> \in Seq(Names)
      OBVIOUS
    <3> QED
      BY <2>1, <3>1, <3>2 DEF Frame
  <2>4. f.path = p
    OBVIOUS
  <2>5. /\ frames' = Append(frames, f) /\ paths' = Append(paths, Parent(p))
        /\ read' = Append(read, Resolve(p)) /\ included' = included \cup {p}
    BY <1>2, <2>1 DEF IncludeOpens, Remember
  <2> HIDE DEF f
  <2>6. /\ frames' \in Seq(Frame) /\ Len(frames') = Len(frames) + 1
        /\ DOMAIN frames' = 1 .. Len(frames) + 1 /\ frames'[Len(frames) + 1] = f
        /\ \A i \in DOMAIN frames : frames'[i] = frames[i]
    <3>1. frames \in Seq(Frame) /\ frames' = Append(frames, f)
      BY <1>0, <2>5
    <3> QED
      BY <2>3, <3>1, AppendFacts
  <2>7. /\ paths' \in Seq(Path) /\ Len(paths') = Len(paths) + 1
        /\ paths'[Len(paths) + 1] = Parent(p)
        /\ \A i \in 1 .. Len(paths) : paths'[i] = paths[i]
    <3> DEFINE d == Parent(p)
    <3>1. paths \in Seq(Path) /\ d \in Path /\ paths' = Append(paths, d)
      BY <1>0, <2>1, <2>5
    <3> HIDE DEF d
    <3>2. /\ paths' \in Seq(Path) /\ Len(paths') = Len(paths) + 1
          /\ DOMAIN paths = 1 .. Len(paths) /\ paths'[Len(paths) + 1] = d
          /\ \A i \in DOMAIN paths : paths'[i] = paths[i]
      BY <3>1, AppendFacts
    <3> QED
      BY <3>2 DEF d
  <2>8. read' \in Seq(Files)
    BY <2>2, <2>5, AppendFacts DEF TypeOK
  <2>9. ASSUME NEW i \in DOMAIN frames' PROVE paths'[i + 1] = Parent(frames'[i].path)
    <3>1. CASE i = Len(frames) + 1
      BY <1>0, <2>4, <2>6, <2>7, <3>1
    <3>2. CASE i # Len(frames) + 1
      <4>1. i \in DOMAIN frames /\ i + 1 \in 1 .. Len(paths)
        BY <1>0, <2>6, <3>2
      <4> QED
        BY <2>6, <2>7, <4>1 DEF ContextFollows
    <3> QED
      BY <3>1, <3>2
  <2>10. ContextFollows'
    <3>1. paths'[1] = <<>> /\ Len(paths') = Len(frames') + 1
      BY <1>0, <2>6, <2>7
    <3> QED
      BY <2>9, <3>1 DEF ContextFollows, Parent
  <2> QED
    BY <1>2, <2>1, <2>5, <2>6, <2>7, <2>8, <2>10 DEF IncludeOpens, TypeOK
<1>3. CASE IncludeFails
  <2>1. included' \subseteq Path
    BY <1>3, ContextFacts DEF IncludeFails, Remember, TypeOK
  <2> QED
    BY <1>3, <1>a, <2>1 DEF IncludeFails, TypeOK
<1>4. CASE ProcessInclude
  <2>1. frames # <<>> /\ Top.rest \in Nat /\ Top.rest > 0 /\ Top \in Frame
    BY <1>4, TopFacts DEF ProcessInclude, Parsing
  <2>2. [Top EXCEPT !.rest = @ - 1] \in Frame /\ [Top EXCEPT !.rest = @ - 1].path = Top.path
    <3>1. Top.rest - 1 \in Nat
      BY <2>1
    <3> QED
      BY <2>1, <3>1 DEF Frame
  <2>3. NextItem \in Names
    <3>1. FileOf(Top) \in Files /\ Top.rest <= Len(content[FileOf(Top)])
      BY <2>1, TopFacts DEF FramesInv, Opens, FileOf
    <3>2. content[FileOf(Top)] \in Seq(Item)
      BY <3>1 DEF TypeOK
    <3>3. Len(content[FileOf(Top)]) - Top.rest + 1 \in 1 .. Len(content[FileOf(Top)])
      BY <2>1, <3>1, <3>2
    <3>4. NextItem \in Item
      BY <3>2, <3>3 DEF NextItem
    <3> QED
      BY <1>4, <3>4 DEF ProcessInclude, Item
  <2>4. includes' \in Seq(Names)
    BY <1>4, <2>3, AppendFacts DEF ProcessInclude, TypeOK
  <2>5. ContextFollows' /\ frames' \in Seq(Frame)
    BY <1>4, <1>c, <2>1, <2>2 DEF ProcessInclude
  <2> QED
    BY <1>4, <2>4, <2>5 DEF ProcessInclude, TypeOK
<1>5. CASE ProcessFails
  BY <1>5, <1>a DEF ProcessFails, TypeOK
<1>6. CASE Drain
  <2>1. frames # <<>> /\ Top \in Frame
    BY <1>6, TopFacts DEF Drain, Looping
  <2>2. [Top EXCEPT !.todo = includes] \in Frame
        /\ [Top EXCEPT !.todo = includes].path = Top.path
    BY <2>1 DEF Frame, TypeOK
  <2>3. ContextFollows' /\ frames' \in Seq(Frame)
    BY <1>6, <1>c, <2>1, <2>2 DEF Drain
  <2>4. includes' \in Seq(Names)
    BY <1>6 DEF Drain
  <2> QED
    BY <1>6, <2>3, <2>4 DEF Drain, TypeOK
<1>7. CASE Call
  <2>1. frames # <<>> /\ Top \in Frame
    BY <1>7, TopFacts DEF Call, Looping
  <2>2. Head(Top.todo) \in Names /\ Tail(Top.todo) \in Seq(Names)
    BY <1>7, LoopFacts DEF Call
  <2>3. [Top EXCEPT !.todo = Tail(@)] \in Frame
        /\ [Top EXCEPT !.todo = Tail(@)].path = Top.path
    BY <2>1, <2>2 DEF Frame
  <2>4. ContextFollows' /\ frames' \in Seq(Frame)
    BY <1>7, <1>c, <2>1, <2>3 DEF Call
  <2> QED
    BY <1>7, <2>2, <2>4 DEF Call, TypeOK
<1>8. CASE Return
  <2>1. frames # <<>> /\ frames' = Front(frames) /\ Drop
    BY <1>8 DEF Return, Looping
  <2>2. ContextFollows' /\ paths' \in Seq(Path) /\ frames' \in Seq(Frame)
    BY <1>b, <2>1
  <2>3. status' \in {"done", "running"}
    BY <1>8 DEF Return
  <2> QED
    BY <1>8, <2>2, <2>3 DEF Return, TypeOK
<1>9. CASE Unwind
  <2>1. CASE frames = <<>>
    BY <1>9, <1>a, <2>1 DEF Unwind, TypeOK
  <2>2. CASE frames # <<>>
    <3>1. frames' = Front(frames) /\ Drop /\ UNCHANGED status
      BY <1>9, <2>2 DEF Unwind
    <3>2. ContextFollows' /\ paths' \in Seq(Path) /\ frames' \in Seq(Frame)
      BY <1>b, <2>2, <3>1
    <3> QED
      BY <1>9, <3>1, <3>2 DEF Unwind, TypeOK
  <2> QED
    BY <2>1, <2>2
<1>10. CASE UNCHANGED vars
  BY <1>10, <1>a DEF TypeOK
<1> QED
  BY <1>1, <1>2, <1>3, <1>4, <1>5, <1>6, <1>7, <1>8, <1>9, <1>10 DEF Next, Step, Finished

-----------------------------------------------------------------------------
(* Frames, and the list they share.                                          *)

\* The files do not change.
LEMMA ContentFixed ==
    ASSUME [Next]_vars
    PROVE  content' = content /\ \A p, n : Included(p, n)' <=> Included(p, n)
<1>1. content' = content
  BY DEF Next, Step, Finished, IncludeKnown, IncludeOpens, IncludeFails, ProcessInclude,
         ProcessFails, Drain, Call, Return, Unwind
<1> QED
  BY <1>1 DEF Included

\* The item that is processed.
LEMMA NextFacts ==
    ASSUME TypeOK, FramesInv, Parsing
    PROVE  LET s == content[Resolve(Top.path)]
               k == Len(s) - Top.rest + 1
           IN  /\ s \in Seq(Item) /\ Len(s) \in Nat /\ k \in Nat /\ k \in DOMAIN s
               /\ NextItem = s[k] /\ Top.rest - 1 \in Nat
               /\ \A i \in DOMAIN s : i > Len(s) - Top.rest =>
                      i = k \/ i > Len(s) - (Top.rest - 1)
<1>1. frames # <<>> /\ Top.rest \in Nat /\ Top.rest > 0
  BY TopFacts DEF Parsing
<1>2. Resolve(Top.path) \in Files /\ Top.rest <= Len(content[Resolve(Top.path)])
  BY <1>1, TopFacts DEF FramesInv, Opens, FileOf
<1> DEFINE s == content[Resolve(Top.path)]
           r == Top.rest
<1>3. s \in Seq(Item)
  BY <1>2 DEF TypeOK
<1>4. NextItem = s[Len(s) - r + 1]
  BY DEF NextItem, FileOf
<1>5. Len(s) \in Nat /\ r \in Nat /\ r > 0 /\ r <= Len(s) /\ DOMAIN s = 1 .. Len(s)
  BY <1>1, <1>2, <1>3
<1> HIDE DEF s, r
<1>6. Len(s) - r + 1 \in 1 .. Len(s) /\ r - 1 \in Nat /\ Len(s) - r + 1 \in Nat
  BY <1>5
<1>7. \A i \in 1 .. Len(s) : i > Len(s) - r => i = Len(s) - r + 1 \/ i > Len(s) - (r - 1)
  BY <1>5
<1> QED
  BY <1>3, <1>4, <1>5, <1>6, <1>7 DEF s, r

\* How a frame goes on.
LEMMA GoesOn ==
    ASSUME TypeOK, frames # <<>>
    PROVE  /\ \A n \in Nat : LET f == [Top EXCEPT !.rest = n]
                           IN  /\ f \in Frame /\ f.path = Top.path
                               /\ f.rest = n /\ f.todo = Top.todo
           /\ \A t \in Seq(Names) : LET f == [Top EXCEPT !.todo = t]
                                  IN  /\ f \in Frame /\ f.path = Top.path
                                      /\ f.rest = Top.rest /\ f.todo = t
<1>1. Top \in Frame
  BY TopFacts
<1> QED
  BY <1>1 DEF Frame

\* What the three steps of a frame do to it.
LEMMA TopSteps ==
    ASSUME TypeOK, FramesInv
    PROVE  /\ ProcessInclude =>
                /\ Top'.path = Top.path /\ Top'.rest = Top.rest - 1 /\ Top'.todo = Top.todo
                /\ Top' \in Frame /\ SetTop(Top') /\ frames # <<>>
           /\ Drain =>
                /\ Top'.path = Top.path /\ Top'.rest = Top.rest /\ Top'.todo = includes
                /\ Top' \in Frame /\ SetTop(Top') /\ frames # <<>>
           /\ Call =>
                /\ Top'.path = Top.path /\ Top'.rest = Top.rest
                /\ Top'.todo = Tail(Top.todo)
                /\ Top' \in Frame /\ SetTop(Top') /\ frames # <<>>
<1>a. ASSUME NEW f \in Frame, frames # <<>>, SetTop(f) PROVE Top' = f
  BY <1>a, SetTopFacts
<1>1. ASSUME ProcessInclude
      PROVE  /\ Top'.path = Top.path /\ Top'.rest = Top.rest - 1 /\ Top'.todo = Top.todo
             /\ Top' \in Frame /\ SetTop(Top') /\ frames # <<>>
  <2>1. frames # <<>> /\ Top.rest - 1 \in Nat /\ SetTop([Top EXCEPT !.rest = Top.rest - 1])
    BY <1>1, NextFacts DEF ProcessInclude, Parsing
  <2> DEFINE f == [Top EXCEPT !.rest = Top.rest - 1]
  <2>2. /\ f \in Frame /\ f.path = Top.path /\ f.rest = Top.rest - 1
        /\ f.todo = Top.todo /\ SetTop(f)
    BY <2>1, GoesOn
  <2> HIDE DEF f
  <2>3. Top' = f
    BY <1>a, <2>1, <2>2
  <2> QED
    BY <2>1, <2>2, <2>3
<1>2. ASSUME Drain
      PROVE  /\ Top'.path = Top.path /\ Top'.rest = Top.rest /\ Top'.todo = includes
             /\ Top' \in Frame /\ SetTop(Top') /\ frames # <<>>
  <2>1. frames # <<>> /\ includes \in Seq(Names) /\ SetTop([Top EXCEPT !.todo = includes])
    BY <1>2 DEF Drain, Looping, TypeOK
  <2> DEFINE f == [Top EXCEPT !.todo = includes]
  <2>2. /\ f \in Frame /\ f.path = Top.path /\ f.todo = includes
        /\ f.rest = Top.rest /\ SetTop(f)
    BY <2>1, GoesOn
  <2> HIDE DEF f
  <2>3. Top' = f
    BY <1>a, <2>1, <2>2
  <2> QED
    BY <2>1, <2>2, <2>3
<1>3. ASSUME Call
      PROVE  /\ Top'.path = Top.path /\ Top'.rest = Top.rest /\ Top'.todo = Tail(Top.todo)
             /\ Top' \in Frame /\ SetTop(Top') /\ frames # <<>>
  <2>1. /\ frames # <<>> /\ Tail(Top.todo) \in Seq(Names)
        /\ SetTop([Top EXCEPT !.todo = Tail(Top.todo)])
    BY <1>3, LoopFacts DEF Call, Looping
  <2> DEFINE f == [Top EXCEPT !.todo = Tail(Top.todo)]
  <2>2. /\ f \in Frame /\ f.path = Top.path /\ f.todo = Tail(Top.todo)
        /\ f.rest = Top.rest /\ SetTop(f)
    BY <2>1, GoesOn
  <2> HIDE DEF f
  <2>3. Top' = f
    BY <1>a, <2>1, <2>2
  <2> QED
    BY <2>1, <2>2, <2>3
<1> QED
  BY <1>1, <1>2, <1>3

LEMMA FramesStep ==
    ASSUME TypeOK, ContextFollows, FramesInv, SharedInv, [Next]_vars
    PROVE  FramesInv'
<1>0. content' = content /\ \A p, n : Included(p, n)' <=> Included(p, n)
  BY ContentFixed
<1>a. ASSUME UNCHANGED frames, included \subseteq included',
             status' \in {"running", "calling"} => frames # <<>>, status' # "done"
      PROVE  FramesInv'
  <2>1. \A i \in DOMAIN frames : FileOf(frames[i])' = FileOf(frames[i])
    BY <1>a DEF FileOf
  <2> QED
    BY <1>0, <1>a, <2>1 DEF FramesInv
<1>b. ASSUME frames # <<>>, NEW f \in Frame, SetTop(f), f.path = Top.path,
             f.rest <= Top.rest, f.rest > 0 => f.todo = <<>>,
             \A j \in DOMAIN f.todo : Included(Top.path, f.todo[j]),
             UNCHANGED included, status' # "done"
      PROVE  FramesInv'
  <2>1. /\ frames' # <<>> /\ Len(frames') = Len(frames) /\ DOMAIN frames' = DOMAIN frames
        /\ frames'[Len(frames)] = f
        /\ \A i \in DOMAIN frames : i # Len(frames) => frames'[i] = frames[i]
    BY <1>b, SetTopFacts
  <2>2. Len(frames) \in DOMAIN frames /\ Top = frames[Len(frames)]
    BY <1>b, TopFacts
  <2>3. /\ f.path \in included /\ Opens(f.path)
        /\ f.rest <= Len(content[Resolve(f.path)])
    <3>1. /\ Top.path \in included /\ Opens(Top.path)
          /\ Top.rest <= Len(content[Resolve(Top.path)])
      BY <2>2 DEF FramesInv, FileOf
    <3>2. Len(content[Resolve(Top.path)]) \in Nat /\ f.rest \in Nat /\ Top.rest \in Nat
      <4>1. content[Resolve(Top.path)] \in Seq(Item)
        BY <3>1 DEF Opens, TypeOK
      <4> QED
        BY <1>b, <4>1, TopFacts DEF Frame
    <3> QED
      BY <1>b, <3>1, <3>2
  <2>4. ASSUME NEW i \in DOMAIN frames'
        PROVE  /\ frames'[i].path \in included /\ Opens(frames'[i].path)
               /\ frames'[i].rest <= Len(content[Resolve(frames'[i].path)])
               /\ frames'[i].rest > 0 => i = Len(frames') /\ frames'[i].todo = <<>>
               /\ \A j \in DOMAIN frames'[i].todo : Included(frames'[i].path, frames'[i].todo[j])
    <3>1. CASE i = Len(frames)
      BY <1>b, <2>1, <2>3, <3>1
    <3>2. CASE i # Len(frames)
      BY <2>1, <3>2 DEF FramesInv, FileOf
    <3> QED
      BY <3>1, <3>2
  <2> QED
    BY <1>0, <1>b, <2>1, <2>4 DEF FramesInv, FileOf
<1>c. ASSUME frames # <<>>, frames' = Front(frames), UNCHANGED included,
             status' = "running" => Len(frames) # 1, status' = "done" => Len(frames) = 1
      PROVE  FramesInv'
  <2>1. /\ frames' \in Seq(Frame) /\ Len(frames') = Len(frames) - 1
        /\ \A i \in DOMAIN frames' : i \in DOMAIN frames /\ frames'[i] = frames[i]
                                     /\ i # Len(frames)
        /\ DOMAIN frames' = 1 .. Len(frames) - 1
    BY <1>c, PopFacts
  <2>2. Len(frames) \in Nat /\ Len(frames) >= 1
    BY <1>c, TopFacts
  <2>3. status' = "running" => frames' # <<>>
    BY <1>c, <2>1, <2>2
  <2>4. status' = "done" => frames' = <<>>
    <3>1. Len(frames) = 1 => DOMAIN frames' = {}
      BY <2>1
    <3> QED
      BY <1>c, <2>1, <3>1, EmptyFacts
  <2> QED
    BY <1>0, <1>c, <2>1, <2>3, <2>4 DEF FramesInv, FileOf
<1>1. CASE IncludeKnown
  BY <1>1, <1>a DEF IncludeKnown, SharedInv, Failing
<1>2. CASE IncludeOpens
  <2> DEFINE p == IncludePath
             f == [path |-> p, todo |-> <<>>, rest |-> Len(content[Resolve(p)])]
  <2>1. /\ frames' = Append(frames, f) /\ Opens(p) /\ status = "calling"
        /\ included' = included \cup {p} /\ status' = "running"
    BY <1>2, ContextFacts DEF IncludeOpens, Remember
  <2>2. f \in Frame
    <3>1. Len(content[Resolve(p)]) \in Nat
      BY <2>1 DEF Opens, TypeOK
    <3>2. p \in Path /\ <<>> \in Seq(Names)
      BY ContextFacts
    <3> QED
      BY <3>1, <3>2 DEF Frame
  <2>3. f.path = p /\ f.todo = <<>> /\ f.rest = Len(content[Resolve(p)])
        /\ Len(content[Resolve(p)]) \in Nat
    BY <2>1 DEF Opens, TypeOK
  <2> HIDE DEF p, f
  <2>4. /\ frames' \in Seq(Frame) /\ Len(frames') = Len(frames) + 1 /\ Len(frames) \in Nat
        /\ DOMAIN frames' = 1 .. Len(frames) + 1 /\ frames'[Len(frames) + 1] = f
        /\ DOMAIN frames = 1 .. Len(frames)
        /\ \A i \in DOMAIN frames : frames'[i] = frames[i]
    <3>1. frames \in Seq(Frame)
      BY DEF TypeOK
    <3> QED
      BY <2>1, <2>2, <3>1, AppendFacts
  <2>5. frames' # <<>>
    BY <2>4
  <2>6. ASSUME NEW i \in DOMAIN frames, frames[i].rest > 0 PROVE FALSE
    <3>1. frames # <<>> /\ i = Len(frames)
      BY <2>6 DEF FramesInv
    <3>2. Top = frames[i] /\ Top.rest = 0
      BY <2>1, <3>1, TopFacts DEF SharedInv, Failing
    <3> QED
      BY <2>6, <3>2
  <2>7. ASSUME NEW i \in DOMAIN frames'
        PROVE  /\ frames'[i].path \in included' /\ Opens(frames'[i].path)
               /\ frames'[i].rest <= Len(content[Resolve(frames'[i].path)])
               /\ frames'[i].rest > 0 => i = Len(frames') /\ frames'[i].todo = <<>>
               /\ \A j \in DOMAIN frames'[i].todo : Included(frames'[i].path, frames'[i].todo[j])
    <3>1. CASE i = Len(frames) + 1
      BY <2>1, <2>3, <2>4, <3>1
    <3>2. CASE i # Len(frames) + 1
      <4>1. i \in DOMAIN frames
        BY <2>4, <3>2
      <4> QED
        BY <2>1, <2>4, <2>6, <4>1 DEF FramesInv, FileOf
    <3> QED
      BY <3>1, <3>2
  <2> QED
    BY <1>0, <2>1, <2>5, <2>7 DEF FramesInv, FileOf
<1>3. CASE IncludeFails
  BY <1>3, <1>a DEF IncludeFails, Remember
<1>4. CASE ProcessInclude
  <2>1. /\ Top' \in Frame /\ SetTop(Top') /\ frames # <<>> /\ Top'.path = Top.path
        /\ Top'.rest = Top.rest - 1 /\ Top'.todo = Top.todo
    BY <1>4, TopSteps
  <2>2. Len(frames) \in DOMAIN frames /\ Top = frames[Len(frames)] /\ Top.rest \in Nat
    BY <2>1, TopFacts
  <2>3. Top.rest > 0 /\ status' # "done" /\ UNCHANGED included
    BY <1>4, <2>1 DEF ProcessInclude, Parsing
  <2>4. Top.todo = <<>>
    BY <2>2, <2>3 DEF FramesInv
  <2>5. Top'.rest <= Top.rest
    BY <2>1, <2>2
  <2> QED
    BY <1>b, <2>1, <2>3, <2>4, <2>5
<1>5. CASE ProcessFails
  BY <1>5, <1>a DEF ProcessFails
<1>6. CASE Drain
  <2>1. /\ Top' \in Frame /\ SetTop(Top') /\ frames # <<>> /\ Top'.path = Top.path
        /\ Top'.rest = Top.rest /\ Top'.todo = includes
    BY <1>6, TopSteps
  <2>2. Top.rest = 0 /\ status' # "done" /\ UNCHANGED included
    BY <1>6 DEF Drain, Looping
  <2>3. \A j \in DOMAIN includes : Included(Top.path, includes[j])
    BY <1>6 DEF Drain, Looping, SharedInv, Failing
  <2> QED
    BY <1>b, <2>1, <2>2, <2>3
<1>7. CASE Call
  <2>1. /\ Top' \in Frame /\ SetTop(Top') /\ frames # <<>> /\ Top'.path = Top.path
        /\ Top'.rest = Top.rest /\ Top'.todo = Tail(Top.todo)
    BY <1>7, TopSteps
  <2>2. Top.rest = 0 /\ status' # "done" /\ UNCHANGED included
    BY <1>7 DEF Call, Looping
  <2>3. \A j \in DOMAIN Tail(Top.todo) : Included(Top.path, Tail(Top.todo)[j])
    <3>1. \A j \in DOMAIN Top.todo : Included(Top.path, Top.todo[j])
      BY <2>1, TopFacts DEF FramesInv
    <3> QED
      BY <1>7, <3>1, LoopFacts DEF Call
  <2>4. Top'.rest <= Top.rest /\ ~(Top'.rest > 0)
    BY <2>1, <2>2
  <2> QED
    BY <1>b, <2>1, <2>2, <2>3, <2>4
<1>8. CASE Return
  BY <1>8, <1>c DEF Return, Looping
<1>9. CASE Unwind
  <2>1. CASE frames = <<>>
    BY <1>9, <1>a, <2>1 DEF Unwind
  <2>2. CASE frames # <<>>
    BY <1>9, <1>c, <2>2 DEF Unwind
  <2> QED
    BY <2>1, <2>2
<1>10. CASE UNCHANGED vars
  <2>1. \A i \in DOMAIN frames : FileOf(frames[i])' = FileOf(frames[i])
    BY <1>10 DEF FileOf
  <2> QED
    BY <1>0, <1>10, <2>1 DEF FramesInv
<1> QED
  BY <1>1, <1>2, <1>3, <1>4, <1>5, <1>6, <1>7, <1>8, <1>9, <1>10 DEF Next, Step, Finished

LEMMA SharedStep ==
    ASSUME TypeOK, ContextFollows, FramesInv, SharedInv, [Next]_vars
    PROVE  SharedInv'
<1>0. content' = content /\ \A p, n : Included(p, n)' <=> Included(p, n)
  BY ContentFixed
<1>a. ASSUME Failing' PROVE SharedInv'
  BY <1>a DEF SharedInv
<1>b. ASSUME includes' = <<>>, status' # "calling" PROVE SharedInv'
  BY <1>b DEF SharedInv
<1>1. CASE IncludeKnown
  BY <1>1, <1>b DEF IncludeKnown, SharedInv, Failing
<1>2. CASE IncludeOpens
  BY <1>2, <1>b DEF IncludeOpens, SharedInv, Failing
<1>3. CASE IncludeFails \/ ProcessFails \/ Unwind
  BY <1>3, <1>a DEF IncludeFails, ProcessFails, Unwind, Failing
<1>4. CASE ProcessInclude
  <2>1. /\ Top'.path = Top.path /\ Top'.todo = Top.todo /\ frames # <<>>
        /\ Top' \in Frame /\ SetTop(Top')
    BY <1>4, TopSteps
  <2>2. frames' # <<>>
    BY <2>1, SetTopFacts
  <2>3. Top.todo = <<>>
    BY <1>4, <2>1, TopFacts DEF FramesInv, ProcessInclude, Parsing
  <2>4. status' = "running" /\ status = "running" /\ includes' = Append(includes, NextItem)
    BY <1>4 DEF ProcessInclude, Parsing
  <2>5. Included(Top.path, NextItem) /\ NextItem \in Names
    <3>1. LET s == content[Resolve(Top.path)]
              k == Len(s) - Top.rest + 1
          IN  s \in Seq(Item) /\ k \in DOMAIN s /\ NextItem = s[k]
      BY <1>4, NextFacts DEF ProcessInclude
    <3>2. NextItem \in Item
      BY <3>1
    <3> QED
      BY <1>4, <3>1, <3>2 DEF Included, ProcessInclude, Item
  <2>6. \A j \in DOMAIN includes' : Included(Top.path, includes'[j])
    <3>1. includes \in Seq(Names)
      BY DEF TypeOK
    <3>2. \A j \in DOMAIN includes' :
             \/ j \in DOMAIN includes /\ includes'[j] = includes[j]
             \/ includes'[j] = NextItem
      BY <2>4, <2>5, <3>1, AppendFacts
    <3> QED
      BY <2>4, <2>5, <3>2 DEF SharedInv, Failing
  <2> QED
    BY <1>0, <2>1, <2>2, <2>3, <2>4, <2>6 DEF SharedInv
<1>6. CASE Drain
  BY <1>6, <1>b DEF Drain, Looping
<1>7. CASE Call
  <2>1. /\ Top'.path = Top.path /\ Top'.rest = Top.rest /\ frames # <<>>
        /\ Top' \in Frame /\ SetTop(Top')
    BY <1>7, TopSteps
  <2>2. frames' # <<>>
    BY <2>1, SetTopFacts
  <2>3. Top.rest = 0 /\ includes' = includes /\ status = "running" /\ Top.todo # <<>>
        /\ argument' = Head(Top.todo)
    BY <1>7 DEF Call, Looping
  <2>4. includes = <<>>
    BY <2>3 DEF SharedInv, Failing
  <2>5. Included(Top.path, argument') /\ argument' \in Names
    <3>1. \A j \in DOMAIN Top.todo : Included(Top.path, Top.todo[j])
      BY <2>1, TopFacts DEF FramesInv
    <3> QED
      BY <1>7, <2>3, <3>1, LoopFacts DEF Call
  <2> QED
    BY <1>0, <2>1, <2>2, <2>3, <2>4, <2>5 DEF SharedInv
<1>8. CASE Return
  BY <1>8, <1>b DEF Return
<1>10. CASE UNCHANGED vars
  BY <1>0, <1>10 DEF SharedInv, Failing, Top
<1> QED
  BY <1>1, <1>2, <1>3, <1>4, <1>6, <1>7, <1>8, <1>10 DEF Next, Step, Finished

-----------------------------------------------------------------------------
(* What has been followed.                                                   *)

\* A file is worked at as before, if its frame is the same and what is owed to
\* it is still owed or has been followed.
LEMMA WorkKept ==
    ASSUME UNCHANGED content, included \subseteq included', NEW p, NEW i, Worked(p, i),
           frames'[i].path = frames[i].path, frames'[i].rest = frames[i].rest,
           \A n : Owed(i, n) => Owed(i, n)' \/ Join(Parent(p), n) \in included'
    PROVE  Worked(p, i)'
<1>1. \A k : Followed(p, k) => Followed(p, k)'
  BY DEF Followed
<1> QED
  BY <1>1 DEF Worked, Followed

LEMMA CompleteStep ==
    ASSUME TypeOK, ContextFollows, FramesInv, SharedInv, CompleteInv, [Next]_vars
    PROVE  CompleteInv'
<1>0. content' = content
  BY ContentFixed
<1> PICK top : top = Len(frames)
  OBVIOUS
<1>a. ASSUME Failing' PROVE CompleteInv'
  BY <1>a DEF CompleteInv
\* Nothing is tried for the first time.
<1>b. ASSUME ~Failing, included' = included, frames # <<>> \/ status = "done",
             \A i \in DOMAIN frames, p \in included : Worked(p, i) =>
                 \/ \A k \in DOMAIN content[Resolve(p)] : Followed(p, k)
                 \/ i \in DOMAIN frames' /\ Worked(p, i)'
      PROVE  CompleteInv'
  <2>1. \A p, k : Followed(p, k) => Followed(p, k)'
    BY <1>0, <1>b DEF Followed
  <2>2. ASSUME NEW p \in included
        PROVE  /\ Opens(p)
               /\ \/ \A k \in DOMAIN content[Resolve(p)] : Followed(p, k)'
                  \/ \E i \in DOMAIN frames' : Worked(p, i)'
    BY <1>b, <2>1 DEF CompleteInv
  <2>3. Root \in included
    BY <1>b DEF CompleteInv
  <2> QED
    BY <1>0, <1>b, <2>2, <2>3 DEF CompleteInv
\* The innermost frame goes on.
<1>c. ASSUME ~Failing, included' = included, frames # <<>>, Top' \in Frame, SetTop(Top'),
             Top'.path = Top.path, Top'.rest = Top.rest,
             status # "calling" \/ UNCHANGED <<status, argument>>,
             \A n : Owed(top, n) => Owed(top, n)'
      PROVE  CompleteInv'
  <2>1. /\ Len(frames') = Len(frames) /\ DOMAIN frames' = DOMAIN frames
        /\ frames'[top] = Top'
        /\ \A i \in DOMAIN frames : i # top => frames'[i] = frames[i]
    BY <1>c, SetTopFacts
  <2>2. Top = frames[top]
    BY DEF Top, Last
  <2>3. ASSUME NEW i \in DOMAIN frames, NEW p, Worked(p, i) PROVE Worked(p, i)'
    <3>1. CASE i = top
      BY <1>0, <1>c, <2>1, <2>2, <2>3, <3>1, WorkKept
    <3>2. CASE i # top
      <4>1. \A n : Owed(i, n) => Owed(i, n)'
        BY <2>1, <3>2 DEF Owed
      <4> QED
        BY <1>0, <1>c, <2>1, <2>3, <3>2, <4>1, WorkKept
    <3> QED
      BY <3>1, <3>2
  <2> QED
    BY <1>b, <1>c, <2>1, <2>3
<1>1. CASE IncludeKnown
  <2>1. /\ status = "calling" /\ ~Failing /\ frames # <<>> /\ IncludePath \in included
        /\ UNCHANGED <<frames, included, includes>>
    BY <1>1 DEF IncludeKnown, SharedInv, Failing
  <2>2. Top = frames[top] /\ IncludePath = Join(Parent(Top.path), argument)
    BY <2>1, TopFacts, ContextFacts DEF IncludePath
  <2>3. ASSUME NEW i \in DOMAIN frames, NEW p, Worked(p, i) PROVE Worked(p, i)'
    <3>1. \A n : Owed(i, n) => Owed(i, n)' \/ Join(Parent(p), n) \in included'
      BY <2>1, <2>2, <2>3 DEF Owed, Worked
    <3> QED
      BY <1>0, <2>1, <2>3, <3>1, WorkKept
  <2> QED
    BY <1>b, <2>1, <2>3
<1>2. CASE IncludeOpens
  <2> PICK q, new : q = IncludePath /\ new = Len(frames) + 1
    OBVIOUS
  <2> DEFINE f == [path |-> q, todo |-> <<>>, rest |-> Len(content[Resolve(q)])]
  <2>1. /\ frames' = Append(frames, f) /\ Opens(q) /\ status = "calling" /\ ~Failing
        /\ included' = included \cup {q} /\ status' = "running" /\ includes = <<>>
    BY <1>2, ContextFacts DEF IncludeOpens, Remember, SharedInv, Failing
  <2>2. f \in Frame
    <3>1. Len(content[Resolve(q)]) \in Nat
      BY <2>1 DEF Opens, TypeOK
    <3>2. q \in Path /\ <<>> \in Seq(Names)
      BY ContextFacts
    <3> QED
      BY <3>1, <3>2 DEF Frame
  <2>3. /\ f.path = q /\ f.rest = Len(content[Resolve(q)])
        /\ content[Resolve(q)] \in Seq(Item)
    BY <2>1 DEF Opens, TypeOK
  <2>4. /\ frames = <<>> => q = Root /\ included = {}
        /\ frames # <<>> => q = Join(Parent(Top.path), argument)
    BY <2>1, ContextFacts DEF SharedInv, Failing, IncludePath
  <2> HIDE DEF f
  <2>5. /\ Len(frames) \in Nat /\ DOMAIN frames = 1 .. Len(frames)
        /\ Len(frames') = Len(frames) + 1
        /\ DOMAIN frames' = 1 .. Len(frames) + 1 /\ frames'[new] = f
        /\ \A i \in DOMAIN frames : i \in DOMAIN frames' /\ frames'[i] = frames[i]
    <3>1. frames \in Seq(Frame)
      BY DEF TypeOK
    <3>2. /\ Len(frames) \in Nat /\ DOMAIN frames = 1 .. Len(frames)
          /\ Len(frames') = Len(frames) + 1
          /\ DOMAIN frames' = 1 .. Len(frames) + 1 /\ frames'[new] = f
          /\ \A i \in DOMAIN frames : frames'[i] = frames[i]
      BY <2>1, <2>2, <3>1, AppendFacts
    <3>3. \A i \in DOMAIN frames : i \in DOMAIN frames'
      BY <3>2
    <3> QED
      BY <3>2, <3>3
  <2>6. new \in DOMAIN frames' /\ Worked(q, new)'
    <3>1. \A k \in DOMAIN content[Resolve(q)] :
             k > Len(content[Resolve(q)]) - Len(content[Resolve(q)])
      BY <2>3
    <3> QED
      BY <1>0, <2>3, <2>5, <3>1 DEF Worked
  <2>7. ASSUME NEW i \in DOMAIN frames, NEW p \in included, Worked(p, i)
        PROVE  Worked(p, i)'
    <3>1. Top = frames[top] /\ frames # <<>>
      BY DEF Top, Last
    <3>2. \A n : Owed(i, n) => Owed(i, n)' \/ Join(Parent(p), n) \in included'
      BY <2>1, <2>4, <2>5, <2>7, <3>1 DEF Owed, Worked
    <3> QED
      BY <1>0, <2>1, <2>5, <2>7, <3>2, WorkKept
  <2>8. \A p, k : Followed(p, k) => Followed(p, k)'
    BY <1>0, <2>1 DEF Followed
  <2>9. ASSUME NEW p \in included'
        PROVE  /\ Opens(p)
               /\ \/ \A k \in DOMAIN content[Resolve(p)] : Followed(p, k)'
                  \/ \E i \in DOMAIN frames' : Worked(p, i)'
    <3>1. CASE p = q
      BY <2>1, <2>6, <3>1
    <3>2. CASE p # q
      <4>1. p \in included
        BY <2>1, <3>2
      <4> QED
        BY <2>1, <2>5, <2>7, <2>8, <4>1 DEF CompleteInv
    <3> QED
      BY <3>1, <3>2
  <2>10. Root \in included'
    BY <2>1, <2>4 DEF CompleteInv
  <2> QED
    BY <1>0, <2>9, <2>10 DEF CompleteInv
<1>3. CASE IncludeFails \/ ProcessFails \/ Unwind
  BY <1>3, <1>a DEF IncludeFails, ProcessFails, Unwind, Failing
<1>4. CASE ProcessInclude
  <2> PICK item : item = NextItem
    OBVIOUS
  <2>1. /\ Top'.path = Top.path /\ Top'.rest = Top.rest - 1 /\ Top'.todo = Top.todo
        /\ Top' \in Frame /\ SetTop(Top') /\ frames # <<>>
    BY <1>4, TopSteps
  <2>2. /\ Len(frames') = Len(frames) /\ DOMAIN frames' = DOMAIN frames
        /\ frames'[top] = Top'
        /\ \A i \in DOMAIN frames : i # top => frames'[i] = frames[i]
    BY <2>1, SetTopFacts
  <2>3. Top = frames[top]
    BY DEF Top, Last
  <2>4. /\ UNCHANGED <<status, argument, included>> /\ ~Failing /\ Parsing
        /\ NextItem # Bad /\ includes' = Append(includes, NextItem)
    BY <1>4 DEF ProcessInclude, Parsing, Failing
  <2>5. /\ \A n : (\E j \in DOMAIN includes : includes[j] = n)
                  => (\E j \in DOMAIN includes' : includes'[j] = n)
        /\ \E j \in DOMAIN includes' : includes'[j] = item
    <3>1. includes \in Seq(Names) /\ NextItem \in Names
      <4>1. LET t == content[Resolve(Top.path)]
                k == Len(t) - Top.rest + 1
            IN  t \in Seq(Item) /\ k \in DOMAIN t /\ NextItem = t[k]
        BY <2>4, NextFacts
      <4>2. NextItem \in Item
        BY <4>1
      <4> QED
        BY <2>4, <4>2 DEF Item, TypeOK
    <3>2. /\ Len(includes) \in Nat /\ DOMAIN includes = 1 .. Len(includes)
          /\ DOMAIN includes' = 1 .. Len(includes) + 1
          /\ includes'[Len(includes) + 1] = NextItem
          /\ \A i \in DOMAIN includes : includes'[i] = includes[i]
      BY <2>4, <3>1, AppendFacts
    <3>3. Len(includes) + 1 \in DOMAIN includes'
          /\ \A i \in DOMAIN includes : i \in DOMAIN includes'
      BY <3>2
    <3> QED
      BY <3>2, <3>3
  <2>6. \A i \in DOMAIN frames : \A n : Owed(i, n) => Owed(i, n)'
    BY <2>1, <2>2, <2>3, <2>4, <2>5 DEF Owed
  <2>7. ASSUME NEW p, Worked(p, top) PROVE Worked(p, top)'
    <3> DEFINE t == content[Resolve(p)]
               k == Len(t) - Top.rest + 1
    <3>1. p = Top.path
      BY <2>3, <2>7 DEF Worked
    <3>2. /\ item = t[k]
          /\ \A i \in DOMAIN t : i > Len(t) - Top.rest => i = k \/ i > Len(t) - (Top.rest - 1)
      BY <2>4, <3>1, NextFacts
    <3> HIDE DEF k
    <3>3. \A i : Followed(p, i) => Followed(p, i)'
      BY <1>0, <2>4 DEF Followed
    <3>4. top \in DOMAIN frames
      BY <2>1, TopFacts
    <3>5. Owed(top, item)'
      BY <2>2, <2>5 DEF Owed
    <3>6. ASSUME NEW i \in DOMAIN t
          PROVE  \/ i > Len(t) - (Top.rest - 1)
                 \/ Followed(p, i)'
                 \/ t[i] # Bad /\ \A n : n = t[i] => Owed(top, n)'
      <4>1. CASE i > Len(t) - Top.rest
        BY <2>4, <3>2, <3>5, <4>1
      <4>2. CASE Followed(p, i)
        BY <3>3, <4>2
      <4>3. CASE t[i] # Bad /\ Owed(top, t[i])
        BY <2>6, <3>4, <4>3
      <4> QED
        BY <2>3, <2>7, <4>1, <4>2, <4>3 DEF Worked
    <3> QED
      BY <1>0, <2>1, <2>2, <3>1, <3>6 DEF Worked
  <2>8. ASSUME NEW i \in DOMAIN frames, NEW p, Worked(p, i) PROVE Worked(p, i)'
    <3>1. CASE i = top
      BY <2>7, <2>8, <3>1
    <3>2. CASE i # top
      BY <1>0, <2>2, <2>4, <2>6, <2>8, <3>2, WorkKept
    <3> QED
      BY <3>1, <3>2
  <2> QED
    BY <1>b, <2>1, <2>2, <2>4, <2>8
<1>6. CASE Drain
  <2>1. /\ Top'.path = Top.path /\ Top'.rest = Top.rest /\ Top'.todo = includes
        /\ Top' \in Frame /\ SetTop(Top') /\ frames # <<>>
    BY <1>6, TopSteps
  <2>2. frames'[top] = Top' /\ Top = frames[top]
    BY <2>1, SetTopFacts, TopFacts
  <2>3. /\ status = "running" /\ Top.todo = <<>> /\ included' = included
    BY <1>6 DEF Drain, Looping
  <2>4. \A n : Owed(top, n) => Owed(top, n)'
    BY <2>1, <2>2, <2>3 DEF Owed
  <2> QED
    BY <1>c, <2>1, <2>3, <2>4 DEF Failing
<1>7. CASE Call
  <2>1. /\ Top'.path = Top.path /\ Top'.rest = Top.rest /\ Top'.todo = Tail(Top.todo)
        /\ Top' \in Frame /\ SetTop(Top') /\ frames # <<>>
    BY <1>7, TopSteps
  <2>2. /\ frames'[top] = Top' /\ Top = frames[top]
        /\ Len(frames') = Len(frames)
    BY <2>1, SetTopFacts, TopFacts
  <2>3. /\ status = "running" /\ status' = "calling" /\ argument' = Head(Top.todo)
        /\ includes' = includes /\ included' = included /\ Looping /\ Top.todo # <<>>
    BY <1>7 DEF Call, Looping
  <2>4. /\ Head(Top.todo) = Top.todo[1]
        /\ \A i \in DOMAIN Top.todo : i # 1 =>
               Top.todo[i] = Tail(Top.todo)[i - 1] /\ i - 1 \in DOMAIN Tail(Top.todo)
    BY <2>3, LoopFacts
  <2>5. ASSUME NEW n, Owed(top, n) PROVE Owed(top, n)'
    <3> DEFINE left == Tail(Top.todo)
    <3>1. CASE \E j \in DOMAIN includes : includes[j] = n
      BY <2>2, <2>3, <3>1 DEF Owed
    <3>2. ASSUME NEW j \in DOMAIN Top.todo, Top.todo[j] = n PROVE Owed(top, n)'
      <4>1. CASE j = 1
        BY <2>2, <2>3, <2>4, <3>2, <4>1 DEF Owed
      <4>2. CASE j # 1
        <5>1. left[j - 1] = n /\ j - 1 \in DOMAIN left
          BY <2>4, <3>2, <4>2
        <5>2. frames'[top].todo = left
          BY <2>1, <2>2
        <5> HIDE DEF left
        <5>3. \E k \in DOMAIN frames'[top].todo : frames'[top].todo[k] = n
          BY <5>1, <5>2
        <5> QED
          BY <5>3 DEF Owed
      <4> QED
        BY <4>1, <4>2
    <3> QED
      BY <2>2, <2>3, <2>5, <3>1, <3>2 DEF Owed
  <2> QED
    BY <1>c, <2>1, <2>3, <2>5 DEF Failing
<1>8. CASE Return
  <2>1. /\ frames # <<>> /\ frames' = Front(frames) /\ Top.rest = 0 /\ Top.todo = <<>>
        /\ includes = <<>> /\ status = "running" /\ status' # "calling"
        /\ UNCHANGED <<included, includes>>
    BY <1>8 DEF Return, Looping
  <2>2. /\ Len(frames) \in Nat /\ DOMAIN frames = 1 .. Len(frames)
        /\ DOMAIN frames' = 1 .. Len(frames) - 1 /\ Top = frames[top]
        /\ \A i \in DOMAIN frames' : frames'[i] = frames[i]
    BY <2>1, PopFacts, TopFacts
  <2>3. \A i \in DOMAIN frames : i # top => i \in DOMAIN frames'
    BY <2>2
  <2>4. ASSUME NEW p \in included, Worked(p, top)
        PROVE  \A k \in DOMAIN content[Resolve(p)] : Followed(p, k)
    <3>1. content[Resolve(p)] \in Seq(Item)
      BY <2>1 DEF CompleteInv, Failing, Opens, TypeOK
    <3>2. \A k \in DOMAIN content[Resolve(p)] : ~(k > Len(content[Resolve(p)]) - 0)
      BY <3>1
    <3>3. \A n : ~Owed(top, n)
      BY <2>1, <2>2 DEF Owed
    <3> QED
      BY <2>1, <2>2, <2>4, <3>2, <3>3 DEF Worked
  <2>5. ASSUME NEW i \in DOMAIN frames, NEW p, Worked(p, i), i # top
        PROVE  i \in DOMAIN frames' /\ Worked(p, i)'
    <3>1. \A n : Owed(i, n) => Owed(i, n)'
      BY <2>2, <2>3, <2>5 DEF Owed
    <3> QED
      BY <1>0, <2>1, <2>2, <2>3, <2>5, <3>1, WorkKept
  <2> QED
    BY <1>b, <2>1, <2>4, <2>5 DEF Failing
<1>10. CASE UNCHANGED vars
  <2>1. \A p, i : Worked(p, i)' <=> Worked(p, i)
    BY <1>10 DEF Worked, Followed, Owed
  <2>2. \A p, k : Followed(p, k)' <=> Followed(p, k)
    BY <1>10 DEF Followed
  <2> QED
    BY <1>10, <2>1, <2>2 DEF CompleteInv, Failing
<1> QED
  BY <1>1, <1>2, <1>3, <1>4, <1>6, <1>7, <1>8, <1>10 DEF Next, Step, Finished

\* What is tried for the first time is what the innermost file includes.
LEMMA ResolvedStep ==
    ASSUME TypeOK, ContextFollows, FramesInv, SharedInv, ResolvedRelative, [Next]_vars
    PROVE  ResolvedRelative'
<1>0. content' = content /\ \A p, n : Included(p, n)' <=> Included(p, n)
  BY ContentFixed
<1>1. CASE included' = included
  BY <1>0, <1>1 DEF ResolvedRelative
<1>2. CASE status = "calling" /\ Remember
  <2>1. included' = included \cup {IncludePath}
    BY <1>2 DEF Remember
  <2>2. CASE frames = <<>>
    <3>1. IncludePath = Root
      BY <1>2, <2>2, ContextFacts DEF SharedInv, Failing
    <3> QED
      BY <1>0, <2>1, <3>1 DEF ResolvedRelative
  <2>3. CASE frames # <<>>
    <3>1. argument \in Names /\ Included(Top.path, argument)
      BY <1>2, <2>3 DEF SharedInv, Failing
    <3>2. IncludePath = Join(Parent(Top.path), argument)
      BY <2>3, ContextFacts DEF IncludePath
    <3>3. Top.path \in included /\ Opens(Top.path)
      BY <2>3, TopFacts DEF FramesInv
    <3> QED
      BY <1>0, <2>1, <3>1, <3>2, <3>3 DEF ResolvedRelative
  <2> QED
    BY <2>2, <2>3
<1>3. included' = included \/ (status = "calling" /\ Remember)
  BY DEF Next, Step, Finished, IncludeKnown, IncludeOpens, IncludeFails, ProcessInclude,
         ProcessFails, Drain, Call, Return, Unwind
<1> QED
  BY <1>1, <1>2, <1>3

\* A file that is read again was not tried under this spelling before.
LEMMA ReadStep ==
    ASSUME TypeOK, ContextFollows, ReadInv, ReadOnce, [Next]_vars
    PROVE  ReadInv' /\ ReadOnce'
<1>1. CASE read' = read /\ included \subseteq included'
  BY <1>1 DEF ReadInv, ReadOnce
<1>2. CASE IncludeOpens
  <2> PICK q : q = IncludePath
    OBVIOUS
  <2>1. /\ q \notin included /\ included' = included \cup {q} /\ Resolve(q) \in Files
        /\ read' = Append(read, Resolve(q))
    BY <1>2, ContextFacts DEF IncludeOpens, Remember, Opens
  <2>2. /\ read'[Len(read) + 1] = Resolve(q)
        /\ \A i \in DOMAIN read' :
              i = Len(read) + 1 \/ (i \in DOMAIN read /\ read'[i] = read[i])
    BY <2>1, AppendFacts DEF TypeOK
  <2>3. ReadInv'
    BY <2>1, <2>2 DEF ReadInv
  <2>4. ASSUME NEW i \in DOMAIN read', NEW j \in DOMAIN read', i # j, read'[i] = read'[j]
        PROVE  \E p, r \in included' : p # r /\ Resolve(p) = read'[i] /\ Resolve(r) = read'[i]
    <3>1. CASE i \in DOMAIN read /\ read'[i] = read[i] /\ j \in DOMAIN read /\ read'[j] = read[j]
      <4>1. PICK p \in included, r \in included :
               p # r /\ Resolve(p) = read[i] /\ Resolve(r) = read[i]
        BY <2>4, <3>1 DEF ReadOnce
      <4> QED
        BY <2>1, <3>1, <4>1
    <3>2. ASSUME NEW k \in DOMAIN read, read[k] = Resolve(q), read'[i] = Resolve(q)
          PROVE  \E p, r \in included' : p # r /\ Resolve(p) = read'[i] /\ Resolve(r) = read'[i]
      <4>1. PICK p \in included : Resolve(p) = read[k]
        BY DEF ReadInv
      <4>2. p # q /\ p \in included' /\ q \in included'
        BY <2>1
      <4> QED
        BY <3>2, <4>1, <4>2
    <3> QED
      BY <2>2, <2>4, <3>1, <3>2
  <2> QED
    BY <2>3, <2>4 DEF ReadOnce
<1>3. (read' = read /\ included \subseteq included') \/ IncludeOpens
  BY DEF Next, Step, Finished, IncludeKnown, IncludeFails, Remember, ProcessInclude,
         ProcessFails, Drain, Call, Return, Unwind
<1> QED
  BY <1>1, <1>2, <1>3

-----------------------------------------------------------------------------
(* The theorems.                                                             *)

LEMMA InitInv == Init => IInv
<1> SUFFICES ASSUME Init PROVE IInv
  OBVIOUS
<1>1. TypeOK /\ ContextFollows
  BY TypeInit
<1>2. /\ frames = <<>> /\ status = "calling" /\ argument = Root /\ includes = <<>>
      /\ included = {} /\ read = <<>>
  BY DEF Init
<1>3. FramesInv /\ SharedInv /\ CompleteInv
  BY <1>2 DEF FramesInv, SharedInv, CompleteInv
<1>4. ResolvedRelative /\ ReadInv /\ ReadOnce
  BY <1>2 DEF ResolvedRelative, ReadInv, ReadOnce
<1> QED
  BY <1>1, <1>3, <1>4 DEF IInv

\* The invariant holds in every state of the recursion.
THEOREM Inductive == Spec => []IInv
<1>1. IInv /\ [Next]_vars => IInv'
  BY TypeStep, FramesStep, SharedStep, CompleteStep, ResolvedStep, ReadStep DEF IInv
<1> QED
  BY <1>1, InitInv, PTL DEF Spec

\* The stack of QemuFileRepo holds the directories of the files that are being
\* read, whatever files there are and also while an error unwinds.
THEOREM ContextsFollow == Spec => []ContextFollows
<1>1. IInv => ContextFollows
  BY DEF IInv
<1> QED
  BY <1>1, Inductive, PTL

\* include() resolves every name beside the file that includes it, although
\* the names are kept in one list.
THEOREM IncludesAreRelative == Spec => []ResolvedRelative
<1>1. IInv => ResolvedRelative
  BY DEF IInv
<1> QED
  BY <1>1, Inductive, PTL

\* When include() has returned to codegen without an error, every include of
\* every file was followed, and every one could be opened.
THEOREM NothingLeftOut == Spec => []DoneComplete
<1>1. ASSUME IInv PROVE DoneComplete
  <2> USE <1>1 DEF IInv
  <2> SUFFICES ASSUME status = "done"
               PROVE  /\ Root \in included
                      /\ \A p \in included :
                          /\ Opens(p)
                          /\ \A n \in Item : Included(p, n) =>
                                 n # Bad /\ Join(Parent(p), n) \in included
    BY DEF DoneComplete
  <2>1. frames = <<>> /\ ~Failing
    BY DEF FramesInv, Failing
  <2>2. \A i \in DOMAIN frames : FALSE
    BY <2>1
  <2>3. Root \in included
    BY <2>1 DEF CompleteInv
  <2>4. ASSUME NEW p \in included, NEW n \in Item, Included(p, n)
        PROVE  n # Bad /\ Join(Parent(p), n) \in included
    <3>1. PICK k \in DOMAIN content[Resolve(p)] : content[Resolve(p)][k] = n
      BY <2>4 DEF Included
    <3>2. Followed(p, k)
      BY <2>1, <2>2 DEF CompleteInv
    <3> QED
      BY <3>1, <3>2 DEF Followed
  <2> QED
    BY <2>1, <2>3, <2>4 DEF CompleteInv
<1> QED
  BY <1>1, Inductive, PTL

\* Context.included keeps a file from being read twice under one spelling.
THEOREM FilesReadOnce == Spec => []ReadOnce
<1>1. IInv => ReadOnce
  BY DEF IInv
<1> QED
  BY <1>1, Inductive, PTL

-----------------------------------------------------------------------------
(* Why reading a schema ends.                                                *)

\* What is left to do of the innermost file, and of an error.  A path that is
\* tried for the first time, and a call that returns, may make it any amount.
Weight ==
    IF status \in {"failed", "done"} THEN 0
    ELSE IF status = "failing" THEN 1
    ELSE 2 + 4 * Top.rest + 3 * Len(includes) + 2 * Len(Top.todo)
           + (IF status = "calling" THEN 1 ELSE 0)

\* A new path is tried, or a call returns, or there is less left to do.
Nearer ==
    \/ included \subseteq included' /\ included' # included
    \/ /\ included' = included
       /\ \/ Len(frames') < Len(frames)
          \/ Len(frames') = Len(frames) /\ Weight' < Weight

\* The paths that may be tried.
Openable == {q \in Path : Opens(q)}
Tried    == {Root} \cup {Join(Parent(q), n) : q \in Openable, n \in Names}

Bounded == included \subseteq Tried /\ IsFiniteSet(Tried)

\* What a function makes of a finite set.
LEMMA ImageFinite ==
    ASSUME NEW S, IsFiniteSet(S), NEW f, DOMAIN f = S
    PROVE  IsFiniteSet({f[x] : x \in S})
<1> DEFINE T == {f[x] : x \in S}
           g == [x \in S |-> f[x]]
<1>1. g \in Surjection(S, T)
  BY DEF Surjection
<1> HIDE DEF g, T
<1>2. IsFiniteSet(T)
  BY <1>1, FS_Surjection
<1> QED
  BY <1>2 DEF T

\* The names of files are finitely many if the paths are.
LEMMA ComponentFinite ==
    ASSUME IsFiniteSet(Files), IsFiniteSet(Names) PROVE IsFiniteSet(Component)
<1> DEFINE P == Files \cup Names
           parts == [p \in P |-> {p[i] : i \in DOMAIN p}]
           U == {parts[p] : p \in P}
<1>1. IsFiniteSet(P)
  BY FS_Union
<1>2. ASSUME NEW p \in P PROVE IsFiniteSet(parts[p])
  <2>1. p \in Seq(Component)
    BY IncludesAssumption DEF Path
  <2>2. DOMAIN p = 1 .. Len(p) /\ Len(p) \in Nat
    BY <2>1
  <2>3. IsFiniteSet(DOMAIN p)
    BY <2>2, FS_Interval
  <2>4. IsFiniteSet({p[i] : i \in DOMAIN p})
    BY <2>3, ImageFinite
  <2> QED
    BY <2>4
<1>3. DOMAIN parts = P
  OBVIOUS
<1>4. Component = UNION U
  <2>1. \A p \in P : parts[p] = {p[i] : i \in DOMAIN p}
    OBVIOUS
  <2>2. U = {{p[i] : i \in DOMAIN p} : p \in P}
    <3> HIDE DEF parts
    <3> QED
      BY <2>1
  <2> HIDE DEF U, parts
  <2> QED
    BY <2>2 DEF Component
<1> HIDE DEF P, parts
<1>5. IsFiniteSet(U)
  BY <1>1, <1>3, ImageFinite
<1>6. \A T \in U : IsFiniteSet(T)
  BY <1>2
<1> HIDE DEF U
<1>7. IsFiniteSet(UNION U)
  BY <1>5, <1>6, FS_UNION
<1> QED
  BY <1>4, <1>7

\* The sequences of at most n elements of a finite set.
LEMMA SequencesFinite ==
    ASSUME NEW C, IsFiniteSet(C), NEW n \in Nat
    PROVE  IsFiniteSet({s \in Seq(C) : Len(s) <= n})
<1> DEFINE S == {s \in Seq(C) : Len(s) <= n}
           T == SUBSET ((1 .. n) \X C)
           graph == [s \in S |-> {<<i, s[i]>> : i \in DOMAIN s}]
<1>1. IsFiniteSet(T)
  <2>1. IsFiniteSet(1 .. n)
    BY FS_Interval
  <2>2. IsFiniteSet((1 .. n) \X C)
    BY <2>1, FS_Product
  <2> QED
    BY <2>2, FS_SUBSET
<1>2. ASSUME NEW s \in S PROVE graph[s] \in T
  <2>1. s \in Seq(C) /\ Len(s) \in Nat /\ Len(s) <= n /\ DOMAIN s = 1 .. Len(s)
    OBVIOUS
  <2>2. \A i \in DOMAIN s : i \in 1 .. n /\ s[i] \in C
    BY <2>1
  <2> QED
    BY <2>2
<1>3. ASSUME NEW s \in S, NEW t \in S, graph[s] = graph[t] PROVE s = t
  <2>1. /\ s \in Seq(C) /\ Len(s) \in Nat /\ DOMAIN s = 1 .. Len(s)
        /\ t \in Seq(C) /\ Len(t) \in Nat /\ DOMAIN t = 1 .. Len(t)
    OBVIOUS
  <2>2. {<<i, s[i]>> : i \in DOMAIN s} = {<<i, t[i]>> : i \in DOMAIN t}
    BY <1>3
  <2>3. \A i \in DOMAIN s : i \in DOMAIN t /\ t[i] = s[i]
    <3> SUFFICES ASSUME NEW i \in DOMAIN s PROVE i \in DOMAIN t /\ t[i] = s[i]
      OBVIOUS
    <3>1. <<i, s[i]>> \in {<<j, t[j]>> : j \in DOMAIN t}
      BY <2>2
    <3> QED
      BY <3>1
  <2>4. \A i \in DOMAIN t : i \in DOMAIN s
    <3> SUFFICES ASSUME NEW i \in DOMAIN t PROVE i \in DOMAIN s
      OBVIOUS
    <3>1. <<i, t[i]>> \in {<<j, s[j]>> : j \in DOMAIN s}
      BY <2>2
    <3> QED
      BY <3>1
  <2>5. DOMAIN s = DOMAIN t
    BY <2>3, <2>4
  <2>6. Len(s) = Len(t)
    <3>1. 1 .. Len(s) = 1 .. Len(t)
      BY <2>1, <2>5
    <3>2. \A a, b \in Nat : 1 .. a = 1 .. b => a = b
      OBVIOUS
    <3> QED
      BY <2>1, <3>1, <3>2
  <2> QED
    BY <2>1, <2>3, <2>6, SeqEqual
<1>4. graph \in Injection(S, T)
  <2>1. graph \in [S -> T]
    BY <1>2
  <2> HIDE DEF graph, T
  <2> QED
    BY <1>3, <2>1 DEF Injection, IsInjective
<1> HIDE DEF graph, T, S
<1>5. IsFiniteSet(S)
  BY <1>1, <1>4, FS_Injection
<1> QED
  BY <1>5 DEF S

\* The longest path bounds what can be tried.
LEMMA TriedFinite ==
    ASSUME IsFiniteSet(Files), IsFiniteSet(Names) PROVE IsFiniteSet(Tried)
<1> DEFINE S == {q \in Path : Len(q) <= MaxPath}
           D == Openable \X Names
           f == [d \in D |-> Join(Parent(d[1]), d[2])]
           J == {f[d] : d \in D}
<1>1. IsFiniteSet(S)
  BY ComponentFinite, SequencesFinite, IncludesAssumption DEF Path
<1>2. IsFiniteSet(Openable)
  BY <1>1, FS_Subset DEF Openable, Opens
<1>3. IsFiniteSet(D)
  BY <1>2, FS_Product
<1>4. \A q \in Openable, n \in Names : Join(Parent(q), n) \in J
  <2> SUFFICES ASSUME NEW q \in Openable, NEW n \in Names
               PROVE  \E d \in D : Join(Parent(q), n) = f[d]
    OBVIOUS
  <2>1. <<q, n>> \in D /\ f[<<q, n>>] = Join(Parent(q), n)
    OBVIOUS
  <2> QED
    BY <2>1
<1>5. DOMAIN f = D
  OBVIOUS
<1> HIDE DEF f, D
<1>6. IsFiniteSet(J)
  BY <1>3, <1>5, ImageFinite
<1> HIDE DEF J
<1>7. IsFiniteSet({Root} \cup J)
  BY <1>6, FS_Union, FS_Singleton
<1>8. Tried \subseteq {Root} \cup J
  BY <1>4 DEF Tried
<1> QED
  BY <1>7, <1>8, FS_Subset

\* A step of the recursion goes on.
LEMMA StepNearer == ASSUME IInv, Step PROVE Nearer
<1>0. /\ TypeOK /\ ContextFollows /\ FramesInv /\ SharedInv
      /\ Len(includes) \in Nat /\ Len(frames) \in Nat
  BY DEF IInv, TypeOK
<1>1. ASSUME frames # <<>> PROVE Top.rest \in Nat /\ Len(Top.todo) \in Nat
  BY <1>0, <1>1, TopFacts
<1>2. CASE IncludeKnown
  <2>1. status = "calling" /\ frames # <<>>
    BY <1>0, <1>2 DEF IncludeKnown, SharedInv, Failing
  <2>2. Top' = Top /\ Len(includes') = Len(includes) /\ Len(frames') = Len(frames)
        /\ included' = included /\ status' = "running"
    BY <1>2 DEF IncludeKnown, Top
  <2>3. \A a, b, c \in Nat :
           2 + 4 * a + 3 * b + 2 * c + 0 < 2 + 4 * a + 3 * b + 2 * c + 1
    OBVIOUS
  <2> QED
    BY <1>0, <1>1, <2>1, <2>2, <2>3 DEF Nearer, Weight
<1>3. CASE IncludeOpens \/ IncludeFails
  BY <1>3 DEF IncludeOpens, IncludeFails, Remember, Nearer
<1>4. CASE ProcessInclude
  <2>1. /\ frames # <<>> /\ status = "running" /\ status' = "running"
        /\ Top.rest > 0 /\ included' = included
        /\ includes' = Append(includes, NextItem)
    BY <1>4 DEF ProcessInclude, Parsing
  <2>2. Top'.rest = Top.rest - 1 /\ Top'.todo = Top.todo
        /\ Len(frames') = Len(frames)
    BY <1>0, <1>4, TopSteps, SetTopFacts
  <2>3. Len(includes') = Len(includes) + 1
    BY <1>0, <2>1
  <2>4. \A a, b, c \in Nat : a > 0 =>
           2 + 4 * (a - 1) + 3 * (b + 1) + 2 * c + 0 < 2 + 4 * a + 3 * b + 2 * c + 0
    OBVIOUS
  <2> QED
    BY <1>0, <1>1, <2>1, <2>2, <2>3, <2>4 DEF Nearer, Weight
<1>5. CASE ProcessFails
  <2>1. /\ frames # <<>> /\ status = "running" /\ status' = "failing"
        /\ included' = included /\ frames' = frames
    BY <1>5 DEF ProcessFails, Parsing
  <2>2. \A a, b, c \in Nat : 1 < 2 + 4 * a + 3 * b + 2 * c + 0
    OBVIOUS
  <2> QED
    BY <1>0, <1>1, <2>1, <2>2 DEF Nearer, Weight
<1>6. CASE Drain
  <2>1. /\ frames # <<>> /\ status = "running" /\ status' = "running"
        /\ Top.todo = <<>> /\ includes # <<>> /\ includes' = <<>>
        /\ included' = included
    BY <1>6 DEF Drain, Looping
  <2>2. Top'.rest = Top.rest /\ Top'.todo = includes /\ Len(frames') = Len(frames)
    BY <1>0, <1>6, TopSteps, SetTopFacts
  <2>3. Len(includes') = 0 /\ Len(Top.todo) = 0 /\ Len(includes) > 0
    BY <1>0, <2>1, TailFacts DEF TypeOK
  <2>4. \A a, b \in Nat : b > 0 =>
           2 + 4 * a + 3 * 0 + 2 * b + 0 < 2 + 4 * a + 3 * b + 2 * 0 + 0
    OBVIOUS
  <2> QED
    BY <1>0, <1>1, <2>1, <2>2, <2>3, <2>4 DEF Nearer, Weight
<1>7. CASE Call
  <2>1. /\ frames # <<>> /\ status = "running" /\ status' = "calling" /\ Looping
        /\ Top.todo # <<>> /\ includes' = includes /\ included' = included
    BY <1>7 DEF Call, Looping
  <2>2. Top'.rest = Top.rest /\ Top'.todo = Tail(Top.todo) /\ Len(frames') = Len(frames)
    BY <1>0, <1>7, TopSteps, SetTopFacts
  <2>3. Len(Tail(Top.todo)) = Len(Top.todo) - 1 /\ Len(Top.todo) >= 1
    BY <1>0, <2>1, TopFacts, TailFacts
  <2>4. \A a, b, c \in Nat : c >= 1 =>
           2 + 4 * a + 3 * b + 2 * (c - 1) + 1 < 2 + 4 * a + 3 * b + 2 * c + 0
    OBVIOUS
  <2> QED
    BY <1>0, <1>1, <2>1, <2>2, <2>3, <2>4 DEF Nearer, Weight
<1>8. CASE Return
  <2>1. frames # <<>> /\ frames' = Front(frames) /\ included' = included
    BY <1>8 DEF Return, Looping
  <2>2. Len(frames') < Len(frames)
    BY <1>0, <2>1, PopFacts
  <2> QED
    BY <2>1, <2>2 DEF Nearer
<1>9. CASE Unwind
  <2>1. CASE frames = <<>>
    BY <1>9, <2>1 DEF Unwind, Nearer, Weight
  <2>2. CASE frames # <<>>
    <3>1. frames' = Front(frames) /\ included' = included
      BY <1>9, <2>2 DEF Unwind
    <3>2. Len(frames') < Len(frames)
      BY <1>0, <2>2, <3>1, PopFacts
    <3> QED
      BY <3>1, <3>2 DEF Nearer
  <2> QED
    BY <2>1, <2>2
<1> QED
  BY <1>2, <1>3, <1>4, <1>5, <1>6, <1>7, <1>8, <1>9 DEF Step

\* Reading a schema has no run without end, whatever files include each other:
\* the paths that are tried are among finitely many, a path is never forgotten,
\* and between two new ones every step of include() returns from a call, which
\* only a new path makes deeper, or leaves less to do of the innermost file.
THEOREM ReadingIsBounded ==
    ASSUME IsFiniteSet(Files), IsFiniteSet(Names)
    PROVE  Spec => []Bounded /\ [][Nearer]_vars
<1>1. IInv => Bounded
  <2> SUFFICES ASSUME IInv, NEW p \in included, p # Root
               PROVE  \E q \in Openable, n \in Names : p = Join(Parent(q), n)
    BY TriedFinite DEF Bounded, Tried
  <2> PICK q \in included, n \in Names : Opens(q) /\ p = Join(Parent(q), n)
    BY DEF IInv, ResolvedRelative
  <2>1. q \in Openable
    BY DEF IInv, TypeOK, Openable
  <2> QED
    BY <2>1
<1>2. IInv /\ [Next]_vars => [Nearer]_vars
  BY StepNearer DEF Next, Finished
<1> QED
  BY <1>1, <1>2, Inductive, PTL DEF Spec

=============================================================================
