--------------------------- MODULE SchemaIncludes ---------------------------
(***************************************************************************)
(* How codegen reads a schema that includes other files: the recursion of  *)
(* include() in qapi-codegen over the stack of directories that            *)
(* QemuFileRepo keeps in qapi-parser and that the guard QemuRepoContext    *)
(* pops when it is dropped, on the way back and when an error unwinds.     *)
(*                                                                         *)
(* A path is the sequence of its components below the schema's directory.  *)
(* The program compares paths as they are written; the file system         *)
(* resolves "..".                                                          *)
(***************************************************************************)
EXTENDS Naturals, Sequences, SequencesExt, FiniteSets

CONSTANTS
    Files,     \* the files there are, as paths without ".."
    Root,      \* the file codegen starts from, "qapi-schema.json"
    Names,     \* the relative paths an include may give
    Bad,       \* an item that does not parse, or cannot be written out
    MaxItems,  \* bound on the items of a file
    MaxPath    \* the longest path the system opens, in components

\* The names of files and directories.
Component == UNION {{p[i] : i \in DOMAIN p} : p \in Files \cup Names}

Path == Seq(Component)

ASSUME IncludesAssumption ==
    /\ Root \in Files
    /\ \A f \in Files \cup Names : f \in Path /\ f # <<>>
    /\ Bad \notin Names
    /\ MaxItems \in Nat /\ MaxPath \in Nat

VARIABLES
    content,   \* for each file the includes in it, and bad items
    status,    \* "calling", "running", "failing", "failed" or "done"
    argument,  \* the path include() is called with
    frames,    \* the calls of include() that are running, innermost last
    paths,     \* QemuFileRepo.paths
    includes,  \* Context.includes
    included,  \* Context.included
    read       \* the files opened and read, in order

vars == <<content, status, argument, frames, paths, includes, included, read>>

Item == Names \cup {Bad}

\* rest: how many items are left; todo: what the for loop has drained.
Frame == [path : Path, rest : Nat, todo : Seq(Names)]

TypeOK ==
    /\ content \in [Files -> Seq(Item)]
    /\ status \in {"calling", "running", "failing", "failed", "done"}
    /\ argument \in Names \cup {Root}
    /\ frames \in Seq(Frame)
    /\ paths \in Seq(Path)
    /\ includes \in Seq(Names)
    /\ included \subseteq Path
    /\ read \in Seq(Files)

Init ==
    /\ content \in [Files -> UNION {[1 .. n -> Item] : n \in 0 .. MaxItems}]
    /\ status = "calling" /\ argument = Root
    /\ frames = <<>> /\ paths = << <<>> >>
    /\ includes = <<>> /\ included = {} /\ read = <<>>
-----------------------------------------------------------------------------
(* Paths. *)

\* Path::join and Path::parent.
Join(dir, name) == dir \o name
Parent(path)    == Front(path)

\* What the file system makes of a path; above the top there is nothing.
Resolve(path) ==
    FoldLeft(LAMBDA dir, name : IF name = ".." /\ dir # <<>> /\ Last(dir) # ".."
                                THEN Front(dir) ELSE Append(dir, name),
             <<>>, path)

Opens(path) == Len(path) <= MaxPath /\ Resolve(path) \in Files

FileOf(frame) == Resolve(frame.path)
Top     == Last(frames)
Context == Last(paths)

\* The innermost call goes on like this.
SetTop(frame) == frames' = Append(Front(frames), frame)
-----------------------------------------------------------------------------
(* include(). *)

\* Mutant: a file is known by the name it is included by.
IncludePathIsName == argument

\* The path under which a file is known, repo.context().join(path).
IncludePath == Join(Context, argument)

\* The path that is opened.
OpenPath == Join(Context, argument)

\* Mutant: the path is not remembered.
RememberForgotten == UNCHANGED included

Remember == included' = included \cup {IncludePath}

\* The file was included before: nothing to do.
IncludeKnown ==
    /\ status = "calling" /\ IncludePath \in included
    /\ status' = "running"
    /\ UNCHANGED <<content, argument, frames, paths, includes, included, read>>

\* from_include pushes the directory, and the file is read.
IncludeOpens ==
    /\ status = "calling" /\ IncludePath \notin included
    /\ Remember
    /\ Opens(OpenPath)
    /\ paths' = Append(paths, Parent(OpenPath))
    /\ frames' = Append(frames, [path |-> OpenPath, todo |-> <<>>,
                                 rest |-> Len(content[Resolve(OpenPath)])])
    /\ read' = Append(read, Resolve(OpenPath))
    /\ status' = "running"
    /\ UNCHANGED <<content, argument, includes>>

\* The file cannot be opened; the directory is popped as the guard is dropped.
IncludeFails ==
    /\ status = "calling" /\ IncludePath \notin included
    /\ Remember
    /\ ~Opens(OpenPath)
    /\ status' = "failing"
    /\ UNCHANGED <<content, argument, frames, paths, includes, read>>

\* The next item of the innermost file.
NextItem == content[FileOf(Top)][Len(content[FileOf(Top)]) - Top.rest + 1]

Parsing == status = "running" /\ frames # <<>> /\ Top.rest > 0
Looping == status = "running" /\ frames # <<>> /\ Top.rest = 0

\* Parser::next and process: an include is kept for later.
ProcessInclude ==
    /\ Parsing /\ NextItem # Bad
    /\ includes' = Append(includes, NextItem)
    /\ SetTop([Top EXCEPT !.rest = @ - 1])
    /\ UNCHANGED <<content, status, argument, paths, included, read>>

ProcessFails ==
    /\ Parsing /\ NextItem = Bad
    /\ status' = "failing"
    /\ UNCHANGED <<content, argument, frames, paths, includes, included, read>>

\* Mutant: one include is taken at a time, the nested call finds the others.
DrainOne ==
    /\ Looping /\ Top.todo = <<>> /\ includes # <<>>
    /\ SetTop([Top EXCEPT !.todo = <<Head(includes)>>])
    /\ includes' = Tail(includes)
    /\ UNCHANGED <<content, status, argument, paths, included, read>>

\* The loop takes all that is kept.
Drain ==
    /\ Looping /\ Top.todo = <<>> /\ includes # <<>>
    /\ SetTop([Top EXCEPT !.todo = includes]) /\ includes' = <<>>
    /\ UNCHANGED <<content, status, argument, paths, included, read>>

\* Mutant: what was drained is included again and again.
CallAgain ==
    /\ Looping /\ Top.todo # <<>>
    /\ argument' = Head(Top.todo) /\ status' = "calling"
    /\ UNCHANGED <<content, frames, paths, includes, included, read>>

\* include() calls itself.
Call ==
    /\ Looping /\ Top.todo # <<>>
    /\ argument' = Head(Top.todo) /\ status' = "calling"
    /\ SetTop([Top EXCEPT !.todo = Tail(@)])
    /\ UNCHANGED <<content, paths, includes, included, read>>

\* Mutant: the guard does not pop the directory.
DropForgotten == UNCHANGED paths

\* QemuRepoContext::drop, pop_context.
Drop == paths' = Front(paths)

\* include() returns to the call before it, or to codegen.
Return ==
    /\ Looping /\ Top.todo = <<>> /\ includes = <<>>
    /\ frames' = Front(frames) /\ Drop
    /\ status' = IF Len(frames) = 1 THEN "done" ELSE "running"
    /\ UNCHANGED <<content, argument, includes, included, read>>

\* The error passes through the calls by "?", their guards are dropped.
Unwind ==
    /\ status = "failing"
    /\ IF frames = <<>>
       THEN status' = "failed" /\ UNCHANGED <<frames, paths>>
       ELSE frames' = Front(frames) /\ Drop /\ UNCHANGED status
    /\ UNCHANGED <<content, argument, includes, included, read>>

Finished == status \in {"failed", "done"} /\ UNCHANGED vars
-----------------------------------------------------------------------------
Step == \/ IncludeKnown \/ IncludeOpens \/ IncludeFails
        \/ ProcessInclude \/ ProcessFails
        \/ Drain \/ Call \/ Return \/ Unwind

Next == Step \/ Finished

Spec == Init /\ [][Next]_vars

\* The program runs.
FairSpec == Spec /\ WF_vars(Step)
-----------------------------------------------------------------------------
Included(path, name) == name \in {content[Resolve(path)][i] :
                                    i \in DOMAIN content[Resolve(path)]}

\* While a file's includes are resolved, and after any error, the directories
\* on the stack are those of the files being read, so that pop_context never
\* takes the last one and an include is resolved next to its own file.
ContextFollows ==
    /\ Len(paths) = Len(frames) + 1 /\ paths[1] = <<>>
    /\ \A i \in DOMAIN frames : paths[i + 1] = Parent(frames[i].path)

\* Every path that was tried is the one some file that was read includes,
\* relative to the directory of that file: the names kept in the one shared
\* list never reach the call for another file.
ResolvedRelative ==
    \A p \in included \ {Root} : \E q \in included, n \in Names :
        Opens(q) /\ Included(q, n) /\ p = Join(Parent(q), n)

\* When codegen goes on to generate, nothing that is included was left out.
DoneComplete ==
    status = "done" =>
        /\ Root \in included
        /\ \A p \in included :
            /\ Opens(p)
            /\ \A n \in Item : Included(p, n) =>
                   n # Bad /\ Join(Parent(p), n) \in included

\* A file is read twice, and its types generated twice, only if it was
\* included under two spellings.
ReadOnce ==
    \A i, j \in DOMAIN read : i # j /\ read[i] = read[j] =>
        \E p, q \in included : p # q /\ Resolve(p) = read[i]
                                     /\ Resolve(q) = read[i]

\* Reading a schema ends, also when files include each other: a cycle through
\* ".." ends by the longest path the system opens.
Terminates == <>(status \in {"failed", "done"})
-----------------------------------------------------------------------------
(* The inductive invariant.                                                  *)

Failing == status \in {"failing", "failed"}

\* What the frames have come from, and what is left of their files.
FramesInv ==
    /\ \A i \in DOMAIN frames :
        /\ frames[i].path \in included /\ Opens(frames[i].path)
        /\ frames[i].rest <= Len(content[FileOf(frames[i])])
        /\ frames[i].rest > 0 => i = Len(frames) /\ frames[i].todo = <<>>
        /\ \A j \in DOMAIN frames[i].todo :
               Included(frames[i].path, frames[i].todo[j])
    /\ status = "running" => frames # <<>>
    /\ status = "done" => frames = <<>>

\* The call that is made is for the innermost file, or for the schema itself,
\* and the list of includes is the innermost file's.
SharedInv ==
    ~Failing =>
        /\ status = "calling" =>
            /\ includes = <<>>
            /\ IF frames = <<>> THEN argument = Root /\ included = {}
               ELSE /\ Top.rest = 0 /\ argument \in Names
                    /\ Included(Top.path, argument)
        /\ includes # <<>> => frames # <<>> /\ Top.todo = <<>>
        /\ \A j \in DOMAIN includes : Included(Top.path, includes[j])

\* The i-th file has included n, and its turn is still to come.
Owed(i, n) ==
    \/ \E j \in DOMAIN frames[i].todo : frames[i].todo[j] = n
    \/ i = Len(frames) /\ \E j \in DOMAIN includes : includes[j] = n
    \/ i = Len(frames) /\ status = "calling" /\ argument = n

\* The k-th item of the file p is an include that was followed.
Followed(p, k) ==
    LET n == content[Resolve(p)][k]
    IN  n # Bad /\ Join(Parent(p), n) \in included

\* A path is complete, or still being worked at by some frame.
Worked(p, i) ==
    /\ frames[i].path = p
    /\ \A k \in DOMAIN content[Resolve(p)] :
        \/ k > Len(content[Resolve(p)]) - frames[i].rest
        \/ Followed(p, k)
        \/ content[Resolve(p)][k] # Bad /\ Owed(i, content[Resolve(p)][k])

CompleteInv ==
    ~Failing =>
        /\ frames # <<>> \/ status = "done" => Root \in included
        /\ \A p \in included :
            /\ Opens(p)
            /\ \/ \A k \in DOMAIN content[Resolve(p)] : Followed(p, k)
               \/ \E i \in DOMAIN frames : Worked(p, i)

\* A file that was read was tried.
ReadInv == \A i \in DOMAIN read : \E p \in included : Resolve(p) = read[i]

IInv == /\ TypeOK /\ ContextFollows /\ FramesInv /\ SharedInv /\ CompleteInv
        /\ ResolvedRelative /\ ReadInv /\ ReadOnce
=============================================================================
