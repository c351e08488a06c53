-------------------------- MODULE MCSchemaIncludes --------------------------
(***************************************************************************)
(* Every schema of three files with at most two items each: the one that   *)
(* codegen starts from, "b" beside it and another "b" in the directory     *)
(* "d".  A file may include itself, the others, a missing one, and spell   *)
(* them with "..".                                                         *)
(***************************************************************************)
EXTENDS SchemaIncludes

SomeFiles == {<<"m">>, <<"b">>, <<"d", "b">>}
SomeRoot  == <<"m">>
SomeNames == {<<"b">>, <<"d", "b">>, <<"..", "b">>, <<"..", "m">>}
=============================================================================
