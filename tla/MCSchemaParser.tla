--------------------------- MODULE MCSchemaParser ---------------------------
(***************************************************************************)
(* Every file of up to four lines out of these: blank, a comment, parts of *)
(* an item, one or two items on a line, an item with a comment behind it,  *)
(* an end and a start on one line, an object that is not an item.          *)
(***************************************************************************)
EXTENDS SchemaParser

SomeLines == {<<>>, <<"#", "{">>, <<"{">>, <<"member">>, <<"}">>,
              <<"{", "member", "}">>, <<"{", "member", "}", "{", "member", "}">>,
              <<"{", "member", "}", "#", "}">>, <<"}", "{">>, <<"{", "}">>}
=============================================================================
