--------------------------- MODULE MCQapiFutures ---------------------------
(***************************************************************************)
(* Instances of QapiFutures for TLC, and the promise it keeps.             *)
(*                                                                         *)
(* A future between execute() and its outcome is pending; a call is        *)
(* registered while its sender is stored in the map or its answer is in    *)
(* its channel; the client is open until the map is abandoned or poisoned. *)
(***************************************************************************)
EXTENDS QapiFutures, TLC

Symmetry == Permutations(Calls)

Outcome(c) == IF pc[c] \in {"created"} \cup Inserted THEN "pending" ELSE pc[c]

Promise == INSTANCE QapiCalls WITH
    outcome    <- [c \in Calls |-> Outcome(c)],
    registered <- {c \in Calls : pending[id[c]] = c \/ got[c] = c},
    replied    <- answered,
    open       <- ~abandoned /\ ~poisoned

\* Every step of the client, of its two users and of the server is a step of
\* the promise of QapiCalls or invisible to it: one outcome for each call,
\* its own answer or an error, and no service after the client is closed.
\* Holds while ids have not wrapped and no response comes unasked.
KeepsPromise == Promise!CallsSpec

\* "QAPI duplicate command id {:?}, this should not happen": no future ever
\* panics in command_insert (qapi/src/futures/mod.rs:270).
DuplicateIdDoesNotHappen == \A c \in Calls : pc[c] # "panicked"
=============================================================================
