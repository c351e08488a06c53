----------------------------- MODULE QapiCalls -----------------------------
(***************************************************************************)
(* What the asynchronous client promises to its caller, without locks,     *)
(* ids, wakers or buffers: a call ends once, with the server's answer to   *)
(* that very call or with an error; an answer reaches only a call that was *)
(* registered while the client was open; "disconnected" is reported only   *)
(* by a client that has been closed, and a closed client never reopens.    *)
(***************************************************************************)
CONSTANTS Calls

VARIABLES
    outcome,     \* "new", "pending", or how the call ended
    registered,  \* calls whose answer, if it comes, will be delivered
    replied,     \* calls the server has answered
    open         \* the client accepts and serves calls

callVars == <<outcome, registered, replied, open>>

CallsTypeOK ==
    /\ outcome \in [Calls -> {"new", "pending", "replied", "disconnected",
                              "ioerror", "cancelled", "panicked"}]
    /\ registered \subseteq Calls
    /\ replied \subseteq Calls
    /\ open \in BOOLEAN

CallsInit ==
    /\ outcome = [c \in Calls |-> "new"]
    /\ registered = {} /\ replied = {} /\ open = TRUE

Issue(c) ==
    /\ outcome[c] = "new"
    /\ outcome' = [outcome EXCEPT ![c] = "pending"]
    /\ UNCHANGED <<registered, replied, open>>

Register(c) ==
    /\ open /\ outcome[c] = "pending" /\ c \notin registered
    /\ registered' = registered \cup {c}
    /\ UNCHANGED <<outcome, replied, open>>

Answer(c) ==
    /\ outcome[c] # "new" /\ c \notin replied
    /\ replied' = replied \cup {c}
    /\ UNCHANGED <<outcome, registered, open>>

End(c, how) ==
    /\ outcome[c] = "pending"
    /\ outcome' = [outcome EXCEPT ![c] = how]
    /\ UNCHANGED <<registered, replied, open>>

Reply(c)      == c \in registered \cap replied /\ End(c, "replied")
Disconnect(c) == ~open /\ c \notin registered /\ End(c, "disconnected")
Fail(c)       == \E how \in {"ioerror", "cancelled"} : End(c, how)

\* The answer to a call that ended early is thrown away.
Discard(c) ==
    /\ c \in registered \cap replied
    /\ outcome[c] \in {"ioerror", "cancelled"}
    /\ registered' = registered \ {c}
    /\ UNCHANGED <<outcome, replied, open>>

\* The service goes away first, or the receiving side with all it serves.
Close == open' = FALSE /\ UNCHANGED <<outcome, registered, replied>>

Disband ==
    /\ open' = FALSE
    /\ registered' \in SUBSET registered
    /\ registered \ registered' \subseteq {c \in Calls : outcome[c] # "replied"}
    /\ UNCHANGED <<outcome, replied>>

\* The entry a call left behind makes a later one panic and closes for good.
Break(c) ==
    /\ outcome[c] = "pending" /\ c \notin registered
    /\ \/ ~open
       \/ \E d \in registered : outcome[d] \in {"ioerror", "cancelled"}
    /\ outcome' = [outcome EXCEPT ![c] = "panicked"]
    /\ open' = FALSE
    /\ registered' \in SUBSET (registered \cup {c})
    /\ UNCHANGED replied

CallsNext ==
    \/ \E c \in Calls : \/ Issue(c) \/ Register(c) \/ Answer(c) \/ Reply(c)
                        \/ Disconnect(c) \/ Fail(c) \/ Discard(c) \/ Break(c)
    \/ Close \/ Disband

CallsSpec == CallsInit /\ [][CallsNext]_callVars
=============================================================================
