----------------------------- MODULE RTARegistry -----------------------------
(***************************************************************************)
(* What a Real Time Activity connection promises to its callers, without   *)
(* sockets, handshakes, statuses or retries: which resources it keeps      *)
(* track of for which clients, and how the asynchronous calls end.         *)
(***************************************************************************)
EXTENDS Integers

CONSTANTS
    Uris,     \* resources
    Clients,  \* Subscription objects of the callers
    UriOf,    \* the resource each of them is about
    OpIds,    \* asynchronous calls
    Outcomes  \* what a call can be completed with

VARIABLES
    held,     \* clients whose last call was an Add
    tracked,  \* resources the connection subscribes to, or will
    result,   \* "none", "pending" or an outcome, for every call
    open      \* the connection still takes calls

vars == <<held, tracked, result, open>>

Init ==
    /\ held = {}
    /\ tracked = {}
    /\ result = [o \in OpIds |-> "none"]
    /\ open = TRUE

\* A resource is given up only when no client holds on to it.
Wanted(clients) == {UriOf[c] : c \in clients}

\* Calls end in any order and with any outcome, but each at most once.
Settles(o) ==
    \/ result'[o] = result[o]
    \/ result[o] = "pending" /\ result'[o] \in Outcomes

Issue(o) ==
    /\ result[o] = "none"
    /\ result'[o] \in Outcomes \union {"pending"}
    /\ \A p \in OpIds \ {o} : Settles(p)

Add(c, o) ==
    /\ open
    /\ c \notin held
    /\ held' = held \union {c}
    /\ tracked' = tracked \union {UriOf[c]}
    /\ Issue(o)
    /\ UNCHANGED open

Remove(c, o) ==
    /\ open
    /\ held' = held \ {c}
    /\ \/ tracked' = tracked
       \/ UriOf[c] \notin Wanted(held') /\ tracked' = tracked \ {UriOf[c]}
    /\ \/ Issue(o)
       \/ UriOf[c] \notin tracked /\ UNCHANGED result
    /\ UNCHANGED open

\* The service or the network answers.
Answer ==
    /\ \A o \in OpIds : Settles(o)
    /\ tracked' \subseteq tracked
    /\ (tracked \ tracked') \intersect Wanted(held) = {}
    /\ UNCHANGED <<held, open>>

Close ==
    /\ open
    /\ open' = FALSE
    /\ UNCHANGED <<held, tracked, result>>

Next ==
    \/ \E c \in Clients, o \in OpIds : Add(c, o) \/ Remove(c, o)
    \/ Answer
    \/ Close

Spec == Init /\ [][Next]_vars
=============================================================================
