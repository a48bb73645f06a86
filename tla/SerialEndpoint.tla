--------------------------- MODULE SerialEndpoint ---------------------------
(* What the Hub promises about a model endpoint: requests are dispatched to it *)
(* one at a time and each at most once, unless the endpoint refused it         *)
(* unserved.                                                                   *)
CONSTANT Requests

VARIABLES
  computing,  \* requests the endpoint may be computing
  spent       \* requests that were dispatched and not refused

vars == <<computing, spent>>

Init == computing = {} /\ spent = {}

Dispatch(r) ==
  /\ computing = {} /\ r \notin spent
  /\ computing' = {r}
  /\ spent' = spent \cup {r}

Leave(r) ==
  /\ computing = {r}
  /\ computing' = {}
  /\ UNCHANGED spent

Refuse(r) ==
  /\ computing = {r}
  /\ computing' = {}
  /\ spent' = spent \ {r}

Next == \E r \in Requests : Dispatch(r) \/ Leave(r) \/ Refuse(r)

Spec == Init /\ [][Next]_vars
=============================================================================
