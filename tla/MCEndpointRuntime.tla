------------------------- MODULE MCEndpointRuntime -------------------------
(* Instances of EndpointRuntime for TLC: a chat request of one session and one *)
(* request of each of two task executions.                                    *)
EXTENDS EndpointRuntime

CONSTANTS c1, w1, w2, e1, e2, s1

Chats == {c1}
Works == {w1, w2}
TwoExecutions == {e1, e2}
OneSession == {s1}

ChatSession == [r \in Chats |-> s1]
WorkExecution == [r \in Works |-> IF r = w1 THEN e1 ELSE e2]

============================================================================
