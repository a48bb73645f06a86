------------------------ MODULE MCInferenceScheduler ------------------------
(* A small instance of InferenceScheduler for TLC: one streamed and one unary *)
(* request.                                                                   *)
EXTENDS InferenceScheduler

CONSTANTS s1, u1

TwoRequests == {s1, u1}
StreamRequests == {s1}

=============================================================================
