--------------------------- MODULE MCTurnDispatch ---------------------------
(* The instance of TurnDispatch that TLC checks. *)
EXTENDS TurnDispatch

\* One text of every kind; "yes" is left out, as "work" and "create it" take
\* its two parts (the answer to a proposal, the word that resumes a request).
OneOfEach == AllTexts \ {"yes"}
=============================================================================
