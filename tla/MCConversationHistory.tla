----------------------- MODULE MCConversationHistory -----------------------
(* Instances of ConversationHistory for TLC: batches of two or three rows. *)
EXTENDS ConversationHistory

CONSTANTS q1, q2, w1, w2

\* A turn is a text, a call, both, or two calls at once.
AnyTurn == {<<"text">>, <<"call">>, <<"text", "call">>, <<"call", "call">>}
OneRowTurns == {<<"text">>, <<"call">>}
\* Requests differ in nothing, and neither do runs; not for liveness.
Interchangeable == Permutations(Requests) \cup Permutations(Summarizers)
=============================================================================
