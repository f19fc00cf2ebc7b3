--------------------------- MODULE MCTokenReview ---------------------------
(***************************************************************************)
(* TLC instance of TokenReview.                                            *)
(***************************************************************************)
EXTENDS TokenReview

\* Both classes cached, or only one of them.
TTLs == {[success |-> 1, failure |-> 1], [success |-> 0, failure |-> 1],
         [success |-> 1, failure |-> 0]}

\* Tokens are interchangeable, so that it may always be the same one that
\* changes; the other one competes for the cache.
Changing == CHOOSE t \in Tokens: TRUE
MCNext == Next /\ valid' \ {Changing} = valid \ {Changing}

MCSpec == Init /\ [][MCNext]_vars /\ Fairness
=============================================================================
