------------------------ MODULE MCSubjectAccessReview ------------------------
(***************************************************************************)
(* TLC instances of SubjectAccessReview.                                   *)
(***************************************************************************)
EXTENDS SubjectAccessReview, TLC, SequencesExt

Headers(us, gs, ids, xs, un) ==
  [users |-> us, groups |-> gs, uids |-> ids, userextras |-> xs, unknown |-> un]

\* One question per request: every request can share every flight.
OneUser == {Headers(<<"a">>, <<>>, <<>>, <<>>, <<>>)}

\* A user alone, and the same user with a group: two questions, one budget.
UserAndGroup ==
  {Headers(<<"a">>, <<>>, <<>>, <<>>, <<>>), Headers(<<"a">>, <<"g">>, <<>>, <<>>, <<>>)}

\* Every kind of header, with repeated values, and every malformed request.
AllShapes ==
  OneUser \cup
  {Headers(<<>>, <<>>, <<>>, <<>>, <<>>),
   Headers(<<"a", "">>, <<>>, <<"a">>, <<>>, <<>>),
   Headers(<<"a">>, <<"g", "a">>, <<>>, <<"a">>, <<>>),
   Headers(<<"a">>, <<>>, <<>>, <<>>, <<"g">>),
   Headers(<<"">>, <<"g">>, <<>>, <<>>, <<>>),
   Headers(<<"a">>, <<"g", "g", "g", "g">>, <<>>, <<>>, <<>>)}

Asked(shapes) ==
  UNION {{ReviewSpec(u, k, h[k][i]): i \in DOMAIN h[k]}:
           u \in Users, k \in Resources, h \in shapes}
QuestionsAsked == Asked(Shapes)

NoOversized == {}
GroupsOversized == {q \in QuestionsAsked: q.resource = "groups"}

RequestSymmetry == Permutations(Requests)

\* The sar run: either every request asks the same question, so that they
\* share its flight while its rule changes ...
TheQuestion == CHOOSE q \in Asked(OneUser): TRUE
Others == QuestionsAsked \ {TheQuestion}
Shared ==
  /\ \A r \in Requests: inbound[r].headers \in OneUser
  /\ Others \subseteq grants

\* ... or one request alone walks any headers, the rules denying it at most
\* one of its values.
Walker == CHOOSE r \in Requests: TRUE
Alone == inbound[Walker].headers \notin OneUser
Walk ==
  /\ Alone
  /\ \A r \in Requests \ {Walker}: inbound[r].headers \in OneUser
  /\ \E q \in QuestionsAsked: QuestionsAsked \ {q} \subseteq grants

MCInit == Init /\ (Shared \/ Walk)

\* Only the rule of the shared question changes, and the walker comes first,
\* when the clock starts: requests that ask the same question are
\* interchangeable, and nothing happens before one comes.
MCNext ==
  /\ Next
  /\ now' # now => pc[Walker] # "new"
  /\ grants' # grants => ~Alone /\ Others \subseteq grants'
  /\ \A r \in Requests \ {Walker}: pc'[r] = "new" \/ (~Alone /\ pc[Walker] # "new")

MCSpec == MCInit /\ [][MCNext]_vars /\ Fairness
=============================================================================
