--------------------------- MODULE MCForwardHeaders ---------------------------
(***************************************************************************)
(* TLC instance of ForwardHeaders: two trusted proxies or none, two        *)
(* clients.                                                                *)
(***************************************************************************)
EXTENDS ForwardHeaders, SequencesExt

MCTrustedSets == {{}, {"proxy1", "proxy2"}}

Request(peer, chain, real, audit, request) ==
  [peer |-> peer, xff |-> chain, later |-> <<>>, realIP |-> real, auditID |-> audit,
   requestID |-> request, connection |-> {}]

Peers == {"proxy1", "alice"}
Chains == BoundedSeq({"proxy2", "alice", "bob", "junk"}, 2)

\* The first request carries any headers or any ids, or has a second line or
\* headers named in Connection; those after it press on the limiter.
AnyRequest ==
  {Request(p, c, r, "none", "none"): p \in Peers, c \in Chains, r \in BOOLEAN}
    \cup {Request(p, <<"bob">>, FALSE, a, r):
            p \in Peers, a \in {"none", "audit", "malformed"}, r \in {"none", "request"}}
    \cup {[Request(p, c, FALSE, "audit", "none") EXCEPT !.later = l, !.connection = named]:
            p \in Peers, c \in {<<>>, <<"bob">>}, l \in {<<>>, <<"alice">>},
            named \in SUBSET {AuditID, ForwardedFor}}
DroppingRequests ==
  {Request("alice", <<"bob">>, FALSE, "none", "none"),
   Request("alice", <<>>, FALSE, "none", "none")}

MCInbounds == [n \in 1..MaxRequests |-> IF n = 1 THEN AnyRequest ELSE DroppingRequests]
=============================================================================
