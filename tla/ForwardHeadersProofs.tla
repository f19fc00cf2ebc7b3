------------------------- MODULE ForwardHeadersProofs -------------------------
(***************************************************************************)
(* Proofs about ForwardHeaders, for header chains of any length, any sets  *)
(* of addresses and trusted proxies, and any number of requests.           *)
(***************************************************************************)
EXTENDS ForwardHeaders, WarnLimiterProofs, WellFoundedInduction

-----------------------------------------------------------------------------
(* The client of a chain.                                                  *)

\* Hop j of a chain reaches hop i: it is an address nobody vouches for, and
\* trusted proxies alone relayed it up to hop i.  T: the trusted proxies.
Reaches(T, chain, i, j) ==
  /\ chain[j] \in Addresses \ T
  /\ \A k \in j + 1..i: chain[k] \in T

\* The client as seen behind hop i: the hop that reaches it, or else the peer.
SeenAt(T, peer, chain, i, a) ==
  /\ \A j \in 1..i: Reaches(T, chain, i, j) => a = chain[j]
  /\ (\A j \in 1..i: ~Reaches(T, chain, i, j)) => a = peer

\* The client of a request: its peer, unless that is a trusted proxy.
ClientOf(T, peer, chain, a) ==
  IF peer \in T THEN SeenAt(T, peer, chain, Len(chain), a) ELSE a = peer
TheClient(T, peer, chain) == CHOOSE a: ClientOf(T, peer, chain, a)

\* At most one hop reaches another.
LEMMA OneReaches ==
  ASSUME NEW T, NEW chain, NEW i \in Nat, NEW j \in 1..i, NEW k \in 1..i,
         Reaches(T, chain, i, j), Reaches(T, chain, i, k)
  PROVE  j = k
<1>1. CASE j < k
  <2>1. k \in j + 1..i
    BY <1>1
  <2> QED BY <2>1 DEF Reaches
<1>2. CASE k < j
  <2>1. j \in k + 1..i
    BY <1>2
  <2> QED BY <2>1 DEF Reaches
<1> QED BY <1>1, <1>2

\* So the client is one address.
LEMMA OneSeen ==
  ASSUME NEW T, NEW peer, NEW chain, NEW i \in Nat
  PROVE  \E a: SeenAt(T, peer, chain, i, a) /\ \A b: SeenAt(T, peer, chain, i, b) => b = a
<1>1. CASE \E j \in 1..i: Reaches(T, chain, i, j)
  <2>1. PICK j \in 1..i: Reaches(T, chain, i, j)
    BY <1>1
  <2>2. SeenAt(T, peer, chain, i, chain[j])
    BY <2>1, OneReaches DEF SeenAt
  <2>3. \A b: SeenAt(T, peer, chain, i, b) => b = chain[j]
    BY <2>1 DEF SeenAt
  <2> QED BY <2>2, <2>3
<1>2. CASE \A j \in 1..i: ~Reaches(T, chain, i, j)
  <2>1. SeenAt(T, peer, chain, i, peer) /\ \A b: SeenAt(T, peer, chain, i, b) => b = peer
    BY <1>2 DEF SeenAt
  <2> QED BY <2>1
<1> QED BY <1>1, <1>2

\* The client behind the peer, behind a hop that does not parse, behind a
\* trusted one, and behind any other.
LEMMA SeenBehind ==
  ASSUME NEW T, T \subseteq Addresses, NEW peer, NEW chain, NEW i \in Nat, NEW a
  PROVE  /\ i = 0 => (SeenAt(T, peer, chain, i, a) <=> a = peer)
         /\ i # 0 /\ chain[i] \notin Addresses => (SeenAt(T, peer, chain, i, a) <=> a = peer)
         /\ i # 0 /\ chain[i] \in T =>
              (SeenAt(T, peer, chain, i, a) <=> SeenAt(T, peer, chain, i - 1, a))
         /\ i # 0 /\ chain[i] \in Addresses \ T => (SeenAt(T, peer, chain, i, a) <=> a = chain[i])
<1>1. i = 0 => (SeenAt(T, peer, chain, i, a) <=> a = peer)
  BY DEF SeenAt
<1>2. ASSUME i # 0, chain[i] \notin Addresses PROVE SeenAt(T, peer, chain, i, a) <=> a = peer
  <2>1. ASSUME NEW j \in 1..i PROVE ~Reaches(T, chain, i, j)
    <3>1. CASE j = i
      BY <1>2, <3>1 DEF Reaches
    <3>2. CASE j # i
      <4>1. i \in j + 1..i
        BY <1>2, <3>2
      <4> QED BY <1>2, <4>1 DEF Reaches
    <3> QED BY <3>1, <3>2
  <2> QED BY <2>1 DEF SeenAt
<1>3. ASSUME i # 0, chain[i] \in T
      PROVE  SeenAt(T, peer, chain, i, a) <=> SeenAt(T, peer, chain, i - 1, a)
  <2>1. ~Reaches(T, chain, i, i)
    BY <1>3 DEF Reaches
  <2>2. ASSUME NEW j \in 1..i - 1 PROVE Reaches(T, chain, i, j) <=> Reaches(T, chain, i - 1, j)
    <3>1. \A k: k \in j + 1..i <=> k \in j + 1..i - 1 \/ k = i
      BY <1>3
    <3> QED BY <1>3, <3>1 DEF Reaches
  <2>3. \A j: j \in 1..i <=> j \in 1..i - 1 \/ j = i
    BY <1>3
  <2> QED BY <2>1, <2>2, <2>3 DEF SeenAt
<1>4. ASSUME i # 0, chain[i] \in Addresses \ T PROVE SeenAt(T, peer, chain, i, a) <=> a = chain[i]
  <2>1. i \in 1..i /\ Reaches(T, chain, i, i)
    BY <1>4 DEF Reaches
  <2>2. \A j \in 1..i: Reaches(T, chain, i, j) => j = i
    BY <2>1, OneReaches
  <2> QED BY <2>1, <2>2 DEF SeenAt
<1> QED BY <1>1, <1>2, <1>3, <1>4

\* A set of naturals has a least element.
LEMMA Least ==
  ASSUME NEW S, S \subseteq Nat, S # {}
  PROVE  \E x \in S: \A y \in S: ~(y < x)
<1>1. PICK x \in S: \A y \in S: ~(<<y, x>> \in OpToRel(<, Nat))
  BY WFMin, NatLessThanWellFounded, Zenon
<1>2. ASSUME NEW y \in S, y < x PROVE FALSE
  <2>1. <<y, x>> \in Nat \X Nat /\ <<y, x>>[1] < <<y, x>>[2]
    BY <1>2
  <2> QED BY <1>1, <2>1, Zenon DEF OpToRel
<1> QED BY <1>2

\* The walk of the resolver along a chain.
Walk(T, peer, chain, w) ==
  [i \in 0..Len(chain) |-> IF i = 0 THEN peer
                           ELSE IF chain[i] \notin Addresses THEN peer
                           ELSE IF chain[i] \in T THEN w[i - 1]
                           ELSE chain[i]]

\* There is such a walk: it sees the client behind every hop.
LEMMA WalkExists ==
  ASSUME NEW T, T \subseteq Addresses, NEW peer, NEW chain, Len(chain) \in Nat
  PROVE  \E w: w = Walk(T, peer, chain, w)
<1> DEFINE g == [i \in 0..Len(chain) |-> CHOOSE a: SeenAt(T, peer, chain, i, a)]
<1>1. ASSUME NEW i \in 0..Len(chain)
      PROVE  SeenAt(T, peer, chain, i, g[i]) /\ \A b: SeenAt(T, peer, chain, i, b) => b = g[i]
  <2>1. PICK a: SeenAt(T, peer, chain, i, a) /\ \A b: SeenAt(T, peer, chain, i, b) => b = a
    BY OneSeen
  <2>2. g[i] = CHOOSE b: SeenAt(T, peer, chain, i, b)
    OBVIOUS
  <2>3. SeenAt(T, peer, chain, i, g[i])
    BY <2>1, <2>2
  <2> QED BY <2>1, <2>3
<1> HIDE DEF g
<1>2. ASSUME NEW i \in 0..Len(chain)
      PROVE  g[i] = IF i = 0 THEN peer
                    ELSE IF chain[i] \notin Addresses THEN peer
                    ELSE IF chain[i] \in T THEN g[i - 1]
                    ELSE chain[i]
  <2>1. i \in Nat /\ (i # 0 => i - 1 \in 0..Len(chain))
    OBVIOUS
  <2>2. i # 0 => SeenAt(T, peer, chain, i - 1, g[i - 1])
    BY <1>1, <2>1
  <2>3. CASE i = 0
    BY <1>1, <2>1, <2>3, SeenBehind
  <2>4. CASE i # 0 /\ chain[i] \notin Addresses
    BY <1>1, <2>1, <2>4, SeenBehind
  <2>5. CASE i # 0 /\ chain[i] \in T
    <3>1. SeenAt(T, peer, chain, i, g[i - 1])
      BY <2>1, <2>2, <2>5, SeenBehind
    <3> QED BY <1>1, <2>5, <3>1
  <2>6. CASE i # 0 /\ chain[i] \in Addresses \ T
    BY <1>1, <2>1, <2>6, SeenBehind
  <2> QED BY <2>3, <2>4, <2>5, <2>6
<1>3. g = Walk(T, peer, chain, g)
  <2>1. g = [i \in 0..Len(chain) |-> g[i]]
    BY DEF g
  <2> QED BY <1>2, <2>1 DEF Walk
<1> QED BY <1>3

\* And every such walk sees the client behind every hop.
LEMMA WalkSees ==
  ASSUME NEW T, T \subseteq Addresses, NEW peer, NEW chain, Len(chain) \in Nat,
         NEW w, w = Walk(T, peer, chain, w), NEW n \in 0..Len(chain)
  PROVE  SeenAt(T, peer, chain, n, w[n])
<1> DEFINE Wrong == {i \in 0..Len(chain): ~SeenAt(T, peer, chain, i, w[i])}
<1> SUFFICES ASSUME Wrong # {} PROVE FALSE
  OBVIOUS
<1>0. Wrong \subseteq Nat
  OBVIOUS
<1>1. PICK i \in Wrong: \A y \in Wrong: ~(y < i)
  <2> HIDE DEF Wrong
  <2> QED BY <1>0, Least
<1>2. i \in Nat /\ i \in 0..Len(chain) /\ ~SeenAt(T, peer, chain, i, w[i])
  OBVIOUS
<1>3. i # 0 => SeenAt(T, peer, chain, i - 1, w[i - 1])
  <2>1. i # 0 => i - 1 \in 0..Len(chain) /\ i - 1 < i
    BY <1>2
  <2> QED BY <1>1, <2>1
<1> HIDE DEF Wrong
<1>4. w[i] = IF i = 0 THEN peer
             ELSE IF chain[i] \notin Addresses THEN peer
             ELSE IF chain[i] \in T THEN w[i - 1]
             ELSE chain[i]
  BY <1>2 DEF Walk
<1> QED BY <1>2, <1>3, <1>4, SeenBehind

\* ResolveClientIP, and its copy in the access log, find the client.
LEMMA Resolves ==
  ASSUME NEW peer, NEW chain, Len(chain) \in Nat, chain = <<>> <=> Len(chain) = 0,
         trusted \subseteq Addresses
  PROVE  /\ ResolveClientIP(peer, chain) = TheClient(trusted, peer, chain)
         /\ RecordResolves(peer, chain) = TheClient(trusted, peer, chain)
         /\ ClientOf(trusted, peer, chain, TheClient(trusted, peer, chain))
         /\ \A a: ClientOf(trusted, peer, chain, a) => a = TheClient(trusted, peer, chain)
<1> DEFINE w == CHOOSE w: w = Walk(trusted, peer, chain, w)
<1> DEFINE found == IF chain = <<>> \/ peer \notin trusted THEN peer ELSE w[Len(chain)]
<1>1. ResolveClientIP(peer, chain) = found /\ RecordResolves(peer, chain) = found
  BY DEF ResolveClientIP, RecordResolves, Walk
<1>2. w = Walk(trusted, peer, chain, w)
  BY WalkExists
<1> HIDE DEF w
<1>3. ClientOf(trusted, peer, chain, found)
  <2>1. CASE peer \notin trusted
    BY <2>1 DEF ClientOf
  <2>2. CASE peer \in trusted /\ chain = <<>>
    BY <2>2, SeenBehind DEF ClientOf
  <2>3. CASE peer \in trusted /\ chain # <<>>
    <3>1. SeenAt(trusted, peer, chain, Len(chain), w[Len(chain)])
      <4>1. Len(chain) \in 0..Len(chain)
        OBVIOUS
      <4> QED BY <1>2, <4>1, WalkSees
    <3> QED BY <2>3, <3>1 DEF ClientOf
  <2> QED BY <2>1, <2>2, <2>3
<1> HIDE DEF found
<1>4. \A a: ClientOf(trusted, peer, chain, a) => a = found
  BY <1>3, OneSeen DEF ClientOf
<1>5. TheClient(trusted, peer, chain) = found
  BY <1>3, <1>4 DEF TheClient
<1> QED BY <1>1, <1>3, <1>4, <1>5

\* What is left of a chain once it is collapsed to its client still leads to
\* that client, and so does what ReverseProxy makes of it.
LEMMA Collapses ==
  ASSUME NEW T, T \subseteq Addresses, NEW peer, NEW chain, Len(chain) \in Nat, NEW a,
         ClientOf(T, peer, chain, a),
         NEW left, left = IF a = peer THEN <<>> ELSE <<a>>
  PROVE  ClientOf(T, peer, left, a) /\ ClientOf(T, peer, Append(left, peer), a)
<1>1. CASE peer \notin T
  BY <1>1 DEF ClientOf
<1>2. CASE peer \in T /\ a = peer
  <2>1. left = <<>> /\ Append(left, peer) = <<peer>>
    BY <1>2
  <2>2. SeenAt(T, peer, <<>>, 0, a) /\ SeenAt(T, peer, <<peer>>, 0, a)
    BY <1>2, SeenBehind
  <2>3. SeenAt(T, peer, <<peer>>, 1, a)
    <3>1. <<peer>>[1] \in T /\ 1 - 1 = 0
      BY <1>2
    <3> QED BY <2>2, <3>1, SeenBehind
  <2>4. Len(<<>>) = 0 /\ Len(<<peer>>) = 1
    OBVIOUS
  <2> QED BY <1>2, <2>1, <2>2, <2>3, <2>4 DEF ClientOf
<1>3. CASE peer \in T /\ a # peer
  <2>1. a \in Addresses \ T
    BY <1>3 DEF ClientOf, SeenAt, Reaches
  <2>2. left = <<a>>
    BY <1>3
  <2>3. /\ Len(left) = 1 /\ left[1] = a
        /\ Len(Append(left, peer)) = 2 /\ Append(left, peer)[1] = a /\ Append(left, peer)[2] = peer
    <3> DEFINE S == {a, peer}
    <3>1. a \in S /\ peer \in S
      OBVIOUS
    <3> HIDE DEF S
    <3>2. left \in Seq(S)
      BY <2>2, <3>1
    <3>3. Len(left) = 1 /\ left[1] = a
      BY <2>2
    <3> QED BY <3>1, <3>2, <3>3
  <2>4. ASSUME NEW c, c[1] = a PROVE SeenAt(T, peer, c, 1, a)
    <3>1. 1 \in Nat /\ 1 # 0
      OBVIOUS
    <3> QED BY <2>1, <2>4, <3>1, SeenBehind
  <2>5. ASSUME NEW c, c[1] = a, c[2] \in T PROVE SeenAt(T, peer, c, 2, a)
    <3>1. 2 \in Nat /\ 2 # 0 /\ 2 - 1 = 1
      OBVIOUS
    <3>2. SeenAt(T, peer, c, 2 - 1, a)
      BY <2>4, <2>5, <3>1
    <3> QED BY <2>5, <3>1, <3>2, SeenBehind
  <2> QED BY <1>3, <2>3, <2>4, <2>5 DEF ClientOf
<1> QED BY <1>1, <1>2, <1>3

-----------------------------------------------------------------------------
(* The invariants.                                                         *)

RequestIDs == IdHeaders \cup {Minted}

\* What a client may send, from one of these peers.
InboundType(peers) ==
  [peer: peers, xff: Seq(Hops), later: Seq(Hops), realIP: BOOLEAN, auditID: IdHeaders,
   requestID: IdHeaders, connection: SUBSET {AuditID, ForwardedFor}]

\* The fields of a request.
RequestType ==
  [in: InboundType(Addresses \cup {NoAddress}),
   xff: Seq(Hops), later: Seq(Hops), realIP: BOOLEAN, auditHeader: RequestIDs,
   original: Seq(Hops), client: Addresses \cup {NoAddress},
   id: RequestIDs, clientID: RequestIDs, extra: Addresses \cup {NoAddress},
   event: [sources: Seq(Hops), id: RequestIDs],
   record: [src: Addresses \cup {NoAddress}, fwd: Seq(Hops), id: RequestIDs, clientID: RequestIDs],
   upstream: [xff: Seq(Hops), realIP: BOOLEAN, id: RequestIDs]]

ForwardType ==
  /\ trusted \in TrustedSets
  /\ served \in 0..MaxRequests
  /\ at \in {"idle", "sanitize", "log", "authenticate", "impersonate", "forward", "done"}
  /\ req \in RequestType
  /\ at # "idle" => req.in.peer \in Addresses

\* The client of the request, and the header as Sanitize leaves it.
Client == TheClient(trusted, req.in.peer, req.in.xff)
Rewritten == IF Client = req.in.peer THEN <<>> ELSE <<Client>>

\* The audit event of the request.
Event == [sources |-> Append(Rewritten, req.in.peer), id |-> RequestID(req.in)]

\* The headers and the ids, filter by filter.
Headers ==
  /\ at = "idle" => req = NoRequest
  /\ at # "idle" => /\ req.id = RequestID(req.in) /\ req.clientID = InboundID(req.in)
                    /\ req.auditHeader = RequestID(req.in)
  /\ at = "sanitize" => req.xff = req.in.xff /\ req.later = req.in.later
  /\ at \in {"log", "authenticate", "impersonate", "forward"} =>
       req.xff = Rewritten /\ (Unread \/ req.later = <<>>)
  /\ at \notin {"idle", "sanitize"} => req.original = req.in.xff /\ ~req.realIP

\* What was made of the request so far names the client.
Made ==
  /\ req.client \in {NoAddress, Client} /\ req.extra \in {NoAddress, Client}
  /\ req.event \in {NoEvent, Event}
  /\ at # "done" => req.record = NoRecord /\ req.upstream = Nothing
  /\ req.record # NoRecord =>
       /\ \/ req.record.src = Client
          \/ req.upstream # Nothing /\ (Unread \/ ForwardedFor \in req.in.connection)
       /\ req.record.id = req.id /\ req.record.clientID = req.clientID
       /\ req.in.xff # <<>> => req.record.fwd = req.in.xff
  /\ req.upstream # Nothing =>
       /\ Unread \/ req.upstream.xff \in {Append(Rewritten, req.in.peer), <<req.in.peer>>}
       /\ ~req.upstream.realIP
       /\ req.upstream.id = IF AuditID \in req.in.connection THEN "none" ELSE req.id

ForwardInv == ForwardType /\ Headers /\ Made

-----------------------------------------------------------------------------
\* A chain is a sequence of hops.
LEMMA Chains ==
  ASSUME ForwardType
  PROVE  /\ trusted \subseteq Addresses
         /\ Len(req.in.xff) \in Nat /\ (req.in.xff = <<>> <=> Len(req.in.xff) = 0)
         /\ Len(req.xff) \in Nat /\ (req.xff = <<>> <=> Len(req.xff) = 0)
<1>1. trusted \subseteq Addresses
  BY ForwardAssumption DEF ForwardType
<1>2. req.in.xff \in Seq(Hops) /\ req.xff \in Seq(Hops)
  BY DEF ForwardType, RequestType, InboundType
<1> QED BY <1>1, <1>2

\* The client is the peer or a hop: an address.
LEMMA ClientIs ==
  ASSUME ForwardType
  PROVE  /\ ClientOf(trusted, req.in.peer, req.in.xff, Client)
         /\ ResolveClientIP(req.in.peer, req.in.xff) = Client
         /\ at # "idle" => Client \in Addresses
         /\ Rewritten \in Seq(Hops)
         /\ at # "idle" => Append(Rewritten, req.in.peer) \in Seq(Hops)
<1>1. /\ ClientOf(trusted, req.in.peer, req.in.xff, Client)
      /\ ResolveClientIP(req.in.peer, req.in.xff) = Client
  BY Chains, Resolves DEF Client
<1>2. Client = req.in.peer \/ Client \in Addresses
  BY <1>1 DEF ClientOf, SeenAt, Reaches
<1>3. at # "idle" => Client \in Addresses
  BY <1>2 DEF ForwardType
<1>4. Rewritten \in Seq(Hops)
  <2>1. CASE Client = req.in.peer
    BY <2>1 DEF Rewritten
  <2>2. CASE Client # req.in.peer
    <3>1. Client \in Hops /\ Rewritten = <<Client>>
      BY <1>2, <2>2 DEF Rewritten, Hops
    <3> QED BY <3>1
  <2> QED BY <2>1, <2>2
<1>5. at # "idle" => Append(Rewritten, req.in.peer) \in Seq(Hops)
  BY <1>4 DEF ForwardType, Hops
<1> QED BY <1>1, <1>3, <1>4, <1>5

\* Wherever the header is resolved, the client is found.
LEMMA FindsClient ==
  ASSUME ForwardInv, at \in {"log", "authenticate", "impersonate", "forward"}
  PROVE  /\ RemoteAddr = Client
         /\ RecordResolves(req.in.peer, req.xff) = Client
         /\ RecordResolves(req.in.peer, Append(req.xff, req.in.peer)) = Client
<1>1. req.xff = Rewritten
  BY DEF ForwardInv, Headers
<1>2. /\ ClientOf(trusted, req.in.peer, req.xff, Client)
      /\ ClientOf(trusted, req.in.peer, Append(req.xff, req.in.peer), Client)
  BY <1>1, Chains, ClientIs, Collapses DEF ForwardInv, Rewritten
<1>3. ResolveClientIP(req.in.peer, req.xff) = Client /\ RecordResolves(req.in.peer, req.xff) = Client
  BY <1>2, Chains, Resolves DEF ForwardInv
<1>4. RecordResolves(req.in.peer, Append(req.xff, req.in.peer)) = Client
  <2>1. /\ Len(Append(req.xff, req.in.peer)) \in Nat
        /\ Append(req.xff, req.in.peer) = <<>> <=> Len(Append(req.xff, req.in.peer)) = 0
    <3>1. Append(req.xff, req.in.peer) \in Seq(Hops)
      BY <1>1, ClientIs DEF ForwardInv
    <3> QED BY <3>1
  <2> QED BY <1>2, <2>1, Chains, Resolves DEF ForwardInv
<1>5. RemoteAddr = Client
  BY <1>3 DEF RemoteAddr, ForwardInv, Made
<1> QED BY <1>3, <1>4, <1>5

-----------------------------------------------------------------------------
(* The limiter.                                                            *)

\* A step of the proxy is a step of the limiter.
LEMMA StepOfLimiter == [Next]_vars => [LimiterNext]_limiterVars
<1> SUFFICES ASSUME [Next]_vars PROVE [LimiterNext]_limiterVars
  OBVIOUS
<1>1. {HeadersDropped, ReservedIdentity, TooManyValues} \subseteq Reasons
  BY ForwardAssumption
<1>2. ASSUME NEW r \in Reasons, Allow(r) PROVE LimiterNext
  BY <1>2 DEF LimiterNext
<1>3. ASSUME NEW address, NEW anomaly \in Reasons \cup {"none"}, NEW audited,
             Refuse(address, anomaly, audited)
      PROVE  [LimiterNext]_limiterVars
  BY <1>2, <1>3 DEF Refuse
<1>4. CASE LogForwardHeaders
  BY <1>1, <1>2, <1>4 DEF LogForwardHeaders
<1>5. CASE Unauthenticated \/ ReservedIdentityRefused \/ ImpersonationRefused
  BY <1>1, <1>3, <1>5 DEF Unauthenticated, ReservedIdentityRefused, ImpersonationRefused
<1>6. CASE Sanitize \/ TokenReviewed \/ Authenticated \/ Impersonate \/ Forward \/ Return
  BY <1>6 DEF Sanitize, TokenReviewed, Authenticated, Impersonate, Forward, Return
<1>7. ASSUME NEW in, Arrive(in) PROVE UNCHANGED limiterVars
  BY <1>7 DEF Arrive
<1>8. CASE AtRest \/ UNCHANGED vars
  BY <1>8 DEF AtRest, vars
<1>9. CASE FlusherStep \/ LimiterEnv
  BY <1>9 DEF LimiterNext
<1> QED BY <1>4, <1>5, <1>6, <1>7, <1>8, <1>9 DEF Next, Filters

\* The handlers warn through the limiter and leave it alone otherwise: the
\* proxy implements the limiter's specification.
THEOREM UsesLimiter == Spec => LimiterSpec
<1>1. Init => LimiterInit
  BY DEF Init
<1> QED BY <1>1, StepOfLimiter, PTL DEF Spec, LimiterSpec

\* EveryWarningCounted, of the warnings of the handlers: none is lost between
\* Allow, drain and the summaries of Flush.
THEOREM HandlersWarningsCounted == Spec => []EveryWarningCounted
BY UsesLimiter, WarningsCounted, PTL

\* EmissionRate, of the warnings of the handlers.
THEOREM HandlersRateKept == Spec => []EmissionRate
BY UsesLimiter, RateKept, PTL

-----------------------------------------------------------------------------
(* The steps of a request.                                                 *)

\* A filter that leaves what arrived alone has the same client to name.
LEMMA SameClient ==
  ASSUME UNCHANGED trusted, req'.in = req.in
  PROVE  /\ Client' = Client /\ Rewritten' = Rewritten /\ Event' = Event /\ Unread' = Unread
         /\ RequestID(req.in)' = RequestID(req.in) /\ InboundID(req.in)' = InboundID(req.in)
BY DEF Client, Rewritten, RequestID, InboundID, Valid, Event, Unread

\* withRequestID: the ids are ids.
LEMMA IDs ==
  ASSUME NEW in, in.auditID \in IdHeaders, in.requestID \in IdHeaders
  PROVE  InboundID(in) \in RequestIDs /\ RequestID(in) \in RequestIDs
BY DEF InboundID, RequestID, RequestIDs, Valid, IdHeaders

\* The invariants hold before the first request.
LEMMA ForwardInitially == Init => ForwardInv
<1> SUFFICES ASSUME Init PROVE ForwardInv
  OBVIOUS
<1>1. req \in RequestType
  BY DEF Init, NoRequest, RequestType, InboundType, NoRecord, NoEvent, Nothing, RequestIDs, IdHeaders
<1>2. ForwardType
  BY <1>1, ForwardAssumption DEF Init, ForwardType
<1>3. Headers
  BY DEF Init, Headers
<1>4. Made
  BY DEF Init, Made, NoRequest
<1> QED BY <1>2, <1>3, <1>4 DEF ForwardInv

\* A request arrives.
LEMMA ArriveStep ==
  ASSUME ForwardInv, NEW in \in InboundType(Addresses), Arrive(in)
  PROVE  ForwardInv'
<1>1. req = NoRequest /\ at = "idle" /\ UNCHANGED trusted /\ at' = "sanitize"
  BY DEF ForwardInv, Headers, Arrive
<1>2. req \in RequestType
  BY DEF ForwardInv, ForwardType
<1>3. /\ req'.in = in /\ req'.xff = in.xff /\ req'.later = in.later
      /\ req'.id = RequestID(in) /\ req'.auditHeader = RequestID(in) /\ req'.clientID = InboundID(in)
      /\ req'.client = NoAddress /\ req'.extra = NoAddress /\ req'.event = NoEvent
      /\ req'.record = NoRecord /\ req'.upstream = Nothing
  BY <1>1 DEF Arrive, NoRequest
<1>4. req' \in RequestType
  BY <1>2, IDs DEF Arrive, RequestType, InboundType
<1>5. ForwardType'
  <2>1. served' \in 0..MaxRequests
    BY ForwardAssumption DEF Arrive, ForwardInv, ForwardType
  <2> QED BY <1>1, <1>3, <1>4, <2>1 DEF ForwardInv, ForwardType, InboundType
<1>6. Headers'
  BY <1>1, <1>3 DEF Headers, RequestID, InboundID, Valid
<1>7. Made'
  BY <1>1, <1>3 DEF Made
<1> QED BY <1>5, <1>6, <1>7 DEF ForwardInv

\* Sanitize collapses the header to the client.
LEMMA SanitizeStep ==
  ASSUME ForwardInv, Sanitize
  PROVE  ForwardInv'
<1>1. /\ at = "sanitize" /\ at' = "log" /\ req.xff = req.in.xff /\ req.later = req.in.later
      /\ UNCHANGED <<trusted, served>> /\ req \in RequestType
  BY DEF Sanitize, ForwardInv, Headers, ForwardType
<1>2. Collapsed = Rewritten
  BY <1>1, ClientIs DEF ForwardInv, Collapsed, Rewritten
<1>3. /\ req'.in = req.in /\ req'.xff = Rewritten /\ req'.original = req.in.xff /\ req'.realIP = FALSE
      /\ req'.later = (IF req.in.xff = <<>> THEN req.in.later ELSE <<>>)
      /\ req'.id = req.id /\ req'.clientID = req.clientID /\ req'.auditHeader = req.auditHeader
      /\ req'.client = req.client /\ req'.extra = req.extra /\ req'.event = req.event
      /\ req'.record = req.record /\ req'.upstream = req.upstream
  BY <1>1, <1>2 DEF Sanitize, RequestType
<1>4. req' \in RequestType
  <2> DEFINE later == IF req.xff = <<>> THEN req.later ELSE <<>>
  <2>1. req.xff \in Seq(Hops) /\ Rewritten \in Seq(Hops) /\ later \in Seq(Hops)
    BY <1>1, ClientIs DEF RequestType, ForwardInv
  <2>2. req' = [req EXCEPT !.original = req.xff, !.realIP = FALSE, !.xff = Rewritten, !.later = later]
    BY <1>1, <1>2 DEF Sanitize, RequestType
  <2> HIDE DEF later
  <2> QED BY <1>1, <2>1, <2>2 DEF RequestType
<1>5. ForwardType'
  BY <1>1, <1>3, <1>4 DEF ForwardInv, ForwardType
<1>6. Headers'
  <2>1. Unread' \/ req'.later = <<>>
    BY <1>3 DEF Unread
  <2> QED BY <1>1, <1>3, <2>1, SameClient DEF ForwardInv, Headers
<1>7. Made'
  BY <1>1, <1>3, SameClient DEF ForwardInv, Made
<1> QED BY <1>5, <1>6, <1>7 DEF ForwardInv

\* A filter behind Sanitize that names the client, or nobody, and hands the
\* request on.
LEMMA FilterStep ==
  ASSUME ForwardInv, at \in {"log", "authenticate", "impersonate"},
         at' \in {"authenticate", "impersonate", "forward"}, UNCHANGED <<trusted, served>>,
         NEW client \in {req.client, Client}, NEW extra \in {req.extra, NoAddress, Client},
         NEW event \in {req.event, AuditEvent},
         req' = [req EXCEPT !.client = client, !.extra = extra, !.event = event]
  PROVE  ForwardInv'
<1>1. req \in RequestType /\ req.xff = Rewritten /\ req.auditHeader = RequestID(req.in)
  BY DEF ForwardInv, ForwardType, Headers
<1>2. /\ req'.in = req.in /\ req'.xff = req.xff /\ req'.original = req.original
      /\ req'.realIP = req.realIP /\ req'.id = req.id /\ req'.clientID = req.clientID
      /\ req'.later = req.later /\ req'.auditHeader = req.auditHeader
      /\ req'.client = client /\ req'.extra = extra /\ req'.event = event
      /\ req'.record = req.record /\ req'.upstream = req.upstream
  BY <1>1 DEF RequestType
<1>3. /\ AuditEvent = Event /\ AuditEvent \in [sources: Seq(Hops), id: RequestIDs]
      /\ Client \in Addresses
  BY <1>1, ClientIs DEF AuditEvent, Event, SourceIPs, ForwardInv, RequestType
<1>4. req' \in RequestType
  BY <1>1, <1>3 DEF RequestType
<1>5. ForwardType'
  BY <1>2, <1>4 DEF ForwardInv, ForwardType
<1>6. Headers'
  BY <1>2, SameClient DEF ForwardInv, Headers
<1>7. Made'
  BY <1>2, <1>3, SameClient DEF ForwardInv, Made
<1> QED BY <1>5, <1>6, <1>7 DEF ForwardInv

\* handleError: the record of a refusal.
LEMMA RefuseStep ==
  ASSUME ForwardInv, at \in {"authenticate", "impersonate"},
         NEW client \in {req.client, Client}, NEW anomaly, NEW audited \in BOOLEAN,
         Refuse(client, anomaly, audited)
  PROVE  ForwardInv'
<1>1. /\ req \in RequestType /\ req.xff = Rewritten /\ req.original = req.in.xff
      /\ req.auditHeader = RequestID(req.in) /\ at' = "done" /\ UNCHANGED <<trusted, served>>
  BY DEF ForwardInv, ForwardType, Headers, Refuse
<1>2. PICK event \in {req.event, AuditEvent}:
        req' = [req EXCEPT !.client = client, !.record = AccessRecord(req.xff), !.event = event]
  BY DEF Refuse
<1>3. /\ AuditEvent = Event /\ AuditEvent \in [sources: Seq(Hops), id: RequestIDs]
      /\ Client \in Addresses
  BY <1>1, ClientIs DEF AuditEvent, Event, SourceIPs, ForwardInv, RequestType
<1>4. /\ AccessRecord(req.xff) \in [src: Addresses \cup {NoAddress}, fwd: Seq(Hops), id: RequestIDs,
                                   clientID: RequestIDs]
      /\ AccessRecord(req.xff).src = Client /\ AccessRecord(req.xff).id = req.id
      /\ AccessRecord(req.xff).clientID = req.clientID
      /\ req.in.xff # <<>> => AccessRecord(req.xff).fwd = req.in.xff
  BY <1>1, <1>3, FindsClient DEF AccessRecord, RequestType
<1>5. /\ req'.in = req.in /\ req'.original = req.original
      /\ req'.realIP = req.realIP /\ req'.id = req.id /\ req'.clientID = req.clientID
      /\ req'.auditHeader = req.auditHeader
      /\ req'.client = client /\ req'.extra = req.extra /\ req'.event = event
      /\ req'.record = AccessRecord(req.xff) /\ req'.upstream = req.upstream
  BY <1>1, <1>2 DEF RequestType
<1>6. req' \in RequestType
  BY <1>1, <1>2, <1>3, <1>4 DEF RequestType
<1>7. ForwardType'
  BY <1>1, <1>5, <1>6 DEF ForwardInv, ForwardType
<1>8. Headers'
  BY <1>1, <1>5, SameClient DEF ForwardInv, Headers
<1>9. Made'
  BY <1>1, <1>3, <1>4, <1>5, SameClient DEF ForwardInv, Made
<1> QED BY <1>7, <1>8, <1>9 DEF ForwardInv

\* A resolver finds an address in any chain, or none to doubt the peer for.
LEMMA FindsAddress ==
  ASSUME ForwardType, at # "idle", NEW chain \in Seq(Hops)
  PROVE  RecordResolves(req.in.peer, chain) \in Addresses
<1>1. Len(chain) \in Nat /\ (chain = <<>> <=> Len(chain) = 0) /\ trusted \subseteq Addresses
  BY Chains
<1>2. ClientOf(trusted, req.in.peer, chain, RecordResolves(req.in.peer, chain))
  BY <1>1, Resolves
<1>3. RecordResolves(req.in.peer, chain) = req.in.peer
        \/ RecordResolves(req.in.peer, chain) \in Addresses
  BY <1>2 DEF ClientOf, SeenAt, Reaches
<1> QED BY <1>3 DEF ForwardType

\* What ReverseProxy makes of the header: the rewritten chain with the peer, or
\* the peer alone, unless there were lines that Sanitize did not read.
LEMMA OutboundIs ==
  ASSUME ForwardInv, at = "forward"
  PROVE  /\ Outbound \in Seq(Hops) /\ Outbound # <<>>
         /\ Unread \/ Outbound \in {Append(Rewritten, req.in.peer), <<req.in.peer>>}
         /\ \/ Unread \/ ForwardedFor \in req.in.connection
            \/ Outbound = Append(req.xff, req.in.peer)
<1>1. /\ req.xff = Rewritten /\ (Unread \/ req.later = <<>>) /\ req.in.peer \in Hops
      /\ req.xff \in Seq(Hops) /\ req.later \in Seq(Hops)
  BY DEF ForwardInv, Headers, ForwardType, RequestType, Hops
<1> DEFINE lines == IF req.xff = <<>> THEN req.later ELSE req.xff
<1>2. lines \in Seq(Hops) /\ (Unread \/ lines = Rewritten)
  BY <1>1
<1> HIDE DEF lines
<1>3. Outbound = Append(IF ForwardedFor \in req.in.connection THEN <<>> ELSE lines, req.in.peer)
  BY DEF Outbound, lines
<1>4. CASE ForwardedFor \in req.in.connection
  <2>1. Outbound = <<req.in.peer>>
    BY <1>3, <1>4
  <2> QED BY <1>1, <1>4, <2>1
<1>5. CASE ForwardedFor \notin req.in.connection
  <2>1. Outbound = Append(lines, req.in.peer)
    BY <1>3, <1>5
  <2>2. Outbound \in Seq(Hops) /\ Len(Outbound) = Len(lines) + 1 /\ Len(lines) \in Nat
    BY <1>1, <1>2, <2>1
  <2>3. Outbound # <<>>
    BY <2>2
  <2> QED BY <1>1, <1>2, <2>1, <2>2, <2>3
<1> QED BY <1>4, <1>5

\* ReverseProxy makes the outbound headers, RoundTrip writes the record and
\* sends.
LEMMA ForwardStep ==
  ASSUME ForwardInv, Forward
  PROVE  ForwardInv'
<1>1. /\ req \in RequestType /\ req.original = req.in.xff /\ ~req.realIP
      /\ req.auditHeader = req.id
      /\ at = "forward" /\ at' = "done" /\ UNCHANGED <<trusted, served>>
  BY DEF ForwardInv, ForwardType, Headers, Forward
<1>2. /\ Outbound \in Seq(Hops) /\ Outbound # <<>>
      /\ Unread \/ Outbound \in {Append(Rewritten, req.in.peer), <<req.in.peer>>}
  BY <1>1, OutboundIs
<1>3. /\ OutboundID \in RequestIDs
      /\ OutboundID = IF AuditID \in req.in.connection THEN "none" ELSE req.id
  BY <1>1 DEF OutboundID, RequestType, RequestIDs, IdHeaders
<1>4. req' = [req EXCEPT !.xff = Outbound, !.record = AccessRecord(Outbound),
                !.upstream = [xff |-> Outbound, realIP |-> req.realIP, id |-> OutboundID]]
  BY DEF Forward
<1>5. /\ RecordResolves(req.in.peer, Outbound) \in Addresses
      /\ \/ RecordResolves(req.in.peer, Outbound) = Client
         \/ Unread \/ ForwardedFor \in req.in.connection
  BY <1>1, <1>2, OutboundIs, FindsClient, FindsAddress DEF ForwardInv
<1>6. /\ AccessRecord(Outbound) \in [src: Addresses \cup {NoAddress}, fwd: Seq(Hops),
                                    id: RequestIDs, clientID: RequestIDs]
      /\ AccessRecord(Outbound).src = RecordResolves(req.in.peer, Outbound)
      /\ AccessRecord(Outbound).id = req.id /\ AccessRecord(Outbound).clientID = req.clientID
      /\ req.in.xff # <<>> => AccessRecord(Outbound).fwd = req.in.xff
  BY <1>1, <1>2, <1>5 DEF AccessRecord, RequestType
<1>7. /\ req'.in = req.in /\ req'.original = req.original
      /\ req'.realIP = req.realIP /\ req'.id = req.id /\ req'.clientID = req.clientID
      /\ req'.auditHeader = req.auditHeader
      /\ req'.client = req.client /\ req'.extra = req.extra /\ req'.event = req.event
      /\ req'.record = AccessRecord(Outbound)
      /\ req'.upstream = [xff |-> Outbound, realIP |-> req.realIP, id |-> OutboundID]
  BY <1>1, <1>4 DEF RequestType
<1>8. req' \in RequestType
  BY <1>1, <1>2, <1>3, <1>4, <1>6 DEF RequestType
<1>9. ForwardType'
  BY <1>1, <1>7, <1>8 DEF ForwardInv, ForwardType
<1>10. Headers'
  BY <1>1, <1>7, SameClient DEF ForwardInv, Headers
<1>11. req'.upstream # Nothing
  BY <1>2, <1>7 DEF Nothing
<1>12. Made'
  BY <1>1, <1>2, <1>3, <1>5, <1>6, <1>7, <1>11, SameClient DEF ForwardInv, Made
<1> QED BY <1>9, <1>10, <1>12 DEF ForwardInv

\* The handler returns, to the next request.
LEMMA ReturnStep ==
  ASSUME ForwardInv, Return
  PROVE  ForwardInv'
<1>1. req' = NoRequest /\ at' = "idle" /\ UNCHANGED <<trusted, served>>
  BY DEF Return
<1>2. req' \in RequestType
  BY <1>1 DEF NoRequest, RequestType, InboundType, NoRecord, NoEvent, Nothing, RequestIDs, IdHeaders
<1>3. ForwardType'
  BY <1>1, <1>2 DEF ForwardInv, ForwardType
<1>4. Headers'
  BY <1>1 DEF Headers
<1>5. Made'
  BY <1>1 DEF Made, NoRequest
<1> QED BY <1>3, <1>4, <1>5 DEF ForwardInv

\* A step that leaves the request alone.
LEMMA RestStep ==
  ASSUME ForwardInv, UNCHANGED forwardVars
  PROVE  ForwardInv'
<1> USE DEF forwardVars
<1>1. ForwardType'
  BY DEF ForwardInv, ForwardType
<1>2. Headers' /\ Made'
  BY SameClient DEF ForwardInv, Headers, Made
<1> QED BY <1>1, <1>2 DEF ForwardInv

\* Every step keeps the invariants.
LEMMA ForwardStepKeeps == ForwardInv /\ [Next]_vars => ForwardInv'
<1> SUFFICES ASSUME ForwardInv, [Next]_vars PROVE ForwardInv'
  OBVIOUS
<1>0. req = [req EXCEPT !.client = req.client, !.extra = req.extra, !.event = req.event]
  BY DEF ForwardInv, ForwardType, RequestType
<1>1. ASSUME NEW in \in UNION {Inbounds[n]: n \in {served + 1} \cap DOMAIN Inbounds}, Arrive(in)
      PROVE  ForwardInv'
  <2>1. in \in InboundType(Addresses)
    BY ForwardAssumption DEF InboundType, Hops
  <2> QED BY <1>1, <2>1, ArriveStep
<1>2. CASE LogForwardHeaders
  <2>1. CASE UNCHANGED req
    BY <1>0, <1>2, <2>1, FilterStep DEF LogForwardHeaders
  <2>2. CASE req' = [req EXCEPT !.client = RemoteAddr]
    <3>1. RemoteAddr = Client
      BY <1>2, FindsClient DEF LogForwardHeaders
    <3>2. req' = [req EXCEPT !.client = Client, !.extra = req.extra, !.event = req.event]
      BY <2>2, <3>1 DEF ForwardInv, ForwardType, RequestType
    <3> QED BY <1>2, <3>2, FilterStep DEF LogForwardHeaders
  <2> QED BY <1>2, <2>1, <2>2 DEF LogForwardHeaders
<1>3. CASE Unauthenticated \/ ReservedIdentityRefused
  BY <1>3, RefuseStep, FindsClient DEF Unauthenticated, ReservedIdentityRefused
<1>4. CASE TokenReviewed
  <2>1. req' = [req EXCEPT !.client = Client, !.extra = req.extra, !.event = AuditEvent]
    BY <1>4, FindsClient DEF TokenReviewed, ForwardInv, ForwardType, RequestType
  <2> QED BY <1>4, <2>1, FilterStep DEF TokenReviewed
<1>5. CASE Authenticated
  BY <1>0, <1>5, FilterStep DEF Authenticated
<1>6. CASE ImpersonationRefused
  BY <1>6, RefuseStep, FindsClient DEF ImpersonationRefused
<1>7. CASE Impersonate
  <2>1. PICK extra \in {NoAddress, Client}:
          req' = [req EXCEPT !.client = Client, !.extra = extra, !.event = AuditEvent]
    BY <1>7, FindsClient DEF Impersonate
  <2> QED BY <1>7, <2>1, FilterStep DEF Impersonate
<1>8. CASE AtRest \/ UNCHANGED vars
  BY <1>8, RestStep DEF AtRest, vars
<1> QED
  BY <1>1, <1>2, <1>3, <1>4, <1>5, <1>6, <1>7, <1>8, SanitizeStep, ForwardStep, ReturnStep, RestStep
     DEF Next, Filters

\* The inductive invariant.
LEMMA ForwardInvariance == Spec => []ForwardInv
BY ForwardInitially, ForwardStepKeeps, PTL DEF Spec

-----------------------------------------------------------------------------
(* The theorems.                                                           *)

\* TypeOK: whatever the headers hold, what is made of them are addresses, hops
\* and ids.
THEOREM TypeCorrect == Spec => []TypeOK
<1>1. ForwardInv /\ LimiterTypeOK => TypeOK
  BY DEF ForwardInv, ForwardType, RequestType, RequestIDs, TypeOK
<1> QED BY <1>1, ForwardInvariance, UsesLimiter, LimiterTypeCorrect, PTL

\* IsClient, the client as the package documentation defines it, holds of the
\* address the resolver finds in the chain that was sent.
LEMMA ClientIsClient ==
  ASSUME ForwardInv
  PROVE  IsClient(Client)
<1> DEFINE chain == req.in.xff
           relayed == {i \in DOMAIN chain:
                         /\ req.in.peer \in trusted
                         /\ chain[i] \in Addresses \ trusted
                         /\ \A j \in i + 1..Len(chain): chain[j] \in trusted}
<1>1. ClientOf(trusted, req.in.peer, chain, Client)
  BY ClientIs DEF ForwardInv
<1>2. DOMAIN chain = 1..Len(chain)
  BY DEF ForwardInv, ForwardType, RequestType, InboundType
<1>3. IF relayed = {} THEN Client = req.in.peer ELSE \E i \in relayed: Client = chain[i]
  <2>1. CASE relayed = {}
    BY <1>1, <1>2, <2>1 DEF ClientOf, SeenAt, Reaches
  <2>2. CASE relayed # {}
    BY <1>1, <1>2, <2>2 DEF ClientOf, SeenAt, Reaches
  <2> QED BY <2>1, <2>2
<1> QED BY <1>3 DEF IsClient

\* OneClientAddress: the access record, the cached address, the impersonation
\* extra, the audit event and the API server are told of the same client, the
\* one of the chain that was sent, for chains of any length, where the header
\* that leaves is the one the proxy has rewritten.
THEOREM NamesOneClient == Spec => []OneClientAddress
<1>1. ForwardInv => OneClientAddress
  <2> SUFFICES ASSUME ForwardInv PROVE OneClientAddress
    OBVIOUS
  <2>0. IsClient(Client)
    BY ClientIsClient
  <2>1. (Rewritten = <<>> /\ Client = req.in.peer) \/ Rewritten = <<Client>>
    BY DEF Rewritten
  <2>2. req.record # NoRecord =>
          \/ IsClient(req.record.src)
          \/ req.upstream # Nothing /\ (Unread \/ ForwardedFor \in req.in.connection)
    BY <2>0 DEF ForwardInv, Made
  <2>3. req.client # NoAddress => IsClient(req.client)
    BY <2>0 DEF ForwardInv, Made
  <2>4. req.extra # NoAddress => IsClient(req.extra)
    BY <2>0 DEF ForwardInv, Made
  <2>5. req.event # NoEvent => IsClient(Head(req.event.sources))
    <3>1. Head(Append(Rewritten, req.in.peer)) = Client
      BY <2>1
    <3> QED BY <2>0, <3>1 DEF ForwardInv, Made, Event
  <2>6. ~req.upstream.realIP
    BY DEF ForwardInv, Made, Nothing
  <2>7. ASSUME ~Unread, NEW i \in DOMAIN req.upstream.xff
        PROVE  IsClient(req.upstream.xff[i]) \/ req.upstream.xff[i] = req.in.peer
    <3>1. req.upstream.xff \in {Append(Rewritten, req.in.peer), <<req.in.peer>>}
      BY <2>7 DEF ForwardInv, Made, Nothing
    <3>2. req.upstream.xff[i] \in {Client, req.in.peer}
      BY <2>1, <2>7, <3>1
    <3> QED BY <2>0, <3>2
  <2> QED BY <2>2, <2>3, <2>4, <2>5, <2>6, <2>7 DEF OneClientAddress
<1> QED BY <1>1, ForwardInvariance, PTL

\* RecordFaithful: the record has the chain and the request id that arrived,
\* and is filed under the id of the audit event, and the id the API server gets
\* if it gets one.
THEOREM RecordsWhatArrived == Spec => []RecordFaithful
<1>1. ForwardInv => RecordFaithful
  <2> SUFFICES ASSUME ForwardInv, req.record # NoRecord
               PROVE  /\ req.in.xff # <<>> => req.record.fwd = req.in.xff
                      /\ req.event # NoEvent => req.event.id = req.record.id
                      /\ req.upstream # Nothing =>
                           req.upstream.id =
                             IF AuditID \in req.in.connection THEN "none" ELSE req.record.id
                      /\ req.record.id # Minted =>
                           req.in.peer \in trusted /\ req.record.id = req.record.clientID
                      /\ Valid(req.in.auditID) \/ Valid(req.in.requestID) =>
                           req.record.clientID \in
                             {h \in {req.in.auditID, req.in.requestID}: Valid(h)}
    BY DEF RecordFaithful
  <2>1. /\ req.in.xff # <<>> => req.record.fwd = req.in.xff
        /\ req.event # NoEvent => req.event.id = RequestID(req.in)
        /\ req.upstream # Nothing =>
             req.upstream.id = IF AuditID \in req.in.connection THEN "none" ELSE req.record.id
        /\ req.record.id = req.id /\ req.record.clientID = req.clientID /\ at = "done"
    BY DEF ForwardInv, Made, Event
  <2>2. req.id = RequestID(req.in) /\ req.clientID = InboundID(req.in)
    BY <2>1 DEF ForwardInv, Headers
  <2> QED BY <2>1, <2>2 DEF RequestID, InboundID, Valid
<1> QED BY <1>1, ForwardInvariance, PTL

=============================================================================
