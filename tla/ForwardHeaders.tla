--------------------------- MODULE ForwardHeaders ---------------------------
(***************************************************************************)
(* Who the client of a request is: the forwarding headers and request ids  *)
(* as the handlers of pkg/proxy rewrite, cache and read them, together     *)
(* with the limiter that their warnings go through.                        *)
(*                                                                         *)
(* The X-Forwarded-For header is rewritten by withSanitizedForwardHeaders, *)
(* extended by httputil.ReverseProxy, and resolved again at four places:   *)
(* logForwardHeaders, the authentication and impersonation filters, the    *)
(* audit chain and, by a second copy of the resolver, the access record.   *)
(* The request id travels in the Audit-ID header, which the audit chains   *)
(* and the API server read, and on the context, which the records read.    *)
(* Requests pass one after the other; the flusher and time run beside      *)
(* them.                                                                   *)
(***************************************************************************)
EXTENDS WarnLimiter, Sequences

CONSTANTS
  Addresses,    \* addresses that parse
  Malformed,    \* hops that do not
  TrustedSets,  \* the addresses that --trusted-proxies may cover
  MaxRequests,  \* model bound: requests served
  Inbounds      \* what the n-th request may carry

HeadersDropped == "headers_dropped"
ReservedIdentity == "reserved_identity"
TooManyValues == "too_many_impersonation_values"

\* A request id header: absent, well-formed or not.
IdHeaders == {"none", "audit", "request", "malformed"}

\* The headers of interest that a client may name in Connection.
AuditID == "Audit-ID"
ForwardedFor == "X-Forwarded-For"

ASSUME ForwardAssumption ==
  /\ Addresses \cap Malformed = {}
  /\ TrustedSets \subseteq SUBSET Addresses
  /\ MaxRequests \in Nat
  /\ Inbounds \in [1..MaxRequests -> SUBSET
       [peer: Addresses, xff: Seq(Addresses \cup Malformed),
        later: Seq(Addresses \cup Malformed), realIP: BOOLEAN,
        auditID: IdHeaders, requestID: IdHeaders, connection: SUBSET {AuditID, ForwardedFor}]]
  /\ {HeadersDropped, ReservedIdentity, TooManyValues} \subseteq Reasons
  /\ MaxRequests <= MaxWarnings

VARIABLES
  trusted,  \* trustedProxies
  served,   \* requests so far
  at,       \* the filter the request has reached
  req       \* the request: its headers, its context, and what was made of it

forwardVars == <<trusted, served, at, req>>
vars == <<limiterVars, forwardVars>>

NoAddress == "none"
NoRecord == [src |-> NoAddress, fwd |-> <<>>, id |-> "none", clientID |-> "none"]
Nothing == [xff |-> <<>>, realIP |-> FALSE, id |-> "none"]
Minted == "minted"

NoEvent == [sources |-> <<>>, id |-> "none"]

NoRequest ==
  [in |-> [peer |-> NoAddress, xff |-> <<>>, later |-> <<>>, realIP |-> FALSE,
           auditID |-> "none", requestID |-> "none",
           connection |-> {}],     \* what the client sent
   xff |-> <<>>,                   \* the first X-Forwarded-For line, the one Get reads
   later |-> <<>>,                 \* the lines after it
   realIP |-> FALSE,               \* the X-Real-Ip header is present
   auditHeader |-> "none",         \* the Audit-ID header
   original |-> <<>>,              \* originalForwardedForKey on the context
   client |-> NoAddress,           \* clientAddressKey on the context
   id |-> "none",                  \* requestIDKey on the context
   clientID |-> "none",            \* clientRequestIDKey on the context
   extra |-> NoAddress,            \* Remote-Client-IP of the impersonated user
   event |-> NoEvent,              \* the audit event
   record |-> NoRecord,            \* the access record
   upstream |-> Nothing]           \* what the API server received

\* Run: parseTrustedProxies and SetTrustedProxies, the flusher.
Init ==
  /\ LimiterInit
  /\ trusted \in TrustedSets
  /\ served = 0
  /\ at = "idle"
  /\ req = NoRequest

-----------------------------------------------------------------------------
(* The resolver, and its copy.                                             *)

\* ResolveClientIP: from the hop nearest the proxy, past trusted hops, to the
\* first untrusted address; a malformed hop, or none left, means the peer.
ResolveClientIP(peer, chain) ==
  LET walk[i \in 0..Len(chain)] ==
        IF i = 0 THEN peer
        ELSE IF chain[i] \notin Addresses THEN peer
        ELSE IF chain[i] \in trusted THEN walk[i - 1]
        ELSE chain[i]
  IN IF chain = <<>> \/ peer \notin trusted THEN peer ELSE walk[Len(chain)]

\* Fault: the copy does not skip trusted hops.
RecordResolvesNearest(peer, chain) ==
  IF chain = <<>> \/ peer \notin trusted \/ chain[Len(chain)] \in Malformed
  THEN peer ELSE chain[Len(chain)]

\* resolveClientIP of the access log.
RecordResolves(peer, chain) ==
  LET walk[i \in 0..Len(chain)] ==
        IF i = 0 THEN peer
        ELSE IF chain[i] \notin Addresses THEN peer
        ELSE IF chain[i] \in trusted THEN walk[i - 1]
        ELSE chain[i]
  IN IF chain = <<>> \/ peer \notin trusted THEN peer ELSE walk[Len(chain)]

\* RemoteAddr: resolved once, then read from the context.
RemoteAddr ==
  IF req.client # NoAddress THEN req.client ELSE ResolveClientIP(req.in.peer, req.xff)

-----------------------------------------------------------------------------
(* The filters, from the outermost in.                                     *)

\* validRequestID
Valid(header) == header \notin {"none", "malformed"}

InboundID(in) ==
  IF Valid(in.auditID) THEN in.auditID
  ELSE IF Valid(in.requestID) THEN in.requestID ELSE "none"

\* Only a trusted peer chooses the id (peerIsTrusted).
RequestID(in) ==
  IF InboundID(in) # "none" /\ in.peer \in trusted THEN InboundID(in) ELSE Minted

\* Fault: the header keeps the well-formed id of the client, trusted or not.
ArriveKeepsHeader(in) ==
  /\ at = "idle" /\ served < MaxRequests
  /\ served' = served + 1
  /\ at' = "sanitize"
  /\ req' = [req EXCEPT !.in = in, !.xff = in.xff, !.later = in.later, !.realIP = in.realIP,
                        !.auditHeader = IF InboundID(in) # "none" THEN InboundID(in) ELSE Minted,
                        !.id = RequestID(in), !.clientID = InboundID(in)]
  /\ UNCHANGED <<limiterVars, trusted>>

\* withRequestID: the id replaces the header and goes on the context.
Arrive(in) ==
  /\ at = "idle" /\ served < MaxRequests
  /\ served' = served + 1
  /\ at' = "sanitize"
  /\ req' = [req EXCEPT !.in = in, !.xff = in.xff, !.later = in.later, !.realIP = in.realIP,
                        !.auditHeader = RequestID(in),
                        !.id = RequestID(in), !.clientID = InboundID(in)]
  /\ UNCHANGED <<limiterVars, trusted>>

\* The header after SanitizeForwardHeaders: the resolved client, or nothing.
Collapsed ==
  LET resolved == ResolveClientIP(req.in.peer, req.xff)
  IN IF resolved = req.in.peer THEN <<>> ELSE <<resolved>>

\* Fault: the chain is kept only after it was rewritten.
SanitizeKeepsRewritten ==
  /\ at = "sanitize" /\ at' = "log"
  /\ req' = [req EXCEPT !.original = Collapsed, !.realIP = FALSE, !.xff = Collapsed,
                        !.later = IF req.xff = <<>> THEN @ ELSE <<>>]
  /\ UNCHANGED <<limiterVars, trusted, served>>

\* SanitizeForwardHeaders: the chain is kept on the context, X-Real-Ip goes,
\* and the header is collapsed to the resolved client or removed, all its lines
\* with it.  When the first line is empty the function returns before that.
Sanitize ==
  /\ at = "sanitize" /\ at' = "log"
  /\ req' = [req EXCEPT !.original = req.xff, !.realIP = FALSE, !.xff = Collapsed,
                        !.later = IF req.xff = <<>> THEN @ ELSE <<>>]
  /\ UNCHANGED <<limiterVars, trusted, served>>

\* The headers logForwardHeaders reports as dropped.
Dropped == (req.in.xff # <<>> /\ req.xff = <<>>) \/ req.in.realIP

\* logForwardHeaders, only for a client that sent one of the headers: the
\* address is resolved and cached, a drop asks the limiter.
LogForwardHeaders ==
  /\ at = "log" /\ at' = "authenticate"
  /\ \/ /\ req.in.xff = <<>> /\ ~req.in.realIP
        /\ UNCHANGED <<req, limiterVars>>
     \/ /\ req.in.xff # <<>> \/ req.in.realIP
        /\ req' = [req EXCEPT !.client = RemoteAddr]
        /\ IF Dropped THEN Allow(HeadersDropped) ELSE UNCHANGED limiterVars
  /\ UNCHANGED <<trusted, served>>

\* utilnet.SourceIPs, for the audit event: the chain, then the peer.
SourceIPs == Append(req.xff, req.in.peer)

\* The audit chain takes the id of the event from the header.
AuditEvent == [sources |-> SourceIPs, id |-> req.auditHeader]

\* LogDecision: the address is resolved from the header as it is by now; the
\* chain is the one kept on the context, or else the header's.
AccessRecord(header) ==
  [src |-> RecordResolves(req.in.peer, header),
   fwd |-> IF req.original # <<>> THEN req.original ELSE header,
   id |-> req.id, clientID |-> req.clientID]

\* handleError: an anomaly asks the limiter, logDenied writes the record.  The
\* refusals that run through an audit handler also produce an event.
Refuse(address, anomaly, audited) ==
  /\ at' = "done"
  /\ req' = [req EXCEPT !.client = address, !.record = AccessRecord(req.xff),
                        !.event = IF audited THEN AuditEvent ELSE @]
  /\ IF anomaly = "none" THEN UNCHANGED limiterVars ELSE Allow(anomaly)
  /\ UNCHANGED <<trusted, served>>

\* withAuthenticateRequest refuses: no token, or one that neither OIDC nor the
\* review accepts, in which case the address was resolved for a record ...
Unauthenticated ==
  /\ at = "authenticate"
  /\ \E address \in {req.client, RemoteAddr}: Refuse(address, "none", TRUE)

\* ... or a reserved identity.
ReservedIdentityRefused ==
  /\ at = "authenticate"
  /\ Refuse(req.client, ReservedIdentity, TRUE)

\* withTokenReview admits the token: past the impersonation filter, audited.
TokenReviewed ==
  /\ at = "authenticate" /\ at' = "forward"
  /\ req' = [req EXCEPT !.client = RemoteAddr, !.event = AuditEvent]
  /\ UNCHANGED <<limiterVars, trusted, served>>

Authenticated ==
  /\ at = "authenticate" /\ at' = "impersonate"
  /\ UNCHANGED <<limiterVars, trusted, served, req>>

\* withImpersonateRequest resolves the address, and the request is refused by
\* the impersonation check, outside any audit chain ...
ImpersonationRefused ==
  /\ at = "impersonate"
  /\ \E anomaly \in {"none", TooManyValues}: Refuse(RemoteAddr, anomaly, FALSE)

\* ... or admitted, with the client address among its extras if so configured,
\* and audited.
Impersonate ==
  /\ at = "impersonate" /\ at' = "forward"
  /\ \E extra \in {NoAddress, RemoteAddr}:
       req' = [req EXCEPT !.client = RemoteAddr, !.extra = extra, !.event = AuditEvent]
  /\ UNCHANGED <<limiterVars, trusted, served>>

\* httputil.ReverseProxy removes the headers the client named in Connection,
\* joins the lines of X-Forwarded-For and appends the peer.  Sanitize has left
\* lines after the first only if that one is empty; the blank hop it becomes
\* ends a walk with the peer, as no hop does.
Outbound ==
  LET lines == IF req.xff = <<>> THEN req.later ELSE req.xff
  IN Append(IF ForwardedFor \in req.in.connection THEN <<>> ELSE lines, req.in.peer)

OutboundID == IF AuditID \in req.in.connection THEN "none" ELSE req.auditHeader

\* RoundTrip writes the access record from the outbound request and sends it.
Forward ==
  /\ at = "forward" /\ at' = "done"
  /\ req' = [req EXCEPT !.xff = Outbound, !.record = AccessRecord(Outbound),
        !.upstream = [xff |-> Outbound, realIP |-> req.realIP, id |-> OutboundID]]
  /\ UNCHANGED <<limiterVars, trusted, served>>

\* The handler returns.
Return ==
  /\ at = "done" /\ at' = "idle"
  /\ req' = NoRequest
  /\ UNCHANGED <<limiterVars, trusted, served>>

\* The proxy has stopped and serves nothing: any other halt is a deadlock.
AtRest == at = "idle" /\ flusher = "done" /\ UNCHANGED vars

Filters ==
  \/ Sanitize \/ LogForwardHeaders \/ Unauthenticated \/ ReservedIdentityRefused
  \/ TokenReviewed \/ Authenticated \/ ImpersonationRefused \/ Impersonate
  \/ Forward \/ Return

Next ==
  \/ \E in \in UNION {Inbounds[n]: n \in {served + 1} \cap DOMAIN Inbounds}: Arrive(in)
  \/ Filters
  \/ FlusherStep /\ UNCHANGED forwardVars
  \/ LimiterEnv /\ UNCHANGED forwardVars
  \/ AtRest

Spec == Init /\ [][Next]_vars

\* The flusher is scheduled and its ticker fires.
FairSpec == Spec /\ WF_vars(FlusherStep /\ UNCHANGED forwardVars)
                 /\ WF_vars(TickerFires /\ UNCHANGED forwardVars)

-----------------------------------------------------------------------------
Hops == Addresses \cup Malformed

\* Type invariant of the limiter, and of the request's headers and context.
TypeOK ==
  /\ LimiterTypeOK
  /\ trusted \in TrustedSets
  /\ served \in 0..MaxRequests
  /\ at \in {"idle", "sanitize", "log", "authenticate", "impersonate", "forward", "done"}
  /\ req.xff \in Seq(Hops) /\ req.later \in Seq(Hops)
  /\ req.original \in Seq(Hops) /\ req.event.sources \in Seq(Hops)
  /\ req.realIP \in BOOLEAN
  /\ {req.client, req.extra, req.record.src} \subseteq Addresses \cup {NoAddress}
  /\ {req.id, req.auditHeader, req.clientID, req.event.id} \subseteq IdHeaders \cup {Minted}

\* The client of a request as the package documentation defines it: the peer,
\* unless trusted proxies alone relayed an untrusted address.  The chain is the
\* first X-Forwarded-For line.
IsClient(a) ==
  LET chain == req.in.xff
      relayed == {i \in DOMAIN chain:
                    /\ req.in.peer \in trusted
                    /\ chain[i] \in Addresses \ trusted
                    /\ \A j \in i + 1..Len(chain): chain[j] \in trusted}
  IN IF relayed = {} THEN a = req.in.peer ELSE \E i \in relayed: a = chain[i]

\* The client put its addresses on a later line than the first, which is empty.
Unread == req.in.xff = <<>> /\ req.in.later # <<>>

\* "the audit-log src_ip and the Remote-Client-IP impersonation extra never
\* disagree": the access record, the cached address, the impersonation extra
\* and the audit event name the client of the chain that was sent, although
\* each resolves the header at another stage of its rewriting, and the API
\* server is told of nobody but that client and the peer (ReverseProxy).  The
\* record of a forwarded request is resolved after ReverseProxy had the header:
\* the claim is not made for it when the client named the header in
\* Connection, nor for it and the API server when the chain was not read.
OneClientAddress ==
  /\ req.client # NoAddress => IsClient(req.client)
  /\ req.extra # NoAddress => IsClient(req.extra)
  /\ req.event # NoEvent => IsClient(Head(req.event.sources))
  /\ ~req.upstream.realIP
  /\ req.record # NoRecord =>
       \/ IsClient(req.record.src)
       \/ req.upstream # Nothing /\ (Unread \/ ForwardedFor \in req.in.connection)
  /\ Unread \/ \A i \in DOMAIN req.upstream.xff:
       IsClient(req.upstream.xff[i]) \/ req.upstream.xff[i] = req.in.peer

\* withRequestID, untrustedForwardedFor: "the record reports what arrived rather
\* than what was forwarded".  The record has the chain the client sent, if any,
\* and its request id, and a client chose the id it is filed under only through
\* a trusted proxy.  The audit event has that id too, and so does the request
\* the API server gets, unless its client had Audit-ID removed on the way
\* (Connection): in no case does the server get another one.
RecordFaithful ==
  req.record # NoRecord =>
    /\ req.in.xff # <<>> => req.record.fwd = req.in.xff
    /\ req.event # NoEvent => req.event.id = req.record.id
    /\ req.upstream # Nothing =>
         req.upstream.id = IF AuditID \in req.in.connection THEN "none" ELSE req.record.id
    /\ req.record.id # Minted => req.in.peer \in trusted /\ req.record.id = req.record.clientID
    /\ Valid(req.in.auditID) \/ Valid(req.in.requestID) =>
         req.record.clientID \in {h \in {req.in.auditID, req.in.requestID}: Valid(h)}

\* docs/operations.md: forwarded_for_untrusted is "exactly as the client sent
\* it, present only when the header was set".
ForwardedForAsSent ==
  req.record # NoRecord => req.record.fwd = req.in.xff
=============================================================================
