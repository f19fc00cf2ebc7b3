-------------------------- MODULE DelegatedDecision --------------------------
(***************************************************************************)
(* What a check that asks the API server promises its caller.              *)
(*                                                                         *)
(* The abstract specification of CheckAuthorizedForImpersonation           *)
(* (pkg/proxy/subjectaccessreview) and of AuthenticateToken                *)
(* (pkg/proxy/tokenreview).  A caller asks a set of questions of an        *)
(* authority whose answers change over time.  It is told yes only if every *)
(* one of them held, and no only if some one of them did not, at an        *)
(* instant no longer ago than a lag before it asked.  It is told something *)
(* within its patience, if only that the check failed.  There are no       *)
(* caches, flights, calls or contexts here.                                *)
(***************************************************************************)
EXTENDS Integers

CONSTANTS
  Callers,
  Questions,
  Patience     \* how long a caller waits for its decision

VARIABLES
  lag,         \* how stale a yes and a no may be when the caller asks
  now,         \* the clock
  holds,       \* what the authority affirms at this instant
  lastTrue,    \* per question, the last instant at which it held
  lastFalse,   \* per question, the last instant at which it did not
  caller,      \* idle, asking or told
  asked,       \* what the caller asks
  since,       \* when it asked
  decision     \* what it was told

authVars == <<holds, lastTrue, lastFalse>>
callVars == <<caller, asked, since, decision>>
dvars == <<lag, now, holds, lastTrue, lastFalse, caller, asked, since, decision>>

\* What has never held (or never failed to) is older than any lag.
Init ==
  /\ lag \in [yes: Nat, no: Nat]
  /\ now = 0
  /\ holds \subseteq Questions
  /\ \A q \in Questions:
       IF q \in holds THEN lastTrue[q] = 0 /\ lastFalse[q] + lag.no < 0
       ELSE lastTrue[q] + lag.yes < 0 /\ lastFalse[q] = 0
  /\ caller = [c \in Callers |-> "idle"]
  /\ asked = [c \in Callers |-> {}]
  /\ since = [c \in Callers |-> 0]
  /\ decision = [c \in Callers |-> "none"]

\* What may be told to a caller that asked qs at instant t.
Justified(qs, t) ==
  {"error"}
    \cup (IF \A q \in qs: t <= lastTrue[q] + lag.yes THEN {"yes"} ELSE {})
    \cup (IF \E q \in qs: t <= lastFalse[q] + lag.no THEN {"no"} ELSE {})

Ask(c) ==
  /\ caller[c] = "idle"
  /\ caller' = [caller EXCEPT ![c] = "asking"]
  /\ \E qs \in SUBSET Questions: asked' = [asked EXCEPT ![c] = qs]
  /\ since' = [since EXCEPT ![c] = now]
  /\ UNCHANGED <<lag, now, authVars, decision>>

Tell(c) ==
  /\ caller[c] = "asking"
  /\ caller' = [caller EXCEPT ![c] = "told"]
  /\ \E d \in Justified(asked[c], since[c]): decision' = [decision EXCEPT ![c] = d]
  /\ UNCHANGED <<lag, now, authVars, asked, since>>

\* What can be decided on the spot is.
TellAtOnce(c) ==
  /\ caller[c] = "idle"
  /\ caller' = [caller EXCEPT ![c] = "told"]
  /\ since' = [since EXCEPT ![c] = now]
  /\ \E qs \in SUBSET Questions:
       /\ asked' = [asked EXCEPT ![c] = qs]
       /\ \E d \in Justified(qs, now): decision' = [decision EXCEPT ![c] = d]
  /\ UNCHANGED <<lag, now, authVars>>

\* The caller has acted on what it was told.
Act(c) ==
  /\ caller[c] = "told"
  /\ caller' = [caller EXCEPT ![c] = "idle"]
  /\ asked' = [asked EXCEPT ![c] = {}]
  /\ since' = [since EXCEPT ![c] = 0]
  /\ decision' = [decision EXCEPT ![c] = "none"]
  /\ UNCHANGED <<lag, now, authVars>>

\* The authority changes its mind about q.
Change(q) ==
  /\ holds' = IF q \in holds THEN holds \ {q} ELSE holds \cup {q}
  /\ lastTrue' = [lastTrue EXCEPT ![q] = now]
  /\ lastFalse' = [lastFalse EXCEPT ![q] = now]
  /\ UNCHANGED <<lag, now, callVars>>

\* Nobody is kept waiting longer than it is patient.
Tick ==
  /\ now' = now + 1
  /\ \A c \in Callers: caller[c] = "asking" => now < since[c] + Patience
  /\ lastTrue' = [q \in Questions |-> IF q \in holds THEN now + 1 ELSE lastTrue[q]]
  /\ lastFalse' = [q \in Questions |-> IF q \in holds THEN lastFalse[q] ELSE now + 1]
  /\ UNCHANGED <<lag, holds, callVars>>

Next ==
  \/ \E c \in Callers: Ask(c) \/ Tell(c) \/ TellAtOnce(c) \/ Act(c)
  \/ \E q \in Questions: Change(q)
  \/ Tick

Spec == Init /\ [][Next]_dvars
=============================================================================
