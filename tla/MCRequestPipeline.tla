-------------------------- MODULE MCRequestPipeline --------------------------
(***************************************************************************)
(* TLC instances of RequestPipeline.                                       *)
(***************************************************************************)
EXTENDS RequestPipeline, TLC

Id(n, gs) == [name |-> n, groups |-> gs]
Input(c, id, imp, long) == [cred |-> c, id |-> id, imp |-> imp, long |-> long]

Alice == Id("alice", {"team"})
Root == Id("root", {"team"})

\* A named user, a user without a name, reserved names and groups, and the
\* reserved groups that are let through.
MappedIds ==
  {Alice, Id(NoName, {}), Id("system:admin", {}), Id("bob", {"system:masters"}),
   Id("carol", {"system:nodes", "system:authenticated"})}

\* Every credential with every identity.
AllInputs ==
  {Input(c, id, imp, long):
     c \in {"absent", "invalid", "valid"}, id \in MappedIds, imp \in BOOLEAN, long \in BOOLEAN}

\* Requests that get as far as the API server.
AdmittedInputs == {Input("valid", Alice, imp, long): imp \in BOOLEAN, long \in BOOLEAN}

ImpersonationTargets == {Root}

MCReservedNames == {"system:admin"}
MCReservedGroups == {"system:masters", "system:nodes", "system:authenticated"}

\* The pipeline run: requests that get as far as the API server share the
\* gauges; any other one is served alone.
First == CHOOSE r \in Requests: TRUE
MCInit ==
  /\ Init
  /\ \A r \in Requests \ {First}: input[r] \in AdmittedInputs
MCNext ==
  /\ Next
  /\ input[First] \notin AdmittedInputs => \A r \in Requests \ {First}: pc'[r] = "new"

MCSpec == MCInit /\ [][MCNext]_vars /\ Fairness
=============================================================================
