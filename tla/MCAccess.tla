------------------------------ MODULE MCAccess ------------------------------
(* Instances of Access for TLC. *)
EXTENDS Access, TLC

CONSTANTS q1, c1, c2

The(via, op) == {e \in Endpoint : e.via = via /\ e.op = op}

\* A request for the API or the tools, gated or not, audited or not.
SomeEndpoints ==
    q1 :> (The("rest", "site.delete") \cup The("mcp", "node.rollback_release")
           \cup The("rest", "artifact.complete") \cup The("mcp", "site.create_php"))

\* One operation, through the API and through the tools.
OneOperation == q1 :> (The("rest", "site.create_php") \cup The("mcp", "site.create_php"))

\* One process for tokens and policies, one for tokens and domains.
TwoProcesses ==
    c1 :> {"create", "rotate", "revoke", "enable", "disable", "operate"}
    @@ c2 :> {"rotate", "map", "adopt", "unmap", "issue"}

\* The first token may do everything, for ever; a later one neither, unless it
\* replaces another.
NarrowAndExpiring == {[scopes |-> {"sites:write", "node:write"}, expires |-> 0]}
=============================================================================
