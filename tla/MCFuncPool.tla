----------------------------- MODULE MCFuncPool -----------------------------
(* Instances of FuncPool. *)
EXTENDS FuncPool

\* AWS Lambda's pool, whose environments serve one invocation each, expire
\* and are provisioned; one whose environments do not expire; one whose
\* environments serve every invocation and expire; and one of these with
\* callers that give up, and nothing provisioned.
MCPools ==
    { [perEnvironment |-> 1, expiring |-> TRUE, cancellable |-> FALSE,
       provisions |-> {0, 2}, slots |-> 3],
      [perEnvironment |-> 1, expiring |-> FALSE, cancellable |-> FALSE,
       provisions |-> {0, 1, 2}, slots |-> 3],
      [perEnvironment |-> 0, expiring |-> TRUE, cancellable |-> FALSE,
       provisions |-> {0, 1}, slots |-> 2],
      [perEnvironment |-> 0, expiring |-> TRUE, cancellable |-> TRUE,
       provisions |-> {}, slots |-> 2] }

\* The function's own cap, set and lifted.
MCFunctionMax == {-1, 1}
=============================================================================
