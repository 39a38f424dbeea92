----------------------------- MODULE MCVariables -----------------------------
(* Finite instances of Variables for TLC. *)
EXTENDS Variables

CONSTANTS a, b, r, x, y

MCVariable(k, v, from, hcl, sensitive) ==
  [variable |-> [key |-> k, category |-> "terraform", value |-> v,
                 hcl |-> hcl, sensitive |-> sensitive],
   from |-> from]

\* Two variables: one changes its format or takes its value from a ConfigMap, the
\* other is a secret, from the mount or from a Kubernetes Secret, or is removed.
ChangedSpecs ==
  {<<MCVariable(b, None, s[1], FALSE, TRUE), MCVariable(a, s[2], s[3], s[4], FALSE)>> :
     s \in {<<None, x, None, FALSE>>, <<None, None, r, FALSE>>, <<None, x, None, TRUE>>,
            <<r, x, None, FALSE>>}}
    \cup {<<MCVariable(a, x, None, FALSE, FALSE)>>}

\* A variable becomes a secret from the mount.
SecretSpecs ==
  {<<MCVariable(a, x, None, FALSE, FALSE)>>, <<MCVariable(a, None, None, FALSE, TRUE)>>}

=============================================================================
