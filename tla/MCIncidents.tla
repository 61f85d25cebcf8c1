------------------------------ MODULE MCIncidents ------------------------------
(* A model-checking instance of Incidents: two replicas with a distillation     *)
(* each, one of them with two webhooks at a time.                               *)
EXTENDS Incidents, TLC

CONSTANTS r1, r2, h1, h2, h3, t1, t2

\* Answers within the range of the prompt: a certain decision, a delta at its threshold and
\* one below every threshold.
Asked == {[type |-> "decision", confidence |-> 100], [type |-> "infrastructure", confidence |-> 80],
          [type |-> "pattern", confidence |-> 49]}

HomeOf == (h1 :> r1) @@ (h2 :> r2) @@ (h3 :> r1) @@ (t1 :> r1) @@ (t2 :> r2)

\* The two webhooks of one replica.
Webhooks == Permutations({h1, h3})
=============================================================================
