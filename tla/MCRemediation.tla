---------------------------- MODULE MCRemediation ----------------------------
(* The remediation pool of one investigation beside two requests of engineers. *)
EXTENDS Remediation, TLC
\* Which worker runs a job, which handler serves a request and what a strategy is
\* called make no difference; only safety is checked under it.
Alike == Permutations(Workers) \cup Permutations(Requests) \cup Permutations(Strategies)
=============================================================================
