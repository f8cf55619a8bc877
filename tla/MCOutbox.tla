------------------------------- MODULE MCOutbox -------------------------------
(***************************************************************************)
(* Two publishers of one deployment, over rows that this deployment and    *)
(* one with a higher data classification have committed.                   *)
(***************************************************************************)
EXTENDS Outbox

MCDeployment == [schema |-> "1.0", classification |-> "SENSITIVE"]
MCWriters    == {MCDeployment, [MCDeployment EXCEPT !.classification = "RESTRICTED"],
                 [MCDeployment EXCEPT !.schema = "1.1"]}

=============================================================================
