----------------------------- MODULE MCCloudWatch -----------------------------
(***************************************************************************)
(* Two streams in one group, the first with an event of which no record    *)
(* can be made; and a second group, which stays empty, behind it.          *)
(***************************************************************************)
EXTENDS CloudWatch

MCStream == <<"a", "b", "a">>
MCGroups == <<{"a", "b"}, {"c"}>>

=============================================================================
