----------------------------- MODULE MCTargets -----------------------------
(* Instances of Targets for TLC. *)
EXTENDS Targets, TLC

\* Two tags that share a prefix.
SharedPrefix == {<<"type", "router">>, <<"type">>}
\* Ids that are segments of these tags.
Segments == <<"router", "type">>
=============================================================================
