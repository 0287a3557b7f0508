--------------------------- MODULE MCControlPlane ---------------------------
(* Instances of ControlPlane for TLC. *)
EXTENDS ControlPlane

\* Bound: once the process has died, one operation at a time.
OneAfterCrash ==
    crashes > 0 => \A c, d \in ProviderCalls :
                       calls[c].pc # "idle" /\ calls[d].pc # "idle" => c = d

MCNext == ProviderNext /\ OneAfterCrash'

MCSpec == ProviderInit /\ [][MCNext]_providerVars /\ ProviderFairness
=============================================================================
