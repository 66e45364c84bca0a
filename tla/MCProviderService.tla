--------------------------- MODULE MCProviderService ---------------------------
(***************************************************************************)
(* Instances of ProviderService for TLC.                                   *)
(***************************************************************************)
EXTENDS ProviderService, MCCameraProvider

CONSTANTS
    MaxRewritten,   \* bound on the rewritten descriptors that are, or were, used
    MaxDisturbed    \* bound on the requests pending with such a one, or while some
                    \* camera is not listed

Rewritten == Cardinality(overtaken) + Cardinality({d \in Device : Mixed(d)})

Bound ==
    \/ Undisturbed /\ listed = Camera
    \/ /\ Rewritten <= MaxRewritten
       /\ Cardinality({t \in Thread : pc[t] # "idle"}) <= MaxDisturbed

================================================================================
