--------------------------- MODULE PolicyRefinement ---------------------------
(***************************************************************************)
(* Reconciler implements ScalingPolicy.  With faults it can only keep the  *)
(* lax policy: a stale copy of the WPA, or an edit in the middle of a      *)
(* reconciliation, makes the controller act for a superseded spec, and a   *)
(* scaling event whose status write failed is forgotten.                   *)
(***************************************************************************)
EXTENDS Reconciler

Policy == INSTANCE ScalingPolicy
             WITH spec <- wpa.spec, last <- lastScaling, Lax <- Faults # {}

\* Every step that changes the target is a move the policy allows: decided for a spec
\* users gave, right for the count and the pods the target has when it is written, and,
\* without faults, only by the latest spec and after the window (the version check of
\* Scales.Update, normalizeDesiredReplicas, shouldScale and the overrides together).
ImplementsPolicy == Policy!Spec
================================================================================
