--------------------------- MODULE MCPolicyRefinement ---------------------------
(* The instance of PolicyRefinement that TLC checks. *)
EXTENDS PolicyRefinement, MCSpecs

FaultSpecs == { BaseSpec, [BaseSpec EXCEPT !.dryRun = TRUE] }

\* Below the band, and above it for the pod lister of a new process, which knows
\* one of three pods so far.
FaultReadings == { Reading(1, 200), Reading(3, 30) }
FaultReplicas == {0, 5}
================================================================================
