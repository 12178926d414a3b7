---------------------------- MODULE MCDelayHistory ----------------------------
(* The instances of DelayHistory that TLC checks. *)
EXTENDS DelayHistory, MCSpecs

\* Up after a second above the high watermark, down after two below the low one;
\* users may also lower maxReplicas.
DelaySpecs ==
    LET slow == [BaseSpec EXCEPT !.upscaleDelay = 1, !.downscaleDelay = 2,
                                 !.downscaleForbiddenWindow = 1, !.minReplicas = 1]
    IN  { slow, [slow EXCEPT !.maxReplicas = 2] }
DelayReadings == { Reading(2, 100), Reading(2, 60), Reading(2, 20) }
================================================================================
