---------------------------- MODULE MCDryRunPlugin ----------------------------
(* The instance of DryRunPlugin that TLC checks. *)
EXTENDS DryRunPlugin

TwoNames == {"foo", "bar"}
================================================================================
