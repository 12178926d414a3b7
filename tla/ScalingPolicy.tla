----------------------------- MODULE ScalingPolicy -----------------------------
(***************************************************************************)
(* What the controller promises whoever runs the target, without caches,   *)
(* readings, versions or a worker: the target is only ever moved by a step *)
(* that a spec the WPA has, or had, allows for the count and the pods the  *)
(* target has in that very moment, with the forbidden window of the        *)
(* direction between two moves.  Others scale the target as they like.     *)
(***************************************************************************)
EXTENDS ScalingRules

CONSTANTS
    Specs,       \* the specs users give the WPA
    Replicas,    \* the replica counts users give the target
    Lax          \* a move may follow a superseded spec, and an event may be forgotten

VARIABLES
    clock,
    target,      \* replicas of its spec and of its status
    spec,        \* the spec of the WPA
    offered,     \* the specs the WPA has had
    edits,       \* how often somebody else stepped in
    last         \* when the controller last moved the target

vars == << clock, target, spec, offered, edits, last >>

Init ==
    /\ clock = 0
    /\ target \in [spec : Replicas, status : Replicas \cup {0}]
    /\ spec \in Specs /\ offered = {spec}
    /\ edits = 0
    /\ last = NoTime

Rested(s, n) ==
    Lax \/ last = NoTime \/ clock - last > (Window(s, target.spec, n) - 1) * Second

\* A target out of its bounds goes to the nearest, one without replicas to 1.
Repairs(s, n) ==
    \/ target.spec > s.maxReplicas /\ n = s.maxReplicas
    \/ target.spec < s.minReplicas /\ n = s.minReplicas
    \/ InBounds(s, target.spec) /\ target.status = 0 /\ n = 1

Follows(s, n) ==
    /\ InBounds(s, target.spec) /\ target.status # 0
    /\ InBounds(s, n)
    /\ VelocityRespected(s, target.spec, n)
    /\ Rested(s, n)

Move ==
    /\ target.spec # 0
    /\ \E s \in IF Lax THEN offered ELSE {spec} :
          /\ ~s.dryRun
          /\ \E n \in 1..s.maxReplicas \ {target.spec} :
                /\ Repairs(s, n) \/ Follows(s, n)
                /\ target' = [target EXCEPT !.spec = n]
    /\ last' = clock
    /\ UNCHANGED << clock, spec, offered, edits >>

Offer ==
    /\ spec' \in Specs
    /\ offered' = offered \cup {spec'}
    /\ edits' = edits + 1
    /\ UNCHANGED << clock, target, last >>

OthersScale ==
    /\ \E n \in Replicas : target' = [target EXCEPT !.spec = n]
    /\ edits' = edits + 1
    /\ UNCHANGED << clock, spec, offered, last >>

TargetFollows ==
    /\ target' = [target EXCEPT !.status = target.spec]
    /\ UNCHANGED << clock, spec, offered, edits, last >>

Tick ==
    /\ clock' = clock + 1
    /\ UNCHANGED << target, spec, offered, edits, last >>

Next == Move \/ Offer \/ OthersScale \/ TargetFollows \/ Tick

Spec == Init /\ [][Next]_vars
================================================================================
