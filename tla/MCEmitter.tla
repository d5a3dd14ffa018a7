----------------------------- MODULE MCEmitter -----------------------------
(* An instance of Emitter for TLC: one event id, which belongs to an Emitter object. *)
EXTENDS Emitter, TLC
CONSTANTS x, o, p1, p2
OneId == x :> o
Symmetry == Permutations(Priorities)
AllAtOnce == {[envs |-> Envs, events |-> MaxEvents, data |-> {TRUE}]}
OneByOne == {[envs |-> AniEnvs, events |-> MaxEvents, data |-> {TRUE}],
             [envs |-> JsEnvs, events |-> MaxEvents, data |-> BOOLEAN],
             [envs |-> Envs, events |-> 1, data |-> BOOLEAN]}
=============================================================================
