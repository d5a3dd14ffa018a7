---------------------------- MODULE MCEventQueue ----------------------------
(* Instances of EventQueue for TLC. *)
EXTENDS EventQueueProperties, TLC

CONSTANTS e1, e2, e3, v1, v2, b1, h1, h2

\* Ordinary events of two handlers, one of them posted AT_FRONT.
DispatchOwner == (e1 :> h1) @@ (e2 :> h1) @@ (e3 :> h2)

\* e1 and e2 differ in nothing.
Symmetry == Permutations({e1, e2})

\* Two vsync events, a barrier task and an ordinary event.
VsyncOwner == (v1 :> h1) @@ (v2 :> h2) @@ (b1 :> h2) @@ (e1 :> h2)

\* One vsync event.
LivenessOwner == (v1 :> h1) @@ (b1 :> h1) @@ (e1 :> h1)
=============================================================================
