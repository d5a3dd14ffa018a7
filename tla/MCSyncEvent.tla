----------------------------- MODULE MCSyncEvent -----------------------------
(***************************************************************************)
(* The instance of SyncEvent for TLC: a deposited runner, a runner without *)
(* a thread, and two threads of clients.                                   *)
(***************************************************************************)
EXTENDS SyncEvent, TLC

CONSTANTS own, lent, home, client1, client2, h1, h2, e1, e2, e3

Homes == own :> home
Handling == h1 :> own @@ h2 :> lent
=============================================================================
