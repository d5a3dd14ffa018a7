---------------------------- MODULE MCFdListeners ----------------------------
(***************************************************************************)
(* The instances of FdListeners for TLC: the main runner with two handlers *)
(* and listeners of all kinds; besides it an FFRT queue.                   *)
(***************************************************************************)
EXTENDS FdListeners, TLC

CONSTANTS main, ffrt, h1, h2, h3, vsync, plain, deamon, task

MainOnly == h1 :> main @@ h2 :> main
WithFFRT == h1 :> main @@ h3 :> ffrt

\* h1 owns the vsync listener, h2 the others.
Owners == vsync :> h1 @@ plain :> h2 @@ deamon :> h2
OwnersFFRT == vsync :> h1 @@ plain :> h1 @@ task :> h3

\* On the main queue alone, and between the main queue and the FFRT queue.
Pairs == {{vsync, plain}, {vsync, task}}
Everything == {Listeners}
=============================================================================
