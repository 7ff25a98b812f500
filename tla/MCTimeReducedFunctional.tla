----------------------- MODULE MCTimeReducedFunctional -----------------------
(***************************************************************************)
(* The solves another user of the integrator makes between the requests:   *)
(* none, or one kind, with parameters of its own and no trajectory.        *)
(***************************************************************************)
EXTENDS TimeReducedFunctional

CONSTANTS p1, p2

NoOther == {}
OneOther == {[prm |-> p2, traj |-> NoTraj, observed |-> FALSE]}

(* Requests with and without a progress callback.                          *)
AllKinds ==
  [what : {"value", "valueGrad"}, progress : {TRUE}, prm : Params]
    \cup [what : {"grad"}, progress : {FALSE}, prm : Params]
TwoKinds ==
  [what : {"valueGrad"}, progress : {TRUE}, prm : Params]
    \cup [what : {"value"}, progress : {FALSE}, prm : Params]
=============================================================================
