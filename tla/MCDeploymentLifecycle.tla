----------------------- MODULE MCDeploymentLifecycle -----------------------
(***************************************************************************)
(* Small instances of DeploymentLifecycle: the slices of operations each   *)
(* configuration runs, and the symmetry of the handlers.                   *)
(***************************************************************************)
EXTENDS DeploymentLifecycle, TLC

HandlerSymmetry == Permutations(Handlers)

=============================================================================
