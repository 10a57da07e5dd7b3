-------------------------- MODULE MCSecretDelivery --------------------------
(***************************************************************************)
(* The module TLC runs for SecretDelivery; deployments are symmetric.      *)
(***************************************************************************)
EXTENDS SecretDelivery, TLC

DeploymentSymmetry == Permutations(Deployments)

=============================================================================
