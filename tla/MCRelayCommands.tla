-------------------------- MODULE MCRelayCommands --------------------------
(***************************************************************************)
(* A small instance of RelayCommands: a command of each type, of which a   *)
(* behaviour requests as many as MaxCommands allows, in any order.         *)
(***************************************************************************)
EXTENDS RelayCommands, TLC

CONSTANTS c1, c2, c3, c4, c5

EveryType == c1 :> "INSTALL" @@ c2 :> "CONFIG_UPDATE" @@ c3 :> "DEPLOY_RELEASE"
                 @@ c4 :> "RESTART" @@ c5 :> "DESTROY"

=============================================================================
