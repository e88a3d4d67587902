----------------------------- MODULE MCForklift -----------------------------
(***************************************************************************)
(* The forklift sketch alone, for the model checker.                       *)
(***************************************************************************)
EXTENDS Forklift

TwoCommands == {<<"f">>, <<"s">>}

=============================================================================
