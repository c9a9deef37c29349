---------------------------- MODULE MCStepEditor ----------------------------
(***************************************************************************)
(* Two cards, of the kind bash and of the kind custom, a command of each   *)
(* sort (with -c, without, with a space behind, none) and texts of one     *)
(* line, of two, with blank lines around and between, and of none.         *)
(***************************************************************************)
EXTENDS StepEditor

BashStep   == [command |-> <<"sh", "-c">>, args |-> << <<"echo">> >>]
CustomStep == [command |-> <<>>, args |-> <<>>]

AllKinds == {BashStep, CustomStep}
Commands == {<<Blank>>, <<"kubectl">>, <<"sh", "-c">>, <<"sh", "-c", Blank>>}
TextsTyped ==
  {<<Blank>>, <<"echo">>, <<"cd", "make">>, <<"cd", Blank, "make">>, <<Blank, "cd", "make", Blank>>}
=============================================================================
