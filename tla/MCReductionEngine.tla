------------------------- MODULE MCReductionEngine -------------------------
(* Four stimuli of measures 2, 1, 1, 0; an evaluator may report none, one, or   *)
(* more trials than it was allowed.                                          *)
EXTENDS ReductionEngine, TLC

MCStimuli == 0 .. 3
MCSize == <<1, 1, 0>> @@ (0 :> 2)
MCReported == {0, 1, 3}

=============================================================================
