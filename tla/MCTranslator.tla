---------------------------- MODULE MCTranslator ----------------------------
(* A library of one function whose specification is reworded while another   *)
(* function, which no tier compares, is added; and one without functions.    *)
EXTENDS Translator

CONSTANTS strict, reworded, uncompared

MCEntries == {strict, reworded, uncompared}
MCSpecs == {<<>>, <<strict>>, <<reworded, uncompared>>}
MCCompared == {strict, reworded}
=============================================================================
