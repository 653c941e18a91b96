---------------------------- MODULE MCTranslator ----------------------------
(***************************************************************************)
(* Model checking of Translator: all function bodies up to the bounds.     *)
(***************************************************************************)
EXTENDS Translator

CONSTANTS MaxBlocks

MCBlocks == 1 .. MaxBlocks
MCValues == 1 .. MaxPoints \cup {IMMTRUE, IMMFALSE}
=============================================================================
