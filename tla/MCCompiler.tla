------------------------------ MODULE MCCompiler ------------------------------
(***************************************************************************)
(* Compiler for TLC: two sources, an imported .ast and an input that is no *)
(* source, under every mode and pair of modes.                             *)
(***************************************************************************)
EXTENDS Compiler

CONSTANTS
  a, b,  \* sources
  lib,   \* an .ast
  doc    \* another file
===============================================================================
