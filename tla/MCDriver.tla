------------------------------- MODULE MCDriver -------------------------------
(***************************************************************************)
(* Driver for TLC: two files that are two tangles or, when they import     *)
(* each other, one.  The files are interchangeable.                        *)
(***************************************************************************)
EXTENDS Driver, TLC

CONSTANTS f, g  \* source files

MCLayouts == {{{f}, {g}}, {{f, g}}}

SameFiles == Permutations({f, g})
===============================================================================
