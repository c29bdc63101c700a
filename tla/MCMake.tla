-------------------------------- MODULE MCMake --------------------------------
(* An instance of Make for TLC: the .ast of an imported bundle and three       *)
(* source tangles.  a may import the bundle, b may import a, c anything.       *)
EXTENDS Make

CONSTANTS z, a, b, c

AllTangles == {z, a, b, c}
OneBundle  == {z}

OrderedGraphs ==
  {[t \in AllTangles |->
      CASE t = z -> {} [] t = a -> as [] t = b -> bs [] t = c -> cs] :
     as \in SUBSET {z}, bs \in SUBSET {a}, cs \in SUBSET {z, a, b}}
===============================================================================
