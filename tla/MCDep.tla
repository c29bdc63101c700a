--------------------------------- MODULE MCDep ---------------------------------
(* An instance of Dep for TLC: three source files and the .ast of a bundle.    *)
(* An import may be a file (itself too), the bundle, a directory with two of   *)
(* the files, an empty directory, or missing.  f has up to two imports, the    *)
(* others up to one; the inputs are all the files or f alone.                  *)
EXTENDS Dep, TLC

CONSTANTS f, g, h, z

MCFiles == {f, g, h}
MCAsts  == {z}

Choices == {{f}, {g}, {h}, {z}, {g, h}, {}, Missing}
AtMostOne == {<<>>} \cup {<<x>> : x \in Choices}
AtMostTwo == AtMostOne \cup {<<x, y>> : x, y \in Choices}

MCProjects ==
  {[imports |-> (f :> is @@ g :> js @@ h :> ks), inputs |-> ins] :
     is \in AtMostTwo, js \in AtMostOne, ks \in AtMostOne,
     ins \in {{f}, {f, g, h}}}
===============================================================================
