------------------------------ MODULE ProjectMC ------------------------------
(* A sketch that includes its setup header, a library or a shim, in two      *)
(* versions; three states of arduino-cli's library list, two libraries of    *)
(* which provide the same header.                                            *)
EXTENDS Project

IncludesDef == <<{"setup", "shim"}, {"json", "shim"}>>

LibA == [name |-> "A", provides |-> {"json"}]
LibB == [name |-> "B", provides |-> {"json", "shim"}]

ListsDef == {<<LibA, LibB>>, <<LibB>>}

\* the sketches launched differ in nothing but their name
Launched == Permutations(Sketch)
=============================================================================
