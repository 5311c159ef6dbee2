------------------------------- MODULE FilesMC -------------------------------
(* A mount with a file, a directory and a file in it, or not there yet.      *)
EXTENDS Files

DirsDef == {<<>>, <<"sub">>}
LeavesDef == {<<"x">>, <<"sub", "y">>}
=============================================================================
