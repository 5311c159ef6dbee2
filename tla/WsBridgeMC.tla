----------------------------- MODULE WsBridgeMC -----------------------------
(* Two connections, so that what is left of the first can meet the second, *)
(* and two frames for each, so that their order shows.                     *)
EXTENDS WsBridge
=============================================================================
