----------------------------- MODULE SpscRingMC -----------------------------
(* Bounds of the ring's runs: four slots, so that the indices wrap more    *)
(* than once over five pushes, and batches shorter and longer than the     *)
(* ring (the code drains 882 samples of a ring of 32768).                  *)
EXTENDS SpscRing

MCMaxDrains == {1, 3}
=============================================================================
