----------------------------- MODULE UartPortMC -----------------------------
(* The writes of a sketch that drives the scanner.                         *)
EXTENDS UartPort

Frame(c) == <<"hdr", c, "end">>

\* Whole commands, a command cut in two, and noise.
DriverWrites ==
  {Frame("start"), Frame("stop"), <<"hdr", "start">>, <<"end">>}
=============================================================================
