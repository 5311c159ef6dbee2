------------------------------ MODULE DevicesMC ------------------------------
(* What a sketch talks to, one device at a time: a UART port with the scanner *)
(* on it (UartPortMC's commands), the touch panel (two scripted taps, the     *)
(* script with the panel, the driver or nobody; every rotation; a clock that  *)
(* starts at one and one about to wrap), one LEDC channel, the sockets, the   *)
(* HTTP client and a filesystem (FilesMC's mount).                            *)
EXTENDS UartPortMC, Touch, Tone, NetClient, HttpClient, FilesMC

VARIABLE part   \* which device this behaviour is about

TwoTaps == <<0, 3>>
Setup(b, r, s, c) == [booted |-> b, turn |-> r, scriptOf |-> s, calEnv |-> c]
EverySetup ==
  {Setup(1, 0, "panel", FALSE), Setup(1, 1, "touch", TRUE), Setup(1, 2, "touch", FALSE),
   Setup(1, 3, "nobody", TRUE), Setup(Wrap - 6, 4, "nobody", FALSE), Setup(Wrap - 1, 5, "panel", TRUE),
   Setup(1, 6, "nobody", FALSE), Setup(1, 7, "nobody", FALSE)}

allVars == <<part, vars, touchVars, toneVars, netVars, httpVars, fsVars>>

InitDevices ==
  /\ part \in {"uart", "touch", "tone", "sockets", "http", "files"}
  /\ Init /\ InitTouch /\ InitTone /\ InitNet /\ InitHttp /\ InitFiles
  /\ part # "touch" => turn = 0
  /\ part # "sockets" => mode = "fake"
  /\ part # "http" => net = "fake"
  /\ part # "files" => inPlace /\ there = {}

NextDevices ==
  \/ part = "uart" /\ Next /\ UNCHANGED <<part, touchVars, toneVars, netVars, httpVars, fsVars>>
  \/ part = "touch" /\ NextTouch /\ UNCHANGED <<part, vars, toneVars, netVars, httpVars, fsVars>>
  \/ part = "tone" /\ NextTone /\ UNCHANGED <<part, vars, touchVars, netVars, httpVars, fsVars>>
  \/ part = "sockets" /\ NextNet /\ UNCHANGED <<part, vars, touchVars, toneVars, httpVars, fsVars>>
  \/ part = "http" /\ NextHttp /\ UNCHANGED <<part, vars, touchVars, toneVars, netVars, fsVars>>
  \/ part = "files" /\ NextFiles /\ UNCHANGED <<part, vars, touchVars, toneVars, netVars, httpVars>>

\* UartPort's fairness; the other devices have safety properties only.
FairUart ==
  /\ WF_vars(part = "uart" /\ Available) /\ SF_vars(part = "uart" /\ ReadBuf)
  /\ WF_vars(Writing)

SpecDevices == InitDevices /\ [][NextDevices]_allVars /\ FairUart
=============================================================================
