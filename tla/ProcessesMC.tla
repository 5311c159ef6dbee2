----------------------------- MODULE ProcessesMC -----------------------------
(* The processes around a sketch, one story at a time: `boardghost run` with  *)
(* a screenshot (two more signals than the CLI sends, so that one can meet a  *)
(* capture that another one asked for), the launcher's commands (four, at     *)
(* most two under way at a time, and two runs), the mDNS publishers that the  *)
(* sketch forks (two), and `boardghost ota push` with the receiver (three     *)
(* pushes that may all run at once: one that knows the password and has two   *)
(* blocks, one that does not know it, one without firmware).                  *)
EXTENDS SketchRun, Launcher, Mdns, OtaPush

CONSTANTS p1, p2, p3, x, y

VARIABLE part   \* which story this behaviour is: "run", "launcher", "mdns" or "ota"

Firmware == [p \in Pushers |-> CASE p = p1 -> <<x, y>> [] p = p2 -> <<y>> [] OTHER -> <<>>]

allVars == <<part, vars, launcherVars, mdnsVars, otaVars>>

InitProcesses ==
  /\ part \in {"run", "launcher", "mdns", "ota"}
  /\ Init /\ InitLauncher /\ InitMdns /\ InitOta
  /\ part # "run" => stuck /\ file = "absent"
  /\ part # "ota" => auth /\ device = "loop"

NextProcesses ==
  \/ part = "run" /\ Next /\ UNCHANGED <<part, launcherVars, mdnsVars, otaVars>>
  \/ part = "launcher" /\ NextLauncher /\ UNCHANGED <<part, vars, mdnsVars, otaVars>>
  \/ part = "mdns" /\ NextMdns /\ UNCHANGED <<part, vars, launcherVars, otaVars>>
  \/ part = "ota" /\ NextOta /\ UNCHANGED <<part, vars, launcherVars, mdnsVars>>

\* The fairness of each part.  The others wait for a call or a datagram; SketchRun starts
\* by itself, hence its guards.
FairRun ==
  /\ WF_vars(part = "run" /\ Sketch) /\ WF_vars(part = "run" /\ Watcher)
  /\ WF_vars(part = "run" /\ Shot) /\ WF_vars(part = "run" /\ Main)
  /\ SF_vars(part = "run" /\ ShotGrace /\ shot' # "grace")
  /\ WF_vars(part = "run" /\ Exit /\ quit)

SpecProcesses ==
  /\ InitProcesses /\ [][NextProcesses]_allVars
  /\ FairRun /\ FairCommands /\ FairMdns /\ FairOta

\* `run --screenshot` ends (SketchRun's RunReturns).
ScreenshotRunReturns == part = "run" => RunReturns
=============================================================================
