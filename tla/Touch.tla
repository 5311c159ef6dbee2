-------------------------------- MODULE Touch --------------------------------
(***************************************************************************)
(* What lcd.getTouch() reads: a tap posted to the mirror                   *)
(* (runtime/src/sim_touch_inject.cpp), a script of taps                    *)
(* (BOARDGHOST_SIM_TOUCHES_SCREEN of displays/Panel_sdl_bg.hpp,            *)
(* BOARDGHOST_SIM_TOUCHES of displays/Touch_sdl.hpp), the corners of the   *)
(* automatic calibration (Touch_sdl.hpp) or the mouse, in that order.      *)
(*                                                                         *)
(* Time is in units of 40 ms.  The HTTP thread posts taps, the sketch      *)
(* thread reads; each does so in one critical section.                     *)
(*                                                                         *)
(* External: SDL_GetTicks(), which wraps; LovyanGFX, which applies the     *)
(* calibration matrix to what was read and turns it to the screen.         *)
(***************************************************************************)
EXTENDS Naturals, Sequences

CONSTANTS
  Wrap,         \* the ticks of the clock
  InjectFor,    \* kPressWindowMs
  ScriptFor,    \* the 80 ms of a scripted tap
  PressReads, ReleaseReads, Corners,   \* of the automatic calibration
  Script,       \* when the taps of a script are due
  Setups,       \* what the clock shows at first, the rotation, whose script it is, calEnv
  Patience,     \* the sketch reads once in so long
  MaxPosts,     \* bound on the taps posted
  MaxTime       \* bound on the time

ASSUME TouchAssumption ==
  /\ Wrap \in Nat \ {0} /\ InjectFor \in Nat \ {0} /\ ScriptFor \in Nat
  /\ PressReads \in Nat /\ ReleaseReads \in Nat /\ Corners \in Nat
  /\ Setups \subseteq [booted : 1 .. Wrap - 1, turn : 0 .. 7, calEnv : BOOLEAN,
                       scriptOf : {"panel", "touch", "nobody"}]
  /\ Script \in Seq(Nat) /\ Patience \in Nat /\ MaxPosts \in Nat /\ MaxTime \in Nat

VARIABLES
  booted,    \* what the clock showed when the model starts
  time,      \* the time since
  quiet,     \* the time since the last read
  turn,      \* the effective rotation
  scriptOf,  \* who has the script: "panel", "touch", "nobody"
  calEnv,    \* BOARDGHOST_AUTO_TOUCH_CAL is set
  autoCal,   \* auto_cal_
  phase,     \* auto_cal_phase_
  index,     \* screen_idx_ or scripted_idx_: the taps that are over
  start,     \* start_ms_
  matrix,    \* the calibration: "identity", or one that the sketch has set
  mouse,     \* the left button is down
  tap,       \* g_tap
  posted,    \* history: when each tap was posted
  shown,     \* the last read
  clicked,   \* history: the posted taps that were read
  played     \* history: the scripted taps that were read

setupTouch == <<booted, turn, scriptOf, calEnv>>
touchVars == <<setupTouch, time, quiet, autoCal, phase, index, start, matrix, mouse, tap,
               posted, shown, clicked, played>>

NoTap == [n |-> 0, screen |-> TRUE, expiry |-> 0, active |-> FALSE]
Nowhere == [x |-> 0, y |-> 0]
Shown(src, n, at) == [src |-> src, n |-> n, at |-> at]

\* Both scripts and the calibration are read from the environment; a script's clock starts
\* with the first read that consults it.
InitDriver == autoCal = calEnv /\ phase = 0 /\ index = 0 /\ start = 0

InitTouch ==
  /\ \E s \in Setups :
       booted = s.booted /\ turn = s.turn /\ scriptOf = s.scriptOf /\ calEnv = s.calEnv
  /\ InitDriver /\ time = 0 /\ quiet = 0
  /\ matrix = "own" /\ mouse = FALSE
  /\ tap = NoTap /\ posted = <<>> /\ shown = Shown("none", 0, Nowhere)
  /\ clicked = {} /\ played = {}

Ticks == (booted + time) % Wrap

-----------------------------------------------------------------------------
(* Coordinates, on a panel of three by two pixels                          *)

Odd(r) == r % 2 = 1
Width(r) == IF Odd(r) THEN 2 ELSE 3
Height(r) == IF Odd(r) THEN 3 ELSE 2
VFlip(r) == r \in {1, 2, 4, 7}
HFlip(r) == r \in {2, 3, 6, 7}
Swap(p) == [x |-> p.y, y |-> p.x]
Flip(r, p) == [x |-> IF HFlip(r) THEN Width(r) - 1 - p.x ELSE p.x,
               y |-> IF VFlip(r) THEN Height(r) - 1 - p.y ELSE p.y]

\* Mutant of inverse_rotate: the axes are swapped first.
inverse_rotate_SwapFirst(r, p) == Flip(r, IF Odd(r) THEN Swap(p) ELSE p)

inverse_rotate(r, p) == IF Odd(r) THEN Swap(Flip(r, p)) ELSE Flip(r, p)

\* LovyanGFX's convertRawXY(), with the calibration m.
convertRawXY(r, m, p) ==
  IF m = "identity" THEN Flip(r, IF Odd(r) THEN Swap(p) ELSE p) ELSE Nowhere

\* Where the n-th tap or the mouse is on the screen.
PointOf(n) == IF n % 2 = 1 THEN [x |-> 0, y |-> 1] ELSE [x |-> 1, y |-> 1]

-----------------------------------------------------------------------------
(* Actions                                                                 *)

Tick ==
  /\ time < MaxTime /\ quiet < Patience
  /\ time' = time + 1 /\ quiet' = quiet + 1
  /\ UNCHANGED <<setupTouch, autoCal, phase, index, start, matrix, mouse, tap, posted, shown,
                 clicked, played>>

Expiry == (Ticks + InjectFor) % Wrap

\* parse_touch_body(): a body that parses says whether the point is the screen's or raw.
TouchBodies == BOOLEAN

\* POST /mirror/touch with such a body: the tap takes the place of one before it.
PostTap(screen) ==
  /\ Len(posted) < MaxPosts
  /\ tap' = [n |-> Len(posted) + 1, screen |-> screen, expiry |-> Expiry, active |-> TRUE]
  /\ posted' = Append(posted, time)
  /\ UNCHANGED <<setupTouch, time, quiet, autoCal, phase, index, start, matrix, mouse, shown,
                 clicked, played>>

MouseButton ==
  /\ mouse' = ~mouse
  /\ UNCHANGED <<setupTouch, time, quiet, autoCal, phase, index, start, matrix, tap, posted,
                 shown, clicked, played>>

\* The sketch calls setTouchCalibrate() with the matrix of its hardware.
SetMatrix ==
  /\ matrix' = "own"
  /\ UNCHANGED <<setupTouch, time, quiet, autoCal, phase, index, start, mouse, tap, posted,
                 shown, clicked, played>>

\* Mutant of Pending: a tap is not released.
Pending_Unending == tap.active

\* boardghost_pending_touch().
Pending == tap.active /\ Ticks < tap.expiry

\* The panel asks its own script first; the driver's waits for the calibration to be over.
Consulted == ~Pending /\ (scriptOf = "panel" \/ (scriptOf = "touch" /\ ~autoCal))

Started == IF start = 0 THEN Ticks ELSE start
Elapsed == (Ticks + Wrap - Started) % Wrap
\* Taps whose window is over are passed, in the order of the script.
Passed ==
  CHOOSE i \in index .. Len(Script) :
    /\ \A j \in index + 1 .. i : Elapsed > Script[j] + ScriptFor
    /\ i < Len(Script) => Elapsed <= Script[i + 1] + ScriptFor
Played == Consulted /\ Passed < Len(Script) /\ Elapsed >= Script[Passed + 1]

Cycle == PressReads + ReleaseReads
\* The calibration is asked if nothing came before it; a read of it is a press or not.
Calibrating == autoCal /\ ~Pending /\ ~Played
AtCorner == Calibrating /\ phase < Corners * Cycle /\ phase % Cycle < PressReads

Forced == scriptOf # "nobody" \/ calEnv \/ Pending
Matrix == IF Forced THEN "identity" ELSE matrix

\* A point of the screen is turned back before it is handed over, a raw one is not.
Seen(src, n) == Shown(src, n, convertRawXY(turn, Matrix, inverse_rotate(turn, PointOf(n))))
Raw(src, n) == Shown(src, n, convertRawXY(turn, Matrix, PointOf(n)))

ReadPanel ==
  /\ quiet' = 0 /\ matrix' = Matrix
  /\ tap' = [tap EXCEPT !.active = Pending]
  /\ start' = IF Consulted THEN Started ELSE start
  /\ index' = IF Consulted THEN Passed ELSE index
  /\ phase' = IF Calibrating /\ phase < Corners * Cycle THEN phase + 1 ELSE phase
  /\ autoCal' = (autoCal /\ (Calibrating => phase < Corners * Cycle))
  /\ shown' = CASE Pending /\ tap.screen -> Seen("inject", tap.n)
                [] Pending /\ ~tap.screen -> Raw("raw", tap.n)
                [] Played /\ scriptOf = "panel" -> Seen("script", Passed + 1)
                [] Played /\ scriptOf = "touch" -> Raw("driver", Passed + 1)
                [] AtCorner -> Shown("corner", phase \div Cycle, Nowhere)
                [] ~Pending /\ ~Played /\ ~AtCorner /\ mouse -> Seen("mouse", 1)
                [] OTHER -> Shown("none", 0, Nowhere)
  /\ clicked' = IF Pending THEN clicked \cup {tap.n} ELSE clicked
  /\ played' = IF Played THEN played \cup {Passed + 1} ELSE played
  /\ UNCHANGED <<setupTouch, time, mouse, posted>>

NextTouch ==
  \/ Tick \/ ReadPanel \/ MouseButton \/ SetMatrix
  \/ \E screen \in TouchBodies : PostTap(screen)

SpecTouch == InitTouch /\ [][NextTouch]_touchVars

-----------------------------------------------------------------------------
(* Properties                                                              *)

Points == [x : 0 .. 2, y : 0 .. 2]
TouchTypeOK ==
  /\ booted \in 0 .. Wrap - 1 /\ time \in 0 .. MaxTime /\ quiet \in 0 .. Patience
  /\ turn \in 0 .. 7 /\ scriptOf \in {"panel", "touch", "nobody"} /\ calEnv \in BOOLEAN
  /\ autoCal \in BOOLEAN /\ phase \in 0 .. Corners * Cycle /\ index \in 0 .. Len(Script)
  /\ start \in 0 .. Wrap - 1
  /\ matrix \in {"identity", "own"} /\ mouse \in BOOLEAN
  /\ tap \in [n : 0 .. MaxPosts, screen : BOOLEAN, expiry : 0 .. Wrap - 1, active : BOOLEAN]
  /\ posted \in Seq(0 .. MaxTime) /\ Len(posted) <= MaxPosts
  /\ shown.at \in Points /\ clicked \subseteq 1 .. MaxPosts /\ played \subseteq 1 .. Len(Script)

\* A tap of the mirror or of the panel's script comes out of lcd.getTouch() at the place it
\* was aimed at on the screen, whichever way that is turned and whatever calibration the sketch
\* has loaded (inverse_rotate() and the forced identity); and so does the mouse, where
\* taps are simulated.
ReadsWhereAimed ==
  /\ TouchTypeOK
  /\ shown.src \in {"inject", "script"} => shown.at = PointOf(shown.n)
  /\ shown.src = "mouse" /\ (scriptOf # "nobody" \/ calEnv) => shown.at = PointOf(1)

\* The sketch reads often enough to meet every tap's window, and no two of a script overlap.
ReadsOften == Patience < InjectFor /\ Patience <= ScriptFor
Spaced == \A i, j \in 1 .. Len(Script) : i < j => Script[i] + ScriptFor < Script[j]

\* The n-th tap was not replaced by the next one before its window was over.
Undisturbed(n) == n < Len(posted) => posted[n + 1] - posted[n] > InjectFor + Patience

\* The clock does not wrap before the first read after the n-th tap's window.
InOneTurn(n) == ((booted + posted[n]) % Wrap) + InjectFor + Patience < Wrap

\* A tap that no other replaces is one click: it is read as a press, and it releases
\* itself.
PostedTapsAreClicks ==
  \A n \in 1 .. Len(posted) :
    Undisturbed(n) /\ InOneTurn(n) /\ time > posted[n] + InjectFor + Patience =>
      n \in clicked /\ (shown.src \in {"inject", "raw"} => shown.n # n)

\* Every tap of a script is read in its turn, calibration or not, unless a posted tap or
\* the end of the clock comes between.
ScriptedTapsRead ==
  \A i \in 1 .. Len(Script) :
    posted = <<>> /\ start # 0 /\ Ticks > start + Script[i] + ScriptFor + Patience
      => i \in played

\* No simulated tap is lost on a sketch that reads often enough: a posted one is one click,
\* and a scripted one is read in its turn.
TapsAreClicks == PostedTapsAreClicks /\ ScriptedTapsRead
=============================================================================
