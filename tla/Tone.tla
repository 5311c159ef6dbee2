-------------------------------- MODULE Tone --------------------------------
(***************************************************************************)
(* One channel of the LEDC tone generator (runtime/src/sim_audio.cpp):     *)
(* threads of the sketch set its frequency and duty, the mirror's thread   *)
(* opens the audio device, and SDL's audio thread mixes from a snapshot    *)
(* and writes the phase back.  The samples themselves go to SpscRing.      *)
(*                                                                         *)
(* External: SDL may fail to open the device; it calls the callback, one   *)
(* call at a time, once the device is open.                                *)
(***************************************************************************)
EXTENDS Naturals, Sequences

CONSTANTS
  Threads,   \* threads of the sketch and of the mirror
  Tones,     \* frequencies, 0 for silence
  Duties,    \* duties, 0 for off
  MaxCalls   \* bound on the calls

ASSUME ToneAssumption == 0 \in Tones /\ 0 \in Duties /\ MaxCalls \in Nat

VARIABLES
  attempted,  \* g_init_attempted
  failed,     \* g_init_failed
  device,     \* g_dev is open
  inCall,     \* each thread: "no", "ensure", "open", "set"
  settings,   \* what its call has still to set
  chan,       \* g_channels[c]
  snap,       \* the callback's copy
  callback,   \* "no", "mix", "persist"
  calls,      \* calls so far
  asked       \* history: what was last asked for and not refused

toneVars == <<attempted, failed, device, inCall, settings, chan, snap, callback, calls, asked>>

Silent == [freq |-> 0, duty |-> 0, phase |-> 0]

InitTone ==
  /\ attempted = FALSE /\ failed = FALSE /\ device = FALSE
  /\ inCall = [t \in Threads |-> "no"] /\ settings = [t \in Threads |-> <<>>]
  /\ chan = Silent /\ snap = Silent /\ callback = "no"
  /\ calls = 0 /\ asked = Silent

Freq(f) == [of |-> "freq", to |-> f]
Duty(d) == [of |-> "duty", to |-> d]

\* ledcWriteTone() and ledcWriteNote(), ledcWrite(), ledcSetup(), which sets the duty in a
\* call of its own, and the mirror's audio stream, which only opens the device.
Calls ==
  {<<Freq(f)>> : f \in Tones} \cup {<<Duty(d)>> : d \in Duties}
    \cup {<<Freq(f), Duty(0)>> : f \in Tones} \cup {<<>>}

-----------------------------------------------------------------------------
(* A thread that calls                                                     *)

Enter(t) ==
  /\ inCall[t] = "no" /\ calls < MaxCalls
  /\ calls' = calls + 1
  /\ inCall' = [inCall EXCEPT ![t] = "ensure"]
  /\ \E c \in Calls : settings' = [settings EXCEPT ![t] = c]
  /\ UNCHANGED <<attempted, failed, device, chan, snap, callback, asked>>

\* ensure_audio_init(): the attempt is marked before the device is open.
Ensure(t) ==
  /\ inCall[t] = "ensure"
  /\ attempted' = TRUE
  /\ inCall' = [inCall EXCEPT ![t] = IF attempted THEN "set" ELSE "open"]
  /\ UNCHANGED <<failed, device, settings, chan, snap, callback, calls, asked>>

\* BOARDGHOST_SOUND=off and an error of SDL are the same to the rest.
OpenDevice(t) ==
  /\ inCall[t] = "open"
  /\ \/ device' = TRUE /\ UNCHANGED failed
     \/ failed' = TRUE /\ UNCHANGED device
  /\ inCall' = [inCall EXCEPT ![t] = "set"]
  /\ UNCHANGED <<attempted, settings, chan, snap, callback, calls, asked>>

Accepted == ~failed

Put(c, s) == [c EXCEPT ![s.of] = s.to]

\* boardghost_ledc_set_tone(), boardghost_ledc_set_duty(): one setting under g_mutex.
Set(t) ==
  /\ inCall[t] = "set" /\ settings[t] # <<>>
  /\ chan' = IF Accepted THEN Put(chan, Head(settings[t])) ELSE chan
  /\ asked' = IF failed THEN asked ELSE Put(asked, Head(settings[t]))
  /\ settings' = [settings EXCEPT ![t] = Tail(@)]
  /\ inCall' = [inCall EXCEPT ![t] = IF Len(settings[t]) > 1 THEN "ensure" ELSE "no"]
  /\ UNCHANGED <<attempted, failed, device, snap, callback, calls>>

OnlyEnsured(t) ==
  /\ inCall[t] = "set" /\ settings[t] = <<>>
  /\ inCall' = [inCall EXCEPT ![t] = "no"]
  /\ UNCHANGED <<attempted, failed, device, settings, chan, snap, callback, calls, asked>>

-----------------------------------------------------------------------------
(* audio_callback()                                                        *)

Snapshot ==
  /\ device /\ callback = "no"
  /\ snap' = chan /\ callback' = "mix"
  /\ UNCHANGED <<attempted, failed, device, inCall, settings, chan, calls, asked>>

Sounds(c) == c.freq > 0 /\ c.duty > 0

Mix ==
  /\ callback = "mix"
  /\ snap' = [snap EXCEPT !.phase = IF Sounds(snap) THEN 1 - @ ELSE @]
  /\ callback' = "persist"
  /\ UNCHANGED <<attempted, failed, device, inCall, settings, chan, calls, asked>>

\* Mutant of Persisted: the whole snapshot is written back.
Persisted_Whole == snap

Persisted == [chan EXCEPT !.phase = snap.phase]

Persist ==
  /\ callback = "persist"
  /\ chan' = Persisted /\ callback' = "no"
  /\ UNCHANGED <<attempted, failed, device, inCall, settings, snap, calls, asked>>

-----------------------------------------------------------------------------
NextTone ==
  \/ \E t \in Threads : Enter(t) \/ Ensure(t) \/ OpenDevice(t) \/ Set(t) \/ OnlyEnsured(t)
  \/ Snapshot \/ Mix \/ Persist

SpecTone == InitTone /\ [][NextTone]_toneVars

-----------------------------------------------------------------------------
(* Properties                                                              *)

Channels == [freq : Tones, duty : Duties, phase : {0, 1}]
ToneTypeOK ==
  /\ attempted \in BOOLEAN /\ failed \in BOOLEAN /\ device \in BOOLEAN
  /\ inCall \in [Threads -> {"no", "ensure", "open", "set"}]
  /\ settings \in [Threads -> Seq([of : {"freq"}, to : Tones] \cup [of : {"duty"}, to : Duties])]
  /\ chan \in Channels /\ snap \in Channels /\ asked \in Channels
  /\ callback \in {"no", "mix", "persist"} /\ calls \in 0 .. MaxCalls

\* The last frequency and the last duty asked for are what the channel has, also when they
\* are set while another thread is still opening the device, or while the callback mixes
\* from an older snapshot and writes its phase back; and nothing mixes on a device that
\* failed.
SettingsKept ==
  /\ ToneTypeOK
  /\ chan.freq = asked.freq /\ chan.duty = asked.duty
  /\ failed => callback = "no"
=============================================================================
