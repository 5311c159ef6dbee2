--------------------------- MODULE Project_proofs ----------------------------
(***************************************************************************)
(* A project and its launches: the image of its EEPROM, and its build.     *)
(***************************************************************************)
EXTENDS Project, SequenceTheorems, FiniteSetTheorems, WellFoundedInduction, TLAPS

------------------------------------------------------------------------------
(***************************************************************************)
(* ImageIsOwed for any sketches, sizes and bytes of their EEPROMs.         *)
(***************************************************************************)

\* A sketch that commits has an image, a copy has a source, and a file that was emptied to
\* be written anew exists.
Sources ==
  /\ \A s \in inCommit : ram[s] # NoImage
  /\ tool = "restore" \/ launch = "copy" => seed # NoImage
  /\ tool = "save" \/ BeingReplaced => live # NoImage

\* A launch that saw no file is alone with it.
LaunchAlone ==
  ~clash /\ launch \in {"seed", "copy"} =>
    /\ inCommit = {} /\ tool # "restore" /\ owed = NoImage
    /\ launch = "seed" => live = NoImage

ImageInv ==
  /\ EepromTypeOK /\ ram \in [Sketch -> {NoImage} \cup Image]
  /\ Sources /\ LaunchAlone /\ ImageIsOwed
  /\ launch # "idle" => At("idle")

-----------------------------------------------------------------------------
(* Images                                                                  *)

LEMMA LargestIs == Max(Sizes) \in Nat /\ \A n \in Sizes : n \in 0 .. Max(Sizes)
  <1>1. \E largest \in Sizes : \A n \in Sizes : largest >= n
    BY EepromAssumption
  <1>2. Max(Sizes) \in Sizes /\ \A n \in Sizes : Max(Sizes) >= n
    BY <1>1 DEF Max
  <1>3. PICK m : m = Max(Sizes)
    OBVIOUS
  <1>4. Sizes \subseteq Nat
    BY EepromAssumption
  <1>5. m \in Sizes /\ \A n \in Sizes : m >= n
    BY <1>2, <1>3
  <1>6. m \in Nat /\ \A n \in Sizes : n \in Nat /\ n <= m
    BY ONLY <1>4, <1>5
  <1> QED
    BY <1>3, <1>6

LEMMA ImageIs ==
  ASSUME NEW image \in Image
  PROVE  image \in Seq(Byte) /\ image \in Stored /\ image # NoImage
  <1>1. PICK n \in Sizes : image \in [1 .. n -> Byte]
    BY DEF Image
  <1>2. n \in 0 .. Max(Sizes)
    BY LargestIs
  <1>3. image \in Seq(Byte)
    BY <1>1, EepromAssumption
  <1> QED
    BY <1>1, <1>2, <1>3, EepromAssumption DEF Stored

\* What a full disk or a kill leaves of a file is a file.
LEMMA PartIs ==
  ASSUME NEW image \in Stored \ {NoImage}, NEW part \in Parts(image)
  PROVE  part \in Stored /\ part # NoImage
  <1>0. PICK n \in 0 .. Len(image) : part = SubSeq(image, 1, n)
    BY DEF Parts
  <1>1. PICK size \in 0 .. Max(Sizes) : image \in [1 .. size -> Byte]
    BY DEF Stored
  <1>2. size \in 0 .. Max(Sizes) /\ Max(Sizes) \in Nat
    BY LargestIs
  <1>3. image \in Seq(Byte) /\ Len(image) = size
    BY <1>1, EepromAssumption
  <1>4. PICK c : c = SubSeq(image, 1, n)
    OBVIOUS
  <1>5. c \in Seq(Byte) /\ Len(c) = n
    <2>1. \A i \in 1 .. n : image[i] \in Byte
      BY <1>2, <1>3
    <2> QED
      BY <1>2, <1>3, <1>4, <2>1, SubSeqProperties
  <1>6. c \in [1 .. n -> Byte] /\ n \in 0 .. Max(Sizes)
    BY <1>2, <1>3, <1>5
  <1> QED
    BY <1>0, <1>4, <1>5, <1>6, EepromAssumption DEF Stored

LEMMA EmptyIs == <<>> \in Stored /\ <<>> # NoImage
  <1>1. <<>> \in Seq(Byte) /\ <<>> \in [1 .. 0 -> Byte] /\ 0 \in 0 .. Max(Sizes)
    BY LargestIs
  <1> QED
    BY <1>1, EepromAssumption DEF Stored

LEMMA FitIs ==
  ASSUME NEW file \in Stored, NEW size \in Sizes
  PROVE  Fit(file, size) \in Image
  <1>1. size \in Nat /\ 0 \in Byte
    BY EepromAssumption
  <1>2. \A i \in 1 .. size : file # NoImage /\ i <= Len(file) => file[i] \in Byte
    <2> SUFFICES ASSUME NEW i \in 1 .. size, file # NoImage, i <= Len(file) PROVE file[i] \in Byte
      OBVIOUS
    <2>1. PICK n \in 0 .. Max(Sizes) : file \in [1 .. n -> Byte]
      BY DEF Stored
    <2>2. Len(file) = n /\ n \in Nat
      BY <2>1, LargestIs
    <2> QED
      BY <2>1, <2>2
  <1>3. Fit(file, size) \in [1 .. size -> Byte]
    BY <1>1, <1>2 DEF Fit
  <1> QED
    BY <1>3 DEF Image

LEMMA WriteIs ==
  ASSUME NEW image \in Image, NEW i \in DOMAIN image, NEW v \in Byte
  PROVE  [image EXCEPT ![i] = v] \in Image
  <1>1. PICK size \in Sizes : image \in [1 .. size -> Byte]
    BY DEF Image
  <1>2. [image EXCEPT ![i] = v] \in [1 .. size -> Byte]
    BY <1>1
  <1> QED
    BY <1>2 DEF Image

-----------------------------------------------------------------------------
(* The EEPROM                                                              *)

LEMMA ImageInit == Init => ImageInv
  <1> SUFFICES ASSUME Init PROVE ImageInv
    OBVIOUS
  <1>1. /\ live = NoImage /\ seed \in {NoImage} \cup [1..Max(Sizes) -> Byte \ {0}]
        /\ up = {} /\ inCommit = {}
        /\ ram = [s \in Sketch |-> NoImage]
        /\ tool = "idle" /\ launch = "idle"
        /\ meant = ram /\ owed = live /\ seedOwed = seed
        /\ clash = FALSE
    BY DEF Init, InitEeprom
  <1>2. seed \in Stored
    <2>1. CASE seed \in [1..Max(Sizes) -> Byte \ {0}]
      <3>1. seed \in [1..Max(Sizes) -> Byte] /\ Max(Sizes) \in 0 .. Max(Sizes)
        BY <2>1, LargestIs
      <3> QED
        BY <3>1 DEF Stored
    <2> QED
      BY <1>1, <2>1 DEF Stored
  <1>3. ~BeingReplaced
    BY <1>1 DEF BeingReplaced
  <1>4. EepromTypeOK
    BY <1>1, <1>2 DEF EepromTypeOK, Stored
  <1> QED
    BY <1>1, <1>3, <1>4 DEF ImageInv, Sources, LaunchAlone, ImageIsOwed

LEMMA EepromTypeStep == ImageInv /\ EepromStep => EepromTypeOK' /\ ram' \in [Sketch -> {NoImage} \cup Image]
  <1> SUFFICES ASSUME ImageInv, EepromStep
               PROVE  EepromTypeOK' /\ ram' \in [Sketch -> {NoImage} \cup Image]
    OBVIOUS
  <1>1. /\ live \in Stored /\ seed \in Stored /\ up \subseteq Sketch /\ inCommit \subseteq up
        /\ \A s \in Sketch : ram[s] # NoImage => s \in up
        /\ tool \in {"idle", "save", "restore"} /\ launch \in {"idle", "check", "seed", "copy", "exec"}
        /\ ram \in [Sketch -> {NoImage} \cup Image]
        /\ \A s \in inCommit : ram[s] # NoImage
    BY DEF ImageInv, EepromTypeOK, Sources
  <1>2. clash \in BOOLEAN
    BY DEF ImageInv, EepromTypeOK
  <1>3. <<>> \in Stored
    BY EmptyIs
  <1>10. /\ tool = "restore" \/ launch = "copy" => seed # NoImage
         /\ tool = "save" => live # NoImage
    BY DEF ImageInv, Sources
  <1> DEFINE Places == /\ live' \in Stored /\ seed' \in Stored
                       /\ up' \subseteq Sketch /\ inCommit' \subseteq up'
                       /\ \A s \in Sketch : ram'[s] # NoImage => s \in up'
                       /\ ram' \in [Sketch -> {NoImage} \cup Image]
             Stops == tool' \in {"idle", "save", "restore"}
                      /\ launch' \in {"idle", "check", "seed", "copy", "exec"}
             Flag == clash' \in BOOLEAN
  <1>4. Flag
    BY <1>2, Zenon DEF EepromStep, Begin, Write, CommitOpens, CommitCannotOpen, CommitWrites, Ends, SaveOpens, SaveCopies,
      RestoreOpens, RestoreCopies, ToolDies, CheckLive, CheckSeed, SeedCopied, LaunchDies, Exec, files, history
  <1>5. Stops
    BY <1>1 DEF EepromStep, Begin, Write, CommitOpens, CommitCannotOpen, CommitWrites, Ends, SaveOpens, SaveCopies,
      RestoreOpens, RestoreCopies, ToolDies, CheckLive, CheckSeed, SeedCopied, LaunchDies, Exec, files, history
  <1>6. Places
    <2>1. ASSUME NEW s \in Sketch, Begin(s) PROVE Places
      <3>1. PICK size \in Sizes : ram' = [ram EXCEPT ![s] = Fit(live, size)]
        BY <2>1 DEF Begin
      <3>2. s \in up /\ UNCHANGED <<live, seed, up, inCommit>>
        BY <2>1 DEF Begin, files
      <3>3. Fit(live, size) \in Image
        BY <1>1, FitIs
      <3> QED
        BY <1>1, <3>1, <3>2, <3>3
    <2>2. ASSUME NEW s \in Sketch, Write(s) PROVE Places
      <3>1. PICK i \in DOMAIN ram[s], v \in Byte : ram' = [ram EXCEPT ![s][i] = v]
        BY <2>2 DEF Write
      <3>2. /\ s \in up /\ ram[s] \in Image /\ UNCHANGED <<live, seed, up, inCommit>>
        BY <1>1, <2>2 DEF Write, files
      <3>3. [ram[s] EXCEPT ![i] = v] \in Image
        BY <3>2, WriteIs
      <3> QED
        BY <1>1, <3>1, <3>2, <3>3
    <2>3. ASSUME NEW s \in Sketch, CommitOpens(s) PROVE Places
      <3>1. live' = <<>> /\ s \in up /\ inCommit' = inCommit \cup {s} /\ UNCHANGED <<seed, up, ram>>
        BY <2>3 DEF CommitOpens
      <3> QED
        BY <1>1, <1>3, <3>1
    <2>4. ASSUME NEW s \in Sketch, CommitWrites(s) PROVE Places
      <3>1. /\ s \in inCommit /\ live' \in Parts(ram[s]) /\ inCommit' = inCommit \ {s}
            /\ UNCHANGED <<seed, up>>
            /\ ram' = ram \/ ram' = [ram EXCEPT ![s] = NoImage]
        BY <2>4 DEF CommitWrites
      <3>2. live' \in Stored
        BY <1>1, <3>1, ImageIs, PartIs
      <3> QED
        BY <1>1, <3>1, <3>2
    <2>5. ASSUME NEW s \in Sketch, Ends(s) PROVE Places
      <3>1. /\ live' \in IF s \in inCommit THEN Parts(ram[s]) ELSE {live}
            /\ up' = up \ {s} /\ inCommit' = inCommit \ {s} /\ ram' = [ram EXCEPT ![s] = NoImage]
            /\ UNCHANGED seed
        BY <2>5 DEF Ends
      <3>2. live' \in Stored
        <4>1. CASE s \in inCommit
          <5>1. live' \in Parts(ram[s]) /\ ram[s] \in Image
            BY <1>1, <3>1, <4>1
          <5> QED
            BY <5>1, ImageIs, PartIs
        <4> QED
          BY <1>1, <3>1, <4>1
      <3> QED
        BY <1>1, <3>1, <3>2
    <2>6. CASE SaveOpens \/ SaveCopies \/ RestoreOpens \/ RestoreCopies
      BY <1>1, <1>3, <2>6 DEF SaveOpens, SaveCopies, RestoreOpens, RestoreCopies, files
    <2>7. CASE CheckLive \/ CheckSeed \/ SeedCopied \/ Exec
      <3>1. /\ live' \in {live, <<>>, seed} /\ UNCHANGED <<seed, ram, inCommit>>
            /\ up \subseteq up' /\ up' \subseteq Sketch
        BY <1>1, <2>7 DEF CheckLive, CheckSeed, SeedCopied, Exec, files
      <3> QED
        BY <1>1, <1>3, <3>1
    <2>8. CASE ToolDies \/ LaunchDies
      <3>1. /\ UNCHANGED <<up, ram, inCommit>>
            /\ \/ UNCHANGED <<live, seed>>
               \/ seed # NoImage /\ live' \in Parts(seed) /\ seed' = seed
               \/ live # NoImage /\ seed' \in Parts(live) /\ live' = live
        BY <1>10, <2>8 DEF ToolDies, LaunchDies
      <3>2. live' \in Stored /\ seed' \in Stored
        BY <1>1, <3>1, PartIs
      <3> QED
        BY <1>1, <3>1, <3>2
    <2>9. ASSUME NEW s \in Sketch, CommitCannotOpen(s) PROVE Places
      <3>1. ram' = [ram EXCEPT ![s] = NoImage] /\ UNCHANGED <<live, seed, up, inCommit>>
        BY <2>9 DEF CommitCannotOpen, files
      <3> QED
        BY <1>1, <3>1
    <2> QED
      BY <2>1, <2>2, <2>3, <2>4, <2>5, <2>6, <2>7, <2>8, <2>9 DEF EepromStep
  <1>7. ram' \in [Sketch -> {NoImage} \cup Image]
    BY <1>6
  <1>8. \A s \in Sketch : ram'[s] \in {NoImage} \cup Image /\ (ram'[s] # NoImage => s \in up')
    BY <1>6
  <1>9. clash' \in BOOLEAN
    BY <1>4
  <1> QED
    BY <1>5, <1>6, <1>7, <1>8, <1>9 DEF EepromTypeOK

LEMMA SourcesStep == ImageInv /\ EepromStep => Sources'
  <1> SUFFICES ASSUME ImageInv, EepromStep PROVE Sources'
    OBVIOUS
  <1>1. /\ \A s \in inCommit : ram[s] # NoImage
        /\ tool = "restore" \/ launch = "copy" => seed # NoImage
        /\ tool = "save" => live # NoImage
        /\ inCommit # {} => live # NoImage
        /\ tool = "restore" => live # NoImage
        /\ launch = "copy" => live # NoImage
        /\ ram \in [Sketch -> {NoImage} \cup Image] /\ inCommit \subseteq Sketch
        /\ live \in Stored
    BY DEF ImageInv, EepromTypeOK, Sources, BeingReplaced
  <1>2. <<>> # NoImage /\ \A image \in Image : image # NoImage
    BY EmptyIs, ImageIs
  <1>13. \A s \in inCommit : \A part \in Parts(ram[s]) : part # NoImage
    <2>1. \A s \in inCommit : ram[s] \in Stored \ {NoImage}
      BY <1>1, ImageIs
    <2> QED
      BY <2>1, PartIs
  <1>14. live # NoImage => \A part \in Parts(live) : part # NoImage
    BY <1>1, PartIs
  <1>15. seed # NoImage => \A part \in Parts(seed) : part # NoImage
    BY PartIs DEF ImageInv, EepromTypeOK
  <1> DEFINE Goal == /\ \A s \in inCommit' : ram'[s] # NoImage
                     /\ tool' = "restore" \/ launch' = "copy" => seed' # NoImage
                     /\ tool' = "save" => live' # NoImage
                     /\ inCommit' # {} => live' # NoImage
                     /\ tool' = "restore" => live' # NoImage
                     /\ launch' = "copy" => live' # NoImage
  <1>3. Goal => Sources'
    BY DEF Sources, BeingReplaced
  <1>4. ASSUME NEW s \in Sketch, Begin(s) PROVE Goal
    <2>1. PICK size \in Sizes : ram' = [ram EXCEPT ![s] = Fit(live, size)]
      BY <1>4 DEF Begin
    <2>2. s \notin inCommit /\ UNCHANGED <<live, seed, inCommit, tool, launch>>
      BY <1>4 DEF Begin, files
    <2> QED
      BY <1>1, <2>1, <2>2
  <1>5. ASSUME NEW s \in Sketch, Write(s) PROVE Goal
    <2>1. PICK i \in DOMAIN ram[s], v \in Byte : ram' = [ram EXCEPT ![s][i] = v]
      BY <1>5 DEF Write
    <2>2. s \notin inCommit /\ UNCHANGED <<live, seed, inCommit, tool, launch>>
      BY <1>5 DEF Write, files
    <2> QED
      BY <1>1, <2>1, <2>2
  <1>6. ASSUME NEW s \in Sketch, CommitOpens(s) PROVE Goal
    <2>1. /\ live' = <<>> /\ inCommit' = inCommit \cup {s} /\ ram[s] # NoImage
          /\ UNCHANGED <<seed, ram, tool, launch>>
      BY <1>6 DEF CommitOpens
    <2> QED
      BY <1>1, <1>2, <2>1
  <1>7. ASSUME NEW s \in Sketch, CommitWrites(s) PROVE Goal
    <2>1. /\ s \in inCommit /\ live' \in Parts(ram[s]) /\ inCommit' = inCommit \ {s}
          /\ UNCHANGED <<seed, tool, launch>>
          /\ ram' = ram \/ ram' = [ram EXCEPT ![s] = NoImage]
      BY <1>7 DEF CommitWrites
    <2>2. live' # NoImage
      BY <1>13, <2>1
    <2> QED
      BY <1>1, <2>1, <2>2
  <1>8. ASSUME NEW s \in Sketch, Ends(s) PROVE Goal
    <2>1. /\ live' \in IF s \in inCommit THEN Parts(ram[s]) ELSE {live}
          /\ inCommit' = inCommit \ {s} /\ ram' = [ram EXCEPT ![s] = NoImage]
          /\ UNCHANGED <<seed, tool, launch>>
      BY <1>8 DEF Ends
    <2>2. live # NoImage => live' # NoImage
      BY <1>13, <2>1
    <2> QED
      BY <1>1, <2>1, <2>2
  <1>9. ASSUME SaveOpens \/ RestoreOpens PROVE Goal
    <2>1. /\ \/ live # NoImage /\ seed' = <<>> /\ tool' = "save" /\ live' = live
             \/ seed # NoImage /\ live' = <<>> /\ tool' = "restore" /\ seed' = seed
          /\ UNCHANGED <<ram, inCommit, launch>>
      BY <1>9 DEF SaveOpens, RestoreOpens
    <2> QED
      BY <1>1, <1>2, <2>1
  <1>10. ASSUME SaveCopies \/ RestoreCopies PROVE Goal
    <2>1. /\ \/ tool = "save" /\ seed' = live /\ live' = live
             \/ tool = "restore" /\ live' = seed /\ seed' = seed
          /\ tool' = "idle" /\ UNCHANGED <<ram, inCommit, launch>>
      BY <1>10 DEF SaveCopies, RestoreCopies
    <2> QED
      BY <1>1, <2>1
  <1>11. ASSUME CheckLive \/ Exec PROVE Goal
    <2>1. launch' # "copy" /\ UNCHANGED <<live, seed, ram, inCommit, tool>>
      BY <1>11 DEF CheckLive, Exec, files
    <2> QED
      BY <1>1, <2>1
  <1>12. ASSUME CheckSeed \/ SeedCopied PROVE Goal
    <2>1. /\ \/ launch' = "exec" /\ live' = live
             \/ seed # NoImage /\ launch' = "copy" /\ live' = <<>>
             \/ launch = "copy" /\ live' = seed /\ launch' = "exec"
          /\ UNCHANGED <<seed, ram, inCommit, tool>>
      BY <1>12 DEF CheckSeed, SeedCopied
    <2> QED
      BY <1>1, <1>2, <2>1
  <1>16. ASSUME ToolDies PROVE Goal
    <2>1. /\ \/ tool = "restore" /\ live' \in Parts(seed) /\ seed' = seed
             \/ tool = "save" /\ seed' \in Parts(live) /\ live' = live
          /\ tool' = "idle" /\ UNCHANGED <<ram, inCommit, launch>>
      BY <1>16 DEF ToolDies
    <2>2. (seed # NoImage => seed' # NoImage) /\ (live # NoImage => live' # NoImage)
      BY <1>1, <1>14, <1>15, <2>1
    <2> QED
      BY <1>1, <2>1, <2>2
  <1>17. ASSUME LaunchDies PROVE Goal
    <2>1. /\ \/ launch = "copy" /\ live' \in Parts(seed)
             \/ live' = live
          /\ launch' = "idle" /\ UNCHANGED <<seed, ram, inCommit, tool>>
      BY <1>17 DEF LaunchDies
    <2>2. live # NoImage => live' # NoImage
      BY <1>1, <1>15, <2>1
    <2> QED
      BY <1>1, <2>1, <2>2
  <1>18. ASSUME NEW s \in Sketch, CommitCannotOpen(s) PROVE Goal
    <2>1. /\ s \notin inCommit /\ ram' = [ram EXCEPT ![s] = NoImage]
          /\ UNCHANGED <<live, seed, inCommit, tool, launch>>
      BY <1>18 DEF CommitCannotOpen, files
    <2> QED
      BY <1>1, <2>1
  <1> QED
    BY <1>3, <1>4, <1>5, <1>6, <1>7, <1>8, <1>9, <1>10, <1>11, <1>12, <1>16, <1>17, <1>18
       DEF EepromStep

\* What a step without a clash was done in spite of.
LEMMA NoClash ==
  ASSUME EepromStep, ~clash'
  PROVE  /\ ~clash
         /\ \A s \in Sketch : Begin(s) => ~BeingReplaced
         /\ \A s \in Sketch : CommitOpens(s) => ~LiveBusy
         /\ SaveCopies => ~BeingReplaced
         /\ RestoreOpens => ~LiveBusy
         /\ CheckSeed => inCommit = {} /\ tool = "idle"
         /\ SeedCopied => ~SeedBusy
  <1>1. ASSUME NEW s \in Sketch, Begin(s) PROVE ~BeingReplaced /\ ~clash
    <2>1. clash' = (clash \/ BeingReplaced)
      BY <1>1 DEF Begin
    <2> QED
      BY <2>1, Zenon
  <1>2. ASSUME NEW s \in Sketch, CommitOpens(s) PROVE ~LiveBusy /\ ~clash
    <2>1. clash' = (clash \/ LiveBusy)
      BY <1>2 DEF CommitOpens
    <2> QED
      BY <2>1, Zenon
  <1>3. ASSUME NEW s \in Sketch,
               Write(s) \/ CommitCannotOpen(s) \/ CommitWrites(s) \/ Ends(s)
        PROVE  ~clash
    <2>1. clash' = clash
      BY <1>3 DEF Write, CommitCannotOpen, CommitWrites, Ends
    <2> QED
      BY <2>1, Zenon
  <1>4. ASSUME SaveCopies PROVE ~BeingReplaced /\ ~clash
    <2>1. clash' = (clash \/ BeingReplaced)
      BY <1>4 DEF SaveCopies
    <2> QED
      BY <2>1, Zenon
  <1>5. ASSUME RestoreOpens PROVE ~LiveBusy /\ ~clash
    <2>1. clash' = (clash \/ LiveBusy)
      BY <1>5 DEF RestoreOpens
    <2> QED
      BY <2>1, Zenon
  <1>6. ASSUME CheckSeed PROVE inCommit = {} /\ tool = "idle" /\ ~clash
    <2>1. clash' = (clash \/ inCommit # {} \/ tool # "idle")
      BY <1>6 DEF CheckSeed
    <2> QED
      BY <2>1, Zenon
  <1>7. ASSUME SeedCopied PROVE ~SeedBusy /\ ~clash
    <2>1. clash' = (clash \/ SeedBusy)
      BY <1>7 DEF SeedCopied
    <2> QED
      BY <2>1, Zenon
  <1>8. ASSUME \/ SaveOpens \/ RestoreCopies \/ ToolDies \/ CheckLive \/ LaunchDies \/ Exec
        PROVE ~clash
    <2>1. clash' = clash
      BY <1>8 DEF SaveOpens, RestoreCopies, ToolDies, CheckLive, LaunchDies, Exec
    <2> QED
      BY <2>1, Zenon
  <1>9. ~clash
    BY <1>1, <1>2, <1>3, <1>4, <1>5, <1>6, <1>7, <1>8, Zenon DEF EepromStep
  <1>10. \A s \in Sketch : (Begin(s) => ~BeingReplaced) /\ (CommitOpens(s) => ~LiveBusy)
    BY <1>1, <1>2
  <1>11. /\ SaveCopies => ~BeingReplaced
         /\ RestoreOpens => ~LiveBusy
         /\ CheckSeed => inCommit = {} /\ tool = "idle"
         /\ SeedCopied => ~SeedBusy
    BY <1>4, <1>5, <1>6, <1>7
  <1> QED
    BY <1>9, <1>10, <1>11, Zenon

LEMMA OwedStep == ImageInv /\ EepromStep => LaunchAlone' /\ ImageIsOwed'
  <1> DEFINE Alone == launch \in {"seed", "copy"} =>
                        /\ inCommit = {} /\ tool # "restore" /\ owed = NoImage
                        /\ launch = "seed" => live = NoImage
             Owed == /\ inCommit = {} /\ tool # "restore" /\ launch # "copy" => live = owed
                     /\ tool # "save" => seed = seedOwed
                     /\ ram = meant
             Alone_ == launch' \in {"seed", "copy"} =>
                        /\ inCommit' = {} /\ tool' # "restore" /\ owed' = NoImage
                        /\ launch' = "seed" => live' = NoImage
             Owed_ == /\ inCommit' = {} /\ tool' # "restore" /\ launch' # "copy" => live' = owed'
                      /\ tool' # "save" => seed' = seedOwed'
                      /\ ram' = meant'
             Goal == Alone_ /\ Owed_
  <1>1. (~clash' => Goal) => LaunchAlone' /\ ImageIsOwed'
    BY Zenon DEF LaunchAlone, ImageIsOwed, BeingReplaced, SeedBusy
  <1> SUFFICES ASSUME ImageInv, EepromStep, ~clash' PROVE Goal
    BY <1>1, Zenon
  <1>2. /\ ~clash
        /\ \A s \in Sketch : Begin(s) => ~BeingReplaced
        /\ \A s \in Sketch : CommitOpens(s) => ~LiveBusy
        /\ SaveCopies => ~BeingReplaced
        /\ RestoreOpens => ~LiveBusy
        /\ CheckSeed => inCommit = {} /\ tool = "idle"
        /\ SeedCopied => ~SeedBusy
    BY NoClash
  <1>3. Alone /\ Owed
    <2>1. ~clash
      BY <1>2
    <2>2. LaunchAlone /\ ImageIsOwed
      BY DEF ImageInv
    <2> QED
      BY <2>1, <2>2, Zenon DEF LaunchAlone, ImageIsOwed, BeingReplaced, SeedBusy
  <1>4. /\ tool = "save" \/ inCommit # {} \/ tool = "restore" \/ launch = "copy" => live # NoImage
        /\ tool \in {"idle", "save", "restore"}
    BY DEF ImageInv, Sources, BeingReplaced, EepromTypeOK
  <1>5. ASSUME NEW s \in Sketch, Begin(s) PROVE Goal
    <2>1. PICK size \in Sizes : /\ ram' = [ram EXCEPT ![s] = Fit(live, size)]
                                /\ meant' = [meant EXCEPT ![s] = Fit(owed, size)]
      BY <1>5 DEF Begin
    <2>2. UNCHANGED <<live, seed, inCommit, tool, launch, owed, seedOwed>>
      BY <1>5 DEF Begin, files
    <2>3. live = owed
      BY <1>2, <1>3, <1>5 DEF BeingReplaced
    <2> QED
      BY <1>3, <2>1, <2>2, <2>3
  <1>6. ASSUME NEW s \in Sketch, Write(s) PROVE Goal
    <2>1. PICK i \in DOMAIN ram[s], v \in Byte :
             ram' = [ram EXCEPT ![s][i] = v] /\ meant' = [meant EXCEPT ![s][i] = v]
      BY <1>6 DEF Write
    <2>2. UNCHANGED <<live, seed, inCommit, tool, launch, owed, seedOwed>>
      BY <1>6 DEF Write, files
    <2> QED
      BY <1>3, <2>1, <2>2
  <1>7. ASSUME NEW s \in Sketch, CommitOpens(s) PROVE Goal
    <2>1. inCommit' = inCommit \cup {s} /\ UNCHANGED <<seed, ram, tool, launch, meant, owed, seedOwed>>
      BY <1>7 DEF CommitOpens, history
    <2>2. launch \notin {"seed", "copy"}
      BY <1>2, <1>7 DEF LiveBusy, BeingReplaced
    <2> QED
      BY <1>3, <2>1, <2>2
  <1>8. ASSUME NEW s \in Sketch, CommitWrites(s) PROVE Goal
    <2>1. /\ s \in inCommit /\ owed' = IF live' = ram[s] THEN meant[s] ELSE live'
          /\ UNCHANGED <<seed, tool, launch, seedOwed>>
          /\ \/ ram' = ram /\ meant' = meant
             \/ ram' = [ram EXCEPT ![s] = NoImage] /\ meant' = [meant EXCEPT ![s] = NoImage]
      BY <1>8 DEF CommitWrites
    <2> QED
      BY <1>3, <2>1
  <1>9. ASSUME NEW s \in Sketch, Ends(s) PROVE Goal
    <2>1. /\ s \notin inCommit => live' = live /\ owed' = owed
          /\ s \in inCommit => owed' = live'
          /\ inCommit' = inCommit \ {s}
          /\ ram' = [ram EXCEPT ![s] = NoImage] /\ meant' = [meant EXCEPT ![s] = NoImage]
          /\ UNCHANGED <<seed, tool, launch, seedOwed>>
      BY <1>9 DEF Ends
    <2>2. s \notin inCommit => inCommit' = inCommit
      BY <2>1
    <2> QED
      BY <1>3, <2>1, <2>2
  <1>10. CASE SaveOpens
    BY <1>3, <1>10 DEF SaveOpens, history
  <1>11. CASE SaveCopies
    <2>1. /\ tool = "save" /\ seed' = live /\ seedOwed' = owed /\ tool' = "idle"
          /\ UNCHANGED <<live, ram, inCommit, launch, meant, owed>>
      BY <1>11 DEF SaveCopies
    <2>2. live = owed
      BY <1>2, <1>3, <1>11 DEF BeingReplaced
    <2> QED
      BY <1>3, <2>1, <2>2
  <1>12. CASE RestoreOpens
    <2>1. /\ tool = "idle" /\ tool' = "restore" /\ UNCHANGED <<seed, ram, inCommit, launch, meant, owed, seedOwed>>
      BY <1>12 DEF RestoreOpens, history
    <2>2. launch \notin {"seed", "copy"}
      BY <1>2, <1>12 DEF LiveBusy, BeingReplaced
    <2> QED
      BY <1>3, <2>1, <2>2
  <1>13. CASE RestoreCopies
    BY <1>3, <1>13 DEF RestoreCopies
  <1>14. CASE ToolDies
    BY <1>3, <1>4, <1>14 DEF ToolDies
  <1>15. CASE CheckLive
    <2>1. /\ launch = "check" /\ launch' = IF live # NoImage THEN "exec" ELSE "seed"
          /\ UNCHANGED <<live, seed, ram, inCommit, tool, meant, owed, seedOwed>>
      BY <1>15 DEF CheckLive, LiveExists, files, history
    <2> QED
      BY <1>3, <1>4, <2>1
  <1>16. CASE CheckSeed
    <2>1. /\ launch = "seed"
          /\ \/ launch' = "exec" /\ live' = live
             \/ launch' = "copy" /\ live' = <<>>
          /\ UNCHANGED <<seed, ram, inCommit, tool, meant, owed, seedOwed>>
      BY <1>16 DEF CheckSeed, history
    <2>2. inCommit = {} /\ tool = "idle"
      BY <1>2, <1>16
    <2> QED
      BY <1>3, <2>1, <2>2
  <1>17. CASE SeedCopied
    <2>1. /\ launch = "copy" /\ live' = seed /\ owed' = IF owed = NoImage THEN seedOwed ELSE owed
          /\ launch' = "exec" /\ UNCHANGED <<seed, ram, inCommit, tool, meant, seedOwed>>
      BY <1>17 DEF SeedCopied
    <2>2. tool # "save"
      BY <1>2, <1>17 DEF SeedBusy
    <2> QED
      BY <1>3, <2>1, <2>2
  <1>18. CASE LaunchDies
    BY <1>3, <1>18 DEF LaunchDies
  <1>20. ASSUME NEW s \in Sketch, CommitCannotOpen(s) PROVE Goal
    <2>1. /\ ram' = [ram EXCEPT ![s] = NoImage] /\ meant' = [meant EXCEPT ![s] = NoImage]
          /\ UNCHANGED <<live, seed, inCommit, tool, launch, owed, seedOwed>>
      BY <1>20 DEF CommitCannotOpen, files
    <2> QED
      BY <1>3, <2>1
  <1>19. CASE Exec
    BY <1>3, <1>19 DEF Exec, files, history
  <1> QED
    BY <1>5, <1>6, <1>7, <1>8, <1>9, <1>10, <1>11, <1>12, <1>13, <1>14, <1>15, <1>16, <1>17, <1>18,
      <1>19, <1>20 DEF EepromStep

-----------------------------------------------------------------------------
(* The other steps of the project                                          *)

LEMMA LaunchStep ==
  ASSUME ImageInv, Launch
  PROVE  ImageInv'
  <1>1. /\ launch' = "check" /\ b' = Idle
        /\ UNCHANGED <<live, seed, up, ram, inCommit, tool, meant, owed, seedOwed, clash>>
    BY DEF Launch, files, history
  <1>2. launch = "idle"
    BY DEF Launch, ImageInv, At
  <1>3. (BeingReplaced' <=> BeingReplaced) /\ (SeedBusy' <=> SeedBusy)
    BY <1>1, <1>2 DEF BeingReplaced, SeedBusy
  <1>4. EepromTypeOK' /\ ram' \in [Sketch -> {NoImage} \cup Image]
    <2>1. EepromTypeOK /\ ram \in [Sketch -> {NoImage} \cup Image]
      BY DEF ImageInv
    <2> QED
      BY <1>1, <2>1 DEF EepromTypeOK
  <1>5. Sources'
    BY <1>1, <1>3 DEF ImageInv, Sources
  <1>6. LaunchAlone'
    BY <1>1 DEF LaunchAlone
  <1>7. ImageIsOwed'
    <2>1. ImageIsOwed
      BY DEF ImageInv
    <2> QED
      BY <1>1, <1>3, <2>1, Zenon DEF ImageIsOwed
  <1>8. At("idle")'
    BY <1>1 DEF At, Idle
  <1> QED
    BY <1>4, <1>5, <1>6, <1>7, <1>8 DEF ImageInv

\* What a build, its user, and a sketch that uses its files leave alone.
LEMMA Aside ==
  ASSUME ImageInv, UNCHANGED eepromVars, launch = "idle" \/ b' = b
  PROVE  ImageInv'
  <1>1. /\ UNCHANGED <<live, seed, up, ram, inCommit, tool, launch, meant, owed, seedOwed>>
        /\ clash' = clash
    BY DEF eepromVars
  <1>2. (BeingReplaced' <=> BeingReplaced) /\ (SeedBusy' <=> SeedBusy)
    BY <1>1 DEF BeingReplaced, SeedBusy
  <1>3. EepromTypeOK' /\ ram' \in [Sketch -> {NoImage} \cup Image]
    <2>1. EepromTypeOK /\ ram \in [Sketch -> {NoImage} \cup Image]
      BY DEF ImageInv
    <2> QED
      BY <1>1, <2>1 DEF EepromTypeOK
  <1>4. Sources'
    BY <1>1, <1>2 DEF ImageInv, Sources
  <1>5. LaunchAlone'
    <2>1. LaunchAlone
      BY DEF ImageInv
    <2> QED
      BY <1>1, <2>1, Zenon DEF LaunchAlone
  <1>6. ImageIsOwed'
    <2>1. ImageIsOwed
      BY DEF ImageInv
    <2> QED
      BY <1>1, <1>2, <2>1, Zenon DEF ImageIsOwed
  <1>7. launch' # "idle" => At("idle")'
    <2>1. launch # "idle" => At("idle")
      BY DEF ImageInv
    <2> QED
      BY <1>1, <2>1 DEF At
  <1> QED
    BY <1>3, <1>4, <1>5, <1>6, <1>7 DEF ImageInv

LEMMA StagesAreBusy == Stage \/ Abort \/ Done => ~At("idle")
  <1>1. \A m \in Mounts : WipeMount(m) \/ CopyMount(m) => ~At("idle")
    <2>1. \A m \in Mounts : m # "idle" /\ Wiping(m) # "idle"
      BY DEF Mounts, Wiping
    <2> QED
      BY <2>1 DEF WipeMount, CopyMount, At
  <1>2. Discover \/ Codemod \/ ClearMirror \/ CopyMirror \/ MirrorData => ~At("idle")
    BY DEF Discover, Codemod, ClearMirror, CopyMirror, MirrorData, At
  <1>3. Scan \/ Resolve \/ Preprocess \/ Collect \/ Codegen \/ Compile => ~At("idle")
    BY DEF Scan, Resolve, Preprocess, Collect, Codegen, Compile, At
  <1>4. Abort \/ Done => ~At("idle")
    BY DEF Abort, Done, Stages, At
  <1> QED
    BY <1>1, <1>2, <1>3, <1>4 DEF Stage

LEMMA ImageStep == ImageInv /\ [Next]_vars => ImageInv'
  <1> SUFFICES ASSUME ImageInv, [Next]_vars PROVE ImageInv'
    OBVIOUS
  <1>1. CASE Command
    BY <1>1, Aside DEF Command
  <1>2. CASE Building
    <2>1. launch = "idle" /\ UNCHANGED eepromVars
      BY <1>2, StagesAreBusy DEF Building, ImageInv
    <2> QED
      BY <2>1, Aside
  <1>3. CASE Launch
    BY <1>3, LaunchStep
  <1>4. CASE Edit
    <2>1. UNCHANGED eepromVars /\ b' = b
      BY <1>4 DEF Edit, User, WriteFile, DeleteFile, ChangeData, ChangeLibraries, Edited
    <2> QED
      BY <2>1, Aside
  <1>5. CASE Persist
    <2>1. EepromStep /\ b' = b
      BY <1>5 DEF Persist, buildVars
    <2>2. launch # "idle" => At("idle")
      BY DEF ImageInv
    <2>3. launch' # "idle" => launch # "idle"
      BY <2>1 DEF EepromStep, Begin, Write, CommitOpens, CommitCannotOpen, CommitWrites, Ends, SaveOpens, SaveCopies,
        RestoreOpens, RestoreCopies, ToolDies, CheckLive, CheckSeed, SeedCopied, LaunchDies, Exec
    <2>4. launch' # "idle" => At("idle")'
      BY <2>1, <2>2, <2>3 DEF At
    <2> QED
      BY <2>1, <2>4, EepromTypeStep, SourcesStep, OwedStep DEF ImageInv
  <1>6. ASSUME NEW m \in Mounts, UseFiles(m) PROVE ImageInv'
    <2>1. UNCHANGED eepromVars /\ b' = b
      BY <1>6 DEF UseFiles, eepromVars, files, history
    <2> QED
      BY <2>1, Aside
  <1>7. CASE UNCHANGED vars
    <2>1. UNCHANGED eepromVars /\ b' = b
      BY <1>7 DEF vars, buildVars
    <2> QED
      BY <2>1, Aside
  <1> QED
    BY <1>1, <1>2, <1>3, <1>4, <1>5, <1>6, <1>7 DEF Next

\* The EEPROM file holds what was last put there, a launch does not replace it, and each
\* sketch's memory is that image and its own writes since, as long as no two processes work
\* on a file at once: for any sketches, sizes and bytes (sim_eeprom.cpp, eeprom_seed.rs).
THEOREM ProjectImageIsOwed == Spec => []ImageIsOwed
  <1>1. ImageInv => ImageIsOwed
    BY DEF ImageInv
  <1> QED
    BY <1>1, ImageInit, ImageStep, PTL DEF Spec

------------------------------------------------------------------------------
(***************************************************************************)
(* ProjectInv, BinaryIsCurrent and SketchUntouched for any source files,   *)
(* headers, libraries and assets.                                          *)
(*                                                                         *)
(* That the executable is what the sketch holds now is decided stage by    *)
(* stage: each stage leaves, in the tree it works on or in the local       *)
(* variables of run_build, what the user's files ask of it, and no stage   *)
(* changes a file of the user's that a later one reads.                    *)
(***************************************************************************)

Locals == [pc : Stages \cup {"idle", "built"}, cmd : {"none", "build", "run"}, dir : Dirs,
           tree : {"user", "root", "sub"}, report : {None} \cup (Paths \X Contents),
           headers : SUBSET Headers, libs : SUBSET LibNames, sources : SUBSET Paths]

BuildTypes ==
  /\ DOMAIN disk \subseteq Paths /\ \A p \in DOMAIN disk : disk[p] \in Contents
  /\ data \in [Dirs -> {None} \cup SUBSET Assets] /\ installed \in Lists
  /\ mounts \in [Mounts -> {None} \cup SUBSET (Assets \cup {Own})]
  /\ b \in Locals

\* A build works in place, or in the mirror of its directory; it has a report then.
Trees ==
  /\ b.tree \in {"user", b.dir}
  /\ b.report = None <=> b.tree = "user"
  /\ b.pc \in {"clear", "copy"} => b.tree = b.dir
  /\ b.pc \in {"idle", "discover", "codemod"} => b.tree = "user"
  /\ b.pc = "built" => binary # None

Ino == <<"user", b.dir, "ino">>

Chosen ==
  b.pc \notin {"idle", "discover"} => b.dir = SketchDir /\ Ino \in DOMAIN disk

Reported ==
  b.pc \notin {"idle", "discover", "codemod"} =>
    b.report = IF Setup(b.dir) # None /\ Parses(disk[Setup(b.dir)])
               THEN <<Setup(b.dir), SimWrapper(disk[Setup(b.dir)])>> ELSE None

Emptied ==
  b.pc = "copy" => \A d \in Below(b.dir), n \in Names : <<b.tree, d, n>> \notin DOMAIN disk

\* What the tree of the build should hold at the place of a file of the user's.
Seen(p) == IF b.report # None /\ b.report[1] = p THEN b.report[2] ELSE disk[p]

Copied ==
  b.pc \in Stages \ {"discover", "codemod", "clear", "copy"} =>
    \A d \in Below(b.dir), n \in Names \ {"pp"} :
      /\ <<b.tree, d, n>> \in DOMAIN disk <=> <<"user", d, n>> \in DOMAIN disk
      /\ <<"user", d, n>> \in DOMAIN disk => disk[<<b.tree, d, n>>] = Seen(<<"user", d, n>>)

Scanned ==
  b.pc \in {"resolve", "preprocess", "collect", "codegen", "compile"} =>
    b.headers = {h \in Includes[disk[Ino][2]] : <<"user", b.dir, h>> \notin DOMAIN disk}

Resolved ==
  b.pc \in {"preprocess", "collect", "codegen", "compile"} =>
    b.libs = {installed[Provider(h)].name : h \in b.headers \ Given}

Preprocessed ==
  b.pc \in {"collect", "codegen", "compile"} =>
    /\ <<b.tree, b.dir, "pp">> \in DOMAIN disk
    /\ disk[<<b.tree, b.dir, "pp">>] = <<"pp", disk[Ino][2]>>

Siblings == {p \in Files(b.tree, b.dir) : p[3] = "src"}

Collected ==
  /\ b.pc = "codegen" => b.sources = Siblings
  /\ b.pc = "compile" => b.sources = Siblings \cup {<<b.tree, b.dir, "pp">>}

Mounted ==
  /\ b.pc \in {"wipe_spiffs", "spiffs", "wipe_littlefs", "littlefs"} => data[b.dir] # None
  /\ b.pc \in Mounts => mounts[b.pc] = {}
  /\ b.pc \in {"wipe_littlefs", "littlefs"} => mounts["spiffs"] = data[b.dir]
  /\ b.pc \in {"scan", "resolve", "preprocess", "collect", "codegen", "compile", "built"}
       /\ data[b.dir] # None => \A m \in Mounts : mounts[m] = data[b.dir]

Pipeline ==
  /\ Chosen /\ Reported /\ Emptied /\ Copied /\ Scanned /\ Resolved /\ Preprocessed
  /\ Collected /\ Mounted
  /\ At("built") => binary = Wanted

BuildTyped ==
  /\ BuildTypes /\ Trees
  /\ disturbed \in BOOLEAN
  /\ edits \in 0 .. MaxEdits /\ left \in 0 .. MaxEvents
  /\ launch # "idle" => binary # None

BuildIInv == BuildTyped /\ (~disturbed => Pipeline)

-----------------------------------------------------------------------------
(* Files and directories                                                   *)

LEMMA SameSetup == UNCHANGED disk => \A d : Setup(d)' = Setup(d)
  BY DEF Setup, SetupsIn, Files

LEMMA SameProvider == UNCHANGED installed => \A h : Provider(h)' = Provider(h)
  BY DEF Provider, SelectInSeq

LEMMA SameWanted == UNCHANGED <<disk, installed>> => Wanted' = Wanted
  BY DEF Wanted, SketchDir, Setup, SetupsIn, Files, Parses, SimWrapper, Provider, SelectInSeq

LEMMA BelowIs ==
  ASSUME NEW d \in Dirs
  PROVE  /\ Below(d) \subseteq Dirs /\ d \in Below(d)
         /\ d = "sub" => Below(d) = {"sub"}
         /\ d = "root" => Below(d) = Dirs
  BY DEF Below, Dirs

LEMMA PathIs ==
  ASSUME NEW p \in Paths
  PROVE  /\ p = <<p[1], p[2], p[3]>> /\ p[1] \in {"user", "root", "sub"}
         /\ p[2] \in Dirs /\ p[3] \in Names /\ p # None
         /\ p[1] = "sub" => p[2] = "sub"
  <1>1. CASE p \in {"user", "root"} \X Dirs \X Names
    BY <1>1, BuildAssumption DEF Dirs
  <1>2. CASE p \in {"sub"} \X {"sub"} \X Names
    BY <1>2, BuildAssumption DEF Dirs
  <1> QED
    BY <1>1, <1>2 DEF Paths

\* The paths of a tree: the user's, or the mirror of a directory.
LEMMA PathsOf ==
  ASSUME NEW d \in Dirs, NEW t \in {"user", d}, NEW e \in Below(d), NEW n \in Names
  PROVE  <<t, e, n>> \in Paths
  <1>1. e \in Dirs
    BY BelowIs
  <1>2. CASE t \in {"user", "root"}
    <2>1. <<t, e, n>> \in {"user", "root"} \X Dirs \X Names
      BY <1>1, <1>2
    <2> QED
      BY <2>1 DEF Paths
  <1>3. CASE t = "sub"
    <2>1. d = "sub"
      BY <1>3
    <2>2. e = "sub"
      BY <2>1, BelowIs
    <2>3. <<t, e, n>> \in {"sub"} \X {"sub"} \X Names
      BY <1>3, <2>2
    <2> QED
      BY <2>3 DEF Paths
  <1>4. d \in {"root", "sub"}
    BY DEF Dirs
  <1> QED
    BY <1>2, <1>3, <1>4

LEMMA FilesAre ==
  ASSUME BuildTypes, NEW d \in Dirs, NEW t
  PROVE  /\ \A p \in Files(t, d) : /\ p \in DOMAIN disk /\ p \in Paths /\ p = <<t, p[2], p[3]>>
                                   /\ p[1] = t /\ p[2] \in Below(d) /\ p[3] \in Names
         /\ \A e \in Below(d) : \A n : <<t, e, n>> \in DOMAIN disk => <<t, e, n>> \in Files(t, d)
  <1>1. \A p \in Files(t, d) : p \in DOMAIN disk /\ p \in Paths /\ p[1] = t /\ p[2] \in Below(d)
    BY DEF BuildTypes, Files
  <1>2. \A p \in Files(t, d) : p = <<t, p[2], p[3]>> /\ p[3] \in Names
    BY <1>1, PathIs
  <1>3. \A e \in Below(d) : \A n : <<t, e, n>> \in DOMAIN disk => <<t, e, n>> \in Files(t, d)
    BY DEF Files
  <1> QED
    BY <1>1, <1>2, <1>3

LEMMA SetupIs ==
  ASSUME BuildTypes, NEW d \in Dirs
  PROVE  \/ Setup(d) = None
         \/ Setup(d) \in Files("user", d) /\ Setup(d)[3] = "setup"
  <1> PICK found : found = SetupsIn(d)
    OBVIOUS
  <1>1. \A p \in found : p \in Files("user", d) /\ p[3] = "setup"
    BY DEF SetupsIn
  <1>2. \A p \in found : p = <<"user", p[2], "setup">> /\ p[2] \in {"root", "sub"}
    BY <1>1, FilesAre, BelowIs DEF Dirs
  <1>3. \E p \in found \cup {None} :
           IF found = {} THEN p = None ELSE p \in found /\ (p[2] = "sub" => Cardinality(found) = 1)
    <2>1. CASE found = {}
      BY <2>1
    <2>2. CASE \E p \in found : p[2] = "root"
      BY <2>2
    <2>3. CASE found # {} /\ \A p \in found : p[2] = "sub"
      <3>1. found = {<<"user", "sub", "setup">>}
        BY <1>2, <2>3
      <3>2. Cardinality(found) = 1
        BY <3>1, FS_Singleton
      <3> QED
        BY <2>3, <3>2
    <2> QED
      BY <1>2, <2>1, <2>2, <2>3
  <1>4. Setup(d) = CHOOSE p \in found \cup {None} :
           IF found = {} THEN p = None ELSE p \in found /\ (p[2] = "sub" => Cardinality(found) = 1)
    BY DEF Setup
  <1>5. Setup(d) \in found \cup {None}
    BY <1>3, <1>4
  <1> QED
    BY <1>1, <1>5

\* The user's files, less what the preprocessor put beside them.
UserKept ==
  \A p \in Paths : p[1] = "user" /\ p[3] # "pp" =>
    /\ p \in DOMAIN disk' <=> p \in DOMAIN disk
    /\ p \in DOMAIN disk => disk'[p] = disk[p]

LEMMA UserAt ==
  ASSUME UserKept, NEW d \in Dirs, NEW n \in Names \ {"pp"}
  PROVE  /\ <<"user", d, n>> \in DOMAIN disk' <=> <<"user", d, n>> \in DOMAIN disk
         /\ <<"user", d, n>> \in DOMAIN disk => disk'[<<"user", d, n>>] = disk[<<"user", d, n>>]
  <1>1. PICK p : p = <<"user", d, n>>
    OBVIOUS
  <1>2. p \in Paths /\ p[1] = "user" /\ p[3] # "pp"
    BY <1>1 DEF Paths
  <1> QED
    BY <1>1, <1>2 DEF UserKept

LEMMA SetupKept ==
  ASSUME BuildTypes, BuildTypes', UserKept, NEW d \in Dirs
  PROVE  Setup(d)' = Setup(d)
  <1>1. Files("user", d)' = {p \in DOMAIN disk' : p[1] = "user" /\ p[2] \in Below(d)}
    BY DEF Files
  <1>2. SetupsIn(d)' = {p \in DOMAIN disk' : /\ p[1] = "user" /\ p[2] \in Below(d) /\ p[3] = "setup"
                                            /\ disk'[p][1] \in {"hw", "odd"}}
    BY <1>1 DEF SetupsIn
  <1>3. SetupsIn(d) = {p \in DOMAIN disk : /\ p[1] = "user" /\ p[2] \in Below(d) /\ p[3] = "setup"
                                          /\ disk[p][1] \in {"hw", "odd"}}
    BY DEF SetupsIn, Files
  <1>4. \A p : p[1] = "user" /\ p[3] = "setup" =>
               /\ p \in DOMAIN disk' <=> p \in DOMAIN disk
               /\ p \in DOMAIN disk => disk'[p] = disk[p]
    <2>1. DOMAIN disk \subseteq Paths /\ DOMAIN disk' \subseteq Paths
      BY DEF BuildTypes
    <2> QED
      BY <2>1 DEF UserKept
  <1>5. SetupsIn(d)' = SetupsIn(d)
    BY <1>2, <1>3, <1>4
  <1> PICK found : found = SetupsIn(d)
    OBVIOUS
  <1>6. Setup(d) = CHOOSE p \in found \cup {None} :
           IF found = {} THEN p = None ELSE p \in found /\ (p[2] = "sub" => Cardinality(found) = 1)
    BY DEF Setup
  <1>7. Setup(d)' = CHOOSE p \in found \cup {None} :
           IF found = {} THEN p = None ELSE p \in found /\ (p[2] = "sub" => Cardinality(found) = 1)
    BY <1>5 DEF Setup
  <1> QED
    BY <1>6, <1>7

-----------------------------------------------------------------------------
(* Types and trees                                                         *)

LEMMA BuildInit == Init => BuildIInv
  <1> SUFFICES ASSUME Init PROVE BuildIInv
    OBVIOUS
  <1> USE DEF Init, InitBuild
  <1>1. b.pc = "idle" /\ b.tree = "user" /\ b.report = None /\ disturbed = FALSE
    BY DEF Idle
  <1>2. launch = "idle"
    BY DEF InitEeprom
  <1>3. BuildTypes
    <2>1. DOMAIN disk \subseteq Paths /\ \A p \in DOMAIN disk : disk[p] \in Contents
      <3>1. \A d \in Dirs : /\ DOMAIN Plain(d) = {<<"user", d, "ino">>}
                            /\ \A p \in DOMAIN Plain(d) : Plain(d)[p] = <<"raw", 1>>
        BY DEF Plain
      <3>2. \A d \in Dirs, n \in Names : <<"user", d, n>> \in Paths
        BY DEF Paths
      <3>3. <<"raw", 1>> \in Contents /\ <<"hw", 1>> \in Contents
        BY BuildAssumption DEF Contents
      <3> DEFINE Good(f) == DOMAIN f \subseteq Paths /\ \A p \in DOMAIN f : f[p] \in Contents
      <3>5. \A f, p, c : Good(f) /\ p \in Paths /\ c \in Contents => Good(With(f, p, c))
        <4> TAKE f, p, c
        <4> HAVE Good(f) /\ p \in Paths /\ c \in Contents
        <4>1. PICK g : g = With(f, p, c)
          OBVIOUS
        <4>2. DOMAIN g = DOMAIN f \cup {p} /\ \A q \in DOMAIN f \cup {p} : g[q] = IF q = p THEN c ELSE f[q]
          BY ONLY <4>1 DEF With
        <4>3. DOMAIN g \subseteq Paths
          BY <4>2
        <4>4. \A q \in DOMAIN g : g[q] \in Contents
          BY <4>2
        <4>5. Good(g)
          BY ONLY <4>3, <4>4
        <4> QED
          BY ONLY <4>1, <4>5
      <3>6. "root" \in Dirs /\ "sub" \in Dirs /\ "ino" \in Names /\ "setup" \in Names /\ "src" \in Names
        BY DEF Dirs, Names
      <3>7. \A d \in Dirs : Good(Plain(d))
        <4> TAKE d \in Dirs
        <4>1. PICK g : g = Plain(d)
          OBVIOUS
        <4>2. <<"user", d, "ino">> \in Paths
          BY <3>2, <3>6
        <4> QED
          BY ONLY <4>1, <4>2, <3>1, <3>3, d \in Dirs
      <3> HIDE DEF Good
      <3>8. \A d \in Dirs : Good(Full(d))
        <4> TAKE d \in Dirs
        <4>1. Good(With(Plain(d), <<"user", d, "setup">>, <<"hw", 1>>))
          BY <3>2, <3>3, <3>5, <3>6, <3>7
        <4> QED
          BY <4>1, <3>2, <3>3, <3>5, <3>6 DEF Full
      <3>9. Good(With(Full("sub"), <<"user", "root", "ino">>, <<"raw", 1>>))
        BY <3>8, <3>2, <3>3, <3>5, <3>6
      <3>10. Good(disk)
        BY <3>6, <3>7, <3>8, <3>9
      <3> QED
        BY <3>10 DEF Good
    <2>2. data \in [Dirs -> {None} \cup SUBSET Assets]
      OBVIOUS
    <2>3. mounts \in [Mounts -> {None} \cup SUBSET (Assets \cup {Own})]
      OBVIOUS
    <2>4. b \in Locals
      BY DEF Idle, Dirs, Locals
    <2> QED
      BY <2>1, <2>2, <2>3, <2>4 DEF BuildTypes
  <1>4. Trees
    BY <1>1 DEF Trees
  <1>5. Pipeline
    BY <1>1 DEF Pipeline, Chosen, Reported, Emptied, Copied, Scanned, Resolved, Preprocessed,
                Collected, Mounted, Stages, Mounts, At
  <1>6. edits \in 0 .. MaxEdits /\ left \in 0 .. MaxEvents
    BY BuildAssumption, ProjectAssumption
  <1> QED
    BY ONLY <1>1, <1>2, <1>3, <1>4, <1>5, <1>6 DEF BuildIInv, BuildTyped

LEMMA Fields ==
  ASSUME BuildTypes
  PROVE  /\ b.pc \in Stages \cup {"idle", "built"} /\ b.cmd \in {"none", "build", "run"}
         /\ b.dir \in Dirs /\ b.tree \in {"user", "root", "sub"}
         /\ b.report \in {None} \cup (Paths \X Contents)
         /\ b.headers \subseteq Headers /\ b.libs \subseteq LibNames /\ b.sources \subseteq Paths
  BY DEF BuildTypes, Locals

LEMMA IdleIs ==
  /\ Idle \in Locals /\ Idle.pc = "idle" /\ Idle.tree = "user" /\ Idle.report = None
  BY DEF Idle, Locals, Dirs

LEMMA Parted == \A f, gone : /\ DOMAIN Without(f, gone) = DOMAIN f \ gone
                             /\ \A p \in DOMAIN f \ gone : Without(f, gone)[p] = f[p]
  BY DEF Without

LEMMA Joined == \A f, p, c : /\ DOMAIN With(f, p, c) = DOMAIN f \cup {p}
                             /\ \A q \in DOMAIN f \cup {p} : With(f, p, c)[q] = IF q = p THEN c ELSE f[q]
  BY DEF With

\* What a stage that only moves on, or gives up, leaves of the types.
LEMMA MovesOn ==
  ASSUME BuildTypes, Trees, UNCHANGED <<disk, data, installed, mounts>>, binary' # None \/ b'.pc # "built",
         \/ b' = Idle
         \/ \E pc \in Stages \cup {"built"} :
              /\ Goto(pc) /\ pc \notin {"discover", "codemod"}
              /\ pc \in {"clear", "copy"} => b.tree = b.dir
  PROVE  BuildTypes' /\ Trees'
  <1>1. CASE b' = Idle
    BY <1>1, IdleIs DEF BuildTypes, Trees
  <1>2. ASSUME NEW pc \in Stages \cup {"built"}, Goto(pc), pc \notin {"discover", "codemod"},
               pc \in {"clear", "copy"} => b.tree = b.dir
        PROVE BuildTypes' /\ Trees'
    <2>0. pc # "idle"
      BY DEF Stages
    <2>1. b' = [b EXCEPT !.pc = pc] /\ b \in Locals
      BY <1>2 DEF Goto, BuildTypes
    <2>2. b' \in Locals /\ b'.pc = pc /\ b'.tree = b.tree /\ b'.dir = b.dir /\ b'.report = b.report
      BY ONLY <2>1, pc \in Stages \cup {"built"} DEF Locals
    <2> QED
      BY <1>2, <2>0, <2>2 DEF BuildTypes, Trees
  <1> QED
    BY <1>1, <1>2

LEMMA DiscoverTypes == BuildTypes /\ Trees /\ Discover => BuildTypes' /\ Trees'
  <1> SUFFICES ASSUME BuildTypes, Trees, Discover PROVE BuildTypes' /\ Trees'
    OBVIOUS
  <1>1. PICK d \in Dirs : b' = [b EXCEPT !.pc = "codemod", !.dir = d]
    BY DEF Discover
  <1>2. b.pc = "discover" /\ b \in Locals
    BY DEF Discover, At, BuildTypes
  <1>3. b' \in Locals /\ b'.pc = "codemod" /\ b'.tree = b.tree /\ b'.report = b.report
    BY ONLY <1>1, <1>2 DEF Locals, Stages
  <1>4. UNCHANGED <<disk, data, installed, mounts>>
    BY DEF Discover
  <1> QED
    BY <1>2, <1>3, <1>4 DEF BuildTypes, Trees

LEMMA CodemodTypes == BuildTypes /\ Trees /\ Codemod => BuildTypes' /\ Trees'
  <1> SUFFICES ASSUME BuildTypes, Trees, Codemod PROVE BuildTypes' /\ Trees'
    OBVIOUS
  <1> PICK p : p = Setup(b.dir)
    OBVIOUS
  <1>1. b.pc = "codemod" /\ b \in Locals /\ b.dir \in Dirs /\ UNCHANGED <<disk, data, installed, mounts>>
    BY DEF Codemod, At, BuildTypes, Locals
  <1>2. \/ p # None /\ b' = [b EXCEPT !.pc = "clear", !.tree = b.dir, !.report = <<p, SimWrapper(disk[p])>>]
        \/ b' = [b EXCEPT !.pc = "data"]
    BY DEF Codemod
  <1>3. CASE p # None /\ b' = [b EXCEPT !.pc = "clear", !.tree = b.dir, !.report = <<p, SimWrapper(disk[p])>>]
    <2>1. p \in DOMAIN disk /\ p \in Paths
      BY <1>1, <1>3, SetupIs, FilesAre
    <2>2. disk[p] \in Contents
      BY <2>1 DEF BuildTypes
    <2>3. PICK w : w = SimWrapper(disk[p])
      OBVIOUS
    <2>4. w \in Contents
      BY <2>2, <2>3 DEF SimWrapper, Contents
    <2>5. <<p, w>> \in Paths \X Contents
      BY <2>1, <2>4
    <2>6. b' = [b EXCEPT !.pc = "clear", !.tree = b.dir, !.report = <<p, w>>]
      BY <1>3, <2>3
    <2>7. /\ b'.pc = "clear" /\ b'.tree = b.dir /\ b'.dir = b.dir /\ b'.report = <<p, w>>
          /\ b' \in Locals
      BY ONLY <1>1, <2>5, <2>6 DEF Locals, Stages, Dirs
    <2>8. b'.report # None /\ b'.tree # "user"
      BY <1>1, <2>5, <2>7, BuildAssumption DEF Dirs
    <2> QED
      BY <1>1, <2>7, <2>8 DEF BuildTypes, Trees
  <1>4. CASE b' = [b EXCEPT !.pc = "data"]
    <2>1. /\ b'.pc = "data" /\ b'.tree = b.tree /\ b'.dir = b.dir /\ b'.report = b.report
          /\ b' \in Locals
      BY ONLY <1>1, <1>4 DEF Locals, Stages
    <2> QED
      BY <1>1, <2>1 DEF BuildTypes, Trees
  <1> QED
    BY <1>2, <1>3, <1>4

LEMMA LocalsMove ==
  ASSUME BuildTypes, Trees, \/ b' = Idle
                            \/ \E pc \in Stages \cup {"built"} :
                                 /\ Goto(pc) /\ pc \notin {"discover", "codemod", "clear", "built"}
                                 /\ pc = "copy" => b.tree = b.dir
  PROVE  b' \in Locals /\ Trees'
  <1>1. CASE b' = Idle
    BY <1>1, IdleIs DEF Trees
  <1>2. ASSUME NEW pc \in Stages \cup {"built"}, Goto(pc), pc \notin {"discover", "codemod", "clear", "built"},
               pc = "copy" => b.tree = b.dir
        PROVE b' \in Locals /\ Trees'
    <2>0. pc # "idle"
      BY DEF Stages
    <2>1. b' = [b EXCEPT !.pc = pc] /\ b \in Locals
      BY <1>2 DEF Goto, BuildTypes
    <2>2. b' \in Locals /\ b'.pc = pc /\ b'.tree = b.tree /\ b'.dir = b.dir /\ b'.report = b.report
      BY ONLY <2>1, pc \in Stages \cup {"built"} DEF Locals
    <2> QED
      BY <1>2, <2>0, <2>2 DEF Trees
  <1> QED
    BY <1>1, <1>2

LEMMA ClearTypes == BuildTypes /\ Trees /\ ClearMirror => BuildTypes' /\ Trees'
  <1> SUFFICES ASSUME BuildTypes, Trees, ClearMirror PROVE BuildTypes' /\ Trees'
    OBVIOUS
  <1>1. PICK gone : disk' = Without(disk, gone) /\ (Goto("copy") \/ b' = Idle)
    BY DEF ClearMirror
  <1>2. DOMAIN disk' = DOMAIN disk \ gone /\ \A p \in DOMAIN disk' : disk'[p] = disk[p]
    <2>1. PICK f : f = Without(disk, gone)
      OBVIOUS
    <2>2. DOMAIN f = DOMAIN disk \ gone /\ \A p \in DOMAIN disk \ gone : f[p] = disk[p]
      BY ONLY <2>1 DEF Without
    <2> QED
      BY ONLY <1>1, <2>1, <2>2
  <1>3. b.pc = "clear" /\ UNCHANGED <<data, installed, mounts>>
    BY DEF ClearMirror, At
  <1>4. "copy" \in Stages /\ b.tree = b.dir
    BY <1>3 DEF Stages, Trees
  <1>5. b' \in Locals /\ Trees'
    BY <1>1, <1>4, LocalsMove
  <1>6. DOMAIN disk' \subseteq Paths /\ \A p \in DOMAIN disk' : disk'[p] \in Contents
    BY <1>2 DEF BuildTypes
  <1> QED
    BY <1>3, <1>5, <1>6 DEF BuildTypes

LEMMA CopyTypes == BuildTypes /\ Trees /\ CopyMirror => BuildTypes' /\ Trees'
  <1> SUFFICES ASSUME BuildTypes, Trees, CopyMirror PROVE BuildTypes' /\ Trees'
    OBVIOUS
  <1>1. PICK copied \in AllOrSome(Files("user", b.dir)) :
          /\ disk' = [q \in DOMAIN disk \cup {<<b.tree, p[2], p[3]>> : p \in copied} |->
                        IF q \in {<<b.tree, p[2], p[3]>> : p \in copied}
                        THEN Mirrored(<<"user", q[2], q[3]>>) ELSE disk[q]]
          /\ Goto("data") \/ b' = Idle
    BY DEF CopyMirror
  <1>2. b.pc = "copy" /\ UNCHANGED <<data, installed, mounts>>
    BY DEF CopyMirror, At
  <1>3. "data" \in Stages /\ b.tree = b.dir /\ b.dir \in Dirs
    BY <1>2, Fields DEF Stages, Trees
  <1>4. b' \in Locals /\ Trees'
    BY <1>1, <1>3, LocalsMove
  <1>5. copied \subseteq Files("user", b.dir)
    BY DEF AllOrSome
  <1>6. \A p \in copied : /\ p \in DOMAIN disk /\ p = <<"user", p[2], p[3]>>
                          /\ p[2] \in Below(b.dir) /\ p[3] \in Names
    BY <1>3, <1>5, FilesAre
  <1>7. \A p \in copied : <<b.tree, p[2], p[3]>> \in Paths
    BY <1>3, <1>6, PathsOf
  <1>8. b.report # None /\ b.report \in Paths \X Contents
    BY <1>3, Fields DEF Trees, Dirs
  <1>9. \A p \in DOMAIN disk : Mirrored(p) \in Contents
    BY <1>8 DEF Mirrored, BuildTypes
  <1>10. PICK mirror : mirror = {<<b.tree, p[2], p[3]>> : p \in copied}
    OBVIOUS
  <1>11. \A q \in mirror : Mirrored(<<"user", q[2], q[3]>>) \in Contents
    <2> SUFFICES ASSUME NEW q \in mirror PROVE Mirrored(<<"user", q[2], q[3]>>) \in Contents
      OBVIOUS
    <2>1. PICK p \in copied : q = <<b.tree, p[2], p[3]>>
      BY <1>10
    <2>2. <<"user", q[2], q[3]>> = p
      BY <1>6, <2>1
    <2> QED
      BY <1>6, <1>9, <2>2
  <1>12. DOMAIN disk' = DOMAIN disk \cup mirror
    BY <1>1, <1>10
  <1>13. \A q \in DOMAIN disk' : disk'[q] \in Contents
    BY <1>1, <1>10, <1>11 DEF BuildTypes
  <1>14. DOMAIN disk' \subseteq Paths
    BY <1>7, <1>10, <1>12 DEF BuildTypes
  <1> QED
    BY <1>2, <1>4, <1>13, <1>14 DEF BuildTypes

LEMMA MoveTypes ==
  BuildTypes /\ Trees /\ (MirrorData \/ Abort \/ Done) => BuildTypes' /\ Trees'
  <1> SUFFICES ASSUME BuildTypes, Trees, MirrorData \/ Abort \/ Done PROVE BuildTypes' /\ Trees'
    OBVIOUS
  <1>1. CASE MirrorData
    <2>1. UNCHANGED <<disk, data, installed, mounts>> /\ (Goto("scan") \/ Goto("wipe_spiffs"))
      BY <1>1 DEF MirrorData
    <2>2. "scan" \in Stages /\ "wipe_spiffs" \in Stages
      BY DEF Stages
    <2>3. b'.pc # "built"
      BY <2>1, Fields DEF Goto, BuildTypes, Locals
    <2> QED
      BY <2>1, <2>2, <2>3, MovesOn
  <1>2. CASE Abort \/ Done
    <2>1. UNCHANGED <<disk, data, installed, mounts>> /\ b' = Idle
      BY <1>2 DEF Abort, Done
    <2>2. b'.pc # "built"
      BY <2>1, IdleIs
    <2> QED
      BY <2>1, <2>2, MovesOn
  <1> QED
    BY <1>1, <1>2

LEMMA MountTypes ==
  ASSUME NEW m \in Mounts, BuildTypes, Trees, WipeMount(m) \/ CopyMount(m)
  PROVE  BuildTypes' /\ Trees'
  <1>1. UNCHANGED <<disk, data, installed>>
    BY DEF WipeMount, CopyMount
  <1>2. \/ b' = Idle
        \/ \E pc \in Stages \cup {"built"} :
             /\ Goto(pc) /\ pc \notin {"discover", "codemod", "clear", "built"}
             /\ pc = "copy" => b.tree = b.dir
    <2>1. m \in Stages /\ m \notin {"discover", "codemod", "clear", "built", "copy"}
      BY DEF Mounts, Stages
    <2>2. "wipe_littlefs" \in Stages /\ "scan" \in Stages
      BY DEF Stages
    <2>3. b' = Idle \/ Goto(m) \/ Goto("wipe_littlefs") \/ Goto("scan")
      BY DEF WipeMount, CopyMount
    <2> QED
      BY <2>1, <2>2, <2>3
  <1>3. b' \in Locals /\ Trees'
    BY <1>2, LocalsMove
  <1>4. mounts' \in [Mounts -> {None} \cup SUBSET (Assets \cup {Own})]
    <2>1. mounts \in [Mounts -> {None} \cup SUBSET (Assets \cup {Own})]
      BY DEF BuildTypes
    <2>2. CASE WipeMount(m)
      BY <2>1, <2>2 DEF WipeMount
    <2>3. CASE CopyMount(m)
      <3>1. PICK copied \in AllOrSome(data[b.dir]) : mounts' = [mounts EXCEPT ![m] = @ \cup copied]
        BY <2>3 DEF CopyMount
      <3>2. data[b.dir] \in SUBSET Assets /\ mounts[m] \in SUBSET (Assets \cup {Own})
        BY <2>1, <2>3, Fields DEF CopyMount, BuildTypes
      <3>3. copied \subseteq data[b.dir]
        BY DEF AllOrSome
      <3>4. mounts[m] \cup copied \in SUBSET (Assets \cup {Own})
        BY <3>2, <3>3
      <3> QED
        BY <2>1, <3>1, <3>4
    <2> QED
      BY <2>2, <2>3
  <1> QED
    BY <1>1, <1>3, <1>4 DEF BuildTypes

LEMMA EntryIs ==
  ASSUME BuildTypes, Trees
  PROVE  Entry \in Paths /\ <<b.tree, b.dir, "pp">> \in Paths
  <1>1. b.dir \in Dirs /\ b.tree \in {"user", b.dir} /\ b.dir \in Below(b.dir)
    BY Fields, BelowIs DEF Trees
  <1>2. "ino" \in Names /\ "pp" \in Names
    BY DEF Names
  <1> QED
    BY <1>1, <1>2, PathsOf DEF Entry

LEMMA ScanTypes == BuildTypes /\ Trees /\ Scan => BuildTypes' /\ Trees'
  <1> SUFFICES ASSUME BuildTypes, Trees, Scan PROVE BuildTypes' /\ Trees'
    OBVIOUS
  <1>1. PICK hs : hs = {h \in Includes[disk[Entry][2]] : <<b.tree, b.dir, h>> \notin DOMAIN disk}
    OBVIOUS
  <1>2. b' = [b EXCEPT !.pc = "resolve", !.headers = hs] /\ UNCHANGED <<disk, data, installed, mounts>>
    BY <1>1 DEF Scan
  <1>3. disk[Entry] \in Contents
    BY DEF Scan, BuildTypes
  <1>4. disk[Entry][2] \in Version
    BY <1>3 DEF Contents
  <1>5. hs \subseteq Headers
    BY <1>1, <1>4 DEF Headers
  <1>6. b \in Locals
    BY DEF BuildTypes
  <1>7. /\ b' \in Locals /\ b'.pc = "resolve" /\ b'.tree = b.tree /\ b'.dir = b.dir
        /\ b'.report = b.report
    BY ONLY <1>2, <1>5, <1>6 DEF Locals, Stages
  <1> QED
    BY <1>2, <1>7 DEF BuildTypes, Trees

LEMMA LeastOf ==
  ASSUME NEW T \in SUBSET Nat, T # {}
  PROVE  \E x \in T : \A y \in T : x <= y
  <1>1. PICK x \in T : \A y \in T : ~(<<y, x>> \in OpToRel(<, Nat))
    BY NatLessThanWellFounded, WFMin, Zenon
  <1>2. \A y \in T : ~(y < x)
    BY <1>1 DEF OpToRel
  <1> QED
    BY <1>2

\* The index of the first library that has a header, or 0.
LEMMA ProviderIs ==
  ASSUME installed \in Lists, NEW h
  PROVE  /\ Provider(h) \in 0 .. Len(installed)
         /\ Provider(h) # 0 => h \in installed[Provider(h)].provides
  <1> PICK found : found = {i \in 1 .. Len(installed) : h \in installed[i].provides}
    OBVIOUS
  <1>1. Provider(h) = IF found = {} THEN 0 ELSE Min(found)
    BY DEF Provider, SelectInSeq
  <1>2. Len(installed) \in Nat
    BY BuildAssumption
  <1>3. ASSUME found # {} PROVE Min(found) \in found
    <2>1. found \subseteq Nat
      OBVIOUS
    <2>2. \E m \in found : \A i \in found : m <= i
      BY <1>3, <2>1, LeastOf
    <2> QED
      BY <2>2 DEF Min
  <1> QED
    BY <1>1, <1>2, <1>3

LEMMA ResolveTypes == BuildTypes /\ Trees /\ Resolve => BuildTypes' /\ Trees'
  <1> SUFFICES ASSUME BuildTypes, Trees, Resolve PROVE BuildTypes' /\ Trees'
    OBVIOUS
  <1>1. PICK ls : ls = {installed[Provider(h)].name : h \in b.headers \ Given}
    OBVIOUS
  <1>2. b' = [b EXCEPT !.pc = "preprocess", !.libs = ls] /\ UNCHANGED <<disk, data, installed, mounts>>
    BY <1>1 DEF Resolve
  <1>3. ls \subseteq LibNames
    <2> SUFFICES ASSUME NEW h \in b.headers \ Given PROVE installed[Provider(h)].name \in LibNames
      BY <1>1
    <2> PICK i : i = Provider(h)
      OBVIOUS
    <2>1. installed \in Lists /\ Len(installed) \in Nat
      BY BuildAssumption DEF BuildTypes
    <2>2. i \in 0 .. Len(installed) /\ i # 0
      BY <2>1, ProviderIs DEF Resolve
    <2>3. i \in 1 .. Len(installed)
      BY <2>1, <2>2
    <2> QED
      BY <2>1, <2>3 DEF LibNames
  <1>6. b \in Locals
    BY DEF BuildTypes
  <1>7. /\ b' \in Locals /\ b'.pc = "preprocess" /\ b'.tree = b.tree /\ b'.dir = b.dir
        /\ b'.report = b.report
    BY ONLY <1>2, <1>3, <1>6 DEF Locals, Stages
  <1> QED
    BY <1>2, <1>7 DEF BuildTypes, Trees

LEMMA PreprocessTypes == BuildTypes /\ Trees /\ Preprocess => BuildTypes' /\ Trees'
  <1> SUFFICES ASSUME BuildTypes, Trees, Preprocess PROVE BuildTypes' /\ Trees'
    OBVIOUS
  <1>1. PICK p : p = <<b.tree, b.dir, "pp">>
    OBVIOUS
  <1>2. PICK c : c = <<"pp", disk[Entry][2]>>
    OBVIOUS
  <1>3. disk' = With(disk, p, c) /\ Goto("collect") /\ UNCHANGED <<data, installed, mounts>>
    BY <1>1, <1>2 DEF Preprocess
  <1>4. disk[Entry] \in Contents
    BY DEF Preprocess, BuildTypes
  <1>5. p \in Paths /\ c \in Contents
    BY <1>1, <1>2, <1>4, EntryIs DEF Contents
  <1>6. DOMAIN disk' = DOMAIN disk \cup {p} /\ \A q \in DOMAIN disk' : disk'[q] = IF q = p THEN c ELSE disk[q]
    BY ONLY <1>3 DEF With
  <1>7. DOMAIN disk' \subseteq Paths /\ \A q \in DOMAIN disk' : disk'[q] \in Contents
    BY <1>5, <1>6 DEF BuildTypes
  <1>8. "collect" \in Stages
    BY DEF Stages
  <1>9. b' \in Locals /\ Trees'
    BY <1>3, <1>8, LocalsMove
  <1> QED
    BY <1>3, <1>7, <1>9 DEF BuildTypes

LEMMA CollectTypes == BuildTypes /\ Trees /\ (Collect \/ Codegen) => BuildTypes' /\ Trees'
  <1> SUFFICES ASSUME BuildTypes, Trees, Collect \/ Codegen PROVE BuildTypes' /\ Trees'
    OBVIOUS
  <1>1. \E pc \in {"codegen", "compile"}, s \in SUBSET Paths : b' = [b EXCEPT !.pc = pc, !.sources = s]
    <2>1. CASE Collect
      <3>1. PICK s : s = {p \in Files(b.tree, b.dir) : IsSibling(p)}
        OBVIOUS
      <3>2. s \in SUBSET Paths
        BY <3>1, Fields, FilesAre
      <3> QED
        BY <2>1, <3>1, <3>2 DEF Collect
    <2>2. CASE Codegen
      <3>1. PICK s : s = b.sources \cup {<<b.tree, b.dir, "pp">>}
        OBVIOUS
      <3>2. s \in SUBSET Paths
        BY <3>1, Fields, EntryIs
      <3>3. b' = [b EXCEPT !.pc = "compile", !.sources = s]
        BY <2>2, <3>1 DEF Codegen
      <3> QED
        BY <3>2, <3>3
    <2> QED
      BY <2>1, <2>2
  <1>2. PICK pc \in {"codegen", "compile"}, s \in SUBSET Paths : b' = [b EXCEPT !.pc = pc, !.sources = s]
    BY <1>1
  <1>3. b \in Locals
    BY DEF BuildTypes
  <1>4. /\ b' \in Locals /\ b'.pc = pc /\ b'.tree = b.tree /\ b'.dir = b.dir
        /\ b'.report = b.report
    BY ONLY <1>2, <1>3 DEF Locals, Stages
  <1>5. UNCHANGED <<disk, data, installed, mounts>>
    BY DEF Collect, Codegen
  <1> QED
    BY <1>2, <1>4, <1>5 DEF BuildTypes, Trees

\* Two sets of units or headers, and one of libraries: what there is to compile.
LEMMA CompiledIs ==
  ASSUME BuildTypes, Compile
  PROVE  binary' \in Binaries /\ binary' # None
  <1>1. PICK us : us = {Unit(p) : p \in b.sources}
    OBVIOUS
  <1>2. PICK hs : hs = {Unit(p) : p \in {q \in Files(b.tree, b.dir) : q[3] = "setup"}}
    OBVIOUS
  <1>3. \A p \in DOMAIN disk : Unit(p) \in Dirs \X Names \X Contents
    BY PathIs DEF Unit, BuildTypes
  <1>4. us \subseteq Dirs \X Names \X Contents
    BY <1>1, <1>3 DEF Compile
  <1>5. hs \subseteq Dirs \X Names \X Contents
    BY <1>2, <1>3, Fields, FilesAre
  <1>6. binary' = [units |-> us, headers |-> hs, libs |-> b.libs]
    BY <1>1, <1>2 DEF Compile
  <1>7. b.libs \subseteq LibNames
    BY Fields
  <1>8. binary' \in Binaries
    BY ONLY <1>4, <1>5, <1>6, <1>7 DEF Binaries
  <1> QED
    BY <1>8, BuildAssumption

LEMMA CompileTypes == BuildTypes /\ Trees /\ Compile => BuildTypes' /\ Trees'
  <1> SUFFICES ASSUME BuildTypes, Trees, Compile PROVE BuildTypes' /\ Trees'
    OBVIOUS
  <1>1. binary' # None
    BY CompiledIs
  <1>2. Goto("built") /\ UNCHANGED <<disk, data, installed, mounts>>
    BY DEF Compile
  <1> QED
    BY <1>1, <1>2, MovesOn DEF Stages

LEMMA StageTypes == BuildTypes /\ Trees /\ Building => BuildTypes' /\ Trees'
  <1> SUFFICES ASSUME BuildTypes, Trees, Building PROVE BuildTypes' /\ Trees'
    OBVIOUS
  <1>1. Stage \/ Abort \/ Done
    BY DEF Building
  <1> QED
    BY <1>1, DiscoverTypes, CodemodTypes, ClearTypes, CopyTypes, MoveTypes, MountTypes, ScanTypes,
       ResolveTypes, PreprocessTypes, CollectTypes, CompileTypes DEF Stage

LEMMA WrittenTypes ==
  ASSUME BuildTypes, Trees, User
  PROVE  BuildTypes' /\ Trees'
  <1>1. UNCHANGED <<mounts, binary, b>>
    BY DEF User, WriteFile, DeleteFile, ChangeData, ChangeLibraries, Edited
  <1>2. CASE WriteFile
    <2>0. PICK d \in Dirs, n \in Names \ {"pp"} :
            \E text \in Texts(n) : disk' = With(disk, <<"user", d, n>>, text)
      BY <1>2 DEF WriteFile
    <2>1. PICK text \in Texts(n) : disk' = With(disk, <<"user", d, n>>, text)
      BY <2>0
    <2>2. PICK p : p = <<"user", d, n>>
      OBVIOUS
    <2>3. p \in Paths /\ text \in Contents
      BY <2>2 DEF Paths, Texts, Contents
    <2>4. DOMAIN disk' = DOMAIN disk \cup {p} /\ \A q \in DOMAIN disk' : disk'[q] = IF q = p THEN text ELSE disk[q]
      BY ONLY <2>1, <2>2 DEF With
    <2>5. UNCHANGED <<data, installed>>
      BY <1>2 DEF WriteFile
    <2>6. DOMAIN disk' \subseteq Paths /\ \A q \in DOMAIN disk' : disk'[q] \in Contents
      BY <2>3, <2>4 DEF BuildTypes
    <2> QED
      BY <1>1, <2>5, <2>6 DEF BuildTypes, Trees
  <1>3. CASE DeleteFile
    <2>1. PICK p : disk' = Without(disk, {p})
      BY <1>3 DEF DeleteFile
    <2>2. DOMAIN disk' = DOMAIN disk \ {p} /\ \A q \in DOMAIN disk' : disk'[q] = disk[q]
      BY ONLY <2>1 DEF Without
    <2>3. UNCHANGED <<data, installed>>
      BY <1>3 DEF DeleteFile
    <2> QED
      BY <1>1, <2>2, <2>3 DEF BuildTypes, Trees
  <1>4. CASE ChangeData
    <2>1. PICK d \in Dirs, fs \in {None} \cup SUBSET Assets : data' = [data EXCEPT ![d] = fs]
      BY <1>4 DEF ChangeData
    <2>2. UNCHANGED <<disk, installed>>
      BY <1>4 DEF ChangeData
    <2> QED
      BY <1>1, <2>1, <2>2 DEF BuildTypes, Trees
  <1>5. CASE ChangeLibraries
    BY <1>1, <1>5 DEF ChangeLibraries, BuildTypes, Trees
  <1> QED
    BY <1>2, <1>3, <1>4, <1>5 DEF User

LEMMA UsedTypes ==
  ASSUME BuildTypes, Trees, NEW m \in Mounts, UseFiles(m)
  PROVE  BuildTypes' /\ Trees'
  <1>1. UNCHANGED <<disk, data, installed, binary, b>>
    BY DEF UseFiles
  <1>2. mounts \in [Mounts -> {None} \cup SUBSET (Assets \cup {Own})]
    BY DEF BuildTypes
  <1>3. \/ mounts' = [mounts EXCEPT ![m] = {}]
        \/ /\ mounts[m] # None
           /\ \E f \in Assets \cup {Own} :
                mounts' \in {[mounts EXCEPT ![m] = @ \cup {f}], [mounts EXCEPT ![m] = @ \ {f}]}
    BY DEF UseFiles
  <1>4. \E fs \in {None} \cup SUBSET (Assets \cup {Own}) : mounts' = [mounts EXCEPT ![m] = fs]
    <2>1. CASE mounts' = [mounts EXCEPT ![m] = {}]
      BY <2>1
    <2>2. ASSUME mounts[m] # None, NEW f \in Assets \cup {Own},
                 mounts' \in {[mounts EXCEPT ![m] = @ \cup {f}], [mounts EXCEPT ![m] = @ \ {f}]}
          PROVE \E fs \in {None} \cup SUBSET (Assets \cup {Own}) : mounts' = [mounts EXCEPT ![m] = fs]
      <3>1. mounts[m] \cup {f} \in SUBSET (Assets \cup {Own}) /\ mounts[m] \ {f} \in SUBSET (Assets \cup {Own})
        BY <1>2, <2>2
      <3> QED
        BY <2>2, <3>1
    <2> QED
      BY <1>3, <2>1, <2>2
  <1>5. mounts' \in [Mounts -> {None} \cup SUBSET (Assets \cup {Own})]
    BY <1>2, <1>4
  <1> QED
    BY <1>1, <1>5 DEF BuildTypes, Trees

\* Every step keeps the types; a launch is of an executable that exists.
LEMMA TypesStep == ImageInv /\ BuildTyped /\ [Next]_vars => BuildTyped'
  <1> SUFFICES ASSUME ImageInv, BuildTyped, [Next]_vars PROVE BuildTyped'
    OBVIOUS
  <1>0. BuildTypes /\ Trees
    BY DEF BuildTyped
  <1>1. CASE Command
    <2>1. PICK cmd \in {"build", "run"} : Start(cmd) /\ launch = "idle" /\ UNCHANGED eepromVars
      BY <1>1 DEF Command
    <2>2. b' = [Idle EXCEPT !.pc = "discover", !.cmd = cmd]
      BY <2>1 DEF Start
    <2>3. b' \in Locals /\ b'.pc = "discover" /\ b'.tree = "user" /\ b'.report = None
      BY ONLY <2>2, IdleIs DEF Locals, Stages
    <2>4. UNCHANGED <<disk, data, installed, mounts, edits>> /\ left' = left - 1 /\ left > 0
      BY <2>1 DEF Start, Spend
    <2>5. BuildTypes' /\ Trees'
      BY <1>0, <2>3, <2>4 DEF BuildTypes, Trees
    <2>6. edits' \in 0 .. MaxEdits /\ left' \in 0 .. MaxEvents
      BY <2>4, ProjectAssumption DEF BuildTyped
    <2>7. disturbed' \in BOOLEAN
      BY <2>1 DEF Start
    <2>8. launch' = "idle"
      BY <2>1 DEF eepromVars
    <2> QED
      BY ONLY <2>5, <2>6, <2>7, <2>8 DEF BuildTyped
  <1>2. CASE Building
    <2>1. BuildTypes' /\ Trees'
      BY <1>0, <1>2, StageTypes
    <2>2. UNCHANGED <<edits, left>>
      BY <1>2 DEF Building, Stage, Abort, Done, Discover, Codemod, ClearMirror, CopyMirror, MirrorData,
         WipeMount, CopyMount, Scan, Resolve, Preprocess, Collect, Codegen, Compile
    <2>3. disturbed' = disturbed
      BY <1>2 DEF Building, Stage, Abort, Done, Discover, Codemod, ClearMirror, CopyMirror, MirrorData,
         WipeMount, CopyMount, Scan, Resolve, Preprocess, Collect, Codegen, Compile
    <2>4. launch' = "idle"
      BY <1>2, StagesAreBusy DEF Building, ImageInv, eepromVars
    <2>5. disturbed' \in BOOLEAN
      BY <2>3 DEF BuildTyped
    <2>6. edits' \in 0 .. MaxEdits /\ left' \in 0 .. MaxEvents
      BY <2>2 DEF BuildTyped
    <2> QED
      BY ONLY <2>1, <2>4, <2>5, <2>6 DEF BuildTyped
  <1>3. CASE Launch
    <2>1. b' = Idle /\ UNCHANGED <<disk, data, installed, mounts, binary, edits, left>>
      BY <1>3 DEF Launch
    <2>2. disturbed' = disturbed
      BY <1>3 DEF Launch
    <2>3. BuildTypes' /\ Trees'
      BY <1>0, <2>1, IdleIs DEF BuildTypes, Trees
    <2>4. binary # None
      BY <1>0, <1>3 DEF Launch, At, Trees
    <2>5. edits' \in 0 .. MaxEdits /\ left' \in 0 .. MaxEvents
      BY <2>1 DEF BuildTyped
    <2>6. disturbed' \in BOOLEAN
      BY <2>2 DEF BuildTyped
    <2>7. binary' # None
      BY <2>1, <2>4
    <2> QED
      BY ONLY <2>3, <2>5, <2>6, <2>7 DEF BuildTyped
  <1>4. CASE Edit
    <2>1. BuildTypes' /\ Trees'
      BY <1>0, <1>4, WrittenTypes DEF Edit
    <2>2. edits' = edits - 1 /\ edits > 0 /\ left' = left - 1 /\ left > 0 /\ binary' = binary
      BY <1>4 DEF Edit, User, WriteFile, DeleteFile, ChangeData, ChangeLibraries, Edited, Spend
    <2>3. disturbed' = (disturbed \/ ~At("idle"))
      BY <1>4 DEF Edit, User, WriteFile, DeleteFile, ChangeData, ChangeLibraries, Edited
    <2>4. launch' = launch
      BY <1>4 DEF Edit, eepromVars
    <2>5. disturbed' \in BOOLEAN
      BY <2>3
    <2>6. edits' \in 0 .. MaxEdits /\ left' \in 0 .. MaxEvents
      BY <2>2, BuildAssumption, ProjectAssumption DEF BuildTyped
    <2>7. launch' # "idle" => binary' # None
      BY <2>2, <2>4 DEF BuildTyped
    <2> QED
      BY ONLY <2>1, <2>5, <2>6, <2>7 DEF BuildTyped
  <1>5. CASE Persist
    <2>1. UNCHANGED <<disk, data, installed, mounts, binary, b, edits>>
      BY <1>5 DEF Persist, buildVars
    <2>2. disturbed' = disturbed
      BY <1>5 DEF Persist, buildVars
    <2>3. BuildTypes' /\ Trees'
      BY <1>0, <2>1 DEF BuildTypes, Trees
    <2>4. left' = left \/ (left' = left - 1 /\ left > 0)
      BY <1>5 DEF Persist, EepromStep, Begin, Write, CommitOpens, CommitCannotOpen, CommitWrites, Ends, SaveOpens, SaveCopies,
         RestoreOpens, RestoreCopies, ToolDies, CheckLive, CheckSeed, SeedCopied, LaunchDies, Exec, Spend
    <2>5. launch' # "idle" => launch # "idle"
      BY <1>5 DEF Persist, EepromStep, Begin, Write, CommitOpens, CommitCannotOpen, CommitWrites, Ends, SaveOpens, SaveCopies,
         RestoreOpens, RestoreCopies, ToolDies, CheckLive, CheckSeed, SeedCopied, LaunchDies, Exec
    <2>6. edits' \in 0 .. MaxEdits /\ left' \in 0 .. MaxEvents
      BY <2>1, <2>4, ProjectAssumption DEF BuildTyped
    <2>7. launch' # "idle" => binary' # None
      BY <2>1, <2>5 DEF BuildTyped
    <2>8. disturbed' \in BOOLEAN
      BY <2>2 DEF BuildTyped
    <2> QED
      BY ONLY <2>3, <2>6, <2>7, <2>8 DEF BuildTyped
  <1>6. ASSUME NEW m \in Mounts, UseFiles(m) PROVE BuildTyped'
    <2>1. BuildTypes' /\ Trees'
      BY <1>0, <1>6, UsedTypes
    <2>2. binary' = binary /\ edits' = edits /\ left' = left - 1 /\ left > 0 /\ launch' = launch
      BY <1>6 DEF UseFiles, Spend
    <2>3. disturbed' = (disturbed \/ ~At("idle"))
      BY <1>6 DEF UseFiles
    <2>4. disturbed' \in BOOLEAN
      BY <2>3
    <2>5. edits' \in 0 .. MaxEdits /\ left' \in 0 .. MaxEvents
      BY <2>2, ProjectAssumption DEF BuildTyped
    <2>6. launch' # "idle" => binary' # None
      BY <2>2 DEF BuildTyped
    <2> QED
      BY ONLY <2>1, <2>4, <2>5, <2>6 DEF BuildTyped
  <1>7. CASE UNCHANGED vars
    <2>1. UNCHANGED <<disk, data, installed, mounts, binary, b, edits, left, launch>>
      BY <1>7 DEF vars, buildVars, eepromVars
    <2>2. disturbed' = disturbed
      BY <1>7 DEF vars, buildVars
    <2>3. BuildTypes' /\ Trees'
      BY <1>0, <2>1 DEF BuildTypes, Trees
    <2>4. disturbed' \in BOOLEAN
      BY <2>2 DEF BuildTyped
    <2>5. edits' \in 0 .. MaxEdits /\ left' \in 0 .. MaxEvents /\ (launch' # "idle" => binary' # None)
      BY <2>1 DEF BuildTyped
    <2> QED
      BY ONLY <2>3, <2>4, <2>5 DEF BuildTyped
  <1> QED
    BY <1>1, <1>2, <1>3, <1>4, <1>5, <1>6, <1>7 DEF Next

-----------------------------------------------------------------------------
(* The stages, in order                                                    *)

LEMMA AtRestNext == b'.pc \in {"idle", "discover"} => Pipeline'
  BY DEF Pipeline, Chosen, Reported, Emptied, Copied, Scanned, Resolved, Preprocessed,
         Collected, Mounted, Stages, Mounts, At

\* A stage that leaves the files alone: where the sketch is, and what its setup says.
LEMMA SameSketch ==
  ASSUME UNCHANGED disk, b'.dir = b.dir
  PROVE  /\ SketchDir' = SketchDir /\ Setup(b.dir)' = Setup(b.dir)
         /\ Ino' = Ino
  <1>1. SketchDir' = SketchDir
    BY DEF SketchDir
  <1>2. Setup(b.dir)' = Setup(b.dir)
    BY DEF Setup, SetupsIn, Files
  <1>3. Ino' = Ino
    BY DEF Ino
  <1> QED
    BY <1>1, <1>2, <1>3

LEMMA SameReport ==
  ASSUME UNCHANGED disk, b'.dir = b.dir, b'.report = b.report, Reported, b.pc \notin {"idle", "discover", "codemod"}
  PROVE  Reported'
  <1>1. Setup(b.dir)' = Setup(b.dir)
    BY SameSketch
  <1> QED
    BY <1>1 DEF Reported, Parses, SimWrapper

LEMMA SameSeen ==
  ASSUME UNCHANGED disk, b'.report = b.report
  PROVE  \A p : Seen(p)' = Seen(p)
  BY DEF Seen

\* What such a stage finds, it leaves.
LEMMA StaysTrue ==
  ASSUME UNCHANGED disk, b'.dir = b.dir, b'.tree = b.tree, b'.report = b.report, Pipeline,
         b.pc \in Stages \ {"discover", "codemod", "clear", "copy"}
  PROVE  /\ Chosen' /\ Reported' /\ Copied'
         /\ b'.pc # "copy" => Emptied'
  <1>1. SketchDir' = SketchDir /\ Ino' = Ino
    BY SameSketch
  <1>2. Chosen'
    BY <1>1 DEF Pipeline, Chosen, Stages
  <1>3. Reported'
    BY SameReport DEF Pipeline, Stages
  <1>4. Copied'
    <2>1. \A p : Seen(p)' = Seen(p)
      BY SameSeen
    <2> QED
      BY <2>1 DEF Pipeline, Copied
  <1>5. b'.pc # "copy" => Emptied'
    BY DEF Emptied
  <1> QED
    BY <1>2, <1>3, <1>4, <1>5

LEMMA DiscoverPipes == BuildTypes /\ Trees /\ Pipeline /\ Discover => Pipeline'
  <1> SUFFICES ASSUME BuildTypes, Trees, Pipeline, Discover PROVE Pipeline'
    OBVIOUS
  <1>1. PICK d \in Dirs : /\ <<"user", d, "ino">> \in DOMAIN disk
                          /\ d = "root" => <<"user", "sub", "ino">> \notin DOMAIN disk
                          /\ b' = [b EXCEPT !.pc = "codemod", !.dir = d]
    BY DEF Discover
  <1>2. b \in Locals /\ UNCHANGED disk
    BY DEF BuildTypes, Discover
  <1>3. b'.pc = "codemod" /\ b'.dir = d
    BY <1>1, <1>2 DEF Locals
  <1>4. SketchDir' = d
    BY <1>1, <1>2 DEF SketchDir, Dirs
  <1>5. Chosen'
    BY <1>1, <1>2, <1>3, <1>4 DEF Chosen, Ino
  <1> QED
    BY <1>3, <1>5 DEF Pipeline, Reported, Emptied, Copied, Scanned, Resolved, Preprocessed,
         Collected, Mounted, Stages, Mounts, At

LEMMA CodemodPipes == BuildTypes /\ Trees /\ Pipeline /\ Codemod => Pipeline'
  <1> SUFFICES ASSUME BuildTypes, Trees, Pipeline, Codemod PROVE Pipeline'
    OBVIOUS
  <1> PICK p : p = Setup(b.dir)
    OBVIOUS
  <1>1. b \in Locals /\ b.pc = "codemod" /\ b.tree = "user" /\ b.report = None /\ UNCHANGED disk
    BY DEF BuildTypes, Codemod, Trees, At
  <1>2. b' = IF p # None /\ Parses(disk[p])
             THEN [b EXCEPT !.pc = "clear", !.tree = b.dir, !.report = <<p, SimWrapper(disk[p])>>]
             ELSE [b EXCEPT !.pc = "data"]
    BY DEF Codemod
  <1>3. /\ b'.dir = b.dir /\ b'.pc = (IF p # None /\ Parses(disk[p]) THEN "clear" ELSE "data")
        /\ b'.tree = (IF p # None /\ Parses(disk[p]) THEN b.dir ELSE "user")
        /\ b'.report = (IF p # None /\ Parses(disk[p]) THEN <<p, SimWrapper(disk[p])>> ELSE None)
    BY <1>1, <1>2 DEF Locals
  <1>4. SketchDir' = SketchDir /\ Setup(b.dir)' = p /\ Ino' = Ino
    BY <1>1, <1>3, SameSketch
  <1>5. Chosen'
    BY <1>1, <1>3, <1>4 DEF Pipeline, Chosen
  <1>6. Reported'
    BY <1>1, <1>3, <1>4 DEF Reported, Parses, SimWrapper
  <1>7. Copied'
    BY <1>1, <1>3 DEF Copied, Seen
  <1> QED
    BY <1>3, <1>5, <1>6, <1>7 DEF Pipeline, Emptied, Scanned, Resolved, Preprocessed,
         Collected, Mounted, Stages, Mounts, At

\* A stage that writes in the mirror, or beside the sketch, changes nothing of what
\* the user's files ask.
LEMMA KeptSketch ==
  ASSUME BuildTypes, BuildTypes', UserKept, b'.dir = b.dir
  PROVE  /\ SketchDir' = SketchDir /\ Ino' = Ino
         /\ Ino' \in DOMAIN disk' <=> Ino \in DOMAIN disk
         /\ Ino \in DOMAIN disk => disk'[Ino] = disk[Ino]
  <1>1. "ino" \in Names \ {"pp"} /\ "sub" \in Dirs /\ b.dir \in Dirs
    BY Fields DEF Names, Dirs
  <1>2. SketchDir' = SketchDir
    BY <1>1, UserAt DEF SketchDir
  <1>3. Ino' = Ino
    BY DEF Ino
  <1>4. /\ Ino \in DOMAIN disk' <=> Ino \in DOMAIN disk
        /\ Ino \in DOMAIN disk => disk'[Ino] = disk[Ino]
    BY <1>1, UserAt DEF Ino
  <1> QED
    BY <1>2, <1>3, <1>4

LEMMA KeptReport ==
  ASSUME BuildTypes, BuildTypes', UserKept, b'.dir = b.dir, b'.report = b.report,
         b.pc \notin {"idle", "discover", "codemod"}, Reported
  PROVE  Reported'
  <1>1. PICK p : p = Setup(b.dir)
    OBVIOUS
  <1>2. b.dir \in Dirs
    BY Fields
  <1>3. Setup(b.dir)' = p
    BY <1>1, <1>2, SetupKept
  <1>4. p # None => disk'[p] = disk[p]
    <2> SUFFICES ASSUME p # None PROVE disk'[p] = disk[p]
      OBVIOUS
    <2>1. p \in Files("user", b.dir) /\ p[3] = "setup"
      BY <1>1, <1>2, SetupIs
    <2>2. p \in DOMAIN disk /\ p \in Paths /\ p[1] = "user"
      BY <1>2, <2>1, FilesAre
    <2> QED
      BY <2>1, <2>2 DEF UserKept
  <1> QED
    BY <1>1, <1>3, <1>4 DEF Reported, Parses, SimWrapper

LEMMA ClearPipes == BuildTypes /\ BuildTypes' /\ Trees /\ Pipeline /\ ClearMirror => Pipeline'
  <1> SUFFICES ASSUME BuildTypes, BuildTypes', Trees, Pipeline, ClearMirror PROVE Pipeline'
    OBVIOUS
  <1>1. b.pc = "clear" /\ b.tree = b.dir /\ b.dir \in Dirs /\ b.tree # "user" /\ b \in Locals
    BY Fields DEF ClearMirror, At, Trees, Dirs, BuildTypes
  <1>2. PICK gone \in AllOrSome(Files(b.tree, b.tree)) :
          /\ disk' = Without(disk, gone)
          /\ IF gone = Files(b.tree, b.tree) THEN Goto("copy") ELSE b' = Idle
    BY DEF ClearMirror
  <1>3. CASE b' = Idle
    BY <1>3, IdleIs, AtRestNext
  <1>4. CASE gone = Files(b.tree, b.tree) /\ Goto("copy")
    <2>1. DOMAIN disk' = DOMAIN disk \ gone /\ \A p \in DOMAIN disk' : disk'[p] = disk[p]
      BY ONLY <1>2 DEF Without
    <2>2. /\ b'.pc = "copy" /\ b'.dir = b.dir /\ b'.tree = b.tree /\ b'.report = b.report
      BY <1>1, <1>4 DEF Goto, Locals
    <2>3. \A p \in gone : p[1] # "user"
      BY <1>1, <1>4 DEF Files
    <2>4. UserKept
      BY <2>1, <2>3 DEF UserKept
    <2>5. Chosen'
      BY <1>1, <2>2, <2>4, KeptSketch DEF Pipeline, Chosen
    <2>6. Reported'
      BY <1>1, <2>2, <2>4, KeptReport DEF Pipeline
    <2>7. Emptied'
      <3> SUFFICES ASSUME NEW d \in Below(b.dir), NEW n \in Names PROVE <<b.tree, d, n>> \notin DOMAIN disk'
        BY <2>2 DEF Emptied, Below
      <3> QED
        BY <1>1, <1>4, <2>1, FilesAre
    <2> QED
      BY <2>2, <2>5, <2>6, <2>7 DEF Pipeline, Copied, Scanned, Resolved, Preprocessed,
         Collected, Mounted, Stages, Mounts, At
  <1> QED
    BY <1>2, <1>3, <1>4

LEMMA CopyPipes == BuildTypes /\ BuildTypes' /\ Trees /\ Pipeline /\ CopyMirror => Pipeline'
  <1> SUFFICES ASSUME BuildTypes, BuildTypes', Trees, Pipeline, CopyMirror PROVE Pipeline'
    OBVIOUS
  <1>1. /\ b.pc = "copy" /\ b.tree = b.dir /\ b.dir \in Dirs /\ b.tree # "user" /\ b.report # None
        /\ b \in Locals
    BY Fields DEF CopyMirror, At, Trees, Dirs, BuildTypes
  <1>2. PICK copied \in AllOrSome(Files("user", b.dir)) :
          /\ disk' = [q \in DOMAIN disk \cup {<<b.tree, p[2], p[3]>> : p \in copied} |->
                        IF q \in {<<b.tree, p[2], p[3]>> : p \in copied}
                        THEN Mirrored(<<"user", q[2], q[3]>>) ELSE disk[q]]
          /\ IF copied = Files("user", b.dir) THEN Goto("data") ELSE b' = Idle
    BY DEF CopyMirror
  <1>3. CASE b' = Idle
    BY <1>3, IdleIs, AtRestNext
  <1>4. CASE copied = Files("user", b.dir) /\ Goto("data")
    <2>1. PICK mirror : mirror = {<<b.tree, p[2], p[3]>> : p \in copied}
      OBVIOUS
    <2>2. /\ DOMAIN disk' = DOMAIN disk \cup mirror
          /\ \A q \in mirror : disk'[q] = Mirrored(<<"user", q[2], q[3]>>)
          /\ \A q \in DOMAIN disk \ mirror : disk'[q] = disk[q]
      BY ONLY <1>2, <2>1
    <2>3. /\ b'.pc = "data" /\ b'.dir = b.dir /\ b'.tree = b.tree /\ b'.report = b.report
      BY <1>1, <1>4 DEF Goto, Locals
    <2>4. \A q \in mirror : q[1] # "user"
      BY <1>1, <2>1
    <2>5. UserKept
      BY <2>2, <2>4 DEF UserKept
    <2>6. Chosen'
      BY <1>1, <2>3, <2>5, KeptSketch DEF Pipeline, Chosen
    <2>7. Reported'
      BY <1>1, <2>3, <2>5, KeptReport DEF Pipeline
    <2>8. Copied'
      <3> SUFFICES ASSUME NEW d \in Below(b.dir), NEW n \in Names \ {"pp"}
                   PROVE  /\ <<b.tree, d, n>> \in DOMAIN disk' <=> <<"user", d, n>> \in DOMAIN disk'
                          /\ <<"user", d, n>> \in DOMAIN disk' =>
                               disk'[<<b.tree, d, n>>] = Seen(<<"user", d, n>>)'
        BY <2>3 DEF Copied, Below
      <3>0. d \in Dirs
        BY <1>1, BelowIs
      <3>1. /\ <<"user", d, n>> \in DOMAIN disk' <=> <<"user", d, n>> \in DOMAIN disk
            /\ <<"user", d, n>> \in DOMAIN disk => disk'[<<"user", d, n>>] = disk[<<"user", d, n>>]
        BY <2>5, <3>0, UserAt
      <3>2. <<b.tree, d, n>> \notin DOMAIN disk
        BY <1>1 DEF Pipeline, Emptied
      <3>3. <<b.tree, d, n>> \in mirror <=> <<"user", d, n>> \in DOMAIN disk
        <4>1. ASSUME <<"user", d, n>> \in DOMAIN disk PROVE <<b.tree, d, n>> \in mirror
          <5>1. PICK p : p = <<"user", d, n>>
            OBVIOUS
          <5>2. p \in copied
            BY <1>1, <1>4, <4>1, <5>1, FilesAre
          <5>3. <<b.tree, p[2], p[3]>> \in mirror
            BY <2>1, <5>2
          <5> QED
            BY <5>1, <5>3
        <4>2. ASSUME <<b.tree, d, n>> \in mirror PROVE <<"user", d, n>> \in DOMAIN disk
          <5>1. PICK p \in copied : <<b.tree, d, n>> = <<b.tree, p[2], p[3]>>
            BY <2>1, <4>2
          <5>2. p[2] = d /\ p[3] = n
            BY <5>1
          <5>3. p \in DOMAIN disk /\ p = <<"user", p[2], p[3]>>
            BY <1>1, <1>4, FilesAre
          <5> QED
            BY <5>2, <5>3
        <4> QED
          BY <4>1, <4>2
      <3>4. ASSUME <<b.tree, d, n>> \in mirror PROVE disk'[<<b.tree, d, n>>] = Mirrored(<<"user", d, n>>)
        BY <2>2, <3>4
      <3>5. <<"user", d, n>> \in DOMAIN disk => Seen(<<"user", d, n>>)' = Mirrored(<<"user", d, n>>)
        BY <1>1, <2>3, <3>1 DEF Seen, Mirrored
      <3> QED
        BY <2>2, <3>1, <3>2, <3>3, <3>4, <3>5
    <2> QED
      BY <2>3, <2>6, <2>7, <2>8 DEF Pipeline, Emptied, Scanned, Resolved, Preprocessed,
         Collected, Mounted, Stages, Mounts, At
  <1> QED
    BY <1>2, <1>3, <1>4

LEMMA DataPipes == BuildTypes /\ Pipeline /\ MirrorData => Pipeline'
  <1> SUFFICES ASSUME BuildTypes, Pipeline, MirrorData PROVE Pipeline'
    OBVIOUS
  <1>1. b.pc = "data" /\ b \in Locals /\ UNCHANGED <<disk, data, mounts>>
    BY DEF MirrorData, At, BuildTypes
  <1>2. PICK pc \in {"scan", "wipe_spiffs"} : Goto(pc) /\ (pc = "scan" <=> data[b.dir] = None)
    BY DEF MirrorData
  <1>3. b'.pc = pc /\ b'.dir = b.dir /\ b'.tree = b.tree /\ b'.report = b.report
    BY <1>1, <1>2 DEF Goto, Locals
  <1>4. b.pc \in Stages \ {"discover", "codemod", "clear", "copy"}
    BY <1>1 DEF Stages
  <1>5. Chosen' /\ Reported' /\ Copied' /\ Emptied'
    BY <1>1, <1>3, <1>4, StaysTrue
  <1>6. Mounted'
    BY <1>1, <1>2, <1>3 DEF Mounted, Mounts
  <1> QED
    BY <1>3, <1>5, <1>6 DEF Pipeline, Scanned, Resolved, Preprocessed, Collected, At

LEMMA MountPipes ==
  ASSUME NEW m \in Mounts, BuildTypes, Pipeline, WipeMount(m) \/ CopyMount(m)
  PROVE  Pipeline'
  <1>1. /\ b \in Locals /\ UNCHANGED <<disk, data>> /\ mounts \in [Mounts -> {None} \cup SUBSET (Assets \cup {Own})]
        /\ m \in {"spiffs", "littlefs"}
    BY DEF WipeMount, CopyMount, BuildTypes, Mounts
  <1>2. CASE b' = Idle
    BY <1>2, IdleIs, AtRestNext
  <1>3. ASSUME NEW pc \in {"spiffs", "wipe_littlefs", "littlefs", "scan"}, Goto(pc), Mounted',
               b.pc \in {"wipe_spiffs", "spiffs", "wipe_littlefs", "littlefs"}
        PROVE  Pipeline'
    <2>1. b'.pc = pc /\ b'.dir = b.dir /\ b'.tree = b.tree /\ b'.report = b.report
      BY <1>1, <1>3 DEF Goto, Locals
    <2>2. b.pc \in Stages \ {"discover", "codemod", "clear", "copy"}
      BY <1>3 DEF Stages
    <2>3. Chosen' /\ Reported' /\ Copied' /\ Emptied'
      BY <1>1, <1>3, <2>1, <2>2, StaysTrue
    <2> QED
      BY <1>3, <2>1, <2>3 DEF Pipeline, Scanned, Resolved, Preprocessed, Collected, At
  <1>4. CASE WipeMount(m) /\ b' # Idle
    <2>1. b.pc = Wiping(m) /\ mounts' = [mounts EXCEPT ![m] = {}] /\ Goto(m)
      BY <1>4 DEF WipeMount, At
    <2>2. b.pc = (IF m = "spiffs" THEN "wipe_spiffs" ELSE "wipe_littlefs")
      BY <2>1 DEF Wiping
    <2>3. b'.pc = m /\ b'.dir = b.dir
      BY <1>1, <2>1 DEF Goto, Locals
    <2>4. Mounted'
      BY <1>1, <2>1, <2>2, <2>3 DEF Pipeline, Mounted, Mounts
    <2> QED
      BY <1>1, <1>3, <2>1, <2>2, <2>4
  <1>5. CASE CopyMount(m) /\ b' # Idle
    <2>1. PICK copied \in AllOrSome(data[b.dir]) :
            /\ mounts' = [mounts EXCEPT ![m] = @ \cup copied]
            /\ IF copied = data[b.dir] THEN Goto(IF m = "spiffs" THEN "wipe_littlefs" ELSE "scan")
                                       ELSE b' = Idle
      BY <1>5 DEF CopyMount
    <2>2. copied = data[b.dir] /\ Goto(IF m = "spiffs" THEN "wipe_littlefs" ELSE "scan") /\ b.pc = m
      BY <1>5, <2>1 DEF CopyMount, At
    <2>3. mounts[m] = {}
      BY <2>2 DEF Pipeline, Mounted
    <2>4. mounts' = [mounts EXCEPT ![m] = data[b.dir]]
      BY <2>1, <2>2, <2>3
    <2>5. b'.pc = (IF m = "spiffs" THEN "wipe_littlefs" ELSE "scan") /\ b'.dir = b.dir
      BY <1>1, <2>2 DEF Goto, Locals
    <2>6. Mounted'
      BY <1>1, <2>2, <2>4, <2>5 DEF Pipeline, Mounted, Mounts
    <2> QED
      BY <1>1, <1>3, <2>2, <2>6
  <1> QED
    BY <1>2, <1>4, <1>5

\* The .ino is never the setup the report is about.
LEMMA InoSeen ==
  ASSUME BuildTypes, Pipeline, b.pc \notin {"idle", "discover", "codemod"}
  PROVE  Seen(Ino) = disk[Ino]
  <1>1. b.dir \in Dirs
    BY Fields
  <1>2. b.report # None => b.report[1] = Setup(b.dir) /\ Setup(b.dir) # None
    BY DEF Pipeline, Reported
  <1>3. b.report # None => b.report[1][3] = "setup"
    BY <1>1, <1>2, SetupIs
  <1> QED
    BY <1>3 DEF Seen, Ino

LEMMA EntrySeen ==
  ASSUME BuildTypes, Pipeline, b.pc \in Stages \ {"discover", "codemod", "clear", "copy"}
  PROVE  Entry \in DOMAIN disk /\ disk[Entry] = disk[Ino]
  <1>1. b.dir \in Dirs /\ b.dir \in Below(b.dir) /\ "ino" \in Names \ {"pp"}
    BY Fields, BelowIs DEF Names
  <1>2. Ino \in DOMAIN disk
    BY DEF Pipeline, Chosen, Stages
  <1>3. Seen(Ino) = disk[Ino]
    BY InoSeen DEF Stages
  <1> QED
    BY <1>1, <1>2, <1>3 DEF Pipeline, Copied, Entry, Ino

LEMMA ScanPipes == BuildTypes /\ Pipeline /\ Scan => Pipeline'
  <1> SUFFICES ASSUME BuildTypes, Pipeline, Scan PROVE Pipeline'
    OBVIOUS
  <1>1. b.pc = "scan" /\ b \in Locals /\ UNCHANGED <<disk, data, mounts>>
    BY DEF Scan, At, BuildTypes
  <1>2. PICK hs : hs = {h \in Includes[disk[Entry][2]] : <<b.tree, b.dir, h>> \notin DOMAIN disk}
    OBVIOUS
  <1>3. b' = [b EXCEPT !.pc = "resolve", !.headers = hs]
    BY <1>2 DEF Scan
  <1>4. /\ b'.pc = "resolve" /\ b'.dir = b.dir /\ b'.tree = b.tree /\ b'.report = b.report
        /\ b'.headers = hs
    BY <1>1, <1>3 DEF Locals
  <1>5. b.pc \in Stages \ {"discover", "codemod", "clear", "copy"}
    BY <1>1 DEF Stages
  <1>6. Chosen' /\ Reported' /\ Copied' /\ Emptied'
    BY <1>1, <1>4, <1>5, StaysTrue
  <1>7. Entry \in DOMAIN disk /\ disk[Entry] = disk[Ino]
    BY <1>5, EntrySeen
  <1>8. \A h \in Includes[disk[Ino][2]] :
           <<b.tree, b.dir, h>> \in DOMAIN disk <=> <<"user", b.dir, h>> \in DOMAIN disk
    <2> TAKE h \in Includes[disk[Ino][2]]
    <2>1. disk[Entry] \in Contents
      BY <1>7 DEF BuildTypes
    <2>2. h # "pp"
      BY <1>7, <2>1, BuildAssumption DEF Contents
    <2>3. CASE h \in Names
      <3>1. b.dir \in Dirs /\ b.dir \in Below(b.dir)
        BY Fields, BelowIs
      <3> QED
        BY <1>5, <2>2, <2>3, <3>1 DEF Pipeline, Copied
    <2>4. CASE h \notin Names
      <3>1. \A t : <<t, b.dir, h>> \notin Paths
        <4> TAKE t
        <4>1. PICK p : p = <<t, b.dir, h>>
          OBVIOUS
        <4>2. p[3] = h
          BY <4>1
        <4> QED
          BY <2>4, <4>1, <4>2, PathIs
      <3> QED
        BY <3>1 DEF BuildTypes
    <2> QED
      BY <2>3, <2>4
  <1>9. Scanned'
    <2>1. hs = {h \in Includes[disk[Ino][2]] : <<"user", b.dir, h>> \notin DOMAIN disk}
      BY <1>2, <1>7, <1>8
    <2>2. Ino' = Ino
      BY <1>4 DEF Ino
    <2> QED
      BY <1>1, <1>4, <2>1, <2>2 DEF Scanned
  <1>10. Mounted'
    BY <1>1, <1>4 DEF Pipeline, Mounted, Mounts
  <1> QED
    BY <1>4, <1>6, <1>9, <1>10 DEF Pipeline, Resolved, Preprocessed, Collected, At

LEMMA ScanStays ==
  ASSUME UNCHANGED disk, b'.dir = b.dir, b'.headers = b.headers, Scanned,
         b.pc \in {"resolve", "preprocess", "collect", "codegen", "compile"}
  PROVE  Scanned'
  <1>1. Ino' = Ino
    BY DEF Ino
  <1> QED
    BY <1>1 DEF Scanned

LEMMA ResolveStays ==
  ASSUME UNCHANGED installed, b'.headers = b.headers, b'.libs = b.libs, Resolved,
         b.pc \in {"preprocess", "collect", "codegen", "compile"}
  PROVE  Resolved'
  <1>1. \A h : Provider(h)' = Provider(h)
    BY SameProvider
  <1> QED
    BY <1>1 DEF Resolved

LEMMA ResolvePipes == BuildTypes /\ Pipeline /\ Resolve => Pipeline'
  <1> SUFFICES ASSUME BuildTypes, Pipeline, Resolve PROVE Pipeline'
    OBVIOUS
  <1>1. b.pc = "resolve" /\ b \in Locals /\ UNCHANGED <<disk, data, mounts, installed>>
    BY DEF Resolve, At, BuildTypes
  <1>2. PICK ls : ls = {installed[Provider(h)].name : h \in b.headers \ Given}
    OBVIOUS
  <1>3. b' = [b EXCEPT !.pc = "preprocess", !.libs = ls]
    BY <1>2 DEF Resolve
  <1>4. /\ b'.pc = "preprocess" /\ b'.dir = b.dir /\ b'.tree = b.tree /\ b'.report = b.report
        /\ b'.headers = b.headers /\ b'.libs = ls
    BY <1>1, <1>3 DEF Locals
  <1>5. b.pc \in Stages \ {"discover", "codemod", "clear", "copy"}
    BY <1>1 DEF Stages
  <1>6. Chosen' /\ Reported' /\ Copied' /\ Emptied'
    BY <1>1, <1>4, <1>5, StaysTrue
  <1>7. Scanned'
    BY <1>1, <1>4, ScanStays DEF Pipeline
  <1>8. Resolved'
    <2>1. \A h : Provider(h)' = Provider(h)
      BY <1>1, SameProvider
    <2> QED
      BY <1>1, <1>2, <1>4, <2>1 DEF Resolved
  <1>9. Mounted'
    BY <1>1, <1>4 DEF Pipeline, Mounted, Mounts
  <1> QED
    BY <1>4, <1>6, <1>7, <1>8, <1>9 DEF Pipeline, Preprocessed, Collected, At

LEMMA PreprocessPipes == BuildTypes /\ BuildTypes' /\ Trees /\ Pipeline /\ Preprocess => Pipeline'
  <1> SUFFICES ASSUME BuildTypes, BuildTypes', Trees, Pipeline, Preprocess PROVE Pipeline'
    OBVIOUS
  <1>1. b.pc = "preprocess" /\ b \in Locals /\ UNCHANGED <<data, mounts, installed>> /\ Goto("collect")
    BY DEF Preprocess, At, BuildTypes
  <1>2. PICK p : p = <<b.tree, b.dir, "pp">>
    OBVIOUS
  <1>3. PICK c : c = <<"pp", disk[Entry][2]>>
    OBVIOUS
  <1>4. disk' = With(disk, p, c)
    BY <1>2, <1>3 DEF Preprocess
  <1>5. DOMAIN disk' = DOMAIN disk \cup {p} /\ \A q \in DOMAIN disk' : disk'[q] = IF q = p THEN c ELSE disk[q]
    BY ONLY <1>4 DEF With
  <1>6. /\ b'.pc = "collect" /\ b'.dir = b.dir /\ b'.tree = b.tree /\ b'.report = b.report
        /\ b'.headers = b.headers /\ b'.libs = b.libs
    BY <1>1 DEF Locals, Goto
  <1>7. \A q : q[3] # "pp" => /\ q \in DOMAIN disk' <=> q \in DOMAIN disk
                              /\ q \in DOMAIN disk => disk'[q] = disk[q]
    BY <1>2, <1>5
  <1>8. UserKept
    BY <1>7 DEF UserKept
  <1>9. Chosen'
    BY <1>1, <1>6, <1>8, KeptSketch DEF Pipeline, Chosen
  <1>10. Reported'
    BY <1>1, <1>6, <1>8, KeptReport DEF Pipeline
  <1>11. Ino' = Ino /\ disk'[Ino] = disk[Ino]
    BY <1>1, <1>6, <1>8, KeptSketch DEF Pipeline, Chosen
  <1>12. Copied'
    <2> SUFFICES ASSUME NEW d \in Below(b.dir), NEW n \in Names \ {"pp"}
                 PROVE  /\ <<b.tree, d, n>> \in DOMAIN disk' <=> <<"user", d, n>> \in DOMAIN disk'
                        /\ <<"user", d, n>> \in DOMAIN disk' =>
                             disk'[<<b.tree, d, n>>] = Seen(<<"user", d, n>>)'
      BY <1>6 DEF Copied, Below
    <2>1. \A t : /\ <<t, d, n>> \in DOMAIN disk' <=> <<t, d, n>> \in DOMAIN disk
                 /\ <<t, d, n>> \in DOMAIN disk => disk'[<<t, d, n>>] = disk[<<t, d, n>>]
      <3> TAKE t
      <3>1. PICK q : q = <<t, d, n>>
        OBVIOUS
      <3>2. q[3] # "pp"
        BY <3>1
      <3> QED
        BY <1>7, <3>1, <3>2
    <2>2. <<"user", d, n>> \in DOMAIN disk => Seen(<<"user", d, n>>)' = Seen(<<"user", d, n>>)
      BY <1>6, <2>1 DEF Seen
    <2>3. /\ <<b.tree, d, n>> \in DOMAIN disk <=> <<"user", d, n>> \in DOMAIN disk
          /\ <<"user", d, n>> \in DOMAIN disk => disk[<<b.tree, d, n>>] = Seen(<<"user", d, n>>)
      BY <1>1 DEF Pipeline, Copied, Stages
    <2> QED
      BY <2>1, <2>2, <2>3
  <1>13. Scanned'
    <2>1. b.headers = {h \in Includes[disk[Ino][2]] : <<"user", b.dir, h>> \notin DOMAIN disk}
      BY <1>1 DEF Pipeline, Scanned
    <2>2. \A h \in Includes[disk[Ino][2]] :
            <<"user", b.dir, h>> \in DOMAIN disk' <=> <<"user", b.dir, h>> \in DOMAIN disk
      <3> TAKE h \in Includes[disk[Ino][2]]
      <3>1. disk[Ino] \in Contents
        BY <1>1 DEF Pipeline, Chosen, BuildTypes
      <3>2. h # "pp"
        BY <3>1, BuildAssumption DEF Contents
      <3>3. PICK q : q = <<"user", b.dir, h>>
        OBVIOUS
      <3>4. q[3] # "pp"
        BY <3>2, <3>3
      <3> QED
        BY <1>7, <3>3, <3>4
    <2> QED
      BY <1>6, <1>11, <2>1, <2>2 DEF Scanned
  <1>14. Resolved'
    BY <1>1, <1>6, ResolveStays DEF Pipeline
  <1>15. Preprocessed'
    <2>1. Entry \in DOMAIN disk /\ disk[Entry] = disk[Ino]
      BY <1>1, EntrySeen DEF Stages
    <2>2. p \in DOMAIN disk' /\ disk'[p] = <<"pp", disk'[Ino][2]>>
      BY <1>3, <1>5, <1>11, <2>1
    <2> QED
      BY <1>2, <1>6, <1>11, <2>2 DEF Preprocessed
  <1>16. Mounted'
    BY <1>1, <1>6 DEF Pipeline, Mounted, Mounts
  <1> QED
    BY <1>6, <1>9, <1>10, <1>12, <1>13, <1>14, <1>15, <1>16 DEF Pipeline, Emptied, Collected, At

\* Collecting and code generation change the list of sources, and no more.
LEMMA SourcesPipe ==
  ASSUME BuildTypes, Pipeline, UNCHANGED <<disk, data, mounts, installed>>,
         b.pc \in {"collect", "codegen"}, NEW pc \in {"codegen", "compile"}, NEW s,
         b' = [b EXCEPT !.pc = pc, !.sources = s],
         s = IF pc = "codegen" THEN Siblings ELSE Siblings \cup {<<b.tree, b.dir, "pp">>}
  PROVE  Pipeline'
  <1>1. b \in Locals
    BY DEF BuildTypes
  <1>2. /\ b'.pc = pc /\ b'.dir = b.dir /\ b'.tree = b.tree /\ b'.report = b.report
        /\ b'.headers = b.headers /\ b'.libs = b.libs /\ b'.sources = s
    BY <1>1 DEF Locals
  <1>3. b.pc \in Stages \ {"discover", "codemod", "clear", "copy"}
    BY DEF Stages
  <1>4. Chosen' /\ Reported' /\ Copied' /\ Emptied'
    BY <1>2, <1>3, StaysTrue
  <1>5. Scanned'
    BY <1>2, ScanStays DEF Pipeline
  <1>6. Resolved'
    BY <1>2, ResolveStays DEF Pipeline
  <1>7. Preprocessed'
    <2>1. Ino' = Ino
      BY <1>2 DEF Ino
    <2> QED
      BY <1>2, <2>1 DEF Pipeline, Preprocessed
  <1>8. Collected'
    <2>1. Siblings' = Siblings
      BY <1>2 DEF Siblings, Files
    <2> QED
      BY <1>2, <2>1 DEF Collected
  <1>9. Mounted'
    BY <1>2 DEF Pipeline, Mounted, Mounts
  <1> QED
    BY <1>2, <1>4, <1>5, <1>6, <1>7, <1>8, <1>9 DEF Pipeline, At

LEMMA CollectPipes == BuildTypes /\ Pipeline /\ (Collect \/ Codegen) => Pipeline'
  <1> SUFFICES ASSUME BuildTypes, Pipeline, Collect \/ Codegen PROVE Pipeline'
    OBVIOUS
  <1>1. CASE Collect
    <2>1. PICK s : s = {p \in Files(b.tree, b.dir) : IsSibling(p)}
      OBVIOUS
    <2>2. s = Siblings
      BY <2>1 DEF Siblings, IsSibling
    <2>3. /\ b' = [b EXCEPT !.pc = "codegen", !.sources = s] /\ b.pc = "collect"
          /\ UNCHANGED <<disk, data, mounts, installed>>
      BY <1>1, <2>1 DEF Collect, At
    <2> QED
      BY <2>2, <2>3, SourcesPipe
  <1>2. CASE Codegen
    <2>1. PICK s : s = b.sources \cup {<<b.tree, b.dir, "pp">>}
      OBVIOUS
    <2>2. /\ b' = [b EXCEPT !.pc = "compile", !.sources = s] /\ b.pc = "codegen"
          /\ UNCHANGED <<disk, data, mounts, installed>>
      BY <1>2, <2>1 DEF Codegen, At
    <2>3. s = Siblings \cup {<<b.tree, b.dir, "pp">>}
      BY <2>1, <2>2 DEF Pipeline, Collected
    <2> QED
      BY <2>2, <2>3, SourcesPipe
  <1> QED
    BY <1>1, <1>2

-----------------------------------------------------------------------------
(* The executable                                                          *)

\* A user's file as the executable should hold it.
Held(p) ==
  <<p[2], p[3], IF p = Setup(b.dir) /\ Parses(disk[p]) THEN SimWrapper(disk[p]) ELSE disk[p]>>

\* The tree of the build holds, at the place of each file of the user's, what is wanted there.
LEMMA AtItsPlace ==
  ASSUME BuildTypes, Pipeline, b.pc \in Stages \ {"discover", "codemod", "clear", "copy"},
         NEW n \in Names \ {"pp"}
  PROVE  {Unit(p) : p \in {q \in Files(b.tree, b.dir) : q[3] = n}}
           = {Held(p) : p \in {q \in Files("user", b.dir) : q[3] = n}}
  <1> PICK t : t = b.tree
    OBVIOUS
  <1> PICK d \in Dirs : d = b.dir
    BY Fields
  <1>1. b.pc \notin {"idle", "discover", "codemod"}
    BY DEF Stages
  <1>2. \A p \in Paths : p \in DOMAIN disk => <<p[2], p[3], Seen(p)>> = Held(p)
    <2> SUFFICES ASSUME NEW p \in Paths, p \in DOMAIN disk
                 PROVE Seen(p) = IF p = Setup(b.dir) /\ Parses(disk[p]) THEN SimWrapper(disk[p]) ELSE disk[p]
      BY DEF Held
    <2> PICK hw : hw = Setup(b.dir)
      OBVIOUS
    <2>1. b.report = IF hw # None /\ Parses(disk[hw]) THEN <<hw, SimWrapper(disk[hw])>> ELSE None
      BY <1>1 DEF Pipeline, Reported
    <2>2. p # None
      BY PathIs
    <2>3. CASE hw # None /\ Parses(disk[hw])
      <3>1. hw \in Files("user", d)
        BY <2>3, SetupIs
      <3>2. hw \in DOMAIN disk /\ hw \in Paths
        BY <3>1, FilesAre
      <3>3. disk[hw] \in Contents
        BY <3>2 DEF BuildTypes
      <3>4. SimWrapper(disk[hw]) \in Contents
        BY <3>3 DEF SimWrapper, Contents
      <3>5. b.report = <<hw, SimWrapper(disk[hw])>>
        BY <2>1, <2>3
      <3>6. b.report \in Paths \X Contents
        BY <3>2, <3>4, <3>5
      <3>7. b.report # None
        BY <3>6, BuildAssumption
      <3> QED
        BY <2>3, <3>5, <3>7 DEF Seen
    <2>4. CASE ~(hw # None /\ Parses(disk[hw]))
      BY <2>1, <2>2, <2>4 DEF Seen
    <2> QED
      BY <2>3, <2>4
  <1>3. \A e \in Below(d) : /\ <<t, e, n>> \in DOMAIN disk <=> <<"user", e, n>> \in DOMAIN disk
                            /\ <<"user", e, n>> \in DOMAIN disk => disk[<<t, e, n>>] = Seen(<<"user", e, n>>)
    BY DEF Pipeline, Copied
  <1>4. \A e \in Below(d) : <<"user", e, n>> \in DOMAIN disk => Unit(<<t, e, n>>) = Held(<<"user", e, n>>)
    <2> SUFFICES ASSUME NEW e \in Below(d), <<"user", e, n>> \in DOMAIN disk
                 PROVE Unit(<<t, e, n>>) = Held(<<"user", e, n>>)
      OBVIOUS
    <2>1. PICK p : p = <<"user", e, n>>
      OBVIOUS
    <2>2. PICK q : q = <<t, e, n>>
      OBVIOUS
    <2>3. p \in Paths /\ p[2] = e /\ p[3] = n
      BY <2>1 DEF BuildTypes
    <2>4. Held(p) = <<e, n, Seen(p)>>
      BY <1>2, <2>1, <2>3
    <2>5. Unit(q) = <<e, n, disk[q]>>
      BY <2>2 DEF Unit
    <2>6. disk[q] = Seen(p)
      BY <1>3, <2>1, <2>2
    <2> QED
      BY <2>1, <2>2, <2>4, <2>5, <2>6
  <1>5. ASSUME NEW p \in Files(t, d), p[3] = n
        PROVE  \E q \in Files("user", d) : q[3] = n /\ Held(q) = Unit(p)
    <2>1. p = <<t, p[2], n>> /\ p[2] \in Below(d) /\ p \in DOMAIN disk
      BY <1>5, FilesAre
    <2>2. PICK q : q = <<"user", p[2], n>>
      OBVIOUS
    <2>3. q \in DOMAIN disk
      BY <1>3, <2>1, <2>2
    <2>4. q \in Files("user", d) /\ q[3] = n
      BY <2>1, <2>2, <2>3, FilesAre
    <2>5. Unit(p) = Held(q)
      BY <1>4, <2>1, <2>2, <2>3
    <2> QED
      BY <2>4, <2>5
  <1>6. ASSUME NEW q \in Files("user", d), q[3] = n
        PROVE  \E p \in Files(t, d) : p[3] = n /\ Held(q) = Unit(p)
    <2>1. q = <<"user", q[2], n>> /\ q[2] \in Below(d) /\ q \in DOMAIN disk
      BY <1>6, FilesAre
    <2>2. PICK p : p = <<t, q[2], n>>
      OBVIOUS
    <2>3. p \in DOMAIN disk
      BY <1>3, <2>1, <2>2
    <2>4. p \in Files(t, d) /\ p[3] = n
      BY <2>1, <2>2, <2>3, FilesAre
    <2>5. Unit(p) = Held(q)
      BY <1>4, <2>1, <2>2
    <2> QED
      BY <2>4, <2>5
  <1> QED
    BY <1>5, <1>6

LEMMA CompilePipes == BuildTypes /\ Pipeline /\ Compile => Pipeline'
  <1> SUFFICES ASSUME BuildTypes, Pipeline, Compile PROVE Pipeline'
    OBVIOUS
  <1>1. /\ b.pc = "compile" /\ b \in Locals /\ b.dir = SketchDir /\ Goto("built")
        /\ UNCHANGED <<disk, data, mounts, installed>>
    BY DEF Compile, At, BuildTypes, Pipeline, Chosen
  <1>2. /\ b'.pc = "built" /\ b'.dir = b.dir /\ b'.tree = b.tree /\ b'.report = b.report
    BY <1>1 DEF Goto, Locals
  <1>3. b.pc \in Stages \ {"discover", "codemod", "clear", "copy"}
    BY <1>1 DEF Stages
  <1>4. Chosen' /\ Reported' /\ Copied' /\ Emptied'
    BY <1>1, <1>2, <1>3, StaysTrue
  <1>5. Mounted'
    BY <1>1, <1>2 DEF Pipeline, Mounted, Mounts
  <1>6. binary' = Wanted
    <2>1. PICK us : us = {Held(p) : p \in {q \in Files("user", b.dir) : q[3] = "src"}}
      OBVIOUS
    <2>2. PICK hs : hs = {Held(p) : p \in {q \in Files("user", b.dir) : q[3] = "setup"}}
      OBVIOUS
    <2>3. PICK pp : pp = <<b.dir, "pp", <<"pp", disk[Ino][2]>>>>
      OBVIOUS
    <2>4. {Unit(p) : p \in b.sources} = us \cup {pp}
      <3>1. b.sources = Siblings \cup {<<b.tree, b.dir, "pp">>}
        BY <1>1 DEF Pipeline, Collected
      <3>2. {Unit(p) : p \in Siblings} = us
        BY <1>3, <2>1, AtItsPlace DEF Siblings, Names
      <3>3. Unit(<<b.tree, b.dir, "pp">>) = pp
        BY <1>1, <2>3 DEF Unit, Pipeline, Preprocessed
      <3> QED
        BY <3>1, <3>2, <3>3
    <2>5. {Unit(p) : p \in {q \in Files(b.tree, b.dir) : q[3] = "setup"}} = hs
      BY <1>3, <2>2, AtItsPlace DEF Names
    <2>6. binary' = [units |-> us \cup {pp}, headers |-> hs, libs |-> b.libs]
      BY <2>4, <2>5 DEF Compile
    <2>7. b.libs = {installed[Provider(h)].name :
                      h \in {g \in Includes[disk[Ino][2]] \ Given : <<"user", b.dir, g>> \notin DOMAIN disk}}
      <3>1. b.headers \ Given
              = {g \in Includes[disk[Ino][2]] \ Given : <<"user", b.dir, g>> \notin DOMAIN disk}
        BY <1>1 DEF Pipeline, Scanned
      <3>2. b.libs = {installed[Provider(h)].name : h \in b.headers \ Given}
        BY <1>1 DEF Pipeline, Resolved
      <3> QED
        BY <3>1, <3>2
    <2>8. Wanted = [units |-> us \cup {pp}, headers |-> hs, libs |-> b.libs]
      <3>1. PICK seen : seen = [p \in Files("user", b.dir) |-> Held(p)]
        OBVIOUS
      <3>2. {seen[p] : p \in {q \in DOMAIN seen : q[3] = "src"}} = us
        BY <2>1, <3>1
      <3>3. {seen[p] : p \in {q \in DOMAIN seen : q[3] = "setup"}} = hs
        BY <2>2, <3>1
      <3>4. seen = [p \in Files("user", SketchDir) |->
                     <<p[2], p[3],
                       IF p = Setup(SketchDir) /\ Parses(disk[p]) THEN SimWrapper(disk[p]) ELSE disk[p]>>]
        BY <1>1, <3>1 DEF Held
      <3>5. disk[<<"user", SketchDir, "ino">>] = disk[Ino]
        BY <1>1 DEF Ino
      <3>6. Wanted = [units   |-> {seen[p] : p \in {q \in DOMAIN seen : q[3] = "src"}}
                       \cup {<<SketchDir, "pp", <<"pp", disk[Ino][2]>>>>},
                     headers |-> {seen[p] : p \in {q \in DOMAIN seen : q[3] = "setup"}},
                     libs    |-> {installed[Provider(h)].name :
                       h \in {g \in Includes[disk[Ino][2]] \ Given :
                                <<"user", SketchDir, g>> \notin DOMAIN disk}}]
        BY <3>4, <3>5 DEF Wanted
      <3> QED
        BY <1>1, <2>3, <2>7, <3>2, <3>3, <3>6
    <2> QED
      BY <2>6, <2>8
  <1>7. Wanted' = Wanted
    BY <1>1, SameWanted
  <1> QED
    BY <1>2, <1>4, <1>5, <1>6, <1>7 DEF Pipeline, Scanned, Resolved, Preprocessed, Collected

-----------------------------------------------------------------------------
(* The theorems                                                            *)

LEMMA StagePipes == BuildTypes /\ BuildTypes' /\ Trees /\ Pipeline /\ Building => Pipeline'
  <1> SUFFICES ASSUME BuildTypes, BuildTypes', Trees, Pipeline, Building PROVE Pipeline'
    OBVIOUS
  <1>1. Stage \/ Abort \/ Done
    BY DEF Building
  <1>2. CASE Abort \/ Done
    <2>1. b' = Idle
      BY <1>2 DEF Abort, Done
    <2> QED
      BY <2>1, IdleIs, AtRestNext
  <1> QED
    BY <1>1, <1>2, DiscoverPipes, CodemodPipes, ClearPipes, CopyPipes, DataPipes, MountPipes, ScanPipes,
       ResolvePipes, PreprocessPipes, CollectPipes, CompilePipes DEF Stage

LEMMA PipelineStep == ImageInv /\ BuildIInv /\ [Next]_vars => (~disturbed' => Pipeline')
  <1> SUFFICES ASSUME ImageInv, BuildIInv, [Next]_vars, ~disturbed' PROVE Pipeline'
    OBVIOUS
  <1>1. BuildTypes /\ BuildTypes' /\ Trees /\ BuildTyped
    <2>1. BuildTyped
      BY DEF BuildIInv
    <2>2. BuildTyped'
      BY <2>1, TypesStep
    <2> QED
      BY <2>1, <2>2 DEF BuildTyped
  <1>2. CASE Command
    <2>1. b'.pc = "discover"
      BY <1>2 DEF Command, Start, Idle
    <2> QED
      BY <2>1, AtRestNext
  <1>3. CASE Building
    <2>1. disturbed' = disturbed
      BY <1>3 DEF Building, Stage, Abort, Done, Discover, Codemod, ClearMirror, CopyMirror, MirrorData,
         WipeMount, CopyMount, Scan, Resolve, Preprocess, Collect, Codegen, Compile
    <2>2. Pipeline
      BY <2>1 DEF BuildIInv
    <2> QED
      BY <1>1, <1>3, <2>2, StagePipes
  <1>4. CASE Launch
    <2>1. b' = Idle
      BY <1>4 DEF Launch
    <2> QED
      BY <2>1, IdleIs, AtRestNext
  <1>5. CASE Edit
    <2>1. disturbed' = (disturbed \/ ~At("idle"))
      BY <1>5 DEF Edit, User, WriteFile, DeleteFile, ChangeData, ChangeLibraries, Edited
    <2>2. b' = b
      BY <1>5 DEF Edit, User, WriteFile, DeleteFile, ChangeData, ChangeLibraries, Edited
    <2>3. At("idle")
      BY <2>1, Zenon
    <2>4. b'.pc = "idle"
      BY <2>2, <2>3 DEF At
    <2> QED
      BY <2>4, AtRestNext
  <1>6. ASSUME NEW m \in Mounts, UseFiles(m) PROVE Pipeline'
    <2>1. disturbed' = (disturbed \/ ~At("idle"))
      BY <1>6 DEF UseFiles
    <2>2. b' = b
      BY <1>6 DEF UseFiles
    <2>3. At("idle")
      BY <2>1, Zenon
    <2>4. b'.pc = "idle"
      BY <2>2, <2>3 DEF At
    <2> QED
      BY <2>4, AtRestNext
  <1>7. CASE Persist \/ UNCHANGED vars
    <2>1. UNCHANGED <<disk, data, installed, mounts, binary, b>>
      BY <1>7 DEF Persist, buildVars, vars
    <2>2. disturbed' = disturbed
      BY <1>7 DEF Persist, buildVars, vars
    <2>3. Pipeline
      BY <2>2 DEF BuildIInv
    <2>4. /\ SketchDir' = SketchDir /\ Setup(b.dir)' = Setup(b.dir) /\ Ino' = Ino
      BY <2>1, SameSketch
    <2>5. Wanted' = Wanted
      BY <2>1, SameWanted
    <2>6. \A p : Seen(p)' = Seen(p)
      BY <2>1, SameSeen
    <2>7. \A h : Provider(h)' = Provider(h)
      BY <2>1, SameProvider
    <2>8. Siblings' = Siblings
      BY <2>1 DEF Siblings, Files
    <2>9. Chosen' /\ Reported' /\ Emptied' /\ Copied'
      BY <2>1, <2>3, <2>4, <2>6 DEF Pipeline, Chosen, Reported, Emptied, Copied, Parses, SimWrapper
    <2>10. Scanned' /\ Resolved' /\ Preprocessed' /\ Collected' /\ Mounted'
      BY <2>1, <2>3, <2>4, <2>7, <2>8 DEF Pipeline, Scanned, Resolved, Preprocessed, Collected, Mounted
    <2>11. At("built")' => binary' = Wanted'
      BY <2>1, <2>3, <2>5 DEF Pipeline, At
    <2> QED
      BY <2>9, <2>10, <2>11 DEF Pipeline
  <1> QED
    BY <1>2, <1>3, <1>4, <1>5, <1>6, <1>7 DEF Next

LEMMA BuildIInvHolds == Spec => [](ImageInv /\ BuildIInv)
  <1>1. Init => ImageInv /\ BuildIInv
    BY ImageInit, BuildInit
  <1>2. ImageInv /\ BuildIInv /\ [Next]_vars => ImageInv' /\ BuildIInv'
    <2> SUFFICES ASSUME ImageInv, BuildIInv, [Next]_vars PROVE ImageInv' /\ BuildIInv'
      OBVIOUS
    <2>1. ImageInv'
      BY ImageStep
    <2>2. BuildTyped'
      BY TypesStep DEF BuildIInv
    <2> QED
      BY <2>1, <2>2, PipelineStep DEF BuildIInv
  <1> QED
    BY <1>1, <1>2, PTL DEF Spec

\* A build whose inputs are left alone makes the executable of exactly what the sketch holds
\* now: for any files, versions, headers and libraries, and whatever builds, edits, sketches
\* and launches came before (run_build).
THEOREM ProjectBinaryIsCurrent == Spec => []BinaryIsCurrent
  <1>1. ImageInv /\ BuildIInv => BinaryIsCurrent
    BY DEF BuildIInv, Pipeline, BinaryIsCurrent
  <1> QED
    BY <1>1, BuildIInvHolds, PTL

\* The types of a project's files and processes; a launch only between builds, and of an
\* executable that exists; and the mounts as the last build, left alone, put them
\* (main.rs, mirror_sketch_data).
THEOREM ProjectInvariant == Spec => []ProjectInv
  <1>1. ImageInv /\ BuildIInv => ProjectInv
    <2> SUFFICES ASSUME ImageInv, BuildIInv PROVE ProjectInv
      OBVIOUS
    <2>1. BuildTyped /\ BuildTypes /\ Trees
      BY DEF BuildIInv, BuildTyped
    <2>2. MountsAreCurrent
      BY DEF BuildIInv, Pipeline, Mounted, MountsAreCurrent, At
    <2>3. BuildTypeOK
      <3>1. DOMAIN mounts = Mounts
        BY <2>1 DEF BuildTypes
      <3>2. (b.report = None) = (b.tree = "user")
        BY <2>1 DEF Trees
      <3>3. b.pc \in Stages \cup {"idle", "built"}
        BY <2>1, Fields
      <3> QED
        BY <2>1, <3>1, <3>2, <3>3 DEF BuildTypeOK, BuildTypes, BuildTyped
    <2>4. EepromTypeOK /\ (launch # "idle" => At("idle"))
      BY DEF ImageInv
    <2> QED
      BY <2>1, <2>2, <2>3, <2>4 DEF ProjectInv, BuildTypes, BuildTyped
  <1> QED
    BY <1>1, BuildIInvHolds, PTL

\* What a stage may do to the user's files: put the preprocessed file beside a sketch built
\* in place, and no more.
LEMMA StageKeeps ==
  ASSUME BuildTypes, Trees, Stage
  PROVE  \A p \in {q \in DOMAIN disk \cup DOMAIN disk' : q[1] = "user"} :
           \/ b.report = None /\ p[3] = "pp"
           \/ p \in DOMAIN disk /\ p \in DOMAIN disk' /\ disk'[p] = disk[p]
  <1>1. CASE UNCHANGED disk
    BY <1>1
  <1>2. CASE ClearMirror
    <2>1. PICK gone \in AllOrSome(Files(b.tree, b.tree)) : disk' = Without(disk, gone)
      BY <1>2 DEF ClearMirror
    <2>2. DOMAIN disk' = DOMAIN disk \ gone /\ \A p \in DOMAIN disk' : disk'[p] = disk[p]
      BY ONLY <2>1 DEF Without
    <2>3. b.tree # "user"
      BY <1>2, Fields DEF ClearMirror, At, Trees, Dirs
    <2>4. \A p \in gone : p[1] # "user"
      BY <2>3 DEF AllOrSome, Files
    <2> QED
      BY <2>2, <2>4
  <1>3. CASE CopyMirror
    <2>1. PICK copied \in AllOrSome(Files("user", b.dir)) :
            disk' = [q \in DOMAIN disk \cup {<<b.tree, p[2], p[3]>> : p \in copied} |->
                      IF q \in {<<b.tree, p[2], p[3]>> : p \in copied}
                      THEN Mirrored(<<"user", q[2], q[3]>>) ELSE disk[q]]
      BY <1>3 DEF CopyMirror
    <2>2. PICK mirror : mirror = {<<b.tree, p[2], p[3]>> : p \in copied}
      OBVIOUS
    <2>3. /\ DOMAIN disk' = DOMAIN disk \cup mirror
          /\ \A q \in DOMAIN disk \ mirror : disk'[q] = disk[q]
      BY ONLY <2>1, <2>2
    <2>4. b.tree # "user"
      BY <1>3, Fields DEF CopyMirror, At, Trees, Dirs
    <2>5. \A q \in mirror : q[1] # "user"
      BY <2>2, <2>4
    <2> QED
      BY <2>3, <2>5
  <1>4. CASE Preprocess
    <2>1. PICK p : p = <<b.tree, b.dir, "pp">>
      OBVIOUS
    <2>2. PICK c : c = <<"pp", disk[Entry][2]>>
      OBVIOUS
    <2>3. disk' = With(disk, p, c)
      BY <1>4, <2>1, <2>2 DEF Preprocess
    <2>4. DOMAIN disk' = DOMAIN disk \cup {p} /\ \A q \in DOMAIN disk' : disk'[q] = IF q = p THEN c ELSE disk[q]
      BY ONLY <2>3 DEF With
    <2>5. p[3] = "pp" /\ (p[1] = "user" => b.report = None)
      BY <2>1 DEF Trees
    <2> QED
      BY <2>4, <2>5
  <1>5. UNCHANGED disk \/ ClearMirror \/ CopyMirror \/ Preprocess
    BY DEF Stage, Discover, Codemod, MirrorData, WipeMount, CopyMount, Scan, Resolve, Collect, Codegen, Compile
  <1> QED
    BY <1>1, <1>2, <1>3, <1>4, <1>5

\* No build touches the user's files: one that rewrites a hardware setup works on a mirror,
\* one in place adds the preprocessed file alone (run_build, Stage 1.5; preprocess).
THEOREM ProjectSketchUntouched == Spec => SketchUntouched
  <1>1. BuildIInv => [Stage => \A p \in {q \in DOMAIN disk \cup DOMAIN disk' : q[1] = "user"} :
                   \/ b.report = None /\ p[3] = "pp"
                   \/ p \in DOMAIN disk /\ p \in DOMAIN disk' /\ disk'[p] = disk[p]]_buildVars
    BY StageKeeps DEF BuildIInv, BuildTyped
  <1> QED
    BY <1>1, BuildIInvHolds, PTL DEF SketchUntouched
==============================================================================
