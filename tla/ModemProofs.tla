---------------------------- MODULE ModemProofs -----------------------------
(* Theorems about Modem: for words of every length, whatever is sent, for  *)
(* every buffer of the receiver, and with respect to its bit clock whatever*)
(* is detected.                                                            *)
EXTENDS Modem, TLAPS

(* The modulator's counters tell how long ago the word was fetched.        *)
ModulatorInv ==
  /\ phase \in 0..BitLength
  /\ current \subseteq 0..WordBits - 1
  /\ bitmask \in 0..WordBits - 1
  /\ fs \in {0, 2, 3} /\ padj \in {0, 40}
  /\ fs = 0 => bitmask = 0 /\ current = {}
  /\ fs # 0 => age = (WordBits - 1 - bitmask) * BitLength + phase

(* The second half of the count is told by pll, and the count by the       *)
(* samples since rx_f was called; when it starts again a bit has been 38,  *)
(* 40 or 44 samples long.                                                  *)
ClockInv ==
  /\ slast \in {0, 1} /\ pll_count \in 0..43
  /\ pll \in BOOLEAN /\ pll_early \in BOOLEAN /\ pll_late \in BOOLEAN
  /\ pll_count \in 1..21 => pll
  /\ pll_count > 21 => ~pll
  /\ pll_count > 0 => since \in {Never, pll_count}
  /\ pll_count = 0 => since \in {Never, 38, 40, 44}
  /\ pll_count = 0 /\ pll => since = Never

DetectorInv ==
  /\ last \in BOOLEAN /\ mst \in 0..12 /\ discqueue \subseteq 0..14
  /\ initfilter \in [1..50 -> Int] /\ discfilter \in [1..50 -> Int]

ModemInv == ModulatorInv /\ ClockInv /\ DetectorInv /\ frame \in 0..Buffer - 1

-----------------------------------------------------------------------------
(* The modulator                                                           *)

LEMMA ModulatorStarts == ModulatorInit => ModulatorInv
BY WordAssumption DEF ModulatorInit, ModulatorInv, BitLength

LEMMA SameBitInv == ModulatorInv /\ SameBit => ModulatorInv'
BY WordAssumption DEF ModulatorInv, SameBit, BitLength

(* Whole and half cycles: the angle at which a bit begins is 0 or 40.      *)
LEMMA NextAngle ==
  ASSUME ModulatorInv PROVE (padj + fs * BitLength) % Cycle \in {0, 40}
<1>1. CASE fs = 0
  BY <1>1 DEF ModulatorInv, BitLength, Cycle
<1>2. CASE fs = 2
  BY <1>2 DEF ModulatorInv, BitLength, Cycle
<1>3. CASE fs = 3
  BY <1>3 DEF ModulatorInv, BitLength, Cycle
<1> QED BY <1>1, <1>2, <1>3 DEF ModulatorInv

LEMMA NextBitInv == ModulatorInv /\ NextBit => ModulatorInv'
<1> SUFFICES ASSUME ModulatorInv, NextBit PROVE ModulatorInv'
  OBVIOUS
<1>1. padj' \in {0, 40}
  BY NextAngle DEF NextBit, StartBit
<1>2. fs' \in {2, 3} /\ fs # 0
  BY DEF NextBit, StartBit, ModulatorInv
<1> QED BY <1>1, <1>2, WordAssumption DEF ModulatorInv, NextBit, StartBit, BitLength

LEMMA NextWordInv ==
  ASSUME ModulatorInv, NEW word \in SUBSET (0..WordBits - 1), NextWord(word)
  PROVE  ModulatorInv'
<1>1. padj' \in {0, 40}
  BY NextAngle DEF NextWord, StartBit
<1>2. fs' \in {2, 3}
  BY DEF NextWord, StartBit
<1> QED BY <1>1, <1>2, WordAssumption DEF ModulatorInv, NextWord, StartBit, BitLength

-----------------------------------------------------------------------------
(* The demodulator                                                         *)

LEMMA TickInv == ASSUME ClockInv, NEW b \in {0, 1}, Tick(b) PROVE ClockInv'
<1>1. pll_early' \in BOOLEAN /\ pll_late' \in BOOLEAN /\ pll' \in BOOLEAN
  BY DEF Tick
<1>2. pll' <=> pll_count <= 20
  BY DEF Tick
<1>3. Takes <=> pll_count = 0 /\ ~pll
  BY DEF Takes, ClockInv
<1>4. pll_count \in 0..43 /\ slast' \in {0, 1}
  BY DEF Tick, ClockInv
<1>5. since' \in {Never, pll_count + 1}
  <2>1. CASE Takes
    BY <1>3, <2>1 DEF Tick, ClockInv
  <2>2. CASE ~Takes
    <3>1. since \in {Never, pll_count}
      BY <1>3, <2>2 DEF ClockInv
    <3>2. since' = IF since = Never THEN Never ELSE since + 1
      BY <2>2 DEF Tick
    <3> QED BY <3>1, <3>2
  <2> QED BY <2>1, <2>2
<1>6. CASE Reset(b)
  <2>1. pll_count \in {37, 39, 43} /\ pll_count' = 0
    BY <1>6 DEF Reset, Tick
  <2> QED BY <1>1, <1>2, <1>4, <1>5, <2>1 DEF ClockInv
<1>7. CASE ~Reset(b)
  <2>1. pll_count # 43 /\ pll_count' = pll_count + 1
    BY <1>7 DEF Reset, Tick
  <2> QED BY <1>1, <1>2, <1>4, <1>5, <2>1 DEF ClockInv
<1> QED BY <1>6, <1>7

LEMMA EndBufferInv == ClockInv /\ EndBuffer => ClockInv'
<1> SUFFICES ASSUME ClockInv, EndBuffer PROVE ClockInv'
  OBVIOUS
<1>1. pll_early' \in BOOLEAN /\ pll_late' \in BOOLEAN
  BY DEF EndBuffer
<1>2. slast' = slast /\ pll_count' = pll_count /\ pll' = pll /\ since' = since
  BY DEF EndBuffer
<1> QED BY <1>1, <1>2, Zenon DEF ClockInv

LEMMA FilterType == fir900to2100 \in [1..51 -> Int] /\ fir600 \in [1..51 -> Int]
<1>1. \A half \in [1..26 -> Int] : Mirrored(half) \in [1..51 -> Int]
  BY DEF Mirrored
<1> QED BY <1>1, SMTT(20) DEF fir900to2100, fir600

LEMMA SumsType ==
  ASSUME NEW sums \in [1..50 -> Int], NEW coeff \in [1..51 -> Int], NEW sample \in Int
  PROVE  Convolved(sums, coeff, sample) \in [1..50 -> Int]
<1>1. ASSUME NEW n \in 1..50
      PROVE  (IF n < 50 THEN sums[n + 1] ELSE 0) + coeff[n] * sample \in Int
  <2>1. coeff[n] \in Int
    OBVIOUS
  <2>2. coeff[n] * sample \in Int
    BY <2>1
  <2>3. (IF n < 50 THEN sums[n + 1] ELSE 0) \in Int
    OBVIOUS
  <2> QED BY <2>2, <2>3
<1> QED BY <1>1 DEF Convolved

LEMMA SampleInv ==
  ASSUME ClockInv, DetectorInv, NEW sample \in Int, Sample(sample)
  PROVE  ClockInv' /\ DetectorInv'
<1>1. PICK b \in {0, 1} : Tick(b)
  BY DEF Sample
<1>2. ClockInv'
  BY <1>1, TickInv
<1>3. last' \in BOOLEAN
  BY DEF Sample
<1>4. Monostable(last') \in 0..13
  BY DEF Monostable, DetectorInv
<1>5. mst' \in 0..12
  BY <1>4 DEF Sample
<1>6. discqueue' \subseteq 0..14
  BY DEF Sample, Shifted
<1>7. initfilter' \in [1..50 -> Int]
  <2>1. initfilter' = Convolved(initfilter, fir900to2100, sample)
    BY DEF Sample
  <2> QED BY <2>1, FilterType, SumsType DEF DetectorInv
<1>8. discfilter' \in [1..50 -> Int]
  <2> DEFINE on == IF {0, 6, 13} \subseteq discqueue' THEN 0 ELSE 1
  <2>1. discfilter' = Convolved(discfilter, fir600, on)
    BY SMT DEF Sample
  <2>2. on \in Int
    OBVIOUS
  <2> HIDE DEF on
  <2> QED BY <2>1, <2>2, FilterType, SumsType DEF DetectorInv
<1> QED BY <1>2, <1>3, <1>5, <1>6, <1>7, <1>8 DEF DetectorInv

LEMMA SineType == ASSUME NEW angle \in 0..79 PROVE Sine(angle) \in Int
<1> DEFINE half == angle % 40
           place == 1 + (IF half <= 20 THEN half ELSE 40 - half)
<1>1. place \in 1..21
  OBVIOUS
<1> HIDE DEF place
<1>2. <<0, 31, 63, 93, 124, 153, 182, 209, 235, 260, 283, 304,
        324, 341, 356, 370, 380, 389, 395, 399, 400>>[place] \in Int
  BY <1>1, SMTT(20)
<1> QED BY <1>2 DEF Sine, place

-----------------------------------------------------------------------------
(* The two together                                                        *)

LEMMA Starts == ModemInit => ModemInv
<1> SUFFICES ASSUME ModemInit PROVE ModemInv
  OBVIOUS
<1>1. ModulatorInv
  BY ModulatorStarts DEF ModemInit
<1>2. ClockInv /\ DetectorInv
  <2>1. /\ slast = 0 /\ pll_count = 0 /\ pll = TRUE /\ since = Never
        /\ pll_early = FALSE /\ pll_late = FALSE
        /\ last = FALSE /\ mst = 0 /\ discqueue = {}
        /\ initfilter = Nothing /\ discfilter = Nothing
    BY DEF ModemInit, DemodulatorInit, ClockInit
  <2>2. /\ pll_count \in 0..43 /\ slast \in {0, 1} /\ since \in {Never, pll_count}
        /\ pll_count \notin 1..21 /\ ~(pll_count > 21) /\ ~(pll_count > 0)
    BY <2>1
  <2>3. ClockInv
    BY <2>1, <2>2, Zenon DEF ClockInv
  <2>4. DetectorInv
    <3>1. last \in BOOLEAN
      BY <2>1
    <3>2. mst \in 0..12 /\ discqueue \subseteq 0..14 /\ Nothing \in [1..50 -> Int]
      BY <2>1 DEF Nothing
    <3> QED BY <2>1, <3>1, <3>2 DEF DetectorInv
  <2> QED BY <2>3, <2>4
<1>3. frame \in 0..Buffer - 1
  BY ModemAssumption DEF ModemInit
<1> QED BY <1>1, <1>2, <1>3 DEF ModemInv

(* Whatever the sender does, the receiver's part of the step is sound ...  *)
LEMMA ReceiveInv ==
  ASSUME ModemInv, ModulatorInv', Receive
  PROVE  ClockInv' /\ DetectorInv' /\ frame' \in 0..Buffer - 1
<1>1. CASE Hear
  <2>1. Angle' \in 0..79
    <3>1. fs' \in {0, 2, 3} /\ phase' \in 0..40 /\ padj' \in {0, 40}
      BY DEF ModulatorInv, BitLength
    <3>2. ASSUME NEW f \in {0, 2, 3}, NEW p \in 0..40, NEW a \in {0, 40}
          PROVE  f * p + a \in Nat
      <4>1. f * p \in {0 * p, 2 * p, 3 * p}
        OBVIOUS
      <4>2. f * p \in Nat
        BY <4>1
      <4> QED BY <4>2
    <3>3. fs' * phase' + padj' \in Nat
      BY <3>1, <3>2
    <3> QED BY <3>3 DEF Angle, Cycle
  <2>2. PICK sample \in Int : Sample(sample)
    BY <1>1, <2>1, SineType DEF Hear
  <2> QED BY <1>1, <2>2, SampleInv, ModemAssumption DEF ModemInv, Hear
<1>2. CASE Skip
  <2>1. ClockInv'
    BY <1>2, EndBufferInv DEF Skip, SkipSample, ModemInv
  <2>2. DetectorInv'
    BY <1>2 DEF Skip, SkipSample, ModemInv, DetectorInv
  <2> QED BY <1>2, <2>1, <2>2, ModemAssumption DEF Skip
<1> QED BY <1>1, <1>2 DEF Receive

(* ... and whatever is received, so is the sender's.                       *)
LEMMA SenderStep ==
  ASSUME ModemNext
  PROVE  /\ Receive
         /\ \/ SameBit
            \/ NextBit
            \/ \E word \in SUBSET (0..WordBits - 1) : NextWord(word)
<1>1. {} \in SUBSET (0..WordBits - 1) /\ Reversals \in SUBSET (0..WordBits - 1)
  BY ModemAssumption
<1>2. \A word \in Words : word \in SUBSET (0..WordBits - 1)
  BY ModemAssumption
<1> QED BY <1>1, <1>2 DEF ModemNext, WithinBit, BitFollows, BeSilent, SendPreamble, SendWord

LEMMA Steps == ModemInv /\ [ModemNext]_modemvars => ModemInv'
<1> SUFFICES ASSUME ModemInv, [ModemNext]_modemvars PROVE ModemInv'
  OBVIOUS
<1>1. CASE ModemNext
  <2>1. ModulatorInv'
    BY <1>1, SenderStep, SameBitInv, NextBitInv, NextWordInv DEF ModemInv
  <2> QED BY <1>1, <2>1, SenderStep, ReceiveInv DEF ModemInv
<1>2. CASE UNCHANGED modemvars
  <2>1. UNCHANGED <<modulatorvars, clockvars, initfilter, last, mst, discqueue, discfilter, frame>>
    BY <1>2 DEF modemvars, demodulatorvars
  <2>2. ModulatorInv'
    BY <2>1 DEF ModemInv, ModulatorInv, modulatorvars
  <2>3. ClockInv'
    <3>1. /\ slast' = slast /\ pll_count' = pll_count /\ pll' = pll /\ since' = since
          /\ pll_early' = pll_early /\ pll_late' = pll_late
      BY <2>1 DEF clockvars
    <3> QED BY <3>1, Zenon DEF ModemInv, ClockInv
  <2>4. DetectorInv' /\ frame' \in 0..Buffer - 1
    BY <2>1 DEF ModemInv, DetectorInv
  <2> QED BY <2>2, <2>3, <2>4 DEF ModemInv
<1> QED BY <1>1, <1>2

LEMMA Invariant == ModemSpec => []ModemInv
BY Starts, Steps, PTL DEF ModemSpec

-----------------------------------------------------------------------------
(* Theorems                                                                *)

(* The variables keep their ranges.                                        *)
THEOREM ModemTypeCorrect == ModemSpec => []ModemTypeOK
<1>1. ModemInv => ModemTypeOK
  BY DEF ModemInv, ModulatorInv, ClockInv, DetectorInv, ModemTypeOK
<1> QED BY <1>1, Invariant, PTL

(* The controller is asked for a word once in the time of a word, whatever *)
(* it answers (modem_tx, lines 113-137).                                   *)
THEOREM WordsTakeTheirTime == ModemSpec => []WordTime
<1>1. ModemInv => WordTime
  BY WordAssumption DEF ModemInv, ModulatorInv, WordTime, BitLength
<1> QED BY <1>1, Invariant, PTL

(* A bit is taken every 38, 40 or 44 samples, whatever is received and     *)
(* however long the buffers are (modem_rx, lines 197-236).                 *)
THEOREM BitsAreSpaced == ModemSpec => []BitSpacing
<1>1. ModemInv => BitSpacing
  <2> SUFFICES ASSUME ClockInv, Takes PROVE since \in {Never, 38, 40, 44}
    BY DEF ModemInv, BitSpacing
  <2>1. pll_count = 0
    BY DEF ClockInv, Takes
  <2> QED BY <2>1 DEF ClockInv
<1> QED BY <1>1, Invariant, PTL

LEMMA AngleAdvances ==
  ASSUME ModulatorInv,
         SameBit \/ NextBit \/ \E word \in SUBSET (0..WordBits - 1) : NextWord(word)
  PROVE  Angle' = (Angle + fs') % Cycle
<1>1. fs \in {0, 2, 3} /\ padj \in {0, 40} /\ phase \in 0..40
  BY DEF ModulatorInv, BitLength
<1>2. CASE SameBit
  <2>1. phase' = phase + 1 /\ fs' = fs /\ padj' = padj
    BY <1>2 DEF SameBit
  <2>2. CASE fs = 0
    BY <1>1, <2>1, <2>2 DEF Angle, Cycle
  <2>3. CASE fs = 2
    BY <1>1, <2>1, <2>3 DEF Angle, Cycle
  <2>4. CASE fs = 3
    BY <1>1, <2>1, <2>4 DEF Angle, Cycle
  <2> QED BY <1>1, <2>2, <2>3, <2>4
<1>3. CASE NextBit \/ \E word \in SUBSET (0..WordBits - 1) : NextWord(word)
  <2>1. /\ phase = 40 /\ phase' = 1 /\ fs' \in {2, 3}
        /\ padj' = (padj + fs * 40) % 80
    BY <1>3 DEF NextBit, NextWord, StartBit, BitLength, Cycle
  <2>2. Angle = padj'
    BY <1>1, <2>1 DEF Angle, Cycle
  <2>3. padj' \in 0..79
    BY <1>1, <2>1
  <2>4. CASE fs' = 2
    BY <2>1, <2>2, <2>3, <2>4 DEF Angle, Cycle
  <2>5. CASE fs' = 3
    BY <2>1, <2>2, <2>3, <2>5 DEF Angle, Cycle
  <2> QED BY <2>1, <2>4, <2>5
<1> QED BY <1>2, <1>3

(* The sine that is transmitted has no jumps, whatever the words are       *)
(* (modem_tx, lines 124-126).                                              *)
THEOREM SineIsContinuous == ModemSpec => Continuous
<1>1. ModemInv /\ [ModemNext]_modemvars =>
        [Sending /\ Sending' => Angle' = (Angle + fs') % Cycle]_modulatorvars
  <2> SUFFICES ASSUME ModemInv, [ModemNext]_modemvars, ~UNCHANGED modulatorvars
               PROVE  Angle' = (Angle + fs') % Cycle
    OBVIOUS
  <2>1. ModemNext
    BY DEF modemvars
  <2> QED BY <2>1, SenderStep, AngleAdvances DEF ModemInv
<1> QED BY <1>1, Invariant, PTL DEF ModemSpec, Continuous
=============================================================================
