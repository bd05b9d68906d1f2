----------------------------- MODULE Modulator ------------------------------
(***************************************************************************)
(* modem_tx of mskmodem/mskmodem.c, the transmitter of the FFSK modem, one *)
(* step per sample.  A one is a whole cycle of sine in the time of a bit,  *)
(* a zero one and a half.  Angles are counted in eightieths of a cycle, so *)
(* that a sample advances the sine by two or by three.  A word is the set  *)
(* of the positions of its ones.                                           *)
(***************************************************************************)
EXTENDS Integers

CONSTANT WordBits  \* bits of a word, 64

ASSUME WordAssumption == WordBits \in Nat \ {0}

BitLength == 40    \* samples of a bit
Cycle == 80

VARIABLES
  phase,    \* sample of the bit
  current,  \* the word on the air; the empty word is silence
  bitmask,  \* bits of it that are still to come
  fs,       \* advance of the sine per sample
  padj,     \* angle at which the bit began
  age       \* HISTORY: samples since tx_f was asked for a word

modulatorvars == <<phase, current, bitmask, fs, padj, age>>

ModulatorInit ==
  /\ phase = 0 /\ current = {} /\ bitmask = 0
  /\ fs = 0 /\ padj = 0 /\ age = 0

(* "Adjust phase for continuity", "Get bit" and "Set next bit".            *)
BugStartBit(word, left) ==
  /\ phase' = 1
  /\ fs' = IF left - 1 \in word THEN 2 ELSE 3
  /\ padj' = (padj + fs' * BitLength) % Cycle
  /\ current' = word
  /\ bitmask' = left - 1
StartBit(word, left) ==
  /\ phase' = 1
  /\ padj' = (padj + fs * BitLength) % Cycle
  /\ fs' = IF left - 1 \in word THEN 2 ELSE 3
  /\ current' = word
  /\ bitmask' = left - 1

SameBit ==
  /\ phase < BitLength
  /\ phase' = phase + 1
  /\ age' = age + 1
  /\ UNCHANGED <<current, bitmask, fs, padj>>

NextBit ==
  /\ phase = BitLength /\ bitmask # 0
  /\ StartBit(current, bitmask)
  /\ age' = age + 1

(* tx_f gives the next word; a word that it leaves alone is empty.         *)
BugNextWord(word) ==
  /\ phase = BitLength /\ bitmask = 0
  /\ StartBit(word, WordBits - 1)
  /\ age' = 1
NextWord(word) ==
  /\ phase = BitLength /\ bitmask = 0
  /\ StartBit(word, WordBits)
  /\ age' = 1

-----------------------------------------------------------------------------
(* What is put into the buffer over whatever tx_sound_f has put there.     *)
Sending == current # {}
Angle == (fs * phase + padj) % Cycle

(* The sine, in units of 1/400.                                            *)
Sine(angle) ==
  LET half == angle % 40
      quarter == <<0, 31, 63, 93, 124, 153, 182, 209, 235, 260, 283, 304,
                   324, 341, 356, 370, 380, 389, 395, 399, 400>>
      size == quarter[1 + (IF half <= 20 THEN half ELSE 40 - half)]
  IN IF angle < 40 THEN size ELSE -size

(* The bit on the air, once there is one.                                  *)
OnAir == IF fs = 2 THEN 1 ELSE 0

-----------------------------------------------------------------------------
(* Properties                                                              *)

(* The sine has no jumps, within a bit, from bit to bit and from word to   *)
(* word: every sample advances it by what the bit on the air calls for     *)
(* (modem_tx, lines 113-141).                                              *)
Continuous ==
  [][Sending /\ Sending' => Angle' = (Angle + fs') % Cycle]_modulatorvars

(* The controller is asked for a word once in the time of a word, neither  *)
(* earlier nor later: what its slots and time-outs are counted in          *)
(* (modem_tx, lines 117-122).                                              *)
WordTime == phase = BitLength /\ bitmask = 0 /\ fs # 0 => age = WordBits * BitLength
=============================================================================
