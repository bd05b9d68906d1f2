------------------------------- MODULE Modem --------------------------------
(***************************************************************************)
(* Two stations: the modulator of one and the demodulator of the other,    *)
(* both of mskmodem/mskmodem.c, sample by sample.  The sender is silent or *)
(* transmits; a transmission begins with reversals, as it has to for a     *)
(* receiver to find the bits.  The receiver gets its samples in buffers,   *)
(* of which modem_rx leaves out the last sample each time.                 *)
(***************************************************************************)
EXTENDS Modulator, Demodulator, Sequences

CONSTANTS
  Buffer,     \* frames in a buffer of the receiver's audio server
  Offsets,    \* where in such a buffer the sender may start
  Words,      \* what is transmitted
  Reversals,  \* the word that begins a transmission ...
  Preamble    \* ... so many times

ASSUME ModemAssumption ==
  /\ Buffer \in Nat \ {0, 1} /\ Preamble \in Nat
  /\ Offsets \subseteq 0..Buffer - 1
  /\ Words \subseteq SUBSET (0..WordBits - 1) /\ {} \notin Words
  /\ Reversals \subseteq 0..WordBits - 1 /\ Reversals # {}

VARIABLES
  frame,     \* frames of the receiver's buffer that are done
  preamble,  \* HISTORY: words of the preamble since the silence
  due,       \* HISTORY: the bit before the one on the air and the one before
  taken      \* HISTORY: the bits taken since the middle of a bit on the air

modemvars == <<modulatorvars, demodulatorvars, frame, preamble, due, taken>>

Unknown == -1

(* The two stations have nothing to do with each other: the sender starts  *)
(* anywhere in a buffer of the receiver.                                   *)
ModemInit ==
  /\ ModulatorInit /\ DemodulatorInit
  /\ frame \in Offsets
  /\ preamble = 0 /\ due = <<Unknown, Unknown>> /\ taken = <<>>

-----------------------------------------------------------------------------
(* The receiver's part of a step: the sample that the sender puts on the   *)
(* air, or the one that is left out.                                       *)
Hear ==
  /\ frame < Buffer - 1
  /\ frame' = frame + 1
  /\ Sample(IF Sending' THEN Sine(Angle') ELSE 0)

Skip ==
  /\ frame = Buffer - 1
  /\ frame' = 0
  /\ SkipSample

(* Through both filters a bit is on its way for the time of two.           *)
Middle == 25

Receive ==
  /\ Hear \/ Skip
  /\ LET took == IF frame < Buffer - 1 /\ Takes THEN <<slast'>> ELSE <<>>
     IN taken' = IF phase = Middle THEN took ELSE taken \o took

WithinBit == SameBit /\ Receive /\ UNCHANGED <<preamble, due>>

(* What the bit that ends was sent as, if the receiver can know by now.    *)
AtBit ==
  due' = <<IF Sending /\ preamble = Preamble THEN OnAir ELSE Unknown, due[1]>>

BitFollows == NextBit /\ Receive /\ AtBit /\ UNCHANGED preamble

BeSilent ==
  /\ NextWord({}) /\ Receive /\ AtBit
  /\ preamble' = 0

(* The reversals that the traffic sync word begins with, in words of their *)
(* own: words are short in the runs.                                       *)
SendPreamble ==
  /\ preamble < Preamble
  /\ NextWord(Reversals) /\ Receive /\ AtBit
  /\ preamble' = preamble + 1

SendWord(word) ==
  /\ preamble = Preamble
  /\ NextWord(word) /\ Receive /\ AtBit
  /\ UNCHANGED preamble

ModemNext ==
  \/ WithinBit \/ BitFollows
  \/ BeSilent \/ SendPreamble \/ \E word \in Words : SendWord(word)

ModemSpec == ModemInit /\ [][ModemNext]_modemvars

-----------------------------------------------------------------------------
(* Properties                                                              *)

(* Type invariant.                                                         *)
ModemTypeOK ==
  /\ phase \in 0..BitLength /\ current \subseteq 0..WordBits - 1
  /\ bitmask \in 0..WordBits - 1 /\ fs \in {0, 2, 3} /\ padj \in {0, 40}
  /\ slast \in {0, 1} /\ pll_count \in 0..43
  /\ {pll, pll_early, pll_late, last} \subseteq BOOLEAN
  /\ {initfilter, discfilter} \subseteq [1..50 -> Int]
  /\ mst \in 0..12 /\ discqueue \subseteq 0..14
  /\ frame \in 0..Buffer - 1

(* Behind the preamble every bit is taken once and as it was sent, between *)
(* the middle of the next one and that of the one after: none is lost, none*)
(* is taken twice, though the receiver never sees the last sample of a     *)
(* buffer and forgets there whether the bits came early or late (modem_rx, *)
(* lines 153 and 157).                                                     *)
EachBitOnce == phase = Middle /\ due[2] # Unknown => taken = <<due[2]>>
=============================================================================
