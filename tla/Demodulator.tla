---------------------------- MODULE Demodulator -----------------------------
(***************************************************************************)
(* modem_rx of mskmodem/mskmodem.c in front of the bit clock: a band       *)
(* filter; zero crossings of what it lets through start a monostable of 13 *)
(* samples; where the crossings are close, as they are in a zero, it is on *)
(* now, 6 and 13 samples ago; what remains is smoothed by a low-pass       *)
(* filter.  The filters are those of the code, tap by tap, with its        *)
(* coefficients in units of 1E-7 and the samples in units of 1/400.        *)
(***************************************************************************)
EXTENDS BitClock

VARIABLES
  initfilter,  \* what the samples so far give the band filter's outputs
  last,        \* its output before was negative
  mst,         \* samples for which the monostable is still on
  discqueue,   \* its output, the last samples that it was on, by their age
  discfilter   \* what the discriminator made of it gives the low-pass

demodulatorvars == <<initfilter, last, mst, discqueue, discfilter, clockvars>>

(* Both sets of coefficients are the same from either end.                 *)
Mirrored(half) == [n \in 1..51 |-> half[IF n <= 26 THEN n ELSE 52 - n]]

fir900to2100 ==
  Mirrored(<<3829, 483, -3554, -9058,
    -16643, -26639, -38995, -53223, -68404, -83243, -96175,
    -105523, -109671, -107252, -97326, -79517, -54107, -22065,
    14986, 54883, 95081, 132861, 165563, 190822, 206773,
    212227>>)

fir600 ==
  Mirrored(<<15393, 17254, 20791, 26251,
    33837, 43697, 55914, 70505, 87412, 106507, 127585,
    150375, 174540, 199689, 225380, 251141, 276471, 300864,
    323815, 344841, 363486, 379345, 392064, 401360, 407023,
    408925>>)

(* convolvesum.  The code keeps the last fifty samples and sums them up    *)
(* every time, here every sample is added at once to the output of now and *)
(* the 49 to come; the first of the sums is the one that is complete.      *)
Nothing == [n \in 1..50 |-> 0]

Convolved(sums, coeff, sample) ==
  [n \in 1..50 |-> (IF n < 50 THEN sums[n + 1] ELSE 0) + coeff[n] * sample]

DemodulatorInit ==
  /\ ClockInit
  /\ initfilter = Nothing /\ discfilter = Nothing
  /\ last = FALSE /\ mst = 0 /\ discqueue = {}

(* A sample is put in front of the last ones, of which fifteen are kept.   *)
Shifted(ages, on) ==
  ({age + 1 : age \in ages} \cap 0..14) \cup (IF on THEN {0} ELSE {})

(* The output of the band filter crosses zero or does not.                 *)
Monostable(negative) == IF negative # last THEN 13 ELSE mst

(* One sample of the receiver's input.                                     *)
Sample(sample) ==
  LET on == Monostable(last') > 0
      close == {0, 6, 13} \subseteq discqueue'
      b == IF discfilter'[1] > 5000000 THEN 1 ELSE 0 IN
  /\ initfilter' = Convolved(initfilter, fir900to2100, sample)
  /\ last' = (initfilter'[1] < 0)
  /\ mst' = IF on THEN Monostable(last') - 1 ELSE 0
  /\ discqueue' = Shifted(discqueue, on)
  /\ discfilter' = Convolved(discfilter, fir600, IF close THEN 0 ELSE 1)
  /\ Tick(b)

(* The last sample of a buffer is not looked at.                           *)
SkipSample ==
  EndBuffer /\ UNCHANGED <<initfilter, last, mst, discqueue, discfilter>>
=============================================================================
