----------------------------- MODULE LinkProofs -----------------------------
(* Theorems about Link, for every message, system code and pattern of      *)
(* errors, whatever was received before.                                   *)
EXTENDS CyclicProofs, Syscode

(* A message of any value is a codeword of 48 bits.                        *)
LEMMA Encoded ==
  ASSUME NEW class, FitsCodeword(class), NEW value
  PROVE  Encode(class, value) \in SUBSET (0..47)
<1>1. ASSUME NEW f \in DOMAIN class.fields
      PROVE  Put(value[f], class.fields[f]) \subseteq 0..47
  <2>1. /\ class.fields[f][1] \in Nat /\ class.fields[f][2] \in Nat
        /\ class.fields[f][1] + class.fields[f][2] <= 48
    BY DEF FitsCodeword
  <2> QED BY <2>1 DEF Put, Shifted
<1> QED BY <1>1 DEF Encode, FitsCodeword

(* A field that is apart is read as it was written.                        *)
LEMMA ReadBack ==
  ASSUME NEW class, FitsCodeword(class), NEW value,
         NEW f \in DOMAIN class.fields, Apart(class, f)
  PROVE  Get(Encode(class, value), class.fields[f])
           = value[f] \cap 0..class.fields[f][2] - 1
<1> DEFINE shift(g) == class.fields[g][1]
           width(g) == class.fields[g][2]
<1>1. \A g \in DOMAIN class.fields : shift(g) \in Nat /\ width(g) \in Nat
  BY DEF FitsCodeword
<1>2. \A g \in DOMAIN class.fields : \A k \in Put(value[g], class.fields[g]) :
        /\ k \in Span(class.fields[g])
        /\ k - shift(g) \in value[g] \cap 0..width(g) - 1
  BY <1>1 DEF Put, Shifted, Span
<1>3. \A i \in 0..width(f) - 1 : i + shift(f) \in Span(class.fields[f])
  BY <1>1 DEF Span
<1>4. ASSUME NEW i \in 0..width(f) - 1, i + shift(f) \in Encode(class, value)
      PROVE  i \in value[f]
  <2>1. i + shift(f) \notin class.fixed
    BY <1>3 DEF Apart
  <2>2. PICK g \in DOMAIN class.fields : i + shift(f) \in Put(value[g], class.fields[g])
    BY <1>4, <2>1 DEF Encode
  <2>3. i + shift(f) \in Span(class.fields[g])
    BY <1>2, <2>2
  <2>4. g = f
    BY <1>3, <2>3 DEF Apart
  <2>5. (i + shift(f)) - shift(f) \in value[f]
    BY <1>2, <2>2, <2>4
  <2> QED BY <1>1, <2>5
<1>5. ASSUME NEW i \in 0..width(f) - 1, i \in value[f]
      PROVE  i + shift(f) \in Encode(class, value)
  <2>1. i + shift(f) \in Put(value[f], class.fields[f])
    BY <1>5 DEF Put, Shifted
  <2> QED BY <2>1 DEF Encode
<1> QED BY <1>4, <1>5 DEF Get

(* The class of a message is in bits that no field reaches.                *)
LEMMA Recognised ==
  ASSUME LayoutsSound, NEW name \in DOMAIN RUtoTSC \cup {"SAMIS"},
         name \in DOMAIN Classes, NEW value
  PROVE  RUtoTSCDecode(Encode(Classes[name], value)) = name
<1> DEFINE class == Classes[name]
           cw == Encode(class, value)
<1>1. FitsCodeword(class)
  BY DEF LayoutsSound
<1>2. \A f \in DOMAIN class.fields : Put(value[f], class.fields[f]) \cap Header = {}
  <2> SUFFICES ASSUME NEW f \in DOMAIN class.fields
               PROVE  Put(value[f], class.fields[f]) \cap Header = {}
    OBVIOUS
  <2>1. class.fields[f][1] \in Nat /\ class.fields[f][2] \in Nat
    BY <1>1 DEF FitsCodeword
  <2>2. Put(value[f], class.fields[f]) \subseteq Span(class.fields[f])
    BY <2>1 DEF Put, Shifted, Span
  <2>3. Span(class.fields[f]) \cap Header = {}
    BY DEF LayoutsSound
  <2> QED BY <2>2, <2>3
<1>3. \A i \in Header : i \in cw <=> i \in class.fixed
  BY <1>2 DEF Encode
<1> HIDE DEF cw, class
<1>4. {47, 26} \subseteq cw <=> {47, 26} \subseteq class.fixed
  BY <1>3 DEF Header
<1>5. /\ Get(cw, <<23, 3>>) = Get(class.fixed, <<23, 3>>)
      /\ Get(cw, <<18, 3>>) = Get(class.fixed, <<18, 3>>)
      /\ Get(cw, <<21, 2>>) = Get(class.fixed, <<21, 2>>)
  BY <1>3 DEF Get, Header
<1>6. Typed(cw) = Typed(class.fixed)
  BY <1>5 DEF Typed
<1>7. RUtoTSCDecode(cw) = RUtoTSCDecode(class.fixed)
  BY <1>4, <1>5, <1>6 DEF RUtoTSCDecode
<1> QED BY <1>7 DEF LayoutsSound, class, cw

-----------------------------------------------------------------------------
(* As much of the register as has been received of the half slot is what   *)
(* was sent, and what is heard is what is in the register.                 *)
Received ==
  /\ rx_cw \subseteq 0..63 /\ left \in 0..64
  /\ \A i \in 0..63 : i + left < 64 => (i \in rx_cw <=> i + left \in half)

Judged ==
  heard = IF Accepted(rx_cw) THEN {Codeword(rx_cw)} ELSE {}

Saying ==
  sent = "message" =>
    /\ said.name \in DOMAIN Classes /\ said.noise \in SUBSET (0..63)
    /\ half = Xor(FcsAdd(Encode(Classes[said.name], said.value)), said.noise)
    /\ left < 64 => Judged

LinkInv == Received /\ Saying

LEMMA InitInv == LinkInit => LinkInv
BY DEF LinkInit, LinkInv, Received, Saying

LEMMA SyncInv ==
  ASSUME LinkInv, NEW kind \in {"control", "traffic"}, NEW bits, SyncHalf(kind, bits)
  PROVE  LinkInv'
<1>1. Received'
  BY DEF LinkInv, Received, SyncHalf
<1>2. sent' # "message"
  BY DEF SyncHalf
<1> QED BY <1>1, <1>2 DEF LinkInv, Saying

LEMMA SayInv ==
  ASSUME LinkInv, NEW message \in Messages, NEW noise \in Noise, Say(message, noise)
  PROVE  LinkInv'
<1>1. Received'
  BY DEF LinkInv, Received, Say
<1>2. Saying'
  BY LinkAssumption DEF Saying, Say
<1> QED BY <1>1, <1>2 DEF LinkInv

(* A bit moves the register on, and what is in it is judged.               *)
LEMMA BitInv == ASSUME LinkInv, Bit PROVE LinkInv'
<1>1. left \in 1..64 /\ left' = left - 1 /\ half' = half
  BY DEF LinkInv, Received, Bit
<1>2. rx_cw' = (Shifted(rx_cw, 1) \cap 0..63) \cup {i \in {0} : left - 1 \in half}
  BY DEF Bit
<1>3. \A i \in 1..63 : i \in rx_cw' <=> i - 1 \in rx_cw
  <2>1. \A i \in 1..63 : i \in Shifted(rx_cw, 1) <=> i - 1 \in rx_cw
    BY DEF Shifted, LinkInv, Received
  <2> QED BY <1>2, <2>1
<1>4. 0 \in rx_cw' <=> left - 1 \in half
  <2>1. 0 \notin Shifted(rx_cw, 1)
    BY DEF Shifted, LinkInv, Received
  <2> QED BY <1>2, <2>1
<1>5. Received'
  <2>1. rx_cw' \subseteq 0..63 /\ left' \in 0..64
    BY <1>1, <1>2
  <2>2. ASSUME NEW i \in 0..63, i + left' < 64
        PROVE  i \in rx_cw' <=> i + left' \in half'
    <3>1. CASE i = 0
      BY <1>1, <1>4, <3>1
    <3>2. CASE i # 0
      <4>1. i - 1 \in 0..63 /\ (i - 1) + left = i + left' /\ i \in 1..63
        BY <1>1, <3>2
      <4>2. i - 1 \in rx_cw <=> (i - 1) + left \in half
        BY <2>2, <4>1 DEF LinkInv, Received
      <4> QED BY <1>1, <1>3, <4>1, <4>2
    <3> QED BY <3>1, <3>2
  <2> QED BY <2>1, <2>2 DEF Received
<1>6. Judged'
  BY DEF Judged, Bit
<1>7. Saying'
  BY <1>6 DEF Saying, LinkInv, Bit
<1> QED BY <1>5, <1>7 DEF LinkInv

LEMMA StepInv == LinkInv /\ [LinkNext]_linkvars => LinkInv'
<1> SUFFICES ASSUME LinkInv, [LinkNext]_linkvars PROVE LinkInv'
  OBVIOUS
<1>1. ASSUME NEW syscode \in Syscodes, ControlSync(syscode) \/ DataSync(syscode)
      PROVE  LinkInv'
  BY <1>1, SyncInv DEF ControlSync, DataSync
<1>2. CASE TrafficSync
  BY <1>2, SyncInv DEF TrafficSync
<1>3. ASSUME NEW message \in Messages, NEW noise \in Noise, Say(message, noise)
      PROVE  LinkInv'
  BY <1>3, SayInv
<1>4. CASE Bit
  BY <1>4, BitInv
<1>5. CASE Raised
  BY <1>5 DEF Raised, LinkInv, Received, Saying
<1>6. CASE UNCHANGED linkvars
  BY <1>6 DEF linkvars, LinkInv, Received, Saying, Judged
<1> QED BY <1>1, <1>2, <1>3, <1>4, <1>5, <1>6 DEF LinkNext

THEOREM LinkCorrect == LinkSpec => []LinkInv
BY InitInv, StepInv, PTL DEF LinkSpec

-----------------------------------------------------------------------------
(* The register holds the whole half slot when its last bit is in.         *)
LEMMA WholeHalf ==
  ASSUME LayoutsSound, LinkInv, Ended("message"), said.noise = {}
  PROVE  heard = {Encode(Classes[said.name], said.value)}
<1> DEFINE cw == Encode(Classes[said.name], said.value)
<1>1. cw \in SUBSET (0..47)
  BY Encoded DEF LayoutsSound, LinkInv, Saying, Ended
<1> HIDE DEF cw
<1>2. half = FcsAdd(cw)
  BY DEF LinkInv, Saying, Ended, Xor, cw
<1>3. rx_cw = half
  <2>1. \A i \in 0..63 : i \in rx_cw <=> i \in half
    BY DEF LinkInv, Received, Ended
  <2>2. half \subseteq 0..63
    BY <1>1, <1>2, FcsAdded
  <2> QED BY <2>1, <2>2 DEF LinkInv, Received
<1>4. Codeword(rx_cw) = cw /\ rx_cw \cap 0..15 = Fcs(cw)
  BY <1>1, <1>2, <1>3, FcsAdded
<1>5. heard = {cw}
  BY <1>4 DEF LinkInv, Saying, Ended, Judged, Accepted
<1> QED BY <1>5 DEF cw

(* A message received without an error is heard, whole, with its last bit, *)
(* whatever was received before it (modem_tx and modem_rx of channel.c).   *)
THEOREM HearsWhole == LayoutsSound => (LinkSpec => []HeardWhole)
<1> SUFFICES ASSUME LayoutsSound PROVE LinkSpec => []HeardWhole
  OBVIOUS
<1>1. LinkInv => HeardWhole
  BY WholeHalf DEF HeardWhole
<1> QED BY <1>1, LinkCorrect, PTL

(* And it is understood as what it was said to be, for every value of its  *)
(* fields (encoders and RUtoTSCDecode of mpt1327.py).                      *)
THEOREM Understands == LayoutsSound => (LinkSpec => []Understood)
<1> SUFFICES ASSUME LayoutsSound PROVE LinkSpec => []Understood
  OBVIOUS
<1>1. LinkInv => Understood
  <2> SUFFICES ASSUME LinkInv, Ended("message"), said.noise = {}, NEW cw \in heard
      PROVE  /\ said.name \in DOMAIN RUtoTSC \cup {"SAMIS"}
                  => RUtoTSCDecode(cw) = said.name
             /\ \A f \in DOMAIN Classes[said.name].fields :
                  Shared(said.name, f)
                    \/ Decode(Reading(said.name), cw)[f]
                         = said.value[f] \cap 0..Classes[said.name].fields[f][2] - 1
    BY DEF Understood
  <2>1. cw = Encode(Classes[said.name], said.value)
    BY WholeHalf
  <2>2. said.name \in DOMAIN Classes
    BY DEF LinkInv, Saying, Ended
  <2>3. ASSUME NEW f \in DOMAIN Classes[said.name].fields, ~Shared(said.name, f)
        PROVE  Decode(Reading(said.name), cw)[f]
                 = said.value[f] \cap 0..Classes[said.name].fields[f][2] - 1
    <3>1. FitsCodeword(Classes[said.name]) /\ Apart(Classes[said.name], f)
      BY <2>2, <2>3 DEF LayoutsSound
    <3>2. Get(cw, Classes[said.name].fields[f])
            = said.value[f] \cap 0..Classes[said.name].fields[f][2] - 1
      BY <2>1, <3>1, ReadBack
    <3>3. Reading(said.name).fields = Classes[said.name].fields
      BY <2>2 DEF LayoutsSound
    <3> QED BY <2>3, <3>2, <3>3 DEF Decode
  <2>4. said.name \in DOMAIN RUtoTSC \cup {"SAMIS"} => RUtoTSCDecode(cw) = said.name
    BY <2>1, <2>2, Recognised
  <2> QED BY <2>3, <2>4
<1> QED BY <1>1, LinkCorrect, PTL

-----------------------------------------------------------------------------
(* A half slot has 64 bits                                                 *)

LEMMA ShiftedRange ==
  ASSUME NEW number, NEW high \in Nat, number \subseteq 0..high,
         NEW places \in Nat, NEW top \in Nat, high + places <= top
  PROVE  Shifted(number, places) \subseteq 0..top
BY DEF Shifted

LEMMA SyncWords ==
  ASSUME NEW syscode \in SUBSET (0..14), NEW ccs, NEW wrong \in BOOLEAN
  PROVE  System(syscode, ccs, wrong) \subseteq 0..47
<1> DEFINE f == Fcs(ccs \cup Shifted(syscode, 1))
           g == IF (0 \in f) = wrong
                THEN {16} \cup Fcs(ccs \cup Shifted(syscode, 1) \cup {0}) ELSE f
           check == Xor(Shifted(g \ {0}, -1), {0})
<1>1. g \subseteq 0..16
  BY FcsBits
<1> HIDE DEF g
<1>2. check \subseteq 0..15
  BY <1>1 DEF Xor, Shifted
<1> HIDE DEF check
<1>3. Shifted(check, 16) \subseteq 0..47 /\ Shifted(syscode, 32) \subseteq 0..47
  <2>1. syscode \subseteq 0..14 /\ 15 + 16 <= 47 /\ 14 + 32 <= 47
    OBVIOUS
  <2> QED BY <1>2, <2>1, ShiftedRange
<1>4. PREAMBLE \subseteq 0..47
  BY DEF PREAMBLE, Bits
<1>5. System(syscode, ccs, wrong) = Shifted(syscode, 32) \cup Shifted(check, 16) \cup PREAMBLE
  BY DEF System, g, check
<1> QED BY <1>3, <1>4, <1>5

LEMMA SyncCodewords ==
  ASSUME NEW syscode \in SUBSET (0..14)
  PROVE  CCSC(syscode) \in SUBSET (0..47) /\ DCSC(syscode) \in SUBSET (0..47)
<1> DEFINE ccsc == Shifted(PREAMBLE, 32) \cup Shifted(Bits(50388), 16)
           dcsc == Shifted(PREAMBLE, 32) \cup Shifted(Bits(15146), 16)
<1>1. CCSC(syscode) = System(syscode, ccsc, FALSE) /\ DCSC(syscode) = System(syscode, dcsc, TRUE)
  BY DEF CCSC, DCSC
<1> HIDE DEF ccsc, dcsc
<1>2. System(syscode, ccsc, FALSE) \subseteq 0..47 /\ System(syscode, dcsc, TRUE) \subseteq 0..47
  BY SyncWords
<1> QED BY <1>1, <1>2

(* Every half slot has 64 bits, and what is heard is what the register     *)
(* holds (modem_tx, modem_rx).                                             *)
THEOREM LinkTypeCorrect == LayoutsSound => (LinkSpec => []LinkTypeOK)
<1> SUFFICES ASSUME LayoutsSound PROVE LinkSpec => []LinkTypeOK
  OBVIOUS
<1>1. LinkInit => LinkTypeOK
  BY DEF LinkInit, LinkTypeOK, Slip
<1>2. LinkTypeOK /\ [LinkNext]_linkvars => LinkTypeOK'
  <2> SUFFICES ASSUME LinkTypeOK, [LinkNext]_linkvars PROVE LinkTypeOK'
    OBVIOUS
  <2>1. ASSUME NEW kind \in {"control", "traffic"}, NEW bits \in SUBSET (0..63), SyncHalf(kind, bits)
        PROVE  LinkTypeOK'
    BY <2>1 DEF SyncHalf, LinkTypeOK
  <2>2. ASSUME NEW syscode \in Syscodes, ControlSync(syscode) \/ DataSync(syscode)
        PROVE  LinkTypeOK'
    <3>1. CCSC(syscode) \in SUBSET (0..47) /\ DCSC(syscode) \in SUBSET (0..47)
      BY <2>2, LinkAssumption, SyncCodewords
    <3>2. FcsAdd(CCSC(syscode)) \in SUBSET (0..63) /\ FcsAdd(DCSC(syscode)) \in SUBSET (0..63)
      BY <3>1, FcsAdded
    <3> QED BY <2>1, <2>2, <3>2 DEF ControlSync, DataSync
  <2>3. CASE TrafficSync
    <3>1. PREAMBLE \subseteq 0..15 /\ SYNT \subseteq 0..15
      BY DEF LayoutsSound
    <3>2. Shifted(PREAMBLE, 48) \cup Shifted(PREAMBLE, 32) \cup Shifted(PREAMBLE, 16) \cup SYNT
            \in SUBSET (0..63)
      <4>1. 15 + 48 <= 63 /\ 15 + 32 <= 63 /\ 15 + 16 <= 63
        OBVIOUS
      <4>2. /\ Shifted(PREAMBLE, 48) \subseteq 0..63
            /\ Shifted(PREAMBLE, 32) \subseteq 0..63
            /\ Shifted(PREAMBLE, 16) \subseteq 0..63
        BY <3>1, <4>1, ShiftedRange
      <4>3. SYNT \subseteq 0..63
        BY <3>1
      <4> QED BY <4>2, <4>3, Zenon
    <3> QED BY <2>1, <2>3, <3>2 DEF TrafficSync
  <2>4. ASSUME NEW message \in Messages, NEW noise \in Noise, Say(message, noise)
        PROVE  LinkTypeOK'
    <3> DEFINE cw == Encode(Classes[message.name], message.value)
    <3>1. cw \in SUBSET (0..47)
      BY Encoded, LinkAssumption DEF LayoutsSound
    <3>2. Xor(FcsAdd(cw), noise) \subseteq 0..63
      BY <3>1, FcsAdded, LinkAssumption DEF Xor
    <3> QED BY <2>4, <3>2 DEF Say, LinkTypeOK
  <2>5. CASE Raised
    <3>1. FcsAdd(0..47) \subseteq 0..63
      BY FcsAdded
    <3> QED BY <2>5, <3>1 DEF Raised, LinkTypeOK
  <2>6. CASE Bit
    <3>1. rx_cw' \subseteq 0..63 /\ left' \in 0..64
      BY <2>6 DEF Bit, LinkTypeOK
    <3>2. heard' \in {{}, {Codeword(rx_cw')}}
      BY <2>6 DEF Bit
    <3>3. quiet' \in 0..Slip
      <4>1. quiet \in 0..Slip /\ quiet' \in {0, IF quiet < Slip THEN quiet + 1 ELSE Slip}
        BY <2>6 DEF Bit, LinkTypeOK
      <4> QED BY <4>1 DEF Slip
    <3>4. half' = half /\ sent' = sent
      BY <2>6 DEF Bit
    <3> QED BY <3>1, <3>2, <3>3, <3>4 DEF LinkTypeOK
  <2>7. CASE UNCHANGED linkvars
    BY <2>7 DEF linkvars, LinkTypeOK
  <2> QED BY <2>2, <2>3, <2>4, <2>5, <2>6, <2>7 DEF LinkNext
<1> QED BY <1>1, <1>2, PTL DEF LinkSpec

-----------------------------------------------------------------------------
(* Errors                                                                  *)

(* A message received with an odd number of errors, or with a burst of     *)
(* them, is not heard at all, whatever it says and whatever was received   *)
(* before it (modem_rx and fcs of channel.c).                              *)
THEOREM NoticesErrors == LayoutsSound /\ CodeSound => (LinkSpec => []ErrorsNoticed)
<1> SUFFICES ASSUME LayoutsSound, CodeSound PROVE LinkSpec => []ErrorsNoticed
  OBVIOUS
<1>1. LinkInv /\ LinkTypeOK => ErrorsNoticed
  <2> SUFFICES ASSUME LinkInv, LinkTypeOK, Ended("message"),
                      Cardinality(said.noise) % 2 = 1 \/ Burst(said.noise)
               PROVE  heard = {}
    BY DEF ErrorsNoticed
  <2> DEFINE cw == Encode(Classes[said.name], said.value)
  <2>1. cw \in SUBSET (0..47)
    BY Encoded DEF LayoutsSound, LinkInv, Saying, Ended
  <2>2. /\ said.noise \in SUBSET (0..63) /\ half = Xor(FcsAdd(cw), said.noise)
        /\ heard = IF Accepted(rx_cw) THEN {Codeword(rx_cw)} ELSE {}
    BY DEF LinkInv, Saying, Ended, Judged
  <2> HIDE DEF cw
  <2>3. rx_cw = half
    <3>1. \A i \in 0..63 : i \in rx_cw <=> i \in half
      BY DEF LinkInv, Received, Ended
    <3> QED BY <3>1 DEF LinkTypeOK
  <2>4. ~Accepted(Xor(FcsAdd(cw), said.noise))
    <3>1. 0 \in Generator
      BY DEF CodeSound
    <3>2. Odd(said.noise) \/ Burst(said.noise)
      BY DEF Odd
    <3> QED BY <2>1, <2>2, <3>1, <3>2, BurstOrOdd
  <2> QED BY <2>2, <2>3, <2>4
<1> QED BY <1>1, LinkCorrect, LinkTypeCorrect, PTL

-----------------------------------------------------------------------------
(* Slips                                                                   *)

(* What was accepted a few bits ago is still in the register, less what    *)
(* has left it at the top.                                                 *)
LastHeard ==
  /\ rx_cw \in SUBSET (0..63) /\ quiet \in 0..Slip
  /\ quiet < Slip =>
       \E before \in SUBSET (0..63) :
         /\ Accepted(before)
         /\ \A i \in 0..63 - quiet : i + quiet \in rx_cw <=> i \in before

LEMMA BitLastHeard ==
  ASSUME CodeSound, LastHeard, Bit
  PROVE  LastHeard' /\ (heard' # {} => quiet = Slip)
<1>1. /\ rx_cw' \in SUBSET (0..63)
      /\ \A i \in 1..63 : i \in rx_cw' <=> i - 1 \in rx_cw
  <2>1. rx_cw' = (Shifted(rx_cw, 1) \cap 0..63) \cup {i \in {0} : left - 1 \in half}
    BY DEF Bit
  <2>2. \A i \in 1..63 : i \in Shifted(rx_cw, 1) <=> i - 1 \in rx_cw
    BY DEF Shifted, LastHeard
  <2> QED BY <2>1, <2>2
<1>2. heard' # {} => Accepted(rx_cw')
  BY DEF Bit
<1>3. quiet' = IF heard' # {} THEN 0 ELSE IF quiet < Slip THEN quiet + 1 ELSE Slip
  BY DEF Bit
<1>4. ASSUME quiet < Slip
      PROVE  /\ quiet + 1 \in 1..Slip
             /\ \E before \in SUBSET (0..63) :
                  /\ Accepted(before)
                  /\ \A i \in 0..63 - (quiet + 1) : i + (quiet + 1) \in rx_cw' <=> i \in before
  <2>1. PICK before \in SUBSET (0..63) :
          /\ Accepted(before)
          /\ \A i \in 0..63 - quiet : i + quiet \in rx_cw <=> i \in before
    BY <1>4 DEF LastHeard
  <2>2. quiet \in 0..13
    BY <1>4 DEF LastHeard, Slip
  <2>3. ASSUME NEW i \in 0..63 - (quiet + 1)
        PROVE  i + (quiet + 1) \in rx_cw' <=> i \in before
    <3>1. i \in 0..63 - quiet /\ i + (quiet + 1) \in 1..63 /\ (i + (quiet + 1)) - 1 = i + quiet
      BY <2>2
    <3> QED BY <1>1, <2>1, <3>1
  <2> QED BY <2>1, <2>2, <2>3 DEF Slip
<1>5. ASSUME heard' # {} PROVE quiet = Slip
  <2> SUFFICES ASSUME quiet < Slip PROVE FALSE
    BY DEF LastHeard, Slip
  <2>1. PICK before \in SUBSET (0..63) :
          /\ Accepted(before)
          /\ \A i \in 0..63 - (quiet + 1) : i + (quiet + 1) \in rx_cw' <=> i \in before
    BY <1>4
  <2> DEFINE s == quiet + 1
             after == rx_cw'
  <2>2. s \in 1..Slip /\ after \in SUBSET (0..63) /\ Accepted(after)
    BY <1>1, <1>2, <1>4, <1>5
  <2>3. \A i \in 0..63 - s : i + s \in after <=> i \in before
    BY <2>1
  <2> HIDE DEF s, after
  <2> QED BY <2>1, <2>2, <2>3, AcceptedApart
<1>6. LastHeard'
  <2>1. CASE heard' # {}
    <3>1. \A i \in 0..63 - 0 : i + 0 \in rx_cw' <=> i \in rx_cw'
      OBVIOUS
    <3>2. quiet' = 0
      BY <1>3, <2>1
    <3> QED BY <1>1, <1>2, <2>1, <3>1, <3>2 DEF LastHeard, Slip
  <2>2. CASE heard' = {} /\ quiet < Slip
    <3>1. quiet' = quiet + 1
      BY <1>3, <2>2
    <3> QED BY <1>1, <1>4, <2>2, <3>1 DEF LastHeard, Slip
  <2>3. CASE heard' = {} /\ ~(quiet < Slip)
    BY <1>1, <1>3, <2>3 DEF LastHeard, Slip
  <2> QED BY <2>1, <2>2, <2>3
<1> QED BY <1>5, <1>6

LEMMA LastHeardStep ==
  ASSUME CodeSound, LastHeard, [LinkNext]_linkvars
  PROVE  LastHeard' /\ [heard' # {} => quiet = Slip]_linkvars
<1>1. CASE Bit
  BY <1>1, BitLastHeard
<1>2. ASSUME UNCHANGED <<rx_cw, quiet>>, heard' = {}
      PROVE  LastHeard' /\ [heard' # {} => quiet = Slip]_linkvars
  BY <1>2 DEF LastHeard
<1>3. CASE UNCHANGED linkvars
  BY <1>3 DEF linkvars, LastHeard
<1>4. ASSUME NEW syscode \in Syscodes, ControlSync(syscode) \/ DataSync(syscode)
      PROVE  UNCHANGED <<rx_cw, quiet>> /\ heard' = {}
  BY <1>4 DEF ControlSync, DataSync, SyncHalf
<1>5. CASE TrafficSync
  BY <1>2, <1>5 DEF TrafficSync, SyncHalf
<1>6. ASSUME NEW message \in Messages, NEW noise \in Noise, Say(message, noise)
      PROVE  UNCHANGED <<rx_cw, quiet>> /\ heard' = {}
  BY <1>6 DEF Say
<1>7. CASE Raised
  BY <1>2, <1>7 DEF Raised
<1> QED BY <1>1, <1>2, <1>3, <1>4, <1>5, <1>6, <1>7 DEF LinkNext

(* No two codewords are heard less than fifteen bits apart, whatever is    *)
(* sent and received: a receiver a few bits out of step hears nothing      *)
(* (modem_rx and fcs of channel.c).                                        *)
THEOREM HearsApart == CodeSound => (LinkSpec => HeardApart)
<1> SUFFICES ASSUME CodeSound PROVE LinkSpec => HeardApart
  OBVIOUS
<1>1. LinkInit => LastHeard
  BY DEF LinkInit, LastHeard, Slip
<1>2. LastHeard /\ [LinkNext]_linkvars => LastHeard' /\ [heard' # {} => quiet = Slip]_linkvars
  BY LastHeardStep
<1> QED BY <1>1, <1>2, PTL DEF LinkSpec, HeardApart

-----------------------------------------------------------------------------
(* Synchronisation                                                         *)

TrafficBits ==
  Shifted(PREAMBLE, 48) \cup Shifted(PREAMBLE, 32) \cup Shifted(PREAMBLE, 16) \cup SYNT

(* What is on the air instead of a message.                                *)
Synching ==
  /\ sent = "control" => \E syscode \in Syscodes : half = FcsAdd(CCSC(syscode))
  /\ sent = "traffic" =>
       half = TrafficBits \/ \E syscode \in Syscodes : half = FcsAdd(DCSC(syscode))

LEMMA SynchingInv == Synching /\ [LinkNext]_linkvars => Synching'
<1> SUFFICES ASSUME Synching, [LinkNext]_linkvars PROVE Synching'
  OBVIOUS
<1>1. ASSUME NEW syscode \in Syscodes, ControlSync(syscode) PROVE Synching'
  BY <1>1 DEF ControlSync, SyncHalf, Synching
<1>2. ASSUME NEW syscode \in Syscodes, DataSync(syscode) PROVE Synching'
  BY <1>2 DEF DataSync, SyncHalf, Synching
<1>3. CASE TrafficSync
  BY <1>3 DEF TrafficSync, TrafficBits, SyncHalf, Synching
<1>4. ASSUME NEW message \in Messages, NEW noise \in Noise, Say(message, noise) PROVE Synching'
  BY <1>4 DEF Say, Synching
<1>5. CASE Raised
  BY <1>5 DEF Raised, Synching
<1>6. CASE Bit
  BY <1>6 DEF Bit, Synching
<1>7. CASE UNCHANGED linkvars
  BY <1>7 DEF linkvars, Synching
<1> QED BY <1>1, <1>2, <1>3, <1>4, <1>5, <1>6, <1>7 DEF LinkNext

(* Every system codeword ends in its sync word, for every system code, as  *)
(* does the traffic sync word (CCSC and DCSC of mpt1327.py, modem_tx).     *)
THEOREM Synchronises == LayoutsSound /\ CodeSound => (LinkSpec => []Synchronised)
<1> SUFFICES ASSUME LayoutsSound, CodeSound PROVE LinkSpec => []Synchronised
  OBVIOUS
<1>1. LinkInit => Synching
  BY DEF LinkInit, Synching
<1>2. Synching /\ LinkInv /\ LinkTypeOK => Synchronised
  <2> SUFFICES ASSUME Synching, LinkInv, LinkTypeOK PROVE Synchronised
    OBVIOUS
  <2>1. \A syscode \in Syscodes :
          /\ FcsAdd(CCSC(syscode)) \cap 0..15 = SYNC
          /\ FcsAdd(DCSC(syscode)) \cap 0..15 = SYNT
    <3> SUFFICES ASSUME NEW syscode \in Syscodes
                 PROVE  /\ FcsAdd(CCSC(syscode)) \cap 0..15 = SYNC
                        /\ FcsAdd(DCSC(syscode)) \cap 0..15 = SYNT
      OBVIOUS
    <3>1. syscode \in SUBSET (0..14)
      BY LinkAssumption
    <3>2. CCSC(syscode) \in SUBSET (0..47) /\ DCSC(syscode) \in SUBSET (0..47)
      BY <3>1, SyncCodewords
    <3>3. Fcs(CCSC(syscode)) = SYNC /\ Fcs(DCSC(syscode)) = SYNT
      BY <3>1, SystemSync
    <3> QED BY <3>2, <3>3, FcsAdded
  <2>2. TrafficBits \cap 0..15 = SYNT
    <3>1. PREAMBLE \subseteq 0..15 /\ SYNT \subseteq 0..15
      BY DEF LayoutsSound
    <3>2. \A places \in {16, 32, 48} : \A i \in Shifted(PREAMBLE, places) : i \notin 0..15
      BY <3>1 DEF Shifted
    <3> QED BY <3>1, <3>2 DEF TrafficBits
  <2>3. left = 0 => rx_cw \cap 0..15 = half \cap 0..15
    BY DEF LinkInv, Received
  <2> QED BY <2>1, <2>2, <2>3 DEF Synching, Synchronised, Ended
<1> QED BY <1>1, <1>2, SynchingInv, LinkCorrect, LinkTypeCorrect, PTL DEF LinkSpec

-----------------------------------------------------------------------------
(* What is sent in the place of a message                                  *)

Replaced == sent = "raised" => half = FcsAdd(0..47)

LEMMA ReplacedInv == Replaced /\ [LinkNext]_linkvars => Replaced'
<1> SUFFICES ASSUME Replaced, [LinkNext]_linkvars PROVE Replaced'
  OBVIOUS
<1>1. ASSUME NEW syscode \in Syscodes, ControlSync(syscode) \/ DataSync(syscode)
      PROVE  Replaced'
  BY <1>1 DEF ControlSync, DataSync, SyncHalf, Replaced
<1>2. CASE TrafficSync
  BY <1>2 DEF TrafficSync, SyncHalf, Replaced
<1>3. ASSUME NEW message \in Messages, NEW noise \in Noise, Say(message, noise) PROVE Replaced'
  BY <1>3 DEF Say, Replaced
<1>4. CASE Raised
  BY <1>4 DEF Raised, Replaced
<1>5. CASE Bit \/ UNCHANGED linkvars
  BY <1>5 DEF Bit, linkvars, Replaced
<1> QED BY <1>1, <1>2, <1>3, <1>4, <1>5 DEF LinkNext

LEMMA Headless ==
  ASSUME NEW cw, {47, 26} \subseteq cw => 24 \in cw
  PROVE  RUtoTSCDecode(cw) = "none"
<1> DEFINE cat == Get(cw, <<23, 3>>)
<1>1. {47, 26} \subseteq cw => 1 \in cat
  BY DEF Get
<1>2. {47, 26} \subseteq cw => cat # {} /\ cat # {0}
  BY <1>1
<1> QED BY <1>2 DEF RUtoTSCDecode

(* The topmost bit of a system codeword is that above the system code.     *)
LEMMA SystemTop ==
  ASSUME NEW syscode \in SUBSET (0..14)
  PROVE  47 \notin CCSC(syscode) /\ 47 \notin DCSC(syscode)
<1>1. ASSUME NEW ccs, NEW wrong \in BOOLEAN PROVE 47 \notin System(syscode, ccs, wrong)
  <2> DEFINE f == Fcs(ccs \cup Shifted(syscode, 1))
             g == IF (0 \in f) = wrong
                  THEN {16} \cup Fcs(ccs \cup Shifted(syscode, 1) \cup {0}) ELSE f
             check == Xor(Shifted(g \ {0}, -1), {0})
  <2>1. g \subseteq 0..16
    BY FcsBits
  <2>2. System(syscode, ccs, wrong) = Shifted(syscode, 32) \cup Shifted(check, 16) \cup PREAMBLE
    BY DEF System
  <2> HIDE DEF g
  <2>3. check \subseteq 0..15
    BY <2>1 DEF Xor, Shifted
  <2> HIDE DEF check
  <2>4. 47 \notin Shifted(check, 16) /\ 47 \notin Shifted(syscode, 32)
    BY <2>3 DEF Shifted
  <2>5. 47 \notin PREAMBLE
    BY DEF PREAMBLE, Bits
  <2> QED BY <2>2, <2>4, <2>5
<1> DEFINE ccsc == Shifted(PREAMBLE, 32) \cup Shifted(Bits(50388), 16)
           dcsc == Shifted(PREAMBLE, 32) \cup Shifted(Bits(15146), 16)
<1>2. CCSC(syscode) = System(syscode, ccsc, FALSE) /\ DCSC(syscode) = System(syscode, dcsc, TRUE)
  BY DEF CCSC, DCSC
<1> HIDE DEF ccsc, dcsc
<1> QED BY <1>1, <1>2

LEMMA TrafficTop ==
  ASSUME LayoutsSound
  PROVE  26 \notin Codeword(TrafficBits)
<1>1. 10 \notin PREAMBLE
  BY DEF PREAMBLE, Bits
<1>2. PREAMBLE \subseteq 0..15 /\ SYNT \subseteq 0..15
  BY DEF LayoutsSound
<1>3. 42 \notin TrafficBits
  BY <1>1, <1>2 DEF TrafficBits, Shifted
<1>4. TrafficBits \subseteq Int
  <2>1. \A places \in {16, 32, 48} : \A i \in Shifted(PREAMBLE, places) : i \in Int
    BY <1>2 DEF Shifted
  <2>2. \A i \in TrafficBits :
          i \in SYNT \/ \E places \in {16, 32, 48} : i \in Shifted(PREAMBLE, places)
    BY Zenon DEF TrafficBits
  <2>3. \A i \in SYNT : i \in Int
    BY <1>2
  <2> QED BY <2>1, <2>2, <2>3
<1> QED BY <1>3, <1>4 DEF Codeword, Shifted

(* No system codeword, no traffic sync word and no codeword of ones is     *)
(* taken for a message, for every system code (modem_tx).                  *)
THEOREM SyncUnheeded == LayoutsSound => (LinkSpec => []Unheeded)
<1> SUFFICES ASSUME LayoutsSound PROVE LinkSpec => []Unheeded
  OBVIOUS
<1>1. LinkInit => Synching /\ Replaced
  BY DEF LinkInit, Synching, Replaced
<1>2. Synching /\ Replaced /\ LinkInv /\ LinkTypeOK => Unheeded
  <2> SUFFICES ASSUME Synching, Replaced, LinkInv, LinkTypeOK, left = 0,
                      sent \in {"control", "traffic", "raised"}, NEW cw \in heard
               PROVE  RUtoTSCDecode(cw) = "none"
    BY DEF Unheeded
  <2>1. cw = Codeword(half)
    <3>1. \A i \in 0..63 : i \in rx_cw <=> i \in half
      BY DEF LinkInv, Received
    <3>2. rx_cw = half
      BY <3>1 DEF LinkTypeOK
    <3> QED BY <3>2 DEF LinkTypeOK
  <2>2. ASSUME NEW syscode \in Syscodes,
               half \in {FcsAdd(CCSC(syscode)), FcsAdd(DCSC(syscode))}
        PROVE  47 \notin cw
    <3>1. syscode \in SUBSET (0..14)
      BY LinkAssumption
    <3>2. CCSC(syscode) \in SUBSET (0..47) /\ DCSC(syscode) \in SUBSET (0..47)
      BY <3>1, SyncCodewords
    <3>3. cw \in {CCSC(syscode), DCSC(syscode)}
      BY <2>1, <2>2, <3>2, FcsAdded
    <3> QED BY <3>1, <3>3, SystemTop
  <2>3. half = FcsAdd(0..47) => 24 \in cw
    <3>1. half = FcsAdd(0..47) => cw = 0..47
      BY <2>1, FcsAdded
    <3> QED BY <3>1
  <2>4. half = TrafficBits => 26 \notin cw
    BY <2>1, TrafficTop
  <2>5. 47 \notin cw \/ 26 \notin cw \/ 24 \in cw
    BY <2>2, <2>3, <2>4 DEF Synching, Replaced
  <2> QED BY <2>5, Headless
<1> QED BY <1>1, <1>2, SynchingInv, ReplacedInv, LinkCorrect, LinkTypeCorrect, PTL DEF LinkSpec

-----------------------------------------------------------------------------
(* System codes                                                            *)

LEMMA KindsFit ==
  ASSUME NEW kind \in {National, Regional}
  PROVE  /\ FitsCodeword(kind)
         /\ \A f \in DOMAIN kind.fields : Apart(kind, f)
<1>1. CASE kind = National
  BY <1>1 DEF National, FitsCodeword, Apart, Span
<1>2. CASE kind = Regional
  BY <1>2 DEF Regional, FitsCodeword, Apart, Span
<1> QED BY <1>1, <1>2

(* The two networks read every system code as it was made (encode and      *)
(* decode of mpt1343.py).                                                  *)
THEOREM SyscodesReadAsMade ==
  \A kind \in {National, Regional} : \A value : ReadAsMade(kind, value)
<1> SUFFICES ASSUME NEW kind \in {National, Regional}, NEW value PROVE ReadAsMade(kind, value)
  OBVIOUS
<1>1. Kind(Encode(kind, value)) = kind
  <2>1. CASE kind = National
    <3>1. 14 \in Encode(kind, value)
      BY <2>1 DEF National, Encode
    <3> QED BY <2>1, <3>1 DEF Kind
  <2>2. CASE kind = Regional
    <3>1. \A f \in DOMAIN kind.fields : 14 \notin Put(value[f], kind.fields[f])
      BY <2>2 DEF Regional, Put, Shifted
    <3>2. 14 \notin Encode(kind, value)
      BY <2>2, <3>1 DEF Regional, Encode
    <3> QED BY <2>2, <3>2 DEF Kind
  <2> QED BY <2>1, <2>2
<1>2. ASSUME NEW f \in DOMAIN kind.fields
      PROVE  Decode(kind, Encode(kind, value))[f] = value[f] \cap 0..kind.fields[f][2] - 1
  <2>1. Get(Encode(kind, value), kind.fields[f]) = value[f] \cap 0..kind.fields[f][2] - 1
    BY KindsFit, ReadBack
  <2> QED BY <2>1 DEF Decode
<1> QED BY <1>1, <1>2 DEF ReadAsMade
=============================================================================
