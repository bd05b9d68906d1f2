----------------------------- MODULE Codewords ------------------------------
(***************************************************************************)
(* The codewords of module/mpt1327.py, with the check sequence of          *)
(* module/channel.c.                                                       *)
(*                                                                         *)
(* A number is the set of the positions of its ones, 0 the rightmost: the  *)
(* code only ever shifts, masks and joins them, and 48 bits of codeword and*)
(* 16 of check sequence are no integers for TLC.                           *)
(***************************************************************************)
EXTENDS Integers, FiniteSets, TLC

(* The positions of the ones of an integer literal.                        *)
Bits(n) == {i \in 0..30 : (n \div 2^i) % 2 = 1}

Shifted(number, places) == {i + places : i \in number}

Xor(a, b) == (a \ b) \cup (b \ a)

(* A field of a codeword is its shift and its width.                       *)
BugPut(value, field) == Shifted(value, field[1])
Put(value, field) == Shifted(value \cap 0..field[2] - 1, field[1])
Get(cw, field) == {i \in 0..field[2] - 1 : i + field[1] \in cw}

PREAMBLE == Bits(43690)  \* 0xAAAA
SYNC == Bits(50391)      \* 0xC4D7
SYNT == Bits(15144)      \* 0x3B28

-----------------------------------------------------------------------------
(* The check sequence, the same in channel.c and in mpt1327.py: a cyclic   *)
(* code whose second bit is inverted, and a bit of even parity.  Of ck only*)
(* sixteen bits are ever read.                                             *)
Generator == Bits(26645)  \* 0x6815

Remainder(cw, steps) ==
  LET ck[n \in 0..steps] ==
        IF n = 0 THEN {}
        ELSE LET last == ck[n - 1]
                 carry == (48 - n \in cw) # (15 \in last)
             IN Shifted(IF carry THEN Xor(last, Generator) ELSE last, 1) \cap 0..15
  IN ck[steps]

(* The bits of check and, with their number and that of cw, the parity.    *)
Checked(cw, check) ==
  check \cup {i \in {0} : (Cardinality(cw) + Cardinality(check)) % 2 = 1}

Fcs(cw) == Checked(cw, Xor(Remainder(cw, 48), {1}) \cap 1..15)

(* A codeword with its check sequence, as it is transmitted.               *)
FcsAdd(cw) == Shifted(cw, 16) \cup Fcs(cw)

(* The system codewords are made to have a sync word for check sequence.   *)
(* The bit that the parity would get wrong is moved into the codeword.     *)
BugSystem(syscode, ccs, wrong) ==
  LET f == Fcs(ccs \cup Shifted(syscode, 1))
  IN Shifted(syscode, 32) \cup Shifted(Xor(Shifted(f \ {0}, -1), {0}), 16) \cup PREAMBLE
System(syscode, ccs, wrong) ==
  LET f == Fcs(ccs \cup Shifted(syscode, 1))
      g == IF (0 \in f) = wrong
           THEN {16} \cup Fcs(ccs \cup Shifted(syscode, 1) \cup {0}) ELSE f
  IN Shifted(syscode, 32) \cup Shifted(Xor(Shifted(g \ {0}, -1), {0}), 16) \cup PREAMBLE

CCSC(syscode) ==
  System(syscode, Shifted(PREAMBLE, 32) \cup Shifted(Bits(50388), 16), FALSE) \* C4D4
DCSC(syscode) ==
  System(syscode, Shifted(PREAMBLE, 32) \cup Shifted(Bits(15146), 16), TRUE)  \* 3B2A

(* The code makes its sync words out of no system code at all, and an error*)
(* in the last bit of a codeword does not change the parity of its check   *)
(* sequence: the system codewords rely on both (mpt1327.py lines 61-92).   *)
(* It is cyclic over 63 bits: what a one in the topmost leaves is the      *)
(* generator divided by x, so that in the next place up it leaves one.     *)
CodeSound ==
  /\ 0 \in Generator /\ Generator \subseteq 0..14
  /\ Remainder({47}, 48) = (Generator \ {0}) \cup {15}
  /\ Cardinality(Remainder({0}, 48)) % 2 = 0
  /\ Fcs(CCSC({})) = SYNC /\ Fcs(DCSC({})) = SYNT

-----------------------------------------------------------------------------
(* Messages.  A class has the bits that are always one and its fields.     *)

C000(typ, func) == {47, 26} \cup Shifted(Bits(typ), 21) \cup Shifted(Bits(func), 18)

Class(typ, func, fields) == [fixed |-> C000(typ, func), fields |-> fields]

Address == [pfix |-> <<40, 7>>, ident1 |-> <<27, 13>>]
Both == Address @@ [ident2 |-> <<5, 13>>]
Flags == [ext |-> <<2, 1>>, flag1 |-> <<1, 1>>, flag2 |-> <<0, 1>>]

ALH(func) ==
  Class(0, func, Address @@ [chan4 |-> <<14, 4>>, wt |-> <<11, 3>>,
                             rsvd |-> <<9, 2>>, m |-> <<4, 5>>, n |-> <<0, 4>>])

ACK(func) == Class(1, func, Both @@ [qual |-> <<4, 1>>, n |-> <<0, 4>>])

AHY(func, fields) == Class(2, func, Both @@ fields)

MAINT ==
  Class(3, 1, Address @@ [chan |-> <<8, 10>>, oper |-> <<5, 3>>, rsvd |-> <<0, 5>>])

GTC ==
  [fixed |-> {47},
   fields |-> Address @@ [d |-> <<25, 1>>, chan |-> <<15, 10>>,
                          ident2 |-> <<2, 13>>, n |-> <<0, 2>>]]

(* Twelve bits of reversals at the end.                                    *)
CLEAR ==
  [fixed |-> C000(3, 2) \cup Bits(2730),
   fields |-> [chan |-> <<37, 10>>, cont |-> <<27, 10>>,
               rsvd |-> <<14, 3>>, spare |-> <<12, 2>>]]

(* rsvd and spare share a bit.                                             *)
MOVE ==
  Class(3, 3, Address @@ [cont |-> <<8, 10>>, m |-> <<3, 5>>,
                          rsvd |-> <<1, 2>>, spare |-> <<1, 1>>])

BCAST(sysdef, fields) ==
  [fixed |-> C000(3, 4) \cup Shifted(Bits(sysdef), 42),
   fields |-> fields @@ [sys |-> <<27, 15>>]]

(* What the controller can say.  MARK raises when it is made, and          *)
(* BCAST_DELCONTROL has the system definition of BCAST_ADDCONTROL.         *)
TSCtoRU ==
  [GTC |-> GTC, CLEAR |-> CLEAR, MOVE |-> MOVE, MAINT |-> MAINT,
   ALH |-> ALH(0), ALHS |-> ALH(1), ALHD |-> ALH(2), ALHE |-> ALH(3),
   ALHR |-> ALH(4), ALHX |-> ALH(5), ALHF |-> ALH(6),
   ACK |-> ACK(0), ACKI |-> ACK(1), ACKQ |-> ACK(2), ACKX |-> ACK(3),
   ACKV |-> ACK(4), ACKE |-> ACK(5), ACKT |-> ACK(6), ACKB |-> ACK(7),
   AHY |-> AHY(0, [d |-> <<4, 1>>, point |-> <<3, 1>>, check |-> <<2, 1>>,
                   e |-> <<1, 1>>, ad |-> <<0, 1>>]),
   AHYX |-> AHY(2, [point |-> <<0, 5>>]),
   AHYP |-> AHY(5, [rsvd |-> <<0, 5>>]),
   AHYQ |-> AHY(6, [status |-> <<0, 5>>]),
   AHYC |-> AHY(7, [slots |-> <<3, 2>>, desc |-> <<0, 3>>]),
   BCAST_ADDCONTROL |->
     BCAST(0, [chan |-> <<8, 10>>, spare |-> <<6, 2>>, rsvd |-> <<0, 6>>]),
   BCAST_MAINT |->
     BCAST(2, [per |-> <<17, 1>>, ival |-> <<12, 5>>, pon |-> <<11, 1>>,
               id |-> <<10, 1>>, rsvd |-> <<8, 2>>, spare |-> <<0, 8>>]),
   BCAST_REG |-> BCAST(3, [rsvd |-> <<14, 4>>, spare |-> <<0, 14>>])]

(* The classes that have shifts and masks of their own for decoding: what  *)
(* ACK_Base.decode and MAINT.decode take out of a codeword.                *)
ACKRead ==
  [pfix |-> <<40, 7>>, ident1 |-> <<27, 13>>, ident2 |-> <<5, 13>>,
   qual |-> <<4, 1>>, n |-> <<0, 4>>]

MAINTRead ==
  [pfix |-> <<40, 7>>, ident1 |-> <<27, 13>>, chan |-> <<8, 10>>,
   oper |-> <<5, 3>>, rsvd |-> <<0, 5>>]

(* What a radio unit can say and the controller has a class for.  The      *)
(* requests have a decode method only, so the radio's end is read off it.  *)
RUtoTSC ==
  [name \in {"ACK", "ACKI", "ACKQ", "ACKX", "ACKV", "ACKE", "ACKT", "ACKB"} |->
     [TSCtoRU[name] EXCEPT !.fields = ACKRead]]
  @@
  [MAINT |-> [MAINT EXCEPT !.fields = MAINTRead]]
  @@
  [RQS |-> Class(2, 0, Both @@ Flags @@ [dt |-> <<4, 1>>, level |-> <<3, 1>>]),
   RQX |-> Class(2, 2, Both @@ [rsvd |-> <<0, 5>>]),
   RQT |-> Class(2, 3, Address),
   RQE |-> Class(2, 4, Both @@ Flags @@ [d |-> <<4, 1>>, rsvd |-> <<3, 1>>]),
   RQR |-> Class(2, 5, Address @@ [info |-> <<3, 15>>, rsvd |-> <<0, 3>>]),
   RQQ |-> Class(2, 6, Both @@ [status |-> <<0, 5>>]),
   RQC |-> Class(2, 7, Both @@ Flags @@ [slots |-> <<3, 2>>])]

Encode(class, value) ==
  class.fixed \cup UNION {Put(value[f], class.fields[f]) : f \in DOMAIN class.fields}

Decode(class, cw) == [f \in DOMAIN class.fields |-> Get(cw, class.fields[f])]

SAMIS ==
  [fixed |-> {47, 26, 23},
   fields |-> [mfgcode |-> <<39, 8>>, model |-> <<35, 4>>,
               chkbits |-> <<27, 8>>, serial |-> <<0, 18>>]]

(* RUtoTSCDecode: the class of a codeword, "none" for one that is no        *)
(* message to the controller, "KeyError" when it is in no class.            *)
Typed(cw) == <<Get(cw, <<21, 2>>), Get(cw, <<18, 3>>)>>

RUtoTSCDecode(cw) ==
  LET cat == Get(cw, <<23, 3>>)
      desc == Get(cw, <<18, 3>>)
      found == {name \in DOMAIN RUtoTSC : Typed(RUtoTSC[name].fixed) = Typed(cw)}
  IN CASE ~({47, 26} \subseteq cw)                      -> "none"
       [] {47, 26} \subseteq cw /\ cat = {}              ->
            IF found = {} THEN "KeyError" ELSE CHOOSE name \in found : TRUE
       [] {47, 26} \subseteq cw /\ cat = {0} /\ desc = {} -> "SAMIS"
       [] OTHER                                          -> "none"

(* How a message is put together, and how its fields are taken out again.  *)
Classes == TSCtoRU @@ RUtoTSC @@ [SAMIS |-> SAMIS]

Reading(name) == IF name \in DOMAIN RUtoTSC THEN RUtoTSC[name] ELSE Classes[name]

-----------------------------------------------------------------------------
(* Properties of the tables                                                *)

Span(field) == field[1]..field[1] + field[2] - 1

(* Nothing else is put where the field is.                                 *)
Apart(class, f) ==
  /\ Span(class.fields[f]) \cap class.fixed = {}
  /\ \A g \in DOMAIN class.fields :
       g # f => Span(class.fields[f]) \cap Span(class.fields[g]) = {}

FitsCodeword(class) ==
  /\ class.fixed \subseteq 0..47
  /\ \A f \in DOMAIN class.fields :
       LET field == class.fields[f] IN
       field[1] \in Nat /\ field[2] \in Nat /\ field[1] + field[2] <= 48

(* The bits that tell the classes apart.                                   *)
Header == {47, 26} \cup 18..25

(* The two fields of MOVE that share a bit (mpt1327.py lines 493-494).     *)
Shared(name, f) == name = "MOVE" /\ f \in {"rsvd", "spare"}

(* Every class fits 48 bits, no field reaches into another or into the bits*)
(* that tell the classes apart, and no two classes the controller decodes  *)
(* have these in common; what decodes a class looks for each field where   *)
(* what encodes it puts it (mpt1327.py lines 101-757); the sync words have *)
(* sixteen bits.                                                           *)
LayoutsSound ==
  /\ PREAMBLE \cup SYNC \cup SYNT \subseteq 0..15
  /\ \A name \in DOMAIN Classes :
       /\ FitsCodeword(Classes[name])
       /\ Reading(name).fields = Classes[name].fields
       /\ \A f \in DOMAIN Classes[name].fields :
            Shared(name, f) \/ Apart(Classes[name], f)
  /\ \A name \in DOMAIN RUtoTSC \cup {"SAMIS"} :
       /\ RUtoTSCDecode(Classes[name].fixed) = name
       /\ \A f \in DOMAIN Classes[name].fields :
            Span(Classes[name].fields[f]) \cap Header = {}
=============================================================================
