------------------------------- MODULE MCLink -------------------------------
(* Small instances of Link for TLC.                                        *)
EXTENDS Link, Syscode

(* The default of tsc.py, and the code that the test's range stops short of*)
MCSyscodes == {Bits(\h3201), Bits(\h7FFF)}

(* Of every class one message per field: ones in that field and the first  *)
(* ident, more than there is room for, and zeros in all others.  For the   *)
(* variants of the Aloha and of the acknowledgement, which differ in their *)
(* function only, one.                                                     *)
Variants ==
  {"ALHS", "ALHD", "ALHE", "ALHR", "ALHX", "ALHF",
   "ACKI", "ACKQ", "ACKX", "ACKV", "ACKE", "ACKT", "ACKB"}

Marked(name) ==
  IF name \in Variants THEN {"ident1"} ELSE DOMAIN Classes[name].fields

MCMessages ==
  UNION {{[name |-> name,
           value |-> [f \in DOMAIN Classes[name].fields |->
                        IF f \in {g, "ident1"} THEN 0..20 ELSE {}]] :
          g \in Marked(name)} : name \in DOMAIN Classes}

(* An error in the last bit of each part, one in both, bursts as long as  *)
(* are always noticed, and three errors far apart.                         *)
MCNoise == {{}, {0}, {16}, {9, 40}, 13..26, {1, 30, 62}}

(* The hypotheses of the theorems of LinkProofs and CyclicProofs.          *)
ASSUME SoundLayouts == LayoutsSound
ASSUME SoundCode == CodeSound

(* The system codes of mpt1343.py, all of them.                            *)
ASSUME SyscodesRemade == \A n \in 0..32767 : Remade(Bits(n))

(* Codewords from the air and their check sequences, the samples of the    *)
(* test of mpt1327.py (lines 782-786).                                     *)
Word(a, b, c) == Shifted(Bits(a), 32) \cup Shifted(Bits(b), 16) \cup Bits(c)

ASSUME FcsSamples ==
  /\ Fcs(Word(\h4A89, \h740B, \hAAAA)) = SYNC
  /\ Fcs(Word(\h8000, \h0401, \hB80A)) = Bits(\h949C)
  /\ Fcs(Word(\h8A54, \h4C72, \h0409)) = Bits(\hF6EE)
  /\ Fcs(Word(\h8000, \h0401, \hB800)) = Bits(\hF531)
  /\ Fcs(Word(\h8E54, \h4C70, \h1000)) = Bits(\hE4C9)
=============================================================================
