------------------------------ MODULE MCTones -------------------------------
(* Small instances of Tones for TLC: two letters of the Morse table.       *)
EXTENDS Tones

MCMorse == [E |-> <<1>>, A |-> <<1, 3>>]

(* In a ring of seven slots each fits behind the completion tone of the one*)
(* before it; "*" is in no table.                                          *)
MCShortTexts == {<<"A">>, <<"*", "E">>, <<" ", "*">>}

(* Eleven tones.                                                           *)
MCLongTexts == {<<"A", "A">>}

MCTexts == MCShortTexts \cup MCLongTexts
=============================================================================
