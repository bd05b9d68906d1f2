------------------------------ MODULE Syscode -------------------------------
(***************************************************************************)
(* The system codes of module/mpt1343.py, which control channels identify  *)
(* themselves with: fifteen bits that read differently in national and in  *)
(* regional networks.                                                      *)
(***************************************************************************)
EXTENDS Codewords

National ==
  [fixed |-> {14}, fields |-> [net |-> <<12, 2>>, ndd |-> <<3, 9>>, lab |-> <<0, 3>>]]

Regional ==
  [fixed |-> {}, fields |-> [opid |-> <<7, 7>>, ndd |-> <<3, 4>>, lab |-> <<0, 3>>]]

(* SYSCODE.decode tells the two by one bit.                                *)
Kind(code) == IF 14 \in code THEN National ELSE Regional

(* Every code is made again from what was read out of it, so the fields    *)
(* leave no bit out (encode and decode).                                   *)
Remade(code) == Encode(Kind(code), Decode(Kind(code), code)) = code

(* And what is made of any fields, too long ones cut, is read as such.     *)
ReadAsMade(kind, value) ==
  LET code == Encode(kind, value) IN
  /\ Kind(code) = kind
  /\ \A f \in DOMAIN kind.fields :
       Decode(kind, code)[f] = value[f] \cap 0..kind.fields[f][2] - 1
=============================================================================
