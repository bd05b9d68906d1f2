------------------------------ MODULE MCModem -------------------------------
(* A small instance of Modem for TLC: words of four bits.                  *)
EXTENDS Modem

MCReversals == {1, 3}

(* 0001, 1000 and 1110: runs of six zeros and of four ones.                *)
MCWords == {{0}, {3}, {3, 2, 1}}
=============================================================================
