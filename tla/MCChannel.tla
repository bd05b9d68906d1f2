----------------------------- MODULE MCChannel ------------------------------
(* Small instances of Channel for TLC.                                     *)
EXTENDS Channel

(* One item of each kind the layer above can build: a plain message, one   *)
(* that solicits a reply of k slots, and one whose completion changes the  *)
(* channel (GTC to traffic, CLEAR back to control).                        *)
Plain == [cw |-> "msg", next |-> None, rxlen |-> 0, data |-> None]
Ask(k) == [cw |-> "msg", next |-> None, rxlen |-> k, data |-> "d"]
Go(state) == [cw |-> "msg", next |-> state, rxlen |-> 0, data |-> None]

MCBursts == {<<>>, <<Plain>>, <<Go(0)>>, <<Go(2)>>}
              \cup {<<Ask(k)>> : k \in 1..MaxLen}

=============================================================================
