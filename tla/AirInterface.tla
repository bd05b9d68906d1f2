---------------------------- MODULE AirInterface ----------------------------
(***************************************************************************)
(* What a radio unit may rely on when it listens to the channel: the       *)
(* abstract specification that the channel controller (module Channel)     *)
(* implements.                                                             *)
(*                                                                         *)
(* The transmitter emits one 64-bit half slot at a time.  On the control   *)
(* channel a half slot with the system codeword is followed by a half slot *)
(* with an address codeword; on the traffic channel the transmitter is     *)
(* silent, or sends the traffic sync word followed by an address codeword; *)
(* during a Morse ident no codeword is sent at all.  An address codeword   *)
(* may solicit a reply of several slots, and then the following slots of   *)
(* the control channel are withdrawn from random access.                   *)
(***************************************************************************)
EXTENDS Naturals

CONSTANT MaxLen   \* the longest reply, in slots, a codeword may solicit

VARIABLES
  mode,   \* "control", "traffic" or "ident"
  word,   \* what the last half slot carried
  owed    \* slots still to be withdrawn from random access

airvars == <<mode, word, owed>>

Modes == {"control", "traffic", "ident"}
Syncs == {"ccsc", "traf"}
AirWords == Syncs \cup {"silence", "address", "withdrawn"}

TypeOK ==
  /\ mode \in Modes
  /\ word \in AirWords
  /\ owed \in Nat

Init ==
  /\ mode = "control"
  /\ word = "silence"
  /\ owed = 0

(* A half slot that carries a sync word commits the transmitter to the     *)
(* address codeword that follows it.                                       *)
AtSlotBoundary == word \notin Syncs

(* The transmitter may be in mode m for the next half slot: it stays in    *)
(* its mode, or it changes over right behind a complete address codeword.  *)
MayBeIn(m) ==
  /\ AtSlotBoundary
  /\ mode # "ident"
  /\ mode = m \/ word = "address"

ControlSync ==
  /\ MayBeIn("control")
  /\ mode' = "control"
  /\ word' = "ccsc"
  /\ owed' = owed

(* A withdrawn slot: every slot that is owed is withdrawn before anything  *)
(* else is sent.                                                           *)
Withdraw ==
  /\ word = "ccsc"
  /\ owed > 0
  /\ word' = "withdrawn"
  /\ owed' = owed - 1
  /\ mode' = mode

(* A codeword that solicits a reply of k slots: the first is the slot it   *)
(* addresses, the k - 1 behind it are withdrawn.                           *)
Solicits(k) == owed' = IF k > 0 THEN k - 1 ELSE 0

ControlWord ==
  /\ word = "ccsc"
  /\ owed = 0
  /\ word' = "address"
  /\ \E k \in 0..MaxLen : Solicits(k)
  /\ mode' = mode

TrafficIdle ==
  /\ MayBeIn("traffic")
  /\ mode' = "traffic"
  /\ word' = "silence"
  /\ owed' = owed

TrafficSync ==
  /\ MayBeIn("traffic")
  /\ mode' = "traffic"
  /\ word' = "traf"
  /\ owed' = owed

TrafficWord ==
  /\ word = "traf"
  /\ word' = "address"
  /\ \E k \in 0..MaxLen : Solicits(k)
  /\ mode' = mode

(* The ident takes the place of a control slot, never of half of one.      *)
IdentStart ==
  /\ MayBeIn("control")
  /\ mode' = "ident"
  /\ word' = "silence"
  /\ owed' = owed

IdentEnd ==
  /\ mode = "ident"
  /\ mode' = "control"
  /\ UNCHANGED <<word, owed>>

Next ==
  \/ ControlSync \/ Withdraw \/ ControlWord
  \/ TrafficIdle \/ TrafficSync \/ TrafficWord
  \/ IdentStart \/ IdentEnd

Spec == Init /\ [][Next]_airvars

=============================================================================
