-------------------------------- MODULE Link --------------------------------
(***************************************************************************)
(* The two ends of the codeword path in module/channel.c: modem_tx turns   *)
(* what the controller wants to say into half slots of 64 bits, modem_rx   *)
(* takes bits one by one and finds the codewords in them.  The receiver    *)
(* knows nothing of slots: after every bit it takes the last 64 for a      *)
(* codeword if their check sequence is right, sync words or the end of one *)
(* codeword and the start of the next though they may be.                  *)
(***************************************************************************)
EXTENDS Codewords

CONSTANTS
  Syscodes,  \* system codes, fifteen bits each
  Messages,  \* what is said: the name of a class and a value for its fields
  Noise      \* bits of a half slot that are received wrong

ASSUME LinkAssumption ==
  /\ Syscodes \subseteq SUBSET (0..14)
  /\ Noise \subseteq SUBSET (0..63)
  /\ \A message \in Messages : message.name \in DOMAIN Classes

VARIABLES
  rx_cw,  \* the last 64 bits received
  half,   \* the half slot on the air
  left,   \* bits of it still to come
  sent,   \* "control" or "traffic" for a sync word, "message", "raised"
  said,   \* the message on the air, and the bits of it received wrong
  heard,  \* what the last bit completed: a codeword, or nothing
  quiet   \* HISTORY: bits since the last one that completed something

linkvars == <<rx_cw, half, left, sent, said, heard, quiet>>

(* As far out of step as the code always notices; quiet is not counted on. *)
Slip == 14

NothingSaid == [name |-> "none", value |-> <<>>, noise |-> {}]

LinkInit ==
  /\ rx_cw = {} /\ half = {} /\ left = 0
  /\ sent = "none" /\ said = NothingSaid /\ heard = {} /\ quiet = Slip

-----------------------------------------------------------------------------
(* modem_tx.  The controller's answer 1 asks for the traffic sync word.    *)

SyncHalf(kind, bits) ==
  /\ left = 0
  /\ sent \notin {"control", "traffic"}
  /\ half' = bits
  /\ left' = 64
  /\ sent' = kind
  /\ said' = NothingSaid
  /\ heard' = {}
  /\ UNCHANGED <<rx_cw, quiet>>

ControlSync(syscode) == SyncHalf("control", FcsAdd(CCSC(syscode)))

(* Nothing but a line that is commented out asks for it (channel.py 170).  *)
DataSync(syscode) == SyncHalf("traffic", FcsAdd(DCSC(syscode)))

TrafficSync ==
  SyncHalf("traffic",
    Shifted(PREAMBLE, 48) \cup Shifted(PREAMBLE, 32) \cup Shifted(PREAMBLE, 16) \cup SYNT)

(* Any other answer is a codeword, which gets its check sequence.          *)
Say(message, noise) ==
  /\ left = 0
  /\ sent \in {"control", "traffic", "raised"}
  /\ half' = Xor(FcsAdd(Encode(Classes[message.name], message.value)), noise)
  /\ left' = 64
  /\ sent' = "message"
  /\ said' = [name |-> message.name, value |-> message.value, noise |-> noise]
  /\ heard' = {}
  /\ UNCHANGED <<rx_cw, quiet>>

(* When the controller raises, _txcv answers None, which is no number: what*)
(* comes out of PyLong_AsLongLong is -1 and is sent as a codeword of ones, *)
(* in the place of a sync word or of a message.                            *)
BugRaised ==
  /\ left = 0
  /\ left' = 64
  /\ sent' = "raised"
  /\ said' = NothingSaid
  /\ heard' = {}
  /\ UNCHANGED <<rx_cw, half, quiet>>
Raised ==
  /\ left = 0
  /\ half' = FcsAdd(0..47)
  /\ left' = 64
  /\ sent' = "raised"
  /\ said' = NothingSaid
  /\ heard' = {}
  /\ UNCHANGED <<rx_cw, quiet>>

-----------------------------------------------------------------------------
(* modem_rx                                                                *)

Codeword(register) == Shifted(register \ 0..15, -16)

BugAccepted(register) == Fcs(Codeword(register)) \cap 1..15 = register \cap 1..15
BugOctet(register) == Fcs(Codeword(register)) \cap 0..7 = register \cap 0..7
Accepted(register) == Fcs(Codeword(register)) = register \cap 0..15

BugBit ==
  /\ left > 0
  /\ left' = left - 1
  /\ rx_cw' = (Shifted(rx_cw, 1) \cap 0..63) \cup {i \in {0} : left - 1 \in half}
  /\ heard' = IF Accepted(rx_cw) THEN {Codeword(rx_cw)} ELSE {}
  /\ quiet' = IF heard' # {} THEN 0 ELSE IF quiet < Slip THEN quiet + 1 ELSE Slip
  /\ UNCHANGED <<half, sent, said>>
Bit ==
  /\ left > 0
  /\ left' = left - 1
  /\ rx_cw' = (Shifted(rx_cw, 1) \cap 0..63) \cup {i \in {0} : left - 1 \in half}
  /\ heard' = IF Accepted(rx_cw') THEN {Codeword(rx_cw')} ELSE {}
  /\ quiet' = IF heard' # {} THEN 0 ELSE IF quiet < Slip THEN quiet + 1 ELSE Slip
  /\ UNCHANGED <<half, sent, said>>

-----------------------------------------------------------------------------
LinkNext ==
  \/ \E syscode \in Syscodes : ControlSync(syscode) \/ DataSync(syscode)
  \/ TrafficSync
  \/ \E message \in Messages, noise \in Noise : Say(message, noise)
  \/ Raised \/ Bit

LinkSpec == LinkInit /\ [][LinkNext]_linkvars

-----------------------------------------------------------------------------
(* Properties                                                              *)

(* Type invariant; what was heard is what is in the receiver's register.   *)
LinkTypeOK ==
  /\ rx_cw \subseteq 0..63 /\ half \subseteq 0..63 /\ left \in 0..64
  /\ sent \in {"none", "control", "traffic", "message", "raised"}
  /\ heard \in {{}, {Codeword(rx_cw)}} /\ quiet \in 0..Slip

Ended(kind) == sent = kind /\ left = 0

(* A message received without an error is heard, whole, with its last bit, *)
(* whatever came before it (modem_rx, lines 51-61).                        *)
HeardWhole ==
  Ended("message") /\ said.noise = {}
    => heard = {Encode(Classes[said.name], said.value)}

(* What goes out in the place of a message when there is none, a system    *)
(* codeword of any system, the traffic sync word or the ones of a call of  *)
(* the controller that raised, is never taken for a message by the         *)
(* controller that hears it (modem_tx, and RUtoTSCDecode of mpt1327.py).   *)
Unheeded ==
  left = 0 /\ sent \in {"control", "traffic", "raised"}
    => \A cw \in heard : RUtoTSCDecode(cw) = "none"

(* A burst of errors: the first and the last no more than fourteen apart.  *)
Burst(noise) == noise # {} /\ \E k \in 0..49 : noise \subseteq k..k + 14

(* A message received with an odd number of errors, or with a burst of     *)
(* them, is not heard, neither as what was said nor as anything else (the  *)
(* cyclic code and the parity of fcs, which modem_rx relies on, lines      *)
(* 54-60).                                                                 *)
ErrorsNoticed ==
  Ended("message") /\ (Cardinality(said.noise) % 2 = 1 \/ Burst(said.noise))
    => heard = {}

(* Between two codewords that are heard there are at least fourteen bits   *)
(* that complete none, whatever is sent and received: before and behind the*)
(* end of a codeword a receiver that is a few bits out of step hears       *)
(* nothing (the second bit of the check sequence is inverted for that,     *)
(* channel.c line 249; modem_rx takes any 64 bits, lines 51-61).           *)
HeardApart == [][heard' # {} => quiet = Slip]_linkvars

(* What radio units synchronise to: the system codewords end in the sync   *)
(* word of their channel (test of mpt1327.py lines 789-791, for 0x7FFF too)*)
Synchronised ==
  /\ Ended("control") => rx_cw \cap 0..15 = SYNC
  /\ Ended("traffic") => rx_cw \cap 0..15 = SYNT

(* A message is understood as what it was said to be: the class that the   *)
(* tables name, and every field with the value it was given, less the bits *)
(* it has no room for (RUtoTSCDecode and the decode methods).              *)
Understood ==
  LET class == Classes[said.name] IN
  Ended("message") /\ said.noise = {} =>
    \A cw \in heard :
      /\ said.name \in DOMAIN RUtoTSC \cup {"SAMIS"} => RUtoTSCDecode(cw) = said.name
      /\ \A f \in DOMAIN class.fields :
           Shared(said.name, f)
             \/ Decode(Reading(said.name), cw)[f]
                  = said.value[f] \cap 0..class.fields[f][2] - 1
=============================================================================
