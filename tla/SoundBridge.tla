---------------------------- MODULE SoundBridge -----------------------------
(***************************************************************************)
(* The sound bridge of module/channel.c: the ring cbsnd, through which     *)
(* sound_rx hands the audio of the receiver to sound_tx while a call is    *)
(* being carried.  For every buffer the audio server calls sound_rx, then  *)
(* the bits of the buffer are decoded, whose handlers may switch the bridge*)
(* (MAINT, tsc.py), then sound_tx (process in sound_jack.c, modem_rx and   *)
(* modem_tx in mskmodem.c).                                                *)
(*                                                                         *)
(* A sample is told by where it comes from: 1..Period are the samples of   *)
(* the buffer at hand, every other that was ever in the ring is Old.       *)
(***************************************************************************)
EXTENDS Integers

CONSTANTS
  cbsnd_size,  \* slots of the ring, 10240
  Period       \* frames in a buffer of the audio server, 1024

Slots == 0..cbsnd_size - 1

Old == 0
Silence == -1

ASSUME BridgeAssumption ==
  /\ cbsnd_size \in Nat \ {0} /\ Period \in Nat \ {0}
  /\ Period <= cbsnd_size

VARIABLES
  cbsnd,          \* the ring
  cbsnd_ready,    \* ready count
  cbsnd_wr,       \* write index
  cbsnd_rd,       \* read index
  enable_bridge,
  pc,             \* the audio thread, "idle" or decoding "bits"
  out,            \* the buffer that sound_tx filled last
  bridged         \* HISTORY: the bridge was on when the buffer came in

bridgevars ==
  <<cbsnd, cbsnd_ready, cbsnd_wr, cbsnd_rd, enable_bridge, pc, out, bridged>>

Silent == [i \in 1..Period |-> Silence]
Heard == [i \in 1..Period |-> i]

BridgeInit ==
  /\ cbsnd = [slot \in Slots |-> Old]
  /\ cbsnd_ready = 0 /\ cbsnd_wr = 0 /\ cbsnd_rd = 0
  /\ enable_bridge = FALSE
  /\ pc = "idle" /\ out = Silent /\ bridged = FALSE

-----------------------------------------------------------------------------
(* sound_rx.  A buffer that reaches the end of the ring is copied in two   *)
(* parts, both from the start of the buffer.                               *)
Copied(slot) ==
  CASE slot \in cbsnd_wr..cbsnd_wr + Period - 1      -> slot - cbsnd_wr + 1
    [] slot < Period - (cbsnd_size - cbsnd_wr)       -> slot + 1
    [] OTHER                                         -> Old

BugReceive ==
  /\ pc = "idle"
  /\ pc' = "bits"
  /\ bridged' = enable_bridge
  /\ IF enable_bridge
     THEN /\ cbsnd' = [slot \in Slots |-> Copied(slot)]
          /\ cbsnd_wr' = cbsnd_wr + Period
          /\ cbsnd_ready' = cbsnd_ready + Period
     ELSE /\ cbsnd' = [slot \in Slots |-> Old]
          /\ UNCHANGED <<cbsnd_wr, cbsnd_ready>>
  /\ UNCHANGED <<cbsnd_rd, enable_bridge, out>>
Receive ==
  /\ pc = "idle"
  /\ pc' = "bits"
  /\ bridged' = enable_bridge
  /\ IF enable_bridge
     THEN /\ cbsnd' = [slot \in Slots |-> Copied(slot)]
          /\ cbsnd_wr' = (cbsnd_wr + Period) % cbsnd_size
          /\ cbsnd_ready' = cbsnd_ready + Period
     ELSE /\ cbsnd' = [slot \in Slots |-> Old]
          /\ UNCHANGED <<cbsnd_wr, cbsnd_ready>>
  /\ UNCHANGED <<cbsnd_rd, enable_bridge, out>>

(* mpt1327_channel_bridge, called by the handler of a MAINT.               *)
Bridge(bridge) ==
  /\ pc = "bits"
  /\ enable_bridge' = bridge
  /\ UNCHANGED <<cbsnd, cbsnd_ready, cbsnd_wr, cbsnd_rd, pc, out, bridged>>

-----------------------------------------------------------------------------
(* sound_tx, up to "Silence any unprocessed buffer".  Less than a buffer is*)
(* sent on only once the bridge is off.                                    *)
BugTaken == IF enable_bridge /\ cbsnd_ready >= Period THEN Period ELSE 0
Taken ==
  IF cbsnd_ready >= Period THEN Period
  ELSE IF enable_bridge THEN 0 ELSE cbsnd_ready

Transmit ==
  /\ pc = "bits"
  /\ pc' = "idle"
  /\ out' = [i \in 1..Period |->
               IF i <= Taken THEN cbsnd[(cbsnd_rd + i - 1) % cbsnd_size] ELSE Silence]
  /\ cbsnd_rd' = (cbsnd_rd + Taken) % cbsnd_size
  /\ cbsnd_ready' = cbsnd_ready - Taken
  /\ UNCHANGED <<cbsnd, cbsnd_wr, enable_bridge, bridged>>

-----------------------------------------------------------------------------
BridgeNext == Receive \/ (\E bridge \in BOOLEAN : Bridge(bridge)) \/ Transmit

BridgeSpec == BridgeInit /\ [][BridgeNext]_bridgevars

-----------------------------------------------------------------------------
(* Properties                                                              *)

(* Type invariant.  Between buffers the ring is empty, so the bridge never *)
(* builds up delay and the ring never overflows, however often it is       *)
(* switched and between whichever calls (channel.c lines 70-105).          *)
BridgeTypeOK ==
  /\ cbsnd \in [Slots -> 0..Period]
  /\ cbsnd_wr \in Slots /\ cbsnd_rd \in Slots
  /\ cbsnd_ready \in {0, Period}
  /\ pc = "idle" => cbsnd_ready = 0 /\ cbsnd_wr = cbsnd_rd
  /\ enable_bridge \in BOOLEAN /\ bridged \in BOOLEAN
  /\ pc \in {"idle", "bits"}
  /\ out \in [1..Period -> -1..Period]

(* "Bridge rx -> tx" (the method bridge in module.c): a buffer received    *)
(* while the bridge is on is sent at once, whole and in order, and nothing *)
(* else ever is: no sample of an earlier buffer or an earlier call.  True  *)
(* for buffers that divide the ring, as the recommended 1024 frames do.    *)
Relayed == pc = "idle" => out = IF bridged THEN Heard ELSE Silent
=============================================================================
