------------------------------- MODULE Audio --------------------------------
(***************************************************************************)
(* The sound bridge in the life of the modem: process calls sound_rx when  *)
(* a buffer begins, the handler of a codeword received switches the bridge,*)
(* and sound_tx sends what is in the ring before it locks the mutex of the *)
(* tones.  Start, stop and the end of the modem come in between as the     *)
(* threads allow it.                                                       *)
(***************************************************************************)
EXTENDS SoundBridge, Lifecycle

audiovars == <<bridgevars, lifevars>>

AudioInit == BridgeInit /\ LifeInit

RingStays == UNCHANGED bridgevars

Begin == Process /\ Receive

Switch(bridge) == Handle /\ Bridge(bridge)

Sound == LockTones /\ Transmit

AudioStep ==
  \/ (MainNext /\ RingStays)
  \/ Begin
  \/ (\E bridge \in BOOLEAN : Switch(bridge))
  \/ Sound
  \/ ((Received \/ UnlockTones \/ Processed) /\ RingStays)
  \/ ((RecvCallback \/ TxcvCallback \/ ComplCallback) /\ RingStays)
  \/ ((AudioTakesGil \/ Yield \/ QueueText \/ Returns) /\ RingStays)

AudioSpec == AudioInit /\ [][AudioStep]_audiovars /\ LifeFairness
=============================================================================
