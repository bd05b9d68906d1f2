---------------------------- MODULE AudioProofs -----------------------------
(* Theorems about SoundBridge, for every ring and every buffer size that   *)
(* divides it, and about Lifecycle and Audio: the bridge keeps its promise *)
(* however the modem is started, stopped and freed, and the audio thread   *)
(* finds its contexts.                                                     *)
EXTENDS Audio, TLAPS

-----------------------------------------------------------------------------
(* The bridge                                                              *)

Divides == \E m \in Nat : cbsnd_size = m * Period

(* A buffer that starts at a read or write index fits in front of the end  *)
(* of the ring.                                                            *)
AtBuffer(index) == \E k \in Nat : index = k * Period /\ index + Period <= cbsnd_size

(* Between sound_rx and sound_tx the ring holds the buffer at hand, if it  *)
(* was received with the bridge on, and nothing otherwise.                 *)
InFlight ==
  pc = "bits" =>
    IF bridged
    THEN /\ cbsnd_ready = Period
         /\ cbsnd_wr = (cbsnd_rd + Period) % cbsnd_size
         /\ \A i \in 1..Period : cbsnd[cbsnd_rd + i - 1] = i
    ELSE cbsnd_ready = 0 /\ cbsnd_wr = cbsnd_rd

BridgeInv == BridgeTypeOK /\ Relayed /\ AtBuffer(cbsnd_rd) /\ InFlight

LEMMA Product == ASSUME NEW a \in Nat, NEW b \in Nat, a <= b
                 PROVE  a * Period <= b * Period
BY BridgeAssumption

(* The next index is at a buffer again, and it wraps around to the start.  *)
LEMMA NextBuffer ==
  ASSUME Divides, NEW index \in Slots, AtBuffer(index)
  PROVE  /\ AtBuffer((index + Period) % cbsnd_size)
         /\ (index + Period) % cbsnd_size \in Slots
<1>1. PICK m \in Nat : cbsnd_size = m * Period
  BY DEF Divides
<1>2. PICK k \in Nat : index = k * Period /\ index + Period <= cbsnd_size
  BY DEF AtBuffer
<1>3. Period \in Nat \ {0} /\ cbsnd_size \in Nat \ {0} /\ Period <= cbsnd_size
  BY BridgeAssumption
<1>4. index + Period = (k + 1) * Period
  BY <1>2, <1>3
<1>5. CASE index + Period = cbsnd_size
  <2>1. (index + Period) % cbsnd_size = 0
    BY <1>3, <1>5
  <2>2. 0 = 0 * Period
    BY <1>3
  <2> QED BY <1>3, <2>1, <2>2 DEF AtBuffer, Slots
<1>6. CASE index + Period # cbsnd_size
  <2>1. index + Period \in Nat /\ index + Period < cbsnd_size
    BY <1>2, <1>3, <1>6 DEF Slots
  <2>2. (index + Period) % cbsnd_size = index + Period
    BY <1>3, <2>1
  <2>3. k + 1 < m
    <3>1. ~(m <= k + 1)
      BY <1>1, <1>4, <2>1, <1>3, Product
    <3> QED BY <3>1
  <2>4. (k + 2) * Period <= m * Period
    BY <2>3, Product
  <2>5. (k + 2) * Period = (k + 1) * Period + Period
    BY <1>3
  <2>6. index + Period + Period <= cbsnd_size
    BY <1>1, <1>4, <2>4, <2>5
  <2>7. AtBuffer(index + Period)
    <3>1. k + 1 \in Nat
      OBVIOUS
    <3> QED BY <1>4, <2>6, <3>1 DEF AtBuffer
  <2>8. index + Period \in Slots
    BY <1>3, <2>1 DEF Slots
  <2> QED BY <2>2, <2>7, <2>8
<1> QED BY <1>5, <1>6

LEMMA InitInv == Divides /\ BridgeInit => BridgeInv
<1> SUFFICES ASSUME Divides, BridgeInit PROVE BridgeInv
  OBVIOUS
<1>1. Period \in Nat \ {0} /\ cbsnd_size \in Nat \ {0} /\ Period <= cbsnd_size /\ 0 = 0 * Period
  BY BridgeAssumption
<1>2. BridgeTypeOK
  <2>1. Silent \in [1..Period -> -1..Period]
    BY <1>1 DEF Silent, Silence
  <2>2. 0 \in Slots /\ Old \in 0..Period
    BY <1>1 DEF Slots, Old
  <2> QED BY <2>1, <2>2 DEF BridgeInit, BridgeTypeOK
<1>3. AtBuffer(cbsnd_rd)
  BY <1>1 DEF BridgeInit, AtBuffer
<1> QED BY <1>2, <1>3 DEF BridgeInit, BridgeInv, Relayed, InFlight

LEMMA ReceiveInv == ASSUME Divides, BridgeInv, Receive PROVE BridgeInv'
<1>1. /\ cbsnd_rd \in 0..cbsnd_size - 1 /\ cbsnd_wr = cbsnd_rd /\ cbsnd_ready = 0
      /\ cbsnd_rd + Period <= cbsnd_size
      /\ Period \in Nat \ {0} /\ cbsnd_size \in Nat \ {0}
  BY BridgeAssumption DEF BridgeInv, BridgeTypeOK, AtBuffer, Slots, Receive
<1>2. \A slot \in Slots : Copied(slot) = IF slot \in cbsnd_rd..cbsnd_rd + Period - 1
                                         THEN slot - cbsnd_rd + 1 ELSE Old
  BY <1>1 DEF Copied, Slots
<1>3. cbsnd' \in [Slots -> 0..Period]
  <2>1. \A slot \in Slots : Copied(slot) \in 0..Period /\ Old \in 0..Period
    BY <1>1, <1>2 DEF Slots, Old
  <2> QED BY <2>1 DEF Receive
<1>4. cbsnd_wr' \in Slots
  <2>1. (cbsnd_wr + Period) % cbsnd_size \in Slots
    BY <1>1, NextBuffer DEF BridgeInv, Slots
  <2> QED BY <2>1 DEF Receive, BridgeInv, BridgeTypeOK
<1>5. BridgeTypeOK'
  BY <1>1, <1>3, <1>4 DEF Receive, BridgeInv, BridgeTypeOK
<1>6. InFlight'
  <2>1. CASE enable_bridge
    <3>1. ASSUME NEW i \in 1..Period PROVE cbsnd'[cbsnd_rd + i - 1] = i
      <4> DEFINE slot == cbsnd_rd + i - 1
      <4>1. /\ slot \in Slots /\ slot \in cbsnd_rd..cbsnd_rd + Period - 1
            /\ slot - cbsnd_rd + 1 = i
        BY <1>1 DEF Slots
      <4> HIDE DEF slot
      <4>2. cbsnd'[slot] = Copied(slot)
        BY <2>1, <4>1 DEF Receive
      <4>3. Copied(slot) = i
        BY <1>2, <4>1
      <4> QED BY <4>2, <4>3 DEF slot
    <3> QED BY <1>1, <2>1, <3>1 DEF Receive, InFlight
  <2>2. CASE ~enable_bridge
    BY <1>1, <2>2 DEF Receive, InFlight
  <2> QED BY <2>1, <2>2
<1> QED BY <1>5, <1>6 DEF Receive, BridgeInv, Relayed, AtBuffer

LEMMA TransmitInv == ASSUME Divides, BridgeInv, Transmit PROVE BridgeInv'
<1>1. /\ cbsnd_rd \in 0..cbsnd_size - 1 /\ cbsnd_rd + Period <= cbsnd_size
      /\ Period \in Nat \ {0} /\ cbsnd_size \in Nat \ {0} /\ pc = "bits"
      /\ bridged \in BOOLEAN
  BY BridgeAssumption DEF BridgeInv, BridgeTypeOK, AtBuffer, Slots, Transmit
<1>2. CASE bridged
  <2>1. /\ Taken = Period /\ cbsnd_ready = Period
        /\ cbsnd_wr = (cbsnd_rd + Period) % cbsnd_size
    BY <1>1, <1>2 DEF BridgeInv, InFlight, Taken
  <2>2. ASSUME NEW i \in 1..Period
        PROVE  cbsnd[(cbsnd_rd + i - 1) % cbsnd_size] = i
    <3>1. (cbsnd_rd + i - 1) % cbsnd_size = cbsnd_rd + i - 1
      BY <1>1
    <3> QED BY <1>1, <1>2, <3>1 DEF BridgeInv, InFlight
  <2>3. out' = Heard
    BY <1>1, <2>1, <2>2 DEF Transmit, Heard
  <2>4. AtBuffer(cbsnd_rd)' /\ cbsnd_rd' \in Slots
    <3>1. cbsnd_rd' = (cbsnd_rd + Period) % cbsnd_size
      BY <2>1 DEF Transmit
    <3> QED BY <1>1, <3>1, NextBuffer DEF BridgeInv, Slots, AtBuffer
  <2>5. cbsnd_ready' = 0 /\ cbsnd_wr' = cbsnd_rd'
    BY <1>1, <2>1 DEF Transmit
  <2>6. out' \in [1..Period -> -1..Period]
    BY <1>1, <2>3 DEF Heard
  <2> QED BY <1>2, <2>3, <2>4, <2>5, <2>6
       DEF Transmit, BridgeInv, BridgeTypeOK, Relayed, InFlight
<1>3. CASE ~bridged
  <2>1. Taken = 0 /\ cbsnd_ready = 0 /\ cbsnd_wr = cbsnd_rd
    BY <1>1, <1>3 DEF BridgeInv, InFlight, Taken
  <2>2. out' = Silent
    BY <1>1, <2>1 DEF Transmit, Silent
  <2>3. cbsnd_rd' = cbsnd_rd
    BY <1>1, <2>1 DEF Transmit
  <2>4. cbsnd_ready' = 0 /\ cbsnd_wr' = cbsnd_rd'
    BY <2>1, <2>3 DEF Transmit
  <2>5. out' \in [1..Period -> -1..Period]
    BY <1>1, <2>2 DEF Silent, Silence
  <2> QED BY <1>3, <2>2, <2>3, <2>4, <2>5
       DEF Transmit, BridgeInv, BridgeTypeOK, Relayed, InFlight, AtBuffer
<1> QED BY <1>1, <1>2, <1>3

LEMMA StepInv == Divides /\ BridgeInv /\ [BridgeNext]_bridgevars => BridgeInv'
<1> SUFFICES ASSUME Divides, BridgeInv, [BridgeNext]_bridgevars PROVE BridgeInv'
  OBVIOUS
<1>1. CASE Receive
  BY <1>1, ReceiveInv
<1>2. CASE Transmit
  BY <1>2, TransmitInv
<1>3. ASSUME NEW bridge \in BOOLEAN, Bridge(bridge) PROVE BridgeInv'
  BY <1>3 DEF Bridge, BridgeInv, BridgeTypeOK, Relayed, InFlight, AtBuffer
<1>4. CASE UNCHANGED bridgevars
  BY <1>4 DEF bridgevars, BridgeInv, BridgeTypeOK, Relayed, InFlight, AtBuffer
<1> QED BY <1>1, <1>2, <1>3, <1>4 DEF BridgeNext

(* What is received with the bridge on is sent at once, and nothing else   *)
(* is, for every buffer that divides the ring (channel.c lines 65-111).    *)
THEOREM BridgeRelays == Divides => (BridgeSpec => [](BridgeTypeOK /\ Relayed))
<1> SUFFICES ASSUME Divides PROVE BridgeSpec => [](BridgeTypeOK /\ Relayed)
  OBVIOUS
<1>1. BridgeInit => BridgeInv
  BY InitInv
<1>2. BridgeInv /\ [BridgeNext]_bridgevars => BridgeInv'
  BY StepInv
<1>3. BridgeInv => BridgeTypeOK /\ Relayed
  BY DEF BridgeInv
<1> QED BY <1>1, <1>2, <1>3, PTL DEF BridgeSpec

-----------------------------------------------------------------------------
(* The life of the modem                                                   *)

(* What the main thread has done so far is told by where it is.            *)
LifeInv ==
  /\ LifeTypeOK /\ ContextsLive
  /\ main \in {"connecting", "deactivating", "closing"} => modem = "open"
  /\ main = "connecting" => active /\ ~isStarted
  /\ main = "deactivating" => active /\ isStarted
  /\ main = "closing" => ~active /\ ~isStarted
  /\ modem # "open" => ~active
  /\ call # "none" => audio \in {"receiving", "tones", "transmitting"}

LEMMA LifeStarts == LifeInit => LifeInv
BY DEF LifeInit, LifeInv, LifeTypeOK, ContextsLive, Nobody

LEMMA MainStep == LifeInv /\ MainNext => LifeInv'
<1> SUFFICES ASSUME LifeInv, MainNext PROVE LifeInv'
  OBVIOUS
<1> USE DEF LifeInv, LifeTypeOK, ContextsLive, Nobody
<1>1. CASE TakeGil
  BY <1>1 DEF TakeGil
<1>2. CASE GiveGil
  BY <1>2 DEF GiveGil
<1>3. CASE Construct
  BY <1>3 DEF Construct, Calls
<1>4. CASE Start
  BY <1>4 DEF Start, Calls
<1>5. CASE Connected
  BY <1>5 DEF Connected
<1>6. CASE Stop
  BY <1>6 DEF Stop, Calls
<1>7. CASE Dealloc
  BY <1>7 DEF Dealloc, Calls
<1>8. CASE Deactivated
  BY <1>8 DEF Deactivated
<1>9. CASE Closed
  BY <1>9 DEF Closed, ClientClosed, Freed
<1> QED BY <1>1, <1>2, <1>3, <1>4, <1>5, <1>6, <1>7, <1>8, <1>9 DEF MainNext

LEMMA AudioThreadStep == LifeInv /\ AudioNext => LifeInv'
<1> SUFFICES ASSUME LifeInv, AudioNext PROVE LifeInv'
  OBVIOUS
<1> USE DEF LifeInv, LifeTypeOK, ContextsLive, Nobody
<1>1. CASE Process
  BY <1>1 DEF Process, Advance
<1>2. CASE Received
  BY <1>2 DEF Received, Advance
<1>3. CASE LockTones
  BY <1>3 DEF LockTones, Advance
<1>4. CASE UnlockTones
  BY <1>4 DEF UnlockTones, Advance
<1>5. CASE Processed
  BY <1>5 DEF Processed, Advance
<1>6. CASE RecvCallback
  BY <1>6 DEF RecvCallback, Ensure
<1>7. CASE TxcvCallback
  BY <1>7 DEF TxcvCallback, Ensure
<1>8. CASE ComplCallback
  BY <1>8 DEF ComplCallback, Ensure
<1>9. CASE AudioTakesGil
  BY <1>9 DEF AudioTakesGil
<1>10. CASE Yield
  BY <1>10 DEF Yield
<1>11. CASE Handle
  BY <1>11 DEF Handle, lifevars
<1>12. CASE QueueText
  BY <1>12 DEF QueueText, InPython
<1>13. CASE Returns
  BY <1>13 DEF Returns, RecvReturns, ComplReturns, TxcvReturns, Release, InPython
<1> QED BY <1>1, <1>2, <1>3, <1>4, <1>5, <1>6, <1>7, <1>8, <1>9, <1>10, <1>11, <1>12, <1>13
        DEF AudioNext, Proceed

LEMMA LifeSteps == LifeInv /\ [LifeNext]_lifevars => LifeInv'
<1>1. LifeInv /\ UNCHANGED lifevars => LifeInv'
  BY DEF LifeInv, LifeTypeOK, ContextsLive, lifevars
<1> QED BY <1>1, MainStep, AudioThreadStep DEF LifeNext

(* The audio thread works on live contexts only: the destructor frees them *)
(* behind it (mpt1327Modem_dealloc, mpt1327_channel_free).                 *)
THEOREM ContextsAreLive == LifeSpec => [](LifeTypeOK /\ ContextsLive)
<1>1. LifeInv => LifeTypeOK /\ ContextsLive
  BY DEF LifeInv
<1> QED BY <1>1, LifeStarts, LifeSteps, PTL DEF LifeSpec

-----------------------------------------------------------------------------
(* A step of the two together is a step of each, or none of it.            *)
LEMMA StepsOfBoth ==
  [AudioStep]_audiovars => [LifeNext]_lifevars /\ [BridgeNext]_bridgevars
<1> SUFFICES ASSUME AudioStep PROVE LifeNext /\ [BridgeNext]_bridgevars
  BY DEF audiovars
<1>1. CASE MainNext /\ RingStays
  BY <1>1 DEF LifeNext, RingStays
<1>2. CASE Begin
  BY <1>2 DEF Begin, LifeNext, AudioNext, BridgeNext
<1>3. CASE \E bridge \in BOOLEAN : Switch(bridge)
  BY <1>3 DEF Switch, LifeNext, AudioNext, BridgeNext
<1>4. CASE Sound
  BY <1>4 DEF Sound, LifeNext, AudioNext, Proceed, BridgeNext
<1>5. CASE ~(MainNext /\ RingStays) /\ ~Begin /\ ~(\E bridge \in BOOLEAN : Switch(bridge)) /\ ~Sound
  BY <1>5 DEF AudioStep, RingStays, LifeNext, AudioNext, Proceed
<1> QED BY <1>1, <1>2, <1>3, <1>4, <1>5

(* The life of the modem does not interfere with the bridge, nor the bridge*)
(* with it: the system implements both specifications.                     *)
THEOREM ImplementsBoth == AudioSpec => LifeSpec /\ BridgeSpec
<1>1. AudioInit => LifeInit /\ BridgeInit
  BY DEF AudioInit
<1> QED BY <1>1, StepsOfBoth, PTL DEF AudioSpec, LifeSpec, BridgeSpec

(* So the contexts are live for the whole system.                          *)
THEOREM AudioContextsLive == AudioSpec => []ContextsLive
BY ImplementsBoth, ContextsAreLive, PTL

(* Each thread holds the locks it should, wherever the two are.            *)
THEOREM AudioTypeCorrect == AudioSpec => []LifeTypeOK
<1>1. LifeTypeOK /\ ContextsLive => LifeTypeOK
  OBVIOUS
<1> QED BY <1>1, ImplementsBoth, ContextsAreLive, PTL

(* And its bridge relays, for every buffer that divides the ring, over     *)
(* every start and stop (channel.c lines 65-111).                          *)
THEOREM AudioRelays == Divides => (AudioSpec => [](BridgeTypeOK /\ Relayed))
BY ImplementsBoth, BridgeRelays, PTL

(* The indices stay in the ring and are equal between buffers: no delay    *)
(* builds up, for every buffer that divides the ring (channel.c lines      *)
(* 65-111).                                                                *)
THEOREM BridgeKeepsTime == Divides => (AudioSpec => []BridgeTypeOK)
<1>1. BridgeTypeOK /\ Relayed => BridgeTypeOK
  OBVIOUS
<1> QED BY <1>1, ImplementsBoth, BridgeRelays, PTL
=============================================================================
