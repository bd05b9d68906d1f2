--------------------------- MODULE ChannelProofs ----------------------------
(* Theorems about Channel, for every queue bound, every set of bursts and  *)
(* every length of reply, time-out and frame.                              *)
EXTENDS Channel, TLAPS

(* What a half slot takes off a queue is an item, what is left a queue.    *)
LEMMA QueueType ==
  ASSUME NEW q \in Seq(Item), NEW b \in Seq(Item)
  PROVE  /\ q \o b \in Seq(Item)
         /\ q # <<>> => Head(q) \in Item /\ Tail(q) \in Seq(Item)
  OBVIOUS

(* The window that the start of a half slot leaves open is one.            *)
LEMMA BeginType ==
  ASSUME TypeOK, NEW state, NEW burst, Begin(state, burst)
  PROVE  rxcomplete' \in Window \cup {None}
<1>1. Ticked \in Window \cup {None}
  <2>1. CASE rxcomplete = None \/ Expires
    BY <2>1 DEF Ticked
  <2>2. CASE rxcomplete # None /\ ~Expires
    <3>1. rxcomplete \in Window
      BY <2>2 DEF TypeOK
    <3>2. rxcomplete.slottimeout - 1 \in 1..SlotTimeout
      BY <2>2, <3>1, ChannelAssumption DEF Window, Expires
    <3>3. Ticked = [rxcomplete EXCEPT !.slottimeout = @ - 1]
      BY <2>2 DEF Ticked
    <3> QED BY <3>1, <3>2, <3>3 DEF Window
  <2> QED BY <2>1, <2>2
<1> QED BY <1>1 DEF Begin, TypeOK

(* Taking an item off a queue leaves the transmitter well typed.           *)
LEMMA SendType ==
  ASSUME NEW item \in Item, Send(item)
  PROVE  /\ lastcw' \in Words
         /\ txcomplete' \in {None, 0, 2}
         /\ txreserved' \in 0..MaxLen
         /\ txreserveditem' \in Window \cup {None}
         /\ txreserveditem' # None => txreserved' > 0
<1>1. NewWindow(item) \in Window
  BY ChannelAssumption DEF NewWindow, Window, Item
<1> QED BY <1>1, ChannelAssumption DEF Send, Item

LEMMA RepliedType ==
  ASSUME TypeOK, rxcomplete # None, NEW cw \in RxWords
  PROVE  Replied(cw) \in Window
<1>1. rxcomplete \in Window
  BY DEF TypeOK
<1>2. (IF rxcomplete.remaining > 0 THEN rxcomplete.remaining - 1 ELSE 0) \in 0..MaxLen
  BY <1>1, ChannelAssumption DEF Window
<1>3. (IF rxcomplete.first = None THEN cw ELSE rxcomplete.first) \in RxWords \cup {None}
  BY <1>1 DEF Window
<1>4. SlotTimeout \in 1..SlotTimeout
  BY ChannelAssumption
<1> QED BY <1>1, <1>2, <1>3, <1>4 DEF Replied, Window

-----------------------------------------------------------------------------
LEMMA InitInv == ChannelInit => ChannelInv
BY ChannelAssumption
DEF ChannelInit, ChannelInv, TypeOK, Framed, Aligned, IdentExclusive,
    TrafficWordReady, OwnWords

(* A half slot of any state keeps the types.                               *)
LEMMA HalfSlotType ==
  ASSUME TypeOK, NEW burst \in Bursts, TxCv(burst)
  PROVE  TypeOK'
<1> USE DEF txvars, rxvars, queues, identvars
<1>1. rxcomplete' \in Window \cup {None}
  BY BeginType DEF TxCv, TxSync, TxMorse, TxWithdrawn, TxQueued, TxAloha,
     TxTrafficIdle, TxTrafficSync, TxTrafficWord, TxIdent
<1>2. burst \in Seq(Item) /\ txqueue \o burst \in Seq(Item)
  BY QueueType, ChannelAssumption DEF TypeOK
<1>3. NextSlot => ahlcount' \in 0..FrameSlots
  BY ChannelAssumption DEF NextSlot, TypeOK
<1>4. Unreserved \in 0..MaxLen
  BY ChannelAssumption DEF Unreserved, TypeOK
<1>5. CASE TxSync(burst)
  BY <1>1, <1>2, <1>5 DEF TxSync, NoReservation, TypeOK, OwnWords
<1>6. CASE TxMorse(burst)
  BY <1>1, <1>2, <1>6 DEF TxMorse, NoReservation, TypeOK
<1>7. CASE TxQueued(burst)
  <2> DEFINE q == txqueue \o burst
  <2>1. Head(q) \in Item /\ Tail(q) \in Seq(Item) /\ Send(Head(q))
    BY <1>2, <1>7, QueueType DEF TxQueued
  <2> QED BY <1>1, <1>3, <1>7, <2>1, SendType DEF TxQueued, TypeOK
<1>8. CASE TxTrafficWord(burst)
  <2>1. Head(txtrafqueue) \in Item /\ Tail(txtrafqueue) \in Seq(Item)
    BY <1>8, QueueType, ChannelAssumption DEF TxTrafficWord, TypeOK
  <2> QED BY <1>1, <1>2, <1>8, <2>1, SendType DEF TxTrafficWord, TypeOK
<1>9. CASE TxWithdrawn(burst)
  BY <1>1, <1>2, <1>3, <1>4, <1>9
  DEF TxWithdrawn, NoReservation, TypeOK, OwnWords
<1>10. CASE TxAloha(burst)
  BY <1>1, <1>3, <1>10, ChannelAssumption
  DEF TxAloha, NoReservation, TypeOK, OwnWords
<1>11. CASE TxTrafficIdle(burst)
  BY <1>1, <1>2, <1>11 DEF TxTrafficIdle, NoReservation, TypeOK
<1>12. CASE TxTrafficSync(burst)
  BY <1>1, <1>2, <1>12 DEF TxTrafficSync, NoReservation, TypeOK, OwnWords
<1>13. CASE TxIdent(burst)
  BY <1>1, <1>2, <1>13 DEF TxIdent, NoReservation, TypeOK
<1> QED
  BY <1>5, <1>6, <1>7, <1>8, <1>9, <1>10, <1>11, <1>12, <1>13 DEF TxCv

(* Every step keeps the types.                                             *)
LEMMA TypeStep == TypeOK /\ [ChannelNext]_chvars => TypeOK'
<1> SUFFICES ASSUME TypeOK, [ChannelNext]_chvars PROVE TypeOK'
  OBVIOUS
<1> USE DEF chvars, txvars, rxvars, queues, identvars
<1>1. CASE TxMorseClear
  BY <1>1 DEF TxMorseClear, TypeOK
<1>2. ASSUME NEW burst \in Bursts, TxCv(burst) PROVE TypeOK'
  BY <1>2, HalfSlotType
<1>3. CASE MorseDone
  BY <1>3 DEF MorseDone, TypeOK
<1>4. ASSUME NEW cw \in RxWords, RxMore(cw) \/ RxRaises(cw) PROVE TypeOK'
  <2>1. rxcomplete' \in Window
    BY <1>4, RepliedType DEF RxMore, RxRaises
  <2> QED BY <1>4, <2>1 DEF RxMore, RxRaises, TypeOK
<1>5. ASSUME NEW burst \in Bursts, RxLast(burst) PROVE TypeOK'
  <2>1. txqueue \o burst \in Seq(Item)
    BY QueueType, ChannelAssumption DEF TypeOK
  <2> QED BY <1>5, <2>1 DEF RxLast, TypeOK
<1>6. ASSUME NEW burst \in Bursts, NEW trafburst \in Bursts,
             Submit(burst, trafburst)
      PROVE  TypeOK'
  <2>1. txqueue \o burst \in Seq(Item) /\ txtrafqueue \o trafburst \in Seq(Item)
    BY QueueType, ChannelAssumption DEF TypeOK
  <2> QED BY <1>6, <2>1 DEF Submit, TypeOK
<1>7. ASSUME NEW text \in Texts, SetMorse(text) PROVE TypeOK'
  BY <1>7 DEF SetMorse, TypeOK
<1>8. CASE UNCHANGED chvars
  BY <1>8 DEF TypeOK
<1> QED
  BY <1>1, <1>2, <1>3, <1>4, <1>5, <1>6, <1>7, <1>8
  DEF ChannelNext, Transmit, Receive

-----------------------------------------------------------------------------
Structure == Framed /\ Aligned /\ IdentExclusive /\ TrafficWordReady

(* A half slot is sent in the state it is for: a pending TX completion can *)
(* only move the transmitter between the two places where a slot begins.   *)
LEMMA StateOfBegin ==
  ASSUME ChannelInv, NEW state, NEW burst, Begin(state, burst)
  PROVE  /\ state \in {1, 3, 4} => txstate = state
         /\ state \in {0, 2} => txstate \in {0, 2}
         /\ state # 4 => ident = None
         /\ pc = "idle"
BY DEF ChannelInv, TypeOK, Aligned, IdentExclusive, Begin, StateNow

(* What an item off a queue puts on the air is a codeword of the layer     *)
(* above, never one of the controller's own.                               *)
LEMMA SentWord ==
  ASSUME NEW item \in Item, Send(item)
  PROVE  lastcw' # None /\ lastcw' \notin OwnWords
BY SendType, ChannelAssumption

(* The half slots keep the structure of the transmission.                  *)
LEMMA HalfSlotStructure ==
  ASSUME ChannelInv, NEW burst \in Bursts, TxCv(burst)
  PROVE  Structure'
<1> USE DEF ChannelInv, Structure, txvars, rxvars, queues, identvars
<1>1. TypeOK'
  BY HalfSlotType
<1>2. burst \in Seq(Item) /\ txqueue \o burst \in Seq(Item)
  BY QueueType, ChannelAssumption DEF TypeOK
<1>3. None \notin OwnWords
  BY ChannelAssumption
<1>4. CASE TxSync(burst)
  <2>1. txstate \in {0, 2} /\ ident = None /\ pc = "idle"
    BY <1>4, StateOfBegin DEF TxSync
  <2> QED BY <1>3, <1>4, <2>1
      DEF TxSync, NoReservation, OwnWords, Framed, Aligned, IdentExclusive,
          TrafficWordReady
<1>5. CASE TxMorse(burst)
  <2>1. txstate \in {0, 2} /\ morse # None
    BY <1>5, StateOfBegin DEF TxMorse, MorseDue
  <2> QED BY <1>3, <1>5, <2>1
      DEF TxMorse, NoReservation, OwnWords, Framed, Aligned, IdentExclusive,
          TrafficWordReady
<1>6. CASE TxWithdrawn(burst)
  <2>1. txstate = 1 /\ ident = None /\ pc = "idle"
    BY <1>6, StateOfBegin DEF TxWithdrawn
  <2> QED BY <1>3, <1>6, <2>1
      DEF TxWithdrawn, NoReservation, OwnWords, Framed, Aligned,
          IdentExclusive, TrafficWordReady
<1>7. CASE TxQueued(burst)
  <2> DEFINE q == txqueue \o burst
  <2>1. txstate = 1 /\ ident = None /\ pc = "idle"
    BY <1>7, StateOfBegin DEF TxQueued
  <2>2. Head(q) \in Item /\ Send(Head(q))
    BY <1>2, <1>7, QueueType DEF TxQueued
  <2>3. /\ lastcw' \in Words /\ lastcw' # None /\ lastcw' \notin OwnWords
        /\ txreserveditem' # None => txreserved' > 0
    BY <2>2, SentWord, SendType
  <2> QED BY <1>7, <2>1, <2>3
      DEF TxQueued, OwnWords, Framed, Aligned, IdentExclusive, TrafficWordReady
<1>8. CASE TxAloha(burst)
  <2>1. txstate = 1 /\ ident = None /\ pc = "idle"
    BY <1>8, StateOfBegin DEF TxAloha
  <2> QED BY <1>3, <1>8, <2>1
      DEF TxAloha, NoReservation, OwnWords, Framed, Aligned, IdentExclusive,
          TrafficWordReady
<1>9. CASE TxTrafficIdle(burst)
  <2>1. txstate \in {0, 2} /\ ident = None /\ pc = "idle"
    BY <1>9, StateOfBegin DEF TxTrafficIdle
  <2> QED BY <1>3, <1>9, <2>1
      DEF TxTrafficIdle, NoReservation, OwnWords, Framed, Aligned,
          IdentExclusive, TrafficWordReady
<1>10. CASE TxTrafficSync(burst)
  <2>1. txstate \in {0, 2} /\ ident = None /\ pc = "idle"
    BY <1>10, StateOfBegin DEF TxTrafficSync
  <2> QED BY <1>3, <1>10, <2>1
      DEF TxTrafficSync, NoReservation, OwnWords, Framed, Aligned,
          IdentExclusive, TrafficWordReady
<1>11. CASE TxTrafficWord(burst)
  <2>1. txstate = 3 /\ ident = None /\ pc = "idle"
    BY <1>11, StateOfBegin DEF TxTrafficWord
  <2>2. Head(txtrafqueue) \in Item /\ Send(Head(txtrafqueue))
    BY <1>11, QueueType, ChannelAssumption DEF TxTrafficWord, TypeOK
  <2>3. /\ lastcw' \in Words /\ lastcw' # None /\ lastcw' \notin OwnWords
        /\ txreserveditem' # None => txreserved' > 0
    BY <2>2, SentWord, SendType
  <2> QED BY <1>11, <2>1, <2>3
      DEF TxTrafficWord, OwnWords, Framed, Aligned, IdentExclusive,
          TrafficWordReady
<1>12. CASE TxIdent(burst)
  <2>1. txstate = 4 /\ pc = "idle"
    BY <1>12, StateOfBegin DEF TxIdent
  <2> QED BY <1>3, <1>12, <2>1
      DEF TxIdent, NoReservation, OwnWords, Framed, Aligned, IdentExclusive,
          TrafficWordReady
<1> QED
  BY <1>4, <1>5, <1>6, <1>7, <1>8, <1>9, <1>10, <1>11, <1>12 DEF TxCv

(* Everything else that happens keeps it too.                              *)
LEMMA InvStep == ChannelInv /\ [ChannelNext]_chvars => ChannelInv'
<1> SUFFICES ASSUME ChannelInv, [ChannelNext]_chvars PROVE ChannelInv'
  OBVIOUS
<1> USE DEF chvars, txvars, rxvars, queues, identvars
<1>1. TypeOK'
  BY TypeStep DEF ChannelInv
<1>2. ASSUME NEW burst \in Bursts, TxCv(burst) PROVE Structure'
  BY <1>2, HalfSlotStructure
<1>3. ASSUME TxMorseClear PROVE Structure'
  BY <1>3 DEF TxMorseClear, ChannelInv, Structure, TypeOK, Framed, Aligned,
     IdentExclusive, TrafficWordReady
<1>4. ASSUME MorseDone PROVE Structure'
  BY <1>4, ChannelAssumption
  DEF MorseDone, ChannelInv, Structure, TypeOK, OwnWords, Framed, Aligned,
      IdentExclusive, TrafficWordReady
<1>5. ASSUME NEW cw \in RxWords, RxMore(cw) \/ RxRaises(cw) PROVE Structure'
  BY <1>5 DEF RxMore, RxRaises, ChannelInv, Structure, Framed, Aligned,
     IdentExclusive, TrafficWordReady
<1>6. ASSUME NEW burst \in Bursts, RxLast(burst) PROVE Structure'
  BY <1>6 DEF RxLast, ChannelInv, Structure, Framed, Aligned,
     IdentExclusive, TrafficWordReady
<1>7. ASSUME NEW burst \in Bursts, NEW trafburst \in Bursts,
             Submit(burst, trafburst)
      PROVE  Structure'
  <2>1. txtrafqueue # <<>> => txtrafqueue \o trafburst # <<>>
    BY ChannelAssumption DEF ChannelInv, TypeOK
  <2> QED BY <1>7, <2>1 DEF Submit, ChannelInv, Structure, Framed, Aligned,
          IdentExclusive, TrafficWordReady
<1>8. ASSUME NEW text \in Texts, SetMorse(text) PROVE Structure'
  BY <1>8 DEF SetMorse, ChannelInv, Structure, Framed, Aligned,
     IdentExclusive, TrafficWordReady
<1>9. ASSUME UNCHANGED chvars PROVE Structure'
  BY <1>9 DEF ChannelInv, Structure, Framed, Aligned, IdentExclusive,
     TrafficWordReady
<1>10. Structure'
  BY <1>2, <1>3, <1>4, <1>5, <1>6, <1>7, <1>8, <1>9
  DEF ChannelNext, Transmit, Receive
<1> QED BY <1>1, <1>10 DEF ChannelInv, Structure

(* In every reachable state: the attributes are well typed, no slot is     *)
(* broken in two, a completion or a window waits only behind its message,  *)
(* an ident has the channel for itself, and the traffic queue is not found *)
(* empty by the state that pops it (_txcvimpl, _morse_done, _rxcvimpl).    *)
THEOREM ChannelCorrect == ChannelSpec => []ChannelInv
BY InitInv, InvStep, PTL DEF ChannelSpec

THEOREM TypeCorrect == ChannelSpec => []TypeOK
<1>1. ChannelInv => TypeOK
  BY DEF ChannelInv
<1> QED BY <1>1, ChannelCorrect, PTL

THEOREM TrafficWordIsReady == ChannelSpec => []TrafficWordReady
<1>1. ChannelInv => TrafficWordReady
  BY DEF ChannelInv
<1> QED BY <1>1, ChannelCorrect, PTL

THEOREM IdentIsExclusive == ChannelSpec => []IdentExclusive
<1>1. ChannelInv => IdentExclusive
  BY DEF ChannelInv
<1> QED BY <1>1, ChannelCorrect, PTL

(* A sync word is followed by its slot and a slot begins with it: states 1 *)
(* and 3 of _txcvimpl are entered from 0 and 2 only, and left at once.     *)
THEOREM SlotsAreFramed == ChannelSpec => []Framed
<1>1. ChannelInv => Framed
  BY DEF ChannelInv
<1> QED BY <1>1, ChannelCorrect, PTL

(* TX completions and windows wait at slot boundaries only, so line 117 of *)
(* channel.py never breaks a slot in two.                                  *)
THEOREM CompletionsAreAligned == ChannelSpec => []Aligned
<1>1. ChannelInv => Aligned
  BY DEF ChannelInv
<1> QED BY <1>1, ChannelCorrect, PTL

-----------------------------------------------------------------------------
(* The refinement of AirInterface                                          *)

LEMMA AirInit == ChannelInit => Air!Init
BY ChannelAssumption
DEF ChannelInit, Air!Init, Mode, WordOnAir, Owed, Unreserved, OwnWords

(* What the air interface sees of the state a half slot begins in.  The    *)
(* transmitter is in its mode or right behind a complete message.          *)
LEMMA AirBefore ==
  ASSUME ChannelInv, NEW state, NEW burst, Begin(state, burst)
  PROVE  /\ state = 0 => Air!MayBeIn("control")
         /\ state = 2 => Air!MayBeIn("traffic")
         /\ state = 1 => Mode = "control" /\ WordOnAir = "ccsc"
         /\ state = 3 => Mode = "traffic" /\ WordOnAir = "traf"
         /\ state = 4 => Mode = "ident" /\ WordOnAir = "silence"
<1> USE ChannelAssumption
    DEF ChannelInv, TypeOK, Framed, Aligned, IdentExclusive, Begin, StateNow,
        Mode, WordOnAir, OwnWords, Air!MayBeIn, Air!AtSlotBoundary, Air!Syncs
<1>1. CASE txcomplete = None
  BY <1>1
<1>2. CASE txcomplete # None
  <2>1. txstate \in {0, 2} /\ pc = "idle" /\ lastcw \in Words
    BY <1>2
  <2>2. WordOnAir = "address"
    BY <2>1
  <2> QED BY <1>2, <2>1, <2>2
<1> QED BY <1>1, <1>2

(* A message from a queue is an address codeword that solicits its reply.  *)
LEMMA AirSend ==
  ASSUME NEW item \in Item, Send(item)
  PROVE  /\ WordOnAir' = "address"
         /\ \E k \in 0..MaxLen : Air!Solicits(k)
<1>1. lastcw' # None /\ lastcw' \notin OwnWords
  BY SentWord
<1>2. WordOnAir' = "address"
  BY <1>1 DEF WordOnAir, OwnWords
<1>3. item.rxlen \in 0..MaxLen /\ txreserved' = item.rxlen
  BY DEF Send, Item
<1>4. Air!Solicits(item.rxlen)
  BY <1>3, ChannelAssumption DEF Air!Solicits, Owed, Unreserved
<1> QED BY <1>2, <1>3, <1>4

LEMMA AirHalfSlot ==
  ASSUME ChannelInv, NEW burst \in Bursts, TxCv(burst)
  PROVE  [Air!Next]_(Air!airvars)
<1> USE DEF txvars, rxvars, queues, identvars
<1>1. burst \in Seq(Item) /\ txqueue \o burst \in Seq(Item)
  BY QueueType, ChannelAssumption DEF ChannelInv, TypeOK
<1>2. None \notin OwnWords
  BY ChannelAssumption
<1>3. CASE TxSync(burst)
  <2>1. Air!MayBeIn("control") /\ pc = "idle"
    BY <1>3, AirBefore, StateOfBegin DEF TxSync
  <2>2. Air!ControlSync
    BY <1>2, <1>3, <2>1
    DEF TxSync, Air!ControlSync, Mode, WordOnAir, Owed, Unreserved, OwnWords
  <2> QED BY <2>2 DEF Air!Next
<1>4. CASE TxMorse(burst)
  <2>1. Air!MayBeIn("control")
    BY <1>4, AirBefore DEF TxMorse
  <2>2. Air!IdentStart
    BY <1>2, <1>4, <2>1
    DEF TxMorse, Air!IdentStart, Mode, WordOnAir, Owed, Unreserved, OwnWords
  <2> QED BY <2>2 DEF Air!Next
<1>5. CASE TxWithdrawn(burst)
  <2>1. Mode = "control" /\ WordOnAir = "ccsc" /\ pc = "idle"
    BY <1>5, AirBefore, StateOfBegin DEF TxWithdrawn
  <2>2. Owed' = Owed - 1 /\ Owed > 0
    BY <1>5, ChannelAssumption
    DEF TxWithdrawn, Owed, Unreserved, ChannelInv, TypeOK
  <2>3. Air!Withdraw
    BY <1>2, <1>5, <2>1, <2>2
    DEF TxWithdrawn, Air!Withdraw, Mode, WordOnAir, OwnWords
  <2> QED BY <2>3 DEF Air!Next
<1>6. CASE TxQueued(burst)
  <2> DEFINE q == txqueue \o burst
  <2>1. Mode = "control" /\ WordOnAir = "ccsc" /\ pc = "idle"
    BY <1>6, AirBefore, StateOfBegin DEF TxQueued
  <2>2. Head(q) \in Item /\ Send(Head(q))
    BY <1>1, <1>6, QueueType DEF TxQueued
  <2>3. WordOnAir' = "address" /\ \E k \in 0..MaxLen : Air!Solicits(k)
    BY <2>2, AirSend
  <2>4. Air!ControlWord
    BY <1>6, <2>1, <2>3 DEF TxQueued, Air!ControlWord, Mode, Owed
  <2> QED BY <2>4 DEF Air!Next
<1>7. CASE TxAloha(burst)
  <2>1. Mode = "control" /\ WordOnAir = "ccsc" /\ pc = "idle"
    BY <1>7, AirBefore, StateOfBegin DEF TxAloha
  <2>2. WordOnAir' = "address"
    BY <1>2, <1>7 DEF TxAloha, WordOnAir, OwnWords
  <2>3. 0 \in 0..MaxLen /\ Air!Solicits(0)
    BY <1>7, ChannelAssumption DEF TxAloha, Air!Solicits, Owed, Unreserved
  <2>4. Air!ControlWord
    BY <1>7, <2>1, <2>2, <2>3 DEF TxAloha, Air!ControlWord, Mode, Owed
  <2> QED BY <2>4 DEF Air!Next
<1>8. CASE TxTrafficIdle(burst)
  <2>1. Air!MayBeIn("traffic")
    BY <1>8, AirBefore DEF TxTrafficIdle
  <2>2. Air!TrafficIdle
    BY <1>2, <1>8, <2>1
    DEF TxTrafficIdle, Air!TrafficIdle, Mode, WordOnAir, Owed, Unreserved,
        OwnWords
  <2> QED BY <2>2 DEF Air!Next
<1>9. CASE TxTrafficSync(burst)
  <2>1. Air!MayBeIn("traffic")
    BY <1>9, AirBefore DEF TxTrafficSync
  <2>2. Air!TrafficSync
    BY <1>2, <1>9, <2>1
    DEF TxTrafficSync, Air!TrafficSync, Mode, WordOnAir, Owed, Unreserved,
        OwnWords
  <2> QED BY <2>2 DEF Air!Next
<1>10. CASE TxTrafficWord(burst)
  <2>1. Mode = "traffic" /\ WordOnAir = "traf" /\ pc = "idle"
    BY <1>10, AirBefore, StateOfBegin DEF TxTrafficWord
  <2>2. Head(txtrafqueue) \in Item /\ Send(Head(txtrafqueue))
    BY <1>10, QueueType, ChannelAssumption
    DEF TxTrafficWord, ChannelInv, TypeOK
  <2>3. WordOnAir' = "address" /\ \E k \in 0..MaxLen : Air!Solicits(k)
    BY <2>2, AirSend
  <2>4. Air!TrafficWord
    BY <1>10, <2>1, <2>3 DEF TxTrafficWord, Air!TrafficWord, Mode
  <2> QED BY <2>4 DEF Air!Next
<1>11. CASE TxIdent(burst)
  <2>1. Mode = "ident" /\ WordOnAir = "silence"
    BY <1>11, AirBefore DEF TxIdent
  <2>2. UNCHANGED Air!airvars
    BY <1>2, <1>11, <2>1
    DEF TxIdent, Air!airvars, Mode, WordOnAir, Owed, Unreserved, OwnWords
  <2> QED BY <2>2
<1> QED
  BY <1>3, <1>4, <1>5, <1>6, <1>7, <1>8, <1>9, <1>10, <1>11 DEF TxCv

LEMMA AirStep == ChannelInv /\ [ChannelNext]_chvars => [Air!Next]_(Air!airvars)
<1> SUFFICES ASSUME ChannelInv, [ChannelNext]_chvars
             PROVE  [Air!Next]_(Air!airvars)
  OBVIOUS
<1> USE DEF chvars, txvars, rxvars, queues, identvars
<1>1. ASSUME NEW burst \in Bursts, TxCv(burst) PROVE [Air!Next]_(Air!airvars)
  BY <1>1, AirHalfSlot
<1>2. CASE TxMorseClear
  BY <1>2 DEF TxMorseClear, ChannelInv, IdentExclusive, Air!airvars, Mode,
     WordOnAir, Owed, Unreserved
<1>3. CASE MorseDone
  <2>1. Mode = "ident" /\ pc = "idle" /\ Mode' = "control"
    BY <1>3 DEF MorseDone, ChannelInv, IdentExclusive, Mode
  <2>2. Air!IdentEnd
    BY <1>3, <2>1 DEF MorseDone, Air!IdentEnd, WordOnAir, Owed, Unreserved
  <2> QED BY <2>2 DEF Air!Next
<1>4. ASSUME UNCHANGED <<txvars, pc>> PROVE UNCHANGED Air!airvars
  BY <1>4 DEF Air!airvars, Mode, WordOnAir, Owed, Unreserved
<1>5. CASE Receive
  BY <1>4, <1>5 DEF Receive, RxMore, RxRaises, RxLast
<1>6. CASE \E burst, trafburst \in Bursts : Submit(burst, trafburst)
  BY <1>4, <1>6 DEF Submit
<1>7. CASE \E text \in Texts : SetMorse(text)
  BY <1>4, <1>7 DEF SetMorse
<1>8. CASE UNCHANGED chvars
  BY <1>4, <1>8
<1> QED
  BY <1>1, <1>2, <1>3, <1>5, <1>6, <1>7, <1>8 DEF ChannelNext, Transmit

(* The controller implements the air interface: whatever the layer above   *)
(* queues, a radio unit hears whole slots, every reserved slot withdrawn   *)
(* and no channel change but behind a complete message (_txcvimpl).        *)
THEOREM ImplementsAir == ChannelSpec => AirSpec
<1>1. ChannelSpec => Air!Init /\ [][Air!Next]_(Air!airvars)
  BY AirInit, AirStep, ChannelCorrect, PTL DEF ChannelSpec
<1> QED BY <1>1 DEF AirSpec, Air!Spec

=============================================================================
