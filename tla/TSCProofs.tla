----------------------------- MODULE TSCProofs ------------------------------
(* Theorems about TSC, for any number of calls and any bound on its queues.*)
EXTENDS TSC, ChannelProofs

(* Only an ahoy solicits a reply, so a window always has a call to report  *)
(* to.  This is what the channel controller needs to know of its user.     *)
CallItem == {item \in Item : item.rxlen > 0 => item.data \in Calls}

(* Nothing sent on the traffic channel leads to the traffic channel.       *)
TrafficItem == {item \in CallItem : item.next # 2}

WindowsHaveCalls ==
  /\ txqueue \in Seq(CallItem) /\ txtrafqueue \in Seq(TrafficItem)
  /\ txreserveditem # None => txreserveditem.data \in Calls
  /\ rxcomplete # None => rxcomplete.data \in Calls

GlobalsOK ==
  /\ call \in Calls \cup {None}
  /\ bridge \in BOOLEAN
  /\ carried \in Calls \cup {None}

TSCInv == ChannelInv /\ GlobalsOK /\ WindowsHaveCalls

-----------------------------------------------------------------------------
LEMMA CallItemQueue ==
  ASSUME NEW q \in Seq(CallItem), NEW b \in Seq(CallItem)
  PROVE  /\ q \o b \in Seq(CallItem)
         /\ q # <<>> => Head(q) \in CallItem /\ Tail(q) \in Seq(CallItem)
  OBVIOUS

LEMMA TrafficQueue ==
  ASSUME NEW q \in Seq(TrafficItem), NEW b \in Seq(TrafficItem)
  PROVE  /\ q \o b \in Seq(TrafficItem)
         /\ q # <<>> => Head(q) \in TrafficItem /\ Tail(q) \in Seq(TrafficItem)
  OBVIOUS

(* Every burst of tsc.py consists of such items.                           *)
LEMMA BurstItems ==
  /\ Rejected \in Bursts \cap Seq(CallItem)
  /\ ClearDown \in Bursts \cap Seq(CallItem)
  /\ \A c \in Calls : /\ Ahoy(c) \in Bursts \cap Seq(CallItem)
                      /\ Unavailable(c) \in Bursts \cap Seq(CallItem)
                      /\ Grant(c) \in Bursts \cap Seq(CallItem)
  /\ <<>> \in Bursts \cap Seq(CallItem)
  /\ <<>> \in Seq(TrafficItem) /\ ClearDown \in Seq(TrafficItem)
<1>1. /\ Rejected \in Bursts /\ ClearDown \in Bursts /\ <<>> \in Bursts
      /\ \A c \in Calls : /\ Ahoy(c) \in Bursts /\ Unavailable(c) \in Bursts
                          /\ Grant(c) \in Bursts
  BY TSCAssumption DEF TSCBursts
<1>2. ASSUME NEW word \in {"AHY", "ACKV", "GTC", "ACKX", "CLEAR"},
             NEW c \in Calls \cup {None}
      PROVE  Message(word, c) \in CallItem
  BY ChannelAssumption, TSCAssumption DEF Message, CallItem, Item, Calls
<1>3. Rejected \in Seq(CallItem) /\ ClearDown \in Seq(CallItem)
  <2>1. LastClear \in CallItem
    BY ChannelAssumption, TSCAssumption DEF LastClear, CallItem, Item
  <2> QED BY <1>2, <2>1 DEF Rejected, ClearDown, Clear
<1>4. ASSUME NEW c \in Calls
      PROVE  /\ Ahoy(c) \in Seq(CallItem)
             /\ Unavailable(c) \in Seq(CallItem)
             /\ Grant(c) \in Seq(CallItem)
  <2>1. [cw |-> "AHY", next |-> None, rxlen |-> 1, data |-> c] \in CallItem
    BY ChannelAssumption, TSCAssumption DEF CallItem, Item, Calls
  <2>2. [cw |-> "GTC", next |-> 2, rxlen |-> 0, data |-> c] \in CallItem
    BY ChannelAssumption, TSCAssumption DEF CallItem, Item, Calls
  <2>3. Message("ACKV", c) \in CallItem /\ Message("GTC", c) \in CallItem
    BY <1>2
  <2>4. ASSUME NEW a \in CallItem, NEW b \in CallItem
        PROVE  <<a>> \in Seq(CallItem) /\ <<a, b>> \in Seq(CallItem)
    OBVIOUS
  <2> QED BY <2>1, <2>2, <2>3, <2>4 DEF Ahoy, Unavailable, Grant
<1>5. <<>> \in Seq(CallItem) /\ <<>> \in Seq(TrafficItem)
  OBVIOUS
<1>6. ClearDown \in Seq(TrafficItem)
  <2>1. Clear \in TrafficItem
    <3>1. Clear \in CallItem
      BY <1>2 DEF Clear
    <3>2. Clear.next # 2
      BY ChannelAssumption DEF Clear, Message
    <3> QED BY <3>1, <3>2 DEF TrafficItem
  <2>2. LastClear \in TrafficItem
    BY ChannelAssumption, TSCAssumption
    DEF LastClear, TrafficItem, CallItem, Item
  <2> QED BY <2>1, <2>2 DEF ClearDown
<1> QED BY <1>1, <1>3, <1>4, <1>5, <1>6

(* What a callback queues is a burst, since its window has a call.         *)
LEMMA TimedOutBurst ==
  ASSUME TSCInv
  PROVE  TimedOut \in Bursts \cap Seq(CallItem)
BY BurstItems DEF TimedOut, Expires, TSCInv, WindowsHaveCalls

LEMMA AnsweredBurst ==
  ASSUME TSCInv, rxcomplete # None, NEW cw
  PROVE  Answered(cw) \in Bursts \cap Seq(CallItem)
BY BurstItems DEF Answered, TSCInv, WindowsHaveCalls

-----------------------------------------------------------------------------
(* Every step of the controller program is a step of the channel           *)
(* controller's open specification.                                        *)
LEMMA StepIsChannelStep == TSCInv /\ [TSCNext]_allvars => [ChannelNext]_chvars
<1> SUFFICES ASSUME TSCInv, [TSCNext]_allvars PROVE [ChannelNext]_chvars
  OBVIOUS
<1>1. CASE HalfSlot
  BY <1>1, TimedOutBurst DEF HalfSlot, ChannelNext, Transmit
<1>2. CASE MorseTaken
  BY <1>2 DEF MorseTaken, ChannelNext, Transmit
<1>3. CASE IdentSent
  BY <1>3 DEF IdentSent, ChannelNext
<1>4. ASSUME NEW cw \in RxWords, Reply(cw) PROVE ChannelNext
  <2>1. \A first : Answered(first) \in Bursts
    BY <1>4, AnsweredBurst DEF Reply
  <2>2. RxRaises(cw) \/ \E first : RxLast(Answered(first))
    BY <1>4 DEF Reply
  <2> QED BY <2>1, <2>2 DEF ChannelNext, Receive
<1>5. ASSUME NEW burst \in Bursts, NEW trafburst \in Bursts,
             RandomAccess(burst, trafburst)
      PROVE  ChannelNext
  BY <1>5 DEF RandomAccess, ChannelNext
<1>6. ASSUME NEW c \in Calls, CreateCall(c) PROVE ChannelNext
  BY <1>5, <1>6, BurstItems DEF CreateCall
<1>7. CASE Busy \/ Refuse \/ Ignore
  BY <1>5, <1>7, BurstItems DEF Busy, Refuse, Ignore
<1>8. ASSUME NEW on \in BOOLEAN, Presel(on) PROVE ChannelNext
  BY <1>5, <1>8, BurstItems DEF Presel
<1>9. CASE Disconnect
  BY <1>5, <1>9, BurstItems DEF Disconnect
<1>10. CASE Operator
  BY <1>10 DEF Operator, ChannelNext
<1>11. CASE UNCHANGED allvars
  BY <1>11 DEF allvars
<1> QED
  BY <1>1, <1>2, <1>3, <1>4, <1>6, <1>7, <1>8, <1>9, <1>10, <1>11
  DEF TSCNext, Transmitter

-----------------------------------------------------------------------------
LEMMA TSCInitInv == TSCInit => TSCInv
<1> SUFFICES ASSUME TSCInit PROVE TSCInv
  OBVIOUS
<1>1. ChannelInv
  BY InitInv DEF TSCInit
<1>2. GlobalsOK /\ WindowsHaveCalls
  BY BurstItems DEF TSCInit, ChannelInit, GlobalsOK, WindowsHaveCalls
<1> QED BY <1>1, <1>2 DEF TSCInv

(* Windows pass their call on: from the item to the window that waits, to  *)
(* the open one, and through its ticks.                                    *)
LEMMA HalfSlotWindows ==
  ASSUME TSCInv, HalfSlot
  PROVE  WindowsHaveCalls' /\ GlobalsOK'
<1> USE DEF txvars, rxvars, queues, identvars, WindowsHaveCalls
<1> DEFINE burst == TimedOut
           q == txqueue \o burst
<1>1. burst \in Bursts /\ burst \in Seq(CallItem) /\ TxCv(burst)
  BY TimedOutBurst DEF HalfSlot
<1>2. q \in Seq(CallItem) /\ (q # <<>> => Head(q) \in CallItem /\ Tail(q) \in Seq(CallItem))
  <2>1. txqueue \in Seq(CallItem) /\ q \in Seq(CallItem)
    BY <1>1, CallItemQueue DEF TSCInv
  <2> HIDE DEF q
  <2>2. <<>> \in Seq(CallItem)
    BY BurstItems
  <2> QED BY <2>1, <2>2, CallItemQueue
<1>3. rxcomplete' # None => rxcomplete'.data \in Calls
  <2>1. \E state : Begin(state, burst)
    BY <1>1 DEF TxCv, TxSync, TxMorse, TxWithdrawn, TxQueued, TxAloha,
       TxTrafficIdle, TxTrafficSync, TxTrafficWord, TxIdent
  <2>2. Ticked # None => Ticked.data \in Calls
    <3>1. rxcomplete # None => rxcomplete \in Window
      BY DEF TSCInv, ChannelInv, TypeOK
    <3> QED BY <3>1 DEF Ticked, TSCInv, Window
  <2> QED BY <2>1, <2>2 DEF Begin, TSCInv
<1>4. ASSUME NEW item \in CallItem, Send(item)
      PROVE  txreserveditem' # None => txreserveditem'.data \in Calls
  BY <1>4 DEF Send, NewWindow, CallItem
<1>5. CASE TxQueued(burst)
  <2>1. Head(q) \in CallItem /\ Send(Head(q)) /\ q # <<>>
    BY <1>2, <1>5 DEF TxQueued
  <2>2. Head(q) \in Item /\ txcomplete' = Head(q).next
    BY <2>1 DEF CallItem, Send
  <2>3. GlobalsOK'
    BY <2>2 DEF HalfSlot, Carry, TSCInv, GlobalsOK, Item, Calls
  <2>4. txqueue' = Tail(q) /\ UNCHANGED txtrafqueue
    BY <1>5 DEF TxQueued
  <2> QED BY <1>2, <1>3, <1>4, <2>1, <2>3, <2>4 DEF TSCInv
<1>6. CASE TxTrafficWord(burst)
  <2>1. txtrafqueue \in Seq(TrafficItem) /\ txtrafqueue # <<>>
    BY <1>6 DEF TxTrafficWord, TSCInv
  <2>2. /\ Head(txtrafqueue) \in TrafficItem /\ Send(Head(txtrafqueue))
        /\ Tail(txtrafqueue) \in Seq(TrafficItem)
    BY <1>6, <2>1, TrafficQueue, BurstItems DEF TxTrafficWord
  <2>3. txcomplete' # 2 /\ Head(txtrafqueue) \in CallItem
    BY <2>2 DEF Send, TrafficItem
  <2>4. GlobalsOK'
    BY <2>3 DEF HalfSlot, Carry, TSCInv, GlobalsOK
  <2>5. txqueue' = q /\ txtrafqueue' = Tail(txtrafqueue)
    BY <1>6 DEF TxTrafficWord
  <2> QED BY <1>2, <1>3, <1>4, <2>2, <2>3, <2>4, <2>5 DEF TSCInv
<1>7. CASE ~TxQueued(burst) /\ ~TxTrafficWord(burst)
  <2>1. /\ NoReservation /\ UNCHANGED txtrafqueue
        /\ txqueue' = q \/ UNCHANGED txqueue
    BY <1>1, <1>7 DEF TxCv, TxSync, TxMorse, TxWithdrawn, TxAloha,
       TxTrafficIdle, TxTrafficSync, TxIdent
  <2>2. GlobalsOK'
    BY <2>1, ChannelAssumption
    DEF NoReservation, HalfSlot, Carry, TSCInv, GlobalsOK
  <2> QED BY <1>2, <1>3, <2>1, <2>2 DEF NoReservation, TSCInv
<1> QED BY <1>5, <1>6, <1>7

LEMMA ReplyWindows ==
  ASSUME TSCInv, NEW cw \in RxWords, Reply(cw)
  PROVE  WindowsHaveCalls' /\ GlobalsOK'
<1> USE DEF txvars, rxvars, queues, identvars, tscvars
<1>1. GlobalsOK'
  BY DEF Reply, TSCInv, GlobalsOK
<1>2. CASE RxRaises(cw)
  <2>1. rxcomplete \in Window /\ rxcomplete # None
    BY <1>2 DEF RxRaises, TSCInv, ChannelInv, TypeOK
  <2>2. Replied(cw).data = rxcomplete.data
    BY <2>1 DEF Replied, Window
  <2> QED BY <1>1, <1>2, <2>1, <2>2 DEF RxRaises, TSCInv, WindowsHaveCalls
<1>3. ASSUME NEW first, RxLast(Answered(first)) PROVE WindowsHaveCalls'
  <2>1. Answered(first) \in Seq(CallItem)
    BY AnsweredBurst DEF Reply
  <2>2. txqueue \in Seq(CallItem)
    BY DEF TSCInv, WindowsHaveCalls
  <2>3. txqueue \o Answered(first) \in Seq(CallItem)
    BY <2>1, <2>2, CallItemQueue
  <2> QED BY <1>3, <2>3 DEF RxLast, TSCInv, WindowsHaveCalls
<1> QED BY <1>1, <1>2, <1>3 DEF Reply

LEMMA RandomAccessWindows ==
  ASSUME TSCInv, NEW burst \in Seq(CallItem), NEW trafburst \in Seq(TrafficItem),
         RandomAccess(burst, trafburst)
  PROVE  WindowsHaveCalls'
<1>1. txqueue \in Seq(CallItem) /\ txtrafqueue \in Seq(TrafficItem)
  BY DEF TSCInv, WindowsHaveCalls
<1>2. txqueue \o burst \in Seq(CallItem) /\ txtrafqueue \o trafburst \in Seq(TrafficItem)
  BY <1>1, CallItemQueue, TrafficQueue
<1> QED BY <1>2 DEF RandomAccess, Submit, TSCInv, WindowsHaveCalls, txvars, rxvars

LEMMA TSCStep == TSCInv /\ [TSCNext]_allvars => TSCInv'
<1> SUFFICES ASSUME TSCInv, [TSCNext]_allvars PROVE TSCInv'
  OBVIOUS
<1> DEFINE Rest == WindowsHaveCalls /\ GlobalsOK
<1> USE DEF txvars, rxvars, queues, identvars, tscvars
<1>1. ChannelInv'
  BY StepIsChannelStep, InvStep DEF TSCInv
<1>2. HalfSlot => Rest'
  BY HalfSlotWindows
<1>3. ASSUME MorseTaken \/ IdentSent \/ Operator PROVE Rest'
  BY <1>3 DEF MorseTaken, IdentSent, Operator, TxMorseClear, MorseDone,
     SetMorse, TSCInv, WindowsHaveCalls, GlobalsOK
<1>4. ASSUME NEW cw \in RxWords, Reply(cw) PROVE Rest'
  BY <1>4, ReplyWindows
<1>5. ASSUME NEW c \in Calls, CreateCall(c) PROVE Rest'
  BY <1>5, RandomAccessWindows, BurstItems
  DEF CreateCall, TSCInv, GlobalsOK
<1>6. ASSUME Busy \/ Refuse \/ Ignore PROVE Rest'
  BY <1>6, RandomAccessWindows, BurstItems
  DEF Busy, Refuse, Ignore, TSCInv, GlobalsOK
<1>7. ASSUME NEW on \in BOOLEAN, Presel(on) PROVE Rest'
  BY <1>7, RandomAccessWindows, BurstItems DEF Presel, TSCInv, GlobalsOK
<1>8. ASSUME Disconnect PROVE Rest'
  BY <1>8, RandomAccessWindows, BurstItems
  DEF Disconnect, TSCInv, GlobalsOK
<1>9. ASSUME UNCHANGED allvars PROVE Rest'
  BY <1>9 DEF allvars, chvars, TSCInv, WindowsHaveCalls, GlobalsOK
<1>10. Rest'
  BY <1>2, <1>3, <1>4, <1>5, <1>6, <1>7, <1>8, <1>9
  DEF TSCNext, Transmitter
<1> QED BY <1>1, <1>10 DEF TSCInv

THEOREM TSCCorrect == TSCSpec => []TSCInv
BY TSCInitInv, TSCStep, PTL DEF TSCSpec

(* Type correctness of the trunking controller, and whoever is waited for  *)
(* is waited for by a call: a callback never finds its Call object missing *)
(* (tsc.py lines 38-45).                                                   *)
THEOREM TSCTypeCorrect == TSCSpec => []TSCTypeOK
<1>1. TSCInv => TSCTypeOK
  BY DEF TSCInv, GlobalsOK, WindowsHaveCalls, TSCTypeOK
<1> QED BY <1>1, TSCCorrect, PTL

(* The program of tsc.py uses the channel controller as it may be used, so *)
(* all that is proved of any use of it holds of this one.                  *)
THEOREM TSCImplementsChannel == TSCSpec => ChannelSpec
<1>1. TSCInit => ChannelInit
  BY DEF TSCInit
<1> QED BY <1>1, StepIsChannelStep, TSCCorrect, PTL DEF TSCSpec, ChannelSpec

(* What radio units hear of the trunking system is the air interface.      *)
THEOREM TSCImplementsAir == TSCSpec => AirSpec
BY TSCImplementsChannel, ImplementsAir, PTL

=============================================================================
