------------------------------ MODULE Channel -------------------------------
(***************************************************************************)
(* The channel controller of module/channel.py: class Channel with its     *)
(* queue items and completion objects.                                     *)
(*                                                                         *)
(* Two threads meet here.  The audio thread calls the controller once per  *)
(* 64-bit half slot for the next codeword (_txcvimpl) and once per codeword*)
(* received (_rxcvimpl); the calls never overlap, so each is one action.   *)
(* The operator's thread only stores a text in the attribute morse, which  *)
(* the audio thread reads, hands to the modem and then clears: that one    *)
(* handler is two actions, with the other thread able to act in between.   *)
(*                                                                         *)
(* The layer above is left open.  A completion callback may queue any      *)
(* burst of items out of Bursts, and may raise; module TSC supplies the    *)
(* callbacks of tsc.py.                                                    *)
(***************************************************************************)
EXTENDS Integers, Sequences

CONSTANTS
  None,         \* Python's None
  Words,        \* the codewords the layer above queues
  RxWords,      \* the codewords a radio unit sends
  Data,         \* the data handed to RX completion callbacks
  Texts,        \* the Morse texts an operator types
  Bursts,       \* what one call of the layer above may queue, as sequences
  MaxLen,       \* the largest rxlen of an item
  SlotTimeout,  \* RXCompletionItem's slottimeout, 4
  FrameSlots,   \* slots in an Aloha frame, 5
  MaxQueue      \* BOUND on the length of each transmission queue

(* TXItem.  A TX completion callback matters for the state it leaves the   *)
(* channel in: next is that state, or None when there is no callback.      *)
Item == [cw : Words, next : {None, 0, 2},
         rxlen : 0..MaxLen, data : Data \cup {None}]

(* RXCompletionItem: a window in which the next codewords received are the *)
(* reply to a solicited message.  Of the list cws only the first codeword  *)
(* is ever read.                                                           *)
Window == [remaining : 0..MaxLen, slottimeout : 1..SlotTimeout,
           data : Data \cup {None}, first : RxWords \cup {None}]

(* The codewords the controller sends of its own accord: the system        *)
(* codeword, the traffic sync word, the Aloha without and with a frame     *)
(* length, and the ahoy to the dummy ident that withdraws a slot.          *)
OwnWords == {"CCSC", "TRAF", "ALH", "ALHN", "WITHDRAWN"}

ASSUME ChannelAssumption ==
  /\ MaxLen \in Nat /\ MaxQueue \in Nat
  /\ SlotTimeout \in Nat \ {0} /\ FrameSlots \in Nat \ {0}
  /\ Words \cap OwnWords = {}
  /\ None \notin Words \cup OwnWords \cup RxWords \cup Data \cup Texts
  /\ None \notin 0..4 /\ None \notin Item /\ None \notin Window
  /\ Bursts \subseteq Seq(Item) /\ <<>> \in Bursts

VARIABLES
  txstate,         \* 0, 1: control channel; 2, 3: traffic; 4: Morse ident
  ahlcount,        \* slots left in the Aloha frame
  txqueue,         \* control channel transmission queue
  txtrafqueue,     \* traffic channel transmission queue
  txcomplete,      \* state the pending TX completion leads to, or None
  txreserved,      \* slot reservations
  txreserveditem,  \* window of the message on the air, or None
  rxcomplete,      \* open reply window, or None
  lastcw,          \* codeword of the last half slot, None for silence
  morse,           \* text waiting to be sent as an ident, or None
  ident,           \* text the modem is sounding, or None
  pc               \* the audio thread, "idle" or between its two morse steps

(* Operators named Bug... are the definition behind them with a mistake of *)
(* the kind a maintainer could make; no behaviour uses them.               *)

txvars == <<txstate, ahlcount, txreserved, txcomplete, txreserveditem, lastcw>>
rxvars == <<rxcomplete>>
queues == <<txqueue, txtrafqueue>>
identvars == <<morse, ident, pc>>
chvars == <<txvars, rxvars, queues, identvars>>

ChannelInit ==
  /\ txstate = 0 /\ ahlcount = 0 /\ txreserved = 0
  /\ txqueue = <<>> /\ txtrafqueue = <<>>
  /\ txcomplete = None /\ txreserveditem = None /\ rxcomplete = None
  /\ lastcw = None /\ morse = None /\ ident = None /\ pc = "idle"

-----------------------------------------------------------------------------
(* Transmission: _txcvimpl                                                 *)

(* The bound of the model: nobody queues behind a full queue.              *)
HasRoom(queue, burst) == burst = <<>> \/ Len(queue) + Len(burst) <= MaxQueue

(* RXCompletionItem.tick: the window closes when its last half slot ends.  *)
Expires == rxcomplete # None /\ rxcomplete.slottimeout = 1

BugTicked == rxcomplete
Ticked ==
  IF rxcomplete = None \/ Expires
  THEN None
  ELSE [rxcomplete EXCEPT !.slottimeout = @ - 1]

(* The state machine runs in the state the TX completion left behind.      *)
StateNow == IF txcomplete = None THEN txstate ELSE txcomplete

(* What every call does before its state machine: time-outs first, whose   *)
(* callback may queue a burst, then the TX completion, then the window of  *)
(* the message just sent becomes the open one.                             *)
Begin(state, burst) ==
  /\ pc = "idle"
  /\ StateNow = state
  /\ burst # <<>> => Expires
  /\ HasRoom(txqueue, burst)
  /\ rxcomplete' = IF txreserveditem = None THEN Ticked ELSE txreserveditem

BugNoReservation == txcomplete' = None /\ UNCHANGED txreserveditem
NoReservation == txcomplete' = None /\ txreserveditem' = None

NewWindow(item) ==
  [remaining |-> item.rxlen, slottimeout |-> SlotTimeout,
   data |-> item.data, first |-> None]

(* The item taken off a queue goes on the air.                             *)
Send(item) ==
  /\ lastcw' = item.cw
  /\ txcomplete' = item.next
  /\ txreserved' = item.rxlen
  /\ txreserveditem' = IF item.rxlen > 0 THEN NewWindow(item) ELSE None

BugMorseDue == morse # None /\ ahlcount = FrameSlots
MorseDue == morse # None /\ ahlcount = 0

(* State 0: the system codeword opens a slot.                              *)
TxSync(burst) ==
  /\ Begin(0, burst)
  /\ ~MorseDue
  /\ txstate' = 1
  /\ lastcw' = "CCSC"
  /\ NoReservation
  /\ txqueue' = txqueue \o burst
  /\ UNCHANGED <<ahlcount, txreserved, txtrafqueue, identvars>>

(* State 0 with a text waiting between frames: the text is handed to the   *)
(* modem ...                                                               *)
TxMorse(burst) ==
  /\ Begin(0, burst)
  /\ MorseDue
  /\ ident' = morse
  /\ pc' = "morse"
  /\ txstate' = 0
  /\ lastcw' = None
  /\ NoReservation
  /\ txqueue' = txqueue \o burst
  /\ UNCHANGED <<ahlcount, txreserved, txtrafqueue, morse>>

(* ... and, in a later bytecode, forgotten.                                *)
BugTxMorseClear ==
  /\ pc = "morse"
  /\ morse' = None
  /\ pc' = "idle"
  /\ UNCHANGED <<txvars, rxvars, queues, ident>>
TxMorseClear ==
  /\ pc = "morse"
  /\ morse' = None
  /\ txstate' = 4
  /\ pc' = "idle"
  /\ UNCHANGED <<ahlcount, txreserved, txcomplete, txreserveditem, lastcw,
                 rxvars, queues, ident>>

(* State 1 counts the slots of a frame.                                    *)
BugNextSlot == ahlcount' = ahlcount - 1
NextSlot == ahlcount' = (IF ahlcount = 0 THEN FrameSlots ELSE ahlcount) - 1

BugUnreserved == txreserved
Unreserved == IF txreserved > 0 THEN txreserved - 1 ELSE 0

(* State 1 in a reserved slot: nobody is invited to transmit.              *)
TxWithdrawn(burst) ==
  /\ Begin(1, burst)
  /\ Unreserved > 0
  /\ txstate' = 0
  /\ NextSlot
  /\ txreserved' = Unreserved
  /\ lastcw' = "WITHDRAWN"
  /\ NoReservation
  /\ txqueue' = txqueue \o burst
  /\ UNCHANGED <<txtrafqueue, identvars>>

(* State 1 with something queued, perhaps a moment ago by a time-out.      *)
BugTxQueued(burst) ==
  LET queue == txqueue \o burst IN
  /\ Begin(1, burst)
  /\ queue # <<>>
  /\ txstate' = 0
  /\ NextSlot
  /\ Send(Head(queue))
  /\ txqueue' = Tail(queue)
  /\ UNCHANGED <<txtrafqueue, identvars>>
TxQueued(burst) ==
  LET queue == txqueue \o burst IN
  /\ Begin(1, burst)
  /\ Unreserved = 0
  /\ queue # <<>>
  /\ txstate' = 0
  /\ NextSlot
  /\ Send(Head(queue))
  /\ txqueue' = Tail(queue)
  /\ UNCHANGED <<txtrafqueue, identvars>>

(* State 1 with nothing to say: an Aloha, the first of a frame with the    *)
(* length of the frame.                                                    *)
TxAloha(burst) ==
  /\ Begin(1, burst)
  /\ Unreserved = 0
  /\ txqueue \o burst = <<>>
  /\ txstate' = 0
  /\ NextSlot
  /\ txreserved' = 0
  /\ lastcw' = IF ahlcount = 0 THEN "ALHN" ELSE "ALH"
  /\ NoReservation
  /\ UNCHANGED <<queues, identvars>>

(* State 2 of the traffic channel.  The code means to restart the Aloha    *)
(* frame here, but assigns to alhcount, a name nobody reads.               *)
TxTrafficIdle(burst) ==
  /\ Begin(2, burst)
  /\ txtrafqueue = <<>>
  /\ txstate' = 2
  /\ lastcw' = None
  /\ NoReservation
  /\ txqueue' = txqueue \o burst
  /\ UNCHANGED <<ahlcount, txreserved, txtrafqueue, identvars>>

BugTxTrafficSync(burst) ==
  /\ Begin(2, burst)
  /\ txstate' = 3
  /\ lastcw' = "TRAF"
  /\ NoReservation
  /\ txqueue' = txqueue \o burst
  /\ UNCHANGED <<ahlcount, txreserved, txtrafqueue, identvars>>
TxTrafficSync(burst) ==
  /\ Begin(2, burst)
  /\ txtrafqueue # <<>>
  /\ txstate' = 3
  /\ lastcw' = "TRAF"
  /\ NoReservation
  /\ txqueue' = txqueue \o burst
  /\ UNCHANGED <<ahlcount, txreserved, txtrafqueue, identvars>>

(* State 3: get_nowait would raise on an empty queue (see TrafficWordReady)*)
BugTxTrafficWord(burst) ==
  /\ Begin(3, burst)
  /\ txtrafqueue # <<>>
  /\ txstate' = 3
  /\ Send(Head(txtrafqueue))
  /\ txtrafqueue' = Tail(txtrafqueue)
  /\ txqueue' = txqueue \o burst
  /\ UNCHANGED <<ahlcount, identvars>>
TxTrafficWord(burst) ==
  /\ Begin(3, burst)
  /\ txtrafqueue # <<>>
  /\ txstate' = 2
  /\ Send(Head(txtrafqueue))
  /\ txtrafqueue' = Tail(txtrafqueue)
  /\ txqueue' = txqueue \o burst
  /\ UNCHANGED <<ahlcount, identvars>>

(* State 4: silence while the modem sounds the ident.                      *)
TxIdent(burst) ==
  /\ Begin(4, burst)
  /\ txstate' = 4
  /\ lastcw' = None
  /\ NoReservation
  /\ txqueue' = txqueue \o burst
  /\ UNCHANGED <<ahlcount, txreserved, txtrafqueue, identvars>>

TxCv(burst) ==
  \/ TxSync(burst) \/ TxMorse(burst)
  \/ TxWithdrawn(burst) \/ TxQueued(burst) \/ TxAloha(burst)
  \/ TxTrafficIdle(burst) \/ TxTrafficSync(burst) \/ TxTrafficWord(burst)
  \/ TxIdent(burst)

(* _morse_done, called by the modem once the ident has been sounded.       *)
BugMorseDone ==
  /\ pc = "idle"
  /\ ident # None
  /\ ident' = None
  /\ UNCHANGED <<txvars, rxvars, queues, morse, pc>>
MorseDone ==
  /\ pc = "idle"
  /\ ident # None
  /\ txstate' = 0
  /\ ident' = None
  /\ UNCHANGED <<ahlcount, txreserved, txcomplete, txreserveditem, lastcw,
                 rxvars, queues, morse, pc>>

-----------------------------------------------------------------------------
(* Reception in a reply window: _rxcvimpl and RXCompletionItem.addcw       *)

(* remaining goes below zero in the code; only remaining > 0 is ever asked.*)
Replied(cw) ==
  [rxcomplete EXCEPT
     !.remaining = IF @ > 0 THEN @ - 1 ELSE 0,
     !.slottimeout = SlotTimeout,
     !.first = IF @ = None THEN cw ELSE @]

RxMore(cw) ==
  /\ pc = "idle"
  /\ rxcomplete # None
  /\ rxcomplete.remaining > 1
  /\ rxcomplete' = Replied(cw)
  /\ UNCHANGED <<txvars, queues, identvars>>

(* The reply is complete: the callback runs and the window closes.         *)
BugRxLast(burst) ==
  /\ pc = "idle"
  /\ rxcomplete # None
  /\ rxcomplete.remaining <= 1
  /\ HasRoom(txqueue, burst)
  /\ txqueue' = txqueue \o burst
  /\ UNCHANGED <<txvars, rxvars, txtrafqueue, identvars>>
RxLast(burst) ==
  /\ pc = "idle"
  /\ rxcomplete # None
  /\ rxcomplete.remaining <= 1
  /\ rxcomplete' = None
  /\ HasRoom(txqueue, burst)
  /\ txqueue' = txqueue \o burst
  /\ UNCHANGED <<txvars, txtrafqueue, identvars>>

(* The callback raises.  The exception is logged by _rxcv, past the line   *)
(* that closes the window, so the window stays and its timer is rewound.   *)
RxRaises(cw) ==
  /\ pc = "idle"
  /\ rxcomplete # None
  /\ rxcomplete.remaining <= 1
  /\ rxcomplete' = Replied(cw)
  /\ UNCHANGED <<txvars, queues, identvars>>

-----------------------------------------------------------------------------
(* The layer above and the operator                                        *)

(* Tx and TxTraf, called by the random access handler or a console.        *)
Submit(burst, trafburst) ==
  /\ HasRoom(txqueue, burst) /\ HasRoom(txtrafqueue, trafburst)
  /\ txqueue' = txqueue \o burst
  /\ txtrafqueue' = txtrafqueue \o trafburst
  /\ UNCHANGED <<txvars, rxvars, identvars>>

SetMorse(text) ==
  /\ morse' = text
  /\ UNCHANGED <<txvars, rxvars, queues, ident, pc>>

-----------------------------------------------------------------------------
Transmit == TxMorseClear \/ \E burst \in Bursts : TxCv(burst)

Receive ==
  \/ \E cw \in RxWords : RxMore(cw) \/ RxRaises(cw)
  \/ \E burst \in Bursts : RxLast(burst)

ChannelNext ==
  \/ Transmit
  \/ MorseDone
  \/ Receive
  \/ \E burst, trafburst \in Bursts : Submit(burst, trafburst)
  \/ \E text \in Texts : SetMorse(text)

ChannelSpec == ChannelInit /\ [][ChannelNext]_chvars

(* The audio server calls the process callback for ever, so codewords keep *)
(* being asked for, and a tone queue that is played runs dry.  Nothing     *)
(* obliges radio units or the operator to do anything.                     *)
ChannelFairness == WF_chvars(Transmit) /\ WF_chvars(MorseDone)

FairChannelSpec == ChannelSpec /\ ChannelFairness

-----------------------------------------------------------------------------
(* Invariants                                                              *)

(* Type invariant of the attributes of Channel.                            *)
TypeOK ==
  /\ txstate \in 0..4
  /\ ahlcount \in 0..FrameSlots
  /\ txqueue \in Seq(Item) /\ txtrafqueue \in Seq(Item)
  /\ txcomplete \in {None, 0, 2}
  /\ txreserved \in 0..MaxLen
  /\ txreserveditem \in Window \cup {None}
  /\ rxcomplete \in Window \cup {None}
  /\ lastcw \in Words \cup OwnWords \cup {None}
  /\ morse \in Texts \cup {None} /\ ident \in Texts \cup {None}
  /\ pc \in {"idle", "morse"}

(* A half slot with a sync word is followed by the half slot of the state  *)
(* that sent it, and by nothing else: states 1 and 3 of _txcvimpl.         *)
Framed == (txstate = 1 <=> lastcw = "CCSC") /\ (txstate = 3 <=> lastcw = "TRAF")

(* A TX completion, which may move the transmitter to another channel      *)
(* (GTC, CLEAR), and the window of the message on the air are pending only *)
(* right behind that message: never inside a slot, never into an ident.    *)
(* Line 117 would otherwise break a slot in two.                           *)
Aligned ==
  /\ txcomplete # None \/ txreserveditem # None =>
       /\ txstate \in {0, 2}
       /\ pc = "idle"
       /\ lastcw \in Words
  /\ txreserveditem # None => txreserved > 0

(* The modem sounds an ident exactly while the state machine is silent for *)
(* it, so _morse_done, which forces state 0 whatever the state is, never   *)
(* pulls the transmitter out of a slot or off the traffic channel.         *)
IdentExclusive ==
  /\ ident # None <=> txstate = 4 \/ pc = "morse"
  /\ ident # None => lastcw = None
  /\ pc = "morse" => txstate = 0

(* Traffic state 3 takes an item off the traffic queue without looking:    *)
(* get_nowait (line 176) never raises, although state 2 looked at the queue*)
(* a half slot earlier.                                                    *)
TrafficWordReady == txstate = 3 => txtrafqueue # <<>>

(* The inductive invariant that carries them all.                          *)
ChannelInv ==
  TypeOK /\ Framed /\ Aligned /\ IdentExclusive /\ TrafficWordReady

-----------------------------------------------------------------------------
(* The controller implements the air interface                             *)

Mode ==
  IF txstate \in {2, 3} THEN "traffic"
  ELSE IF txstate = 4 \/ pc = "morse" THEN "ident" ELSE "control"

WordOnAir ==
  CASE lastcw = None -> "silence"
    [] lastcw = "CCSC" -> "ccsc"
    [] lastcw = "TRAF" -> "traf"
    [] lastcw = "WITHDRAWN" -> "withdrawn"
    [] OTHER -> "address"

(* txreserved counts the slot the message addresses as well.               *)
Owed == Unreserved

Air == INSTANCE AirInterface
         WITH mode <- Mode, word <- WordOnAir, owed <- Owed

(* What a radio unit hears: no sync word without its address codeword, the *)
(* channel changed only behind a complete message, every reserved slot     *)
(* withdrawn, nothing sent during an ident (_txcvimpl, _morse_done).       *)
AirSpec == Air!Spec

-----------------------------------------------------------------------------
(* Liveness, under FairChannelSpec                                         *)

(* As long as control slots keep coming, queued messages keep going out:   *)
(* reservations run out, whatever the messages solicit (lines 149-163).    *)
QueueDrains ==
  []<>(txstate = 1)
    => []<>(txqueue = <<>>) \/ []<><<\E b \in Bursts : TxQueued(b)>>_chvars

(* As long as control slots keep coming, a text that waits for the frame   *)
(* to end is taken up: the frame ends whatever fills its slots (lines 130, *)
(* 142-147), even in slots that alternate with the traffic channel.        *)
IdentTaken == []<>(txstate = 1) => []<>(morse = None)

(* The ident gives the channel back, through _morse_done only.             *)
IdentEnds == txstate = 4 ~> txstate = 0

(* Half slots go on being sent in every state, so a reply window is closed *)
(* by its time-out, unless messages that solicit replies keep following it *)
(* or its callback keeps raising (tick, lines 71-75 and 113).              *)
WindowCloses ==
  \/ []<>(rxcomplete = None)
  \/ []<>(txreserveditem # None)
  \/ []<><<\E cw \in RxWords : RxRaises(cw)>>_chvars

-----------------------------------------------------------------------------
(* A text is forgotten only once it has been handed to the modem: typing m *)
(* "followed by the text" sends it (README line 110).  The code clears what *)
(* is there in a step of its own (lines 131-132), a text typed in between  *)
(* included.                                                               *)
TextKept == [][morse # None /\ morse' = None => ident' = morse]_chvars

=============================================================================
