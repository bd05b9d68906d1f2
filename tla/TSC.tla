-------------------------------- MODULE TSC ---------------------------------
(***************************************************************************)
(* The trunking system controller of module/tsc.py: one channel that sets  *)
(* up voice calls between radio units.  Every step is a step of Channel    *)
(* whose open parts, what the callbacks queue and what arrives by random   *)
(* access, are filled in by the handlers of tsc.py.                        *)
(*                                                                         *)
(* A call is an identifier; Call objects live on in the closures of queue  *)
(* items and windows after the global variable call has let go of them, so *)
(* an identifier is given out again only once nothing refers to it.        *)
(***************************************************************************)
EXTENDS Channel, FiniteSets

CONSTANT RaQueue  \* BOUND on the queue a random access message may leave

Calls == Data

VARIABLES
  call,    \* the global variable call: the one call, or None
  bridge,  \* whether the modem connects the receiver to the transmitter
  carried  \* HISTORY: the call whose grant led to the traffic channel, until
           \* the message that leads back

tscvars == <<call, bridge, carried>>
allvars == <<chvars, tscvars>>

-----------------------------------------------------------------------------
(* What the handlers queue                                                 *)

Message(word, c) == [cw |-> word, next |-> None, rxlen |-> 0, data |-> c]

(* The Call object is the data of the ahoy's reply callback, and the self  *)
(* of ChannelReady, the completion of the second grant, which moves the    *)
(* channel to traffic.                                                     *)
BugAhoy(c) == <<[cw |-> "AHY", next |-> None, rxlen |-> 1, data |-> None]>>
Ahoy(c) == <<[cw |-> "AHY", next |-> None, rxlen |-> 1, data |-> c]>>
Unavailable(c) == <<Message("ACKV", c)>>
Grant(c) ==
  <<Message("GTC", c), [cw |-> "GTC", next |-> 2, rxlen |-> 0, data |-> c]>>
Rejected == <<Message("ACKX", None)>>

(* RestartChannel is the completion of the last CLEAR.                     *)
Clear == Message("CLEAR", None)
LastClear == [cw |-> "CLEAR", next |-> 0, rxlen |-> 0, data |-> None]
BugClearDown == <<Clear, Clear, Clear>>
ClearDown == <<Clear, Clear, LastClear>>

TSCBursts ==
  {<<>>, Rejected, ClearDown}
    \cup UNION {{Ahoy(c), Unavailable(c), Grant(c)} : c \in Calls}

(* What may answer an ahoy: the acknowledgement that progresses the call,  *)
(* another message, or one whose function code RUtoTSCDecode does not know.*)
Replies == {"ACKI", "other", "unknown"}

ASSUME TSCAssumption ==
  /\ {"AHY", "ACKV", "GTC", "ACKX", "CLEAR"} \subseteq Words
  /\ RxWords = Replies
  /\ MaxLen >= 1
  /\ TSCBursts \subseteq Bursts
  /\ RaQueue \in Nat

-----------------------------------------------------------------------------
TSCInit ==
  /\ ChannelInit
  /\ call = None /\ bridge = FALSE /\ carried = None

(* AHYUpdate, called with a time-out by the tick ...                       *)
BugTimedOut ==
  IF Expires /\ rxcomplete.data = call THEN Unavailable(rxcomplete.data) ELSE <<>>
TimedOut == IF Expires THEN Unavailable(rxcomplete.data) ELSE <<>>

Carry ==
  carried' = CASE txcomplete' = 2 -> Head(txqueue \o TimedOut).data
               [] txcomplete' = 0 -> None
               [] OTHER -> carried

HalfSlot == TxCv(TimedOut) /\ Carry /\ UNCHANGED <<call, bridge>>

MorseTaken == TxMorseClear /\ UNCHANGED tscvars

IdentSent == MorseDone /\ UNCHANGED tscvars

(* ... and with the reply: only an ACKI progresses the call.               *)
Answered(cw) == IF cw = "ACKI" THEN Grant(rxcomplete.data) ELSE <<>>

(* An ahoy solicits one codeword, so the first codeword completes the      *)
(* reply; after a callback that raised, the list still starts with the     *)
(* codeword that made it raise.                                            *)
Reply(cw) ==
  LET first == Replied(cw).first IN
  /\ rxcomplete # None
  /\ IF first = "unknown" THEN RxRaises(cw) ELSE RxLast(Answered(first))
  /\ UNCHANGED tscvars

-----------------------------------------------------------------------------
(* Random access: rxfunc                                                   *)

RandomAccess(burst, trafburst) ==
  /\ pc = "idle"
  /\ rxcomplete = None
  /\ burst # <<>> => Len(txqueue) < RaQueue
  /\ Submit(burst, trafburst)

Refers(item, c) == item # None /\ item.data = c

Unused(c) ==
  /\ c \notin {call, carried}
  /\ \A i \in DOMAIN txqueue : ~Refers(txqueue[i], c)
  /\ ~Refers(rxcomplete, c) /\ ~Refers(txreserveditem, c)

(* CreateCall for an RQS, when there is no call ...                        *)
BugCreateCall(c) ==
  /\ call = c \/ (call = None /\ Unused(c))
  /\ RandomAccess(Ahoy(c), <<>>)
  /\ call' = c
  /\ UNCHANGED <<bridge, carried>>
CreateCall(c) ==
  /\ call = None
  /\ Unused(c)
  /\ RandomAccess(Ahoy(c), <<>>)
  /\ call' = c
  /\ UNCHANGED <<bridge, carried>>

(* ... and when there is.                                                  *)
Busy ==
  /\ call # None
  /\ RandomAccess(Rejected, <<>>)
  /\ UNCHANGED tscvars

(* An RQS to oneself or for data, an RQE or an RQC: rejected in any case.  *)
Refuse == RandomAccess(Rejected, <<>>) /\ UNCHANGED tscvars

(* An RQR has no attribute ident2, so its handler raises before it sends   *)
(* anything; other requests are only printed.                              *)
Ignore == RandomAccess(<<>>, <<>>) /\ UNCHANGED tscvars

(* MAINT from the radio units, heeded while there is a call.               *)
Presel(on) ==
  /\ call # None
  /\ RandomAccess(<<>>, <<>>)
  /\ bridge' = on
  /\ UNCHANGED <<call, carried>>

BugDisconnect ==
  /\ call # None
  /\ RandomAccess(ClearDown, <<>>)
  /\ call' = None
  /\ UNCHANGED <<bridge, carried>>
Disconnect ==
  /\ call # None
  /\ RandomAccess(<<>>, ClearDown)
  /\ call' = None
  /\ UNCHANGED <<bridge, carried>>

Operator == (\E text \in Texts : SetMorse(text)) /\ UNCHANGED tscvars

-----------------------------------------------------------------------------
Transmitter == HalfSlot \/ MorseTaken

TSCNext ==
  \/ Transmitter \/ IdentSent
  \/ \E cw \in RxWords : Reply(cw)
  \/ \E c \in Calls : CreateCall(c)
  \/ Busy \/ Refuse \/ Ignore
  \/ \E on \in BOOLEAN : Presel(on)
  \/ Disconnect
  \/ Operator

TSCSpec == TSCInit /\ [][TSCNext]_allvars

(* As in Channel: the audio server keeps asking for half slots and an ident*)
(* that is sounded ends.                                                   *)
FairTSCSpec == TSCSpec /\ WF_allvars(Transmitter) /\ WF_allvars(IdentSent)

-----------------------------------------------------------------------------
(* Safety                                                                  *)

(* Type invariant of the globals of tsc.py.  Whoever is waited for, in the *)
(* open window or in the one about to open, is waited for by a call: the   *)
(* callbacks of Channel find a Call object (tsc.py lines 38-45).           *)
TSCTypeOK ==
  /\ call \in Calls \cup {None}
  /\ bridge \in BOOLEAN
  /\ carried \in Calls \cup {None}
  /\ \A window \in {rxcomplete, txreserveditem} \ {None} : window.data \in Calls

(* The places where the outcome of call c is decided: its ahoy is waiting, *)
(* its window is about to open or open, its refusal or the grant that leads*)
(* to the traffic channel is waiting, or it is on the traffic channel.     *)
Decisive(item, c) ==
  /\ Refers(item, c)
  /\ item.cw \in {"AHY", "ACKV"} \/ item.next = 2

Places(c) ==
  {<<"queue", i>> : i \in {j \in DOMAIN txqueue : Decisive(txqueue[j], c)}}
    \cup {<<w, 0>> : w \in {v \in {"sent", "open"} :
            Refers(IF v = "sent" THEN txreserveditem ELSE rxcomplete, c)}}
    \cup (IF carried = c THEN {<<"carried", 0>>} ELSE {})

(* A call is decided once: a reply and a time-out never both count, nor    *)
(* two replies, and a call is not granted again while it is being carried  *)
(* (addcw and tick, lines 61-75, with AHYUpdate in tsc.py).                *)
OneOutcome == \A c \in Calls : \A p, q \in Places(c) : p = q

(* A transmitter on the traffic channel for a call that has been given up  *)
(* is led back to the control channel: a CLEAR that restarts it is still   *)
(* to come (tsc.py lines 97-102, whatever order things happened in).       *)
NoStrandedTraffic ==
  carried # None /\ carried # call
    => \E i \in DOMAIN txtrafqueue : txtrafqueue[i].next = 0

(* The window of the call being set up is not thrown away for the window   *)
(* of another message (channel.py line 124): the guard of CreateCall keeps *)
(* a second ahoy from being queued behind it.                              *)
WindowKept ==
  rxcomplete # None /\ rxcomplete.data = call => txreserveditem = None

-----------------------------------------------------------------------------
(* Liveness, under FairTSCSpec                                             *)

Undecided(c) ==
  \/ \E i \in DOMAIN txqueue : txqueue[i].cw = "AHY" /\ Refers(txqueue[i], c)
  \/ Refers(txreserveditem, c) \/ Refers(rxcomplete, c)

(* Without a frame in between, one ident follows another for as long as the*)
(* operator goes on typing: nothing else is sent then.                     *)
EndlessIdents == []<>(pc = "morse")

(* The ahoy of a call is sent and its window closes, even behind rejects,  *)
(* idents and time on the traffic channel, unless undecodable replies keep *)
(* the window open for ever (lines 66-75 and 149-163 of channel.py).       *)
CallDecided ==
  \/ \A c \in Calls : Undecided(c) ~> ~Undecided(c)
  \/ []<><<\E cw \in RxWords : RxRaises(cw)>>_allvars
  \/ EndlessIdents

(* A call that is granted gets the traffic channel, whatever is queued or  *)
(* going on when its called unit answers (tsc.py lines 53-60).             *)
Granted(c) == \E i \in DOMAIN txqueue : txqueue[i].next = 2 /\ Refers(txqueue[i], c)

GrantCarried == (\A c \in Calls : Granted(c) ~> carried = c) \/ EndlessIdents

(* Given up, a call leaves the traffic channel (tsc.py lines 99-102).      *)
BackToControl == carried # None /\ carried # call ~> txstate \in {0, 1}

-----------------------------------------------------------------------------
(* The controller implements the call service                              *)

Refused(c) == \E i \in DOMAIN txqueue : txqueue[i].cw = "ACKV" /\ Refers(txqueue[i], c)

(* How far a call has come, by where its outcome is.                       *)
StageOf(c) ==
  IF carried = c THEN "carried"
  ELSE IF Granted(c) THEN "granted"
  ELSE IF Refused(c) THEN "refused"
  ELSE IF Undecided(c) THEN "asked" ELSE "none"
Stages == [c \in Calls |-> StageOf(c)]

OnAir == IF StateNow \in {2, 3} THEN "traffic" ELSE "control"

Said == CASE lastcw = "AHY" -> "ahoy" [] lastcw = "ACKV" -> "refusal" [] OTHER -> "other"

(* The CLEARs that lead back to the control channel.                       *)
Restarts == {i \in DOMAIN txtrafqueue : txtrafqueue[i].next = 0}

Service == INSTANCE CallService
             WITH current <- call, stage <- Stages, channel <- OnAir,
                  word <- Said, owed <- Cardinality(Restarts)

(* What the parties of a call see (tsc.py lines 29-102): it goes from stage*)
(* to stage and never back, fails with a word to the caller if its unit    *)
(* does not answer, is carried alone and exactly while the traffic channel *)
(* is on the air, the current one behind those given up, and ends by the   *)
(* CLEARs of a hang-up, which end no second one.                           *)
ServiceSpec == Service!Spec

-----------------------------------------------------------------------------
(* Nobody is kept waiting                                                  *)

Windowed(c) == Refers(txreserveditem, c) \/ Refers(rxcomplete, c)

(* How many half slots at most the stage of call c still lasts, of those in*)
(* which a message can be sent or its window is about to open or open.     *)
Waits(c) ==
  {i + (IF txqueue[i].cw = "AHY" THEN SlotTimeout + 1 ELSE 0) :
     i \in {j \in DOMAIN txqueue : Decisive(txqueue[j], c)}}
    \cup {SlotTimeout + 1 : w \in {v \in {txreserveditem} : Refers(v, c)}}
    \cup {w.slottimeout : w \in {v \in {rxcomplete} : Refers(v, c)}}

(* As long as the stage of a call lasts, every such half slot brings it    *)
(* nearer to its end, and nothing that happens in between sets it back: no *)
(* reservation, reject, hang-up, ident or other call, but only an answer   *)
(* that cannot be decoded (lines 66-75, 107-124 and 149-163 of channel.py).*)
MovesOn ==
  [][\A c \in Calls : StageOf(c)' = StageOf(c) =>
       \A n \in Waits(c)' :
         \/ \E m \in Waits(c) : n < m
         \/ n \in Waits(c) /\ ~(HalfSlot /\ (StateNow = 1 \/ Windowed(c)))
         \/ Refers(rxcomplete, c) /\ \E cw \in RxWords : RxRaises(cw)]_allvars

-----------------------------------------------------------------------------
(* What the code says of itself and does not do                            *)

(* "You can't call yourself, we don't do data and we don't do simultaneous"*)
(* (tsc.py line 66): a call request is turned down only for a call that is *)
(* there.  A call that failed is never forgotten, so every later one is.   *)
InProgress(c) ==
  \/ Undecided(c)
  \/ \E i \in DOMAIN txqueue : Refers(txqueue[i], c)
  \/ carried = c

NoFalseBusy == [][Busy => InProgress(call)]_allvars

(* CLEAR is "Clear down traffic channel" (mpt1327.py line 466): it goes out*)
(* to end a call that was given up.  The CLEARs of a Disconnect heeded on  *)
(* the control channel stay queued and end the next call instead.          *)
ClearsGivenUp == [][TxTrafficWord(TimedOut) => carried # call]_allvars

(* "We timed out of our slot so no point waiting" (channel.py line 74): the*)
(* window of a call closes without conditions.  When the callback raises,  *)
(* line 200 is skipped and every codeword heard rewinds the timer.         *)
CallTimesOut == \A c \in Calls : Undecided(c) ~> ~Undecided(c)
=============================================================================
