---------------------------- MODULE CallService -----------------------------
(***************************************************************************)
(* The service the trunking system gives to its radio units: the abstract  *)
(* specification that the trunking controller (module TSC) implements.     *)
(*                                                                         *)
(* There is one current call at a time, but calls that were given up may   *)
(* still be on their way.  A call is asked for; its called unit answers or *)
(* does not; it is refused, or granted and then carried on the traffic     *)
(* channel, until somebody hangs up.  Queues, windows and idents are left  *)
(* out, and with them all time: a half slot moves at most the call that is *)
(* waited for and the one whose turn it is.                                *)
(***************************************************************************)
EXTENDS Naturals

CONSTANTS
  Calls,
  None      \* no call

VARIABLES
  current,  \* the current call, or None
  stage,    \* how far each call has come
  channel,  \* the channel the transmitter is on, "control" or "traffic"
  word,     \* whether the last half slot was an "ahoy" to a called unit, a
            \* "refusal" to a caller, or "other"
  owed      \* hang-ups that have not yet led back to the control channel

servicevars == <<current, stage, channel, word, owed>>

Stage == {"none", "asked", "refused", "granted", "carried"}

Init ==
  /\ current = None
  /\ stage = [c \in Calls |-> "none"]
  /\ channel = "control"
  /\ word = "other"
  /\ owed = 0

(* Call c moves from one stage to another, and no other call does.         *)
Moves(c, from, to, before, after) ==
  before[c] = from /\ after = [before EXCEPT ![c] = to]

-----------------------------------------------------------------------------
(* A radio unit asks for a call, if there is none.                         *)
Request(c) ==
  /\ current = None
  /\ current' = c
  /\ Moves(c, "none", "asked", stage, stage')
  /\ UNCHANGED <<channel, word, owed>>

(* The called unit accepts the call, or says something else.               *)
Answer(c) ==
  /\ \E to \in {"granted", "none"} : Moves(c, "asked", to, stage, stage')
  /\ UNCHANGED <<current, channel, word, owed>>

(* A party hangs up; the call may be anywhere.                             *)
HangUp ==
  /\ current # None
  /\ current' = None
  /\ owed' = owed + 1
  /\ UNCHANGED <<stage, channel, word>>

-----------------------------------------------------------------------------
(* A half slot.  First, the called unit's time to answer may be up.  A unit*)
(* is no longer waited for once the next call's has been called, but the   *)
(* one of the current call is always given its time.                       *)
Waits(after) ==
  \/ after = stage
  \/ \E c \in Calls : Moves(c, "asked", "refused", stage, after)
  \/ /\ word = "ahoy"
     /\ \E c \in Calls \ {current} : Moves(c, "asked", "none", stage, after)

(* Then nothing is said of any call, ...                                   *)
Pass(before) ==
  /\ stage' = before
  /\ word' = "other"
  /\ UNCHANGED <<channel, owed>>

(* ... or a unit is called, ...                                            *)
Ring(c, before) ==
  /\ channel = "control"
  /\ before[c] = "asked"
  /\ stage' = before
  /\ word' = "ahoy"
  /\ UNCHANGED <<channel, owed>>

(* ... or a caller hears that his call failed, ...                         *)
Refuse(c, before) ==
  /\ channel = "control"
  /\ Moves(c, "refused", "none", before, stage')
  /\ word' = "refusal"
  /\ UNCHANGED <<channel, owed>>

(* ... or the grant leads to the traffic channel, for the current call     *)
(* only after all those given up, ...                                      *)
Carry(c, before) ==
  /\ channel = "control"
  /\ channel' = "traffic"
  /\ c = current => \A d \in Calls \ {c} : before[d] = "none"
  /\ Moves(c, "granted", "carried", before, stage')
  /\ word' = "other"
  /\ UNCHANGED owed

(* ... or what a hang-up sends on the traffic channel ends the call that is*)
(* carried.                                                                *)
Restart(c, before) ==
  /\ channel = "traffic"
  /\ channel' = "control"
  /\ owed > 0
  /\ owed' = owed - 1
  /\ Moves(c, "carried", "none", before, stage')
  /\ word' = "other"

HalfSlot ==
  \E between \in [Calls -> Stage] :
    /\ Waits(between)
    /\ \/ Pass(between)
       \/ \E c \in Calls :
            \/ Ring(c, between) \/ Refuse(c, between)
            \/ Carry(c, between) \/ Restart(c, between)
    /\ UNCHANGED current

Next == HangUp \/ HalfSlot \/ \E c \in Calls : Request(c) \/ Answer(c)

Spec == Init /\ [][Next]_servicevars
=============================================================================
