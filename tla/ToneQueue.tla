----------------------------- MODULE ToneQueue ------------------------------
(***************************************************************************)
(* What the tone synthesiser of module/channel.c promises: the tones put   *)
(* into it are sounded one after another, without a gap, each for as many  *)
(* samples as its duration says, and the completion of a tone is called    *)
(* before the tone is over.                                                *)
(***************************************************************************)
EXTENDS Integers, Sequences

CONSTANT Tone  \* the tones: records with a duration and a flag fcomp

VARIABLES
  queue,    \* the tones not sounded to their end
  sounded,  \* samples of the first one that have been sounded
  room      \* samples of the buffer that are still to be filled

QueueInit == queue = <<>> /\ sounded = 0 /\ room = 0

(* A tone is put behind the others.                                        *)
Put ==
  LET last == queue'[Len(queue')] IN
  /\ queue' # <<>>
  /\ last \in Tone
  /\ queue' = Append(queue, last)
  /\ UNCHANGED <<sounded, room>>

(* A buffer is asked for: the first tone's completion is called.           *)
Ask ==
  /\ queue # <<>>
  /\ room = 0
  /\ room' \in Nat \ {0}
  /\ queue' = <<[Head(queue) EXCEPT !.fcomp = FALSE]>> \o Tail(queue)
  /\ UNCHANGED sounded

(* The first tone lasts longer than the buffer ...                         *)
SoundPart ==
  /\ queue # <<>>
  /\ room > 0
  /\ sounded + room < Head(queue).duration
  /\ sounded' = sounded + room
  /\ room' = 0
  /\ UNCHANGED queue

(* ... or comes to its end, and the next one begins with the next sample.  *)
SoundRest ==
  /\ queue # <<>>
  /\ room > 0
  /\ sounded + room >= Head(queue).duration
  /\ ~Head(queue).fcomp
  /\ queue' = Tail(queue)
  /\ sounded' = 0
  /\ room' = room - (Head(queue).duration - sounded)

(* Only when there are no tones is a buffer filled with anything else.     *)
RunDry ==
  /\ queue = <<>>
  /\ room' = 0
  /\ UNCHANGED <<queue, sounded>>

QueueNext == Put \/ Ask \/ SoundPart \/ SoundRest \/ RunDry
=============================================================================
