------------------------------- MODULE Tones --------------------------------
(***************************************************************************)
(* The tone synthesiser of module/channel.c: the ring cbtone, its mutex,   *)
(* queue_morse, which fills it, and the part of sound_tx that empties it.  *)
(* Both run on the audio thread: queue_morse from inside the codeword      *)
(* callback, when channel.py takes up a text, and sound_tx at the start of *)
(* every buffer.                                                           *)
(***************************************************************************)
EXTENDS Integers, Sequences

CONSTANTS
  cbtone_size,  \* slots of the ring, 512
  Dot,          \* samples of a Morse dot, the constant c, 3200
  Chars,        \* characters
  Letters,      \* the characters in the Morse table
  Morse,        \* the table: the signals of each letter, in dots
  Texts,        \* the texts an operator types
  Periods,      \* the buffer sizes of the audio server
  Unwritten     \* durations the memory that g_new returns may hold: it is
                \* not initialised (a pointer in it that is not NULL would
                \* be called as a completion, which is not followed here)

Slots == 0..cbtone_size - 1

Tone == [freq : {0, 800}, duration : Int, fcomp : BOOLEAN]

ASSUME TonesAssumption ==
  /\ cbtone_size \in Nat \ {0} /\ Dot \in Nat \ {0}
  /\ Letters \subseteq Chars /\ Morse \in [Letters -> Seq({1, 3})]
  /\ Texts \subseteq Seq(Chars)
  /\ Unwritten \subseteq Int

(* The audio server's buffers are no longer than the tone that carries the *)
(* completion (12800 samples; JACK's largest period is 8192).              *)
ASSUME PeriodAssumption == Periods \subseteq 1..(4 * Dot)

VARIABLES
  cbtone,        \* the ring
  cbtone_ready,  \* ready count
  cbtone_wr,     \* write index
  cbtone_rd,     \* read index
  mutex,         \* whether the mutex is locked
  pc,            \* the audio thread: "idle", "mix"ing, or in queue_morse
                 \* with the "text" or the "completion"
  left,          \* samples of the buffer still to be mixed
  s,             \* characters that queue_morse has still to key
  todo,          \* tones of the character at hand still to be queued
  pending,       \* a completion was handed in and is not called yet
  sounded,       \* HISTORY: samples of the first tone that have been mixed
  astray         \* HISTORY: the loop has run through a slot with no tone

ring == <<cbtone, cbtone_ready, cbtone_wr, cbtone_rd>>
keying == <<s, todo>>
history == <<sounded, astray>>
tonevars == <<ring, mutex, pc, left, keying, pending, history>>

TonesInit ==
  /\ cbtone \in [Slots -> [freq : {0}, duration : Unwritten, fcomp : {FALSE}]]
  /\ cbtone_ready = 0 /\ cbtone_wr = 0 /\ cbtone_rd = 0
  /\ mutex = FALSE /\ pc = "idle" /\ left = 0
  /\ s = <<>> /\ todo = <<>> /\ pending = FALSE
  /\ sounded = 0 /\ astray = FALSE

-----------------------------------------------------------------------------
(* mpt1327_channel_queue_morse                                             *)

Signal(dots) == [freq |-> 800, duration |-> dots * Dot, fcomp |-> FALSE]
Space(dots) == [freq |-> 0, duration |-> dots * Dot, fcomp |-> FALSE]

BugCompletion == [freq |-> 0, duration |-> 0, fcomp |-> TRUE]
Completion == [freq |-> 0, duration |-> 4 * Dot, fcomp |-> TRUE]

(* Every signal is followed by a space; a character that is not in the     *)
(* table has no signals.                                                   *)
Signals(char) ==
  IF char \in Letters
  THEN [i \in 1..2 * Len(Morse[char]) |->
          IF i % 2 = 1 THEN Signal(Morse[char][(i + 1) \div 2]) ELSE Space(1)]
  ELSE <<>>

Keyed(char) ==
  Signals(char) \o <<Space(2)>> \o (IF char = " " THEN <<Space(4)>> ELSE <<>>)

(* channel.py takes up a text in state 0 only and leaves state 4 through   *)
(* the completion, so the one before it has been called (IdentExclusive).  *)
QueueMorse(text) ==
  /\ pc = "idle"
  /\ ~pending
  /\ pending' = TRUE
  /\ s' = text
  /\ pc' = "text"
  /\ UNCHANGED <<ring, mutex, left, todo, history>>

NextChar ==
  /\ pc = "text"
  /\ todo = <<>>
  /\ IF s = <<>>
     THEN pc' = "completion" /\ todo' = <<Completion>> /\ s' = s
     ELSE pc' = pc /\ todo' = Keyed(Head(s)) /\ s' = Tail(s)
  /\ UNCHANGED <<ring, mutex, left, pending, history>>

-----------------------------------------------------------------------------
(* mpt1327_channel_queue_tone                                              *)

Full == cbtone_ready >= cbtone_size

(* After the completion queue_morse returns.                               *)
Queued ==
  /\ todo # <<>>
  /\ ~mutex
  /\ todo' = Tail(todo)
  /\ pc' = IF pc = "completion" THEN "idle" ELSE pc
  /\ UNCHANGED <<left, s, pending, history>>

BugPutTone ==
  /\ Queued
  /\ ~Full
  /\ cbtone' = [cbtone EXCEPT ![cbtone_wr] = Head(todo)]
  /\ cbtone_wr' = cbtone_wr + 1
  /\ cbtone_ready' = cbtone_ready + 1
  /\ UNCHANGED <<cbtone_rd, mutex>>
PutTone ==
  /\ Queued
  /\ ~Full
  /\ cbtone' = [cbtone EXCEPT ![cbtone_wr] = Head(todo)]
  /\ cbtone_wr' = (cbtone_wr + 1) % cbtone_size
  /\ cbtone_ready' = cbtone_ready + 1
  /\ UNCHANGED <<cbtone_rd, mutex>>

(* If full just bomb: the return skips the unlock, and the thread's next   *)
(* g_mutex_lock waits for itself (a GMutex does not nest).                 *)
Bomb ==
  /\ Queued
  /\ Full
  /\ mutex' = TRUE
  /\ UNCHANGED ring

QueueTone == PutTone \/ Bomb

-----------------------------------------------------------------------------
(* sound_tx: "Mix in tones"                                                *)

(* A buffer of n samples is asked for while there are tones.  A completion *)
(* is looked for here, and nowhere else.                                   *)
BugBuffer(n) ==
  /\ pc = "idle"
  /\ ~mutex
  /\ pending' = (pending /\ ~cbtone[cbtone_rd].fcomp)
  /\ cbtone' = [cbtone EXCEPT ![cbtone_rd].fcomp = FALSE]
  /\ mutex' = TRUE
  /\ pc' = "mix"
  /\ left' = n
  /\ UNCHANGED <<cbtone_ready, cbtone_wr, cbtone_rd, keying, history>>
Buffer(n) ==
  /\ pc = "idle"
  /\ ~mutex
  /\ cbtone_ready # 0
  /\ pending' = (pending /\ ~cbtone[cbtone_rd].fcomp)
  /\ cbtone' = [cbtone EXCEPT ![cbtone_rd].fcomp = FALSE]
  /\ mutex' = TRUE
  /\ pc' = "mix"
  /\ left' = n
  /\ UNCHANGED <<cbtone_ready, cbtone_wr, cbtone_rd, keying, history>>

(* The loop goes on from tone to tone without looking at the ready count:  *)
(* it stops at the end of the buffer or at a slot with no duration left.   *)
(* A step mixes what there is of one slot.                                 *)
Mix ==
  LET duration == cbtone[cbtone_rd].duration
      mixed == IF left < duration THEN left ELSE duration
  IN
  /\ pc = "mix"
  /\ left > 0
  /\ duration > 0
  /\ cbtone' = [cbtone EXCEPT ![cbtone_rd].duration = duration - mixed]
  /\ left' = left - mixed
  /\ IF mixed = duration
     THEN /\ cbtone_rd' = (cbtone_rd + 1) % cbtone_size
          /\ cbtone_ready' = cbtone_ready - 1
          /\ sounded' = 0
          /\ astray' = (astray \/ cbtone_ready <= 0)
     ELSE /\ UNCHANGED <<cbtone_rd, cbtone_ready, astray>>
          /\ sounded' = IF cbtone_ready > 0 THEN sounded + mixed ELSE 0
  /\ UNCHANGED <<cbtone_wr, mutex, pc, keying, pending>>

BugMixed ==
  /\ pc = "mix"
  /\ left = 0 \/ cbtone[cbtone_rd].duration <= 0
  /\ IF cbtone_ready > 0
     THEN /\ cbtone_rd' = (cbtone_rd + 1) % cbtone_size
          /\ cbtone_ready' = cbtone_ready - 1
     ELSE UNCHANGED <<cbtone_rd, cbtone_ready>>
  /\ mutex' = FALSE
  /\ pc' = "idle"
  /\ left' = 0 /\ sounded' = 0
  /\ UNCHANGED <<cbtone, cbtone_wr, keying, pending, astray>>
Mixed ==
  /\ pc = "mix"
  /\ left = 0 \/ cbtone[cbtone_rd].duration <= 0
  /\ mutex' = FALSE
  /\ pc' = "idle"
  /\ left' = 0
  /\ UNCHANGED <<ring, keying, pending, history>>

-----------------------------------------------------------------------------
AudioThread ==
  NextChar \/ QueueTone \/ (\E n \in Periods : Buffer(n)) \/ Mix \/ Mixed

TonesNext == AudioThread \/ \E text \in Texts : QueueMorse(text)

TonesSpec == TonesInit /\ [][TonesNext]_tonevars

(* The audio thread runs on unless it blocks on its own mutex.             *)
FairTonesSpec == TonesSpec /\ WF_tonevars(AudioThread)

-----------------------------------------------------------------------------
(* Properties                                                              *)

TypesOK ==
  /\ cbtone \in [Slots -> Tone]
  /\ cbtone_ready \in Int /\ cbtone_ready <= cbtone_size
  /\ cbtone_wr \in Slots /\ cbtone_rd \in Slots
  /\ mutex \in BOOLEAN /\ pending \in BOOLEAN /\ astray \in BOOLEAN
  /\ pc \in {"idle", "mix", "text", "completion"}
  /\ left \in Nat /\ sounded \in Nat
  /\ s \in Seq(Chars) /\ todo \in Seq(Tone)

DistanceOK ==
  /\ cbtone_ready >= 0
  /\ cbtone_wr = (cbtone_rd + cbtone_ready) % cbtone_size

(* Type invariant of the ring; the ready count is the distance between the *)
(* two indices and never below zero or above the size of the ring, unless  *)
(* the loop has been led astray by memory nobody wrote (channel.c lines    *)
(* 115-165).                                                               *)
TonesTypeOK == TypesOK /\ (~astray => DistanceOK)

(* The ring with its indices, its ready count and the slots it runs over   *)
(* implements the queue of tones: each is sounded for its whole duration,  *)
(* counted over all the buffers it falls into, the next one begins with the*)
(* sample behind it, and no completion is passed over, although it is      *)
(* looked for at the start of a buffer only (channel.c lines 119-133).     *)
(* That is, until the loop is led astray.                                  *)
Sounding ==
  [i \in 1..cbtone_ready |->
     LET tone == cbtone[(cbtone_rd + i - 1) % cbtone_size] IN
     IF i = 1 THEN [tone EXCEPT !.duration = @ + sounded] ELSE tone]

Fifo == INSTANCE ToneQueue WITH queue <- Sounding, room <- left

FifoSpec ==
  /\ Fifo!QueueInit
  /\ [][astray' \/ Fifo!QueueNext]_<<Sounding, sounded, left>>

(* The loop does not look at the ready count, but it finds no duration in  *)
(* the slots behind the last tone, however often the ring has been used,   *)
(* if there was none to end within a buffer in the memory it started from  *)
(* (channel.c lines 124-135, 291).                                         *)
Harmless(duration) == duration <= 0 \/ \A n \in Periods : duration >= n

StaysOnTrack == (\A slot \in Slots : Harmless(cbtone[slot].duration)) => []~astray

(* A text handed to queue_morse is sounded and its completion called, which*)
(* is what brings channel.py back to the control channel, unless the ring  *)
(* runs full and the audio thread waits for itself, or the loop is led     *)
(* astray.                                                                 *)
Blocked == mutex /\ pc # "mix"

IdentSounded == pending ~> ~pending \/ Blocked \/ astray

(* "Control channel operation will be temporarily interrupted at an        *)
(* appropriate point to send the morse code" (README line 111): whatever   *)
(* the text and whatever g_new returned.  A text of more than 512 tones    *)
(* interrupts it for ever; so does a second text when the loop has run     *)
(* through slots nobody wrote.                                             *)
TemporarilyInterrupted == pending ~> ~pending
=============================================================================
