---------------------------- MODULE TonesProofs -----------------------------
(* Theorems about Tones, for every size of the ring, every text, every     *)
(* length of a dot and every buffer no longer than the completion's tone,  *)
(* whatever the memory holds that the ring is made from.                   *)
EXTENDS Tones, TLAPS

(* The slot of the tone with i tones before it.                            *)
Slot(i) == (cbtone_rd + i) % cbtone_size

(* A tone as queue_morse makes them: it takes time, and one with a         *)
(* completion outlasts a buffer.                                           *)
ProperTone ==
  {tone \in Tone : /\ tone.duration > 0
                   /\ tone.fcomp => \A n \in Periods : n <= tone.duration}

(* What waits in the ring.  The first tone may have been sounded in part,  *)
(* but while a buffer is mixed its completion is still to come only if the *)
(* tone does not end in that buffer.                                       *)
WaitingOK ==
  /\ \A i \in 1..cbtone_ready - 1 : cbtone[Slot(i)] \in ProperTone
  /\ cbtone_ready > 0 => cbtone[cbtone_rd].duration > 0
  /\ cbtone_ready = 0 => sounded = 0
  /\ cbtone_ready > 0 /\ pc = "mix" /\ cbtone[cbtone_rd].fcomp
       => cbtone[cbtone_rd].duration > left

ThreadOK ==
  /\ pc = "mix" => \E n \in Periods : left <= n
  /\ pc # "mix" => left = 0
  /\ todo \in Seq(ProperTone)
  /\ todo # <<>> => pc \in {"text", "completion"}
  /\ pc = "completion" => Tail(todo) = <<>>

(* Once the loop has gone astray the indices say nothing any more.         *)
RingOK == TypesOK /\ DistanceOK

OnTrack == RingOK /\ WaitingOK /\ ThreadOK

TonesInv == TypesOK /\ ThreadOK /\ (~astray => OnTrack)

(* What keeps the loop from going astray when the tones run out.           *)
FreeOK ==
  /\ \A i \in 1..cbtone_size - 1 :
       i >= cbtone_ready => Harmless(cbtone[Slot(i)].duration)
  /\ cbtone_ready = 0 /\ pc = "mix"
       => cbtone[cbtone_rd].duration <= 0 \/ cbtone[cbtone_rd].duration > left

-----------------------------------------------------------------------------
(* What a tone is made of, and what is left of it when a field is changed. *)
LEMMA ToneParts ==
  ASSUME NEW tone \in Tone
  PROVE  /\ tone.freq \in {0, 800} /\ tone.duration \in Int /\ tone.fcomp \in BOOLEAN
         /\ tone = [freq |-> tone.freq, duration |-> tone.duration, fcomp |-> tone.fcomp]
BY DEF Tone

LEMMA ToneChanged ==
  ASSUME NEW tone \in Tone, NEW d, NEW fcomp
  PROVE  /\ [tone EXCEPT !.duration = d]
              = [freq |-> tone.freq, duration |-> d, fcomp |-> tone.fcomp]
         /\ [tone EXCEPT !.fcomp = fcomp]
              = [freq |-> tone.freq, duration |-> tone.duration, fcomp |-> fcomp]
BY DEF Tone

LEMMA ToneCleared ==
  ASSUME NEW tone \in Tone
  PROVE  /\ [tone EXCEPT !.fcomp = FALSE] \in Tone
         /\ ~[tone EXCEPT !.fcomp = FALSE].fcomp
         /\ [tone EXCEPT !.fcomp = FALSE].duration = tone.duration
<1>1. [tone EXCEPT !.fcomp = FALSE]
        = [freq |-> tone.freq, duration |-> tone.duration, fcomp |-> FALSE]
  BY ToneChanged
<1>2. tone.freq \in {0, 800} /\ tone.duration \in Int
  BY ToneParts
<1>3. [freq |-> tone.freq, duration |-> tone.duration, fcomp |-> FALSE] \in Tone
  BY <1>2 DEF Tone
<1> QED BY <1>1, <1>3

LEMMA ToneExcept ==
  ASSUME NEW tone \in Tone, NEW d \in Int, NEW e \in Int
  PROVE  /\ [[tone EXCEPT !.duration = d] EXCEPT !.duration = @ + e]
              = [tone EXCEPT !.duration = d + e]
         /\ [[tone EXCEPT !.fcomp = FALSE] EXCEPT !.duration = @ + e]
              = [[tone EXCEPT !.duration = @ + e] EXCEPT !.fcomp = FALSE]
<1>1. tone.freq \in {0, 800} /\ tone.duration \in Int /\ tone.fcomp \in BOOLEAN
  BY ToneParts
<1>2. /\ [freq |-> tone.freq, duration |-> d, fcomp |-> tone.fcomp] \in Tone
      /\ [freq |-> tone.freq, duration |-> tone.duration, fcomp |-> FALSE] \in Tone
      /\ [freq |-> tone.freq, duration |-> tone.duration + e, fcomp |-> tone.fcomp] \in Tone
  BY <1>1 DEF Tone
<1>3. [[tone EXCEPT !.duration = d] EXCEPT !.duration = @ + e]
        = [tone EXCEPT !.duration = d + e]
  BY <1>2, ToneChanged
<1>4. [[tone EXCEPT !.fcomp = FALSE] EXCEPT !.duration = @ + e]
        = [[tone EXCEPT !.duration = @ + e] EXCEPT !.fcomp = FALSE]
  BY <1>2, ToneChanged
<1> QED BY <1>3, <1>4

-----------------------------------------------------------------------------
LEMMA Wrap ==
  ASSUME NEW a \in Nat, a < 2 * cbtone_size
  PROVE  a % cbtone_size = IF a < cbtone_size THEN a ELSE a - cbtone_size
BY TonesAssumption

(* Slots of different tones are different ...                              *)
LEMMA SlotType ==
  ASSUME RingOK
  PROVE  /\ \A i \in 0..cbtone_size - 1 : Slot(i) \in Slots
         /\ \A i, j \in 0..cbtone_size - 1 : Slot(i) = Slot(j) => i = j
         /\ Slot(0) = cbtone_rd
         /\ cbtone_ready < cbtone_size => cbtone_wr = Slot(cbtone_ready)
<1>1. cbtone_rd \in 0..cbtone_size - 1 /\ cbtone_size \in Nat \ {0}
  BY TonesAssumption DEF RingOK, TypesOK, Slots
<1>2. \A i \in 0..cbtone_size - 1 :
        Slot(i) = IF cbtone_rd + i < cbtone_size THEN cbtone_rd + i
                  ELSE cbtone_rd + i - cbtone_size
  BY <1>1, Wrap DEF Slot
<1>3. \A i \in 0..cbtone_size - 1 : Slot(i) \in Slots
  BY <1>1, <1>2 DEF Slots
<1>4. ASSUME NEW i \in 0..cbtone_size - 1, NEW j \in 0..cbtone_size - 1, Slot(i) = Slot(j)
      PROVE  i = j
  BY <1>1, <1>2, <1>4
<1>5. Slot(0) = cbtone_rd
  BY <1>1, <1>2
<1>6. cbtone_wr = Slot(cbtone_ready)
  BY DEF RingOK, DistanceOK, Slot
<1> QED BY <1>3, <1>4, <1>5, <1>6

(* ... and each is one further on once a tone has been taken out.          *)
LEMMA SlotNext ==
  ASSUME RingOK, cbtone_rd' = (cbtone_rd + 1) % cbtone_size
  PROVE  /\ cbtone_rd' \in Slots
         /\ \A i \in 0..cbtone_size - 2 : Slot(i)' = Slot(i + 1)
         /\ Slot(cbtone_size - 1)' = cbtone_rd
         /\ cbtone_size = 1 => cbtone_rd' = cbtone_rd
         /\ cbtone_size > 1 => cbtone_rd' = Slot(1)
<1>1. cbtone_rd \in 0..cbtone_size - 1 /\ cbtone_size \in Nat \ {0}
  BY TonesAssumption DEF RingOK, TypesOK, Slots
<1>2. cbtone_rd' = IF cbtone_rd + 1 < cbtone_size THEN cbtone_rd + 1 ELSE 0
  BY <1>1, Wrap
<1>3. \A i \in 0..cbtone_size - 1 :
        /\ Slot(i) = IF cbtone_rd + i < cbtone_size THEN cbtone_rd + i
                     ELSE cbtone_rd + i - cbtone_size
        /\ Slot(i)' = IF cbtone_rd' + i < cbtone_size THEN cbtone_rd' + i
                      ELSE cbtone_rd' + i - cbtone_size
  <2>1. ASSUME NEW i \in 0..cbtone_size - 1
        PROVE  Slot(i) = IF cbtone_rd + i < cbtone_size THEN cbtone_rd + i
                         ELSE cbtone_rd + i - cbtone_size
    BY <1>1, Wrap DEF Slot
  <2>2. cbtone_rd' \in 0..cbtone_size - 1
    BY <1>1, <1>2
  <2>3. ASSUME NEW i \in 0..cbtone_size - 1
        PROVE  Slot(i)' = IF cbtone_rd' + i < cbtone_size THEN cbtone_rd' + i
                          ELSE cbtone_rd' + i - cbtone_size
    BY <1>1, <2>2, Wrap DEF Slot
  <2> QED BY <2>1, <2>3
<1>4. cbtone_rd' \in Slots
  BY <1>1, <1>2 DEF Slots
<1>5. ASSUME NEW i \in 0..cbtone_size - 2 PROVE Slot(i)' = Slot(i + 1)
  <2>1. i \in 0..cbtone_size - 1 /\ i + 1 \in 0..cbtone_size - 1
    BY <1>1
  <2>2. Slot(i + 1) = IF cbtone_rd + (i + 1) < cbtone_size THEN cbtone_rd + (i + 1)
                      ELSE cbtone_rd + (i + 1) - cbtone_size
    BY <1>3, <2>1
  <2>3. Slot(i)' = IF cbtone_rd' + i < cbtone_size THEN cbtone_rd' + i
                   ELSE cbtone_rd' + i - cbtone_size
    BY <1>3, <2>1
  <2> QED BY <1>1, <1>2, <2>1, <2>2, <2>3
<1>6. Slot(cbtone_size - 1)' = cbtone_rd
  <2>1. cbtone_size - 1 \in 0..cbtone_size - 1
    BY <1>1
  <2> QED BY <1>1, <1>2, <1>3, <2>1
<1>7. cbtone_size = 1 => cbtone_rd' = cbtone_rd
  BY <1>1, <1>2
<1>8. cbtone_size > 1 => cbtone_rd' = Slot(1)
  <2>1. cbtone_size > 1 => 1 \in 0..cbtone_size - 1
    BY <1>1
  <2> QED BY <1>1, <1>2, <1>3, <2>1
<1> QED BY <1>4, <1>5, <1>6, <1>7, <1>8

(* Whatever queue_morse keys is a sequence of proper tones.                *)
LEMMA KeyedProper == \A char \in Chars : Keyed(char) \in Seq(ProperTone)
<1> SUFFICES ASSUME NEW char \in Chars PROVE Keyed(char) \in Seq(ProperTone)
  OBVIOUS
<1>1. \A dots \in {1, 2, 3, 4} : Signal(dots) \in ProperTone /\ Space(dots) \in ProperTone
  BY TonesAssumption DEF Signal, Space, ProperTone, Tone
<1>2. Signals(char) \in Seq(ProperTone)
  <2>1. CASE char \in Letters
    <3>1. Morse[char] \in Seq({1, 3})
      BY <2>1, TonesAssumption
    <3>2. ASSUME NEW i \in 1..2 * Len(Morse[char]), i % 2 = 1
          PROVE  Morse[char][(i + 1) \div 2] \in {1, 3}
      BY <3>1, <3>2
    <3>3. \A i \in 1..2 * Len(Morse[char]) :
            (IF i % 2 = 1 THEN Signal(Morse[char][(i + 1) \div 2]) ELSE Space(1))
              \in ProperTone
      BY <1>1, <3>2
    <3>4. 2 * Len(Morse[char]) \in Nat
      BY <3>1
    <3> QED BY <2>1, <3>3, <3>4 DEF Signals
  <2>2. CASE char \notin Letters
    BY <2>2 DEF Signals
  <2> QED BY <2>1, <2>2
<1>3. <<Space(2)>> \in Seq(ProperTone) /\ <<Space(4)>> \in Seq(ProperTone)
  BY <1>1
<1>4. \A a, b \in Seq(ProperTone) : a \o b \in Seq(ProperTone)
  OBVIOUS
<1>5. <<>> \in Seq(ProperTone)
  OBVIOUS
<1> QED BY <1>2, <1>3, <1>4, <1>5 DEF Keyed

LEMMA CompletionProper == <<Completion>> \in Seq(ProperTone)
<1>1. Completion \in ProperTone
  BY TonesAssumption, PeriodAssumption DEF Completion, ProperTone, Tone
<1> QED BY <1>1

-----------------------------------------------------------------------------
LEMMA InitInv == TonesInit => OnTrack /\ ~astray
<1> SUFFICES ASSUME TonesInit PROVE OnTrack /\ ~astray
  OBVIOUS
<1>1. cbtone_size \in Nat \ {0} /\ 0 \in Slots /\ 0 % cbtone_size = 0
  BY TonesAssumption DEF Slots
<1>2. cbtone \in [Slots -> Tone]
  <2>1. [freq : {0}, duration : Unwritten, fcomp : {FALSE}] \subseteq Tone
    <3> SUFFICES ASSUME NEW tone \in [freq : {0}, duration : Unwritten, fcomp : {FALSE}]
                 PROVE  tone \in Tone
      OBVIOUS
    <3>1. /\ tone = [freq |-> tone.freq, duration |-> tone.duration, fcomp |-> tone.fcomp]
          /\ tone.freq = 0 /\ tone.duration \in Unwritten /\ tone.fcomp = FALSE
      OBVIOUS
    <3>2. tone.duration \in Int
      BY <3>1, TonesAssumption
    <3>3. [freq |-> tone.freq, duration |-> tone.duration, fcomp |-> tone.fcomp] \in Tone
      BY <3>1, <3>2 DEF Tone
    <3> QED BY <3>1, <3>3
  <2> QED BY <2>1 DEF TonesInit
<1>3. RingOK
  BY <1>1, <1>2 DEF TonesInit, RingOK, TypesOK, DistanceOK
<1> QED
  BY <1>1, <1>3 DEF TonesInit, OnTrack, WaitingOK, ThreadOK

(* Mixing changes the duration of the slot at the read index only.         *)
LEMMA SlotMixed ==
  ASSUME TypesOK, NEW rest \in Int,
         cbtone' = [cbtone EXCEPT ![cbtone_rd].duration = rest]
  PROVE  /\ cbtone' \in [Slots -> Tone]
         /\ cbtone'[cbtone_rd] = [cbtone[cbtone_rd] EXCEPT !.duration = rest]
         /\ cbtone'[cbtone_rd].duration = rest
         /\ \A slot \in Slots : slot # cbtone_rd => cbtone'[slot] = cbtone[slot]
<1>1. cbtone_rd \in Slots /\ cbtone \in [Slots -> Tone] /\ cbtone[cbtone_rd] \in Tone
  BY DEF TypesOK
<1>2. cbtone' = [cbtone EXCEPT ![cbtone_rd] = [cbtone[cbtone_rd] EXCEPT !.duration = rest]]
  BY <1>1
<1> DEFINE tone == [cbtone[cbtone_rd] EXCEPT !.duration = rest]
<1>3. tone \in Tone /\ tone.duration = rest
  BY <1>1 DEF Tone
<1>4. cbtone' = [cbtone EXCEPT ![cbtone_rd] = tone]
  BY <1>2
<1> HIDE DEF tone
<1>5. /\ cbtone' \in [Slots -> Tone] /\ cbtone'[cbtone_rd] = tone
      /\ \A slot \in Slots : slot # cbtone_rd => cbtone'[slot] = cbtone[slot]
  BY <1>1, <1>3, <1>4
<1> QED BY <1>3, <1>5 DEF tone

(* What a step of the loop does to a slot that outlasts the buffer ...     *)
LEMMA MixPart ==
  ASSUME TypesOK, Mix, left < cbtone[cbtone_rd].duration
  PROVE  /\ UNCHANGED <<cbtone_rd, cbtone_ready, cbtone_wr, mutex, pc, todo, s, pending, astray>>
         /\ left' = 0 /\ left > 0 /\ pc = "mix"
         /\ sounded' = IF cbtone_ready > 0 THEN sounded + left ELSE 0
         /\ cbtone' \in [Slots -> Tone]
         /\ cbtone'[cbtone_rd]
              = [cbtone[cbtone_rd] EXCEPT !.duration = cbtone[cbtone_rd].duration - left]
         /\ cbtone'[cbtone_rd].duration = cbtone[cbtone_rd].duration - left
         /\ \A slot \in Slots : slot # cbtone_rd => cbtone'[slot] = cbtone[slot]
<1>1. cbtone[cbtone_rd] \in Tone /\ cbtone[cbtone_rd].duration \in Int /\ left \in Nat
  BY DEF TypesOK, Tone
<1>2. /\ UNCHANGED <<cbtone_rd, cbtone_ready, cbtone_wr, mutex, pc, todo, s, pending, astray>>
      /\ left' = 0 /\ left > 0 /\ pc = "mix"
      /\ sounded' = IF cbtone_ready > 0 THEN sounded + left ELSE 0
      /\ cbtone' = [cbtone EXCEPT ![cbtone_rd].duration = cbtone[cbtone_rd].duration - left]
  BY <1>1 DEF Mix, keying
<1>3. cbtone[cbtone_rd].duration - left \in Int
  BY <1>1
<1> QED BY <1>2, <1>3, SlotMixed

(* ... and to one that ends within it.                                     *)
LEMMA MixRest ==
  ASSUME TypesOK, Mix, cbtone[cbtone_rd].duration <= left
  PROVE  /\ UNCHANGED <<cbtone_wr, mutex, pc, todo, s, pending>>
         /\ cbtone[cbtone_rd].duration > 0 /\ pc = "mix"
         /\ left' = left - cbtone[cbtone_rd].duration
         /\ sounded' = 0 /\ astray' = (astray \/ cbtone_ready <= 0)
         /\ cbtone_rd' = (cbtone_rd + 1) % cbtone_size
         /\ cbtone_ready' = cbtone_ready - 1
         /\ cbtone' \in [Slots -> Tone]
         /\ cbtone'[cbtone_rd].duration = 0
         /\ \A slot \in Slots : slot # cbtone_rd => cbtone'[slot] = cbtone[slot]
<1>1. cbtone[cbtone_rd].duration \in Int /\ left \in Nat
  BY DEF TypesOK, Tone
<1>2. (IF left < cbtone[cbtone_rd].duration THEN left ELSE cbtone[cbtone_rd].duration)
        = cbtone[cbtone_rd].duration
  BY <1>1
<1>3. cbtone[cbtone_rd].duration - cbtone[cbtone_rd].duration = 0
  BY <1>1
<1>4. /\ UNCHANGED <<cbtone_wr, mutex, pc, todo, s, pending>>
      /\ cbtone[cbtone_rd].duration > 0 /\ pc = "mix"
      /\ left' = left - cbtone[cbtone_rd].duration
      /\ sounded' = 0 /\ astray' = (astray \/ cbtone_ready <= 0)
      /\ cbtone_rd' = (cbtone_rd + 1) % cbtone_size
      /\ cbtone_ready' = cbtone_ready - 1
      /\ cbtone' = [cbtone EXCEPT ![cbtone_rd].duration = 0]
  BY <1>2, <1>3 DEF Mix, keying
<1>5. 0 \in Int
  OBVIOUS
<1> QED BY <1>4, <1>5, SlotMixed

LEMMA MixSplit ==
  ASSUME TypesOK
  PROVE  \/ left < cbtone[cbtone_rd].duration
         \/ cbtone[cbtone_rd].duration <= left
<1>1. cbtone[cbtone_rd].duration \in Int /\ left \in Nat
  BY DEF TypesOK, Tone
<1> QED BY <1>1

(* The start of a buffer clears the completion of the first tone.          *)
LEMMA BufferSlot ==
  ASSUME TypesOK, NEW n \in Periods, Buffer(n)
  PROVE  /\ UNCHANGED <<cbtone_rd, cbtone_ready, cbtone_wr, todo, s, sounded, astray>>
         /\ left' = n /\ n \in Nat \ {0} /\ pc = "idle" /\ pc' = "mix"
         /\ mutex' \in BOOLEAN /\ pending' \in BOOLEAN /\ cbtone_ready # 0
         /\ cbtone' \in [Slots -> Tone]
         /\ cbtone'[cbtone_rd] = [cbtone[cbtone_rd] EXCEPT !.fcomp = FALSE]
         /\ ~cbtone'[cbtone_rd].fcomp
         /\ cbtone'[cbtone_rd].duration = cbtone[cbtone_rd].duration
         /\ \A slot \in Slots : slot # cbtone_rd => cbtone'[slot] = cbtone[slot]
<1>1. cbtone_rd \in Slots /\ cbtone \in [Slots -> Tone] /\ cbtone[cbtone_rd] \in Tone
  BY DEF TypesOK
<1>2. /\ UNCHANGED <<cbtone_rd, cbtone_ready, cbtone_wr, todo, s, sounded, astray>>
      /\ left' = n /\ pc = "idle" /\ pc' = "mix" /\ cbtone_ready # 0
      /\ mutex' = TRUE /\ pending' = (pending /\ ~cbtone[cbtone_rd].fcomp)
      /\ cbtone' = [cbtone EXCEPT ![cbtone_rd].fcomp = FALSE]
  BY DEF Buffer, keying, history
<1> DEFINE tone == [cbtone[cbtone_rd] EXCEPT !.fcomp = FALSE]
<1>3. tone \in Tone /\ ~tone.fcomp /\ tone.duration = cbtone[cbtone_rd].duration
  BY <1>1, ToneCleared
<1>4. cbtone' = [cbtone EXCEPT ![cbtone_rd] = tone]
  BY <1>1, <1>2
<1> HIDE DEF tone
<1>5. /\ cbtone' \in [Slots -> Tone] /\ cbtone'[cbtone_rd] = tone
      /\ \A slot \in Slots : slot # cbtone_rd => cbtone'[slot] = cbtone[slot]
  BY <1>1, <1>3, <1>4
<1>6. n \in Nat \ {0}
  BY PeriodAssumption, TonesAssumption
<1>7. pending' \in BOOLEAN /\ mutex' \in BOOLEAN
  BY <1>2
<1> QED BY <1>2, <1>3, <1>5, <1>6, <1>7 DEF tone

(* The steps that leave the ring alone.                                    *)
Elsewhere ==
  \/ Mixed \/ Bomb \/ NextChar \/ UNCHANGED tonevars
  \/ \E text \in Texts : QueueMorse(text)

LEMMA RingKept ==
  ASSUME TypesOK, ThreadOK, Elsewhere
  PROVE  /\ TypesOK' /\ ThreadOK' /\ UNCHANGED <<ring, history>>
         /\ left' # left => pc = "mix" /\ left' = 0
         /\ pc' = "mix" => pc = "mix" /\ left' = left
<1> USE DEF keying, Elsewhere
<1>1. UNCHANGED <<ring, history>>
  BY DEF Mixed, Bomb, Queued, NextChar, QueueMorse, tonevars
<1>2. /\ pc' \in {"idle", "mix", "text", "completion"}
      /\ pc' = "mix" => pc = "mix" /\ left' = left
      /\ left' # left => pc = "mix" /\ left' = 0
      /\ pc' # "mix" => left' = 0
      /\ left' \in Nat /\ s' \in Seq(Chars)
      /\ mutex' \in BOOLEAN /\ pending' \in BOOLEAN
  <2> USE DEF TypesOK, ThreadOK
  <2>1. CASE NextChar
    <3>1. s' \in Seq(Chars)
      BY <2>1 DEF NextChar
    <3>2. /\ pc' \in {"text", "completion"} /\ pc = "text"
          /\ UNCHANGED <<left, mutex, pending>>
      BY <2>1 DEF NextChar
    <3> QED BY <3>1, <3>2
  <2>2. CASE Bomb
    BY <2>2 DEF Bomb, Queued
  <2>3. CASE \E text \in Texts : QueueMorse(text)
    BY <2>3, TonesAssumption DEF QueueMorse
  <2>4. CASE Mixed
    BY <2>4 DEF Mixed
  <2>5. CASE UNCHANGED tonevars
    BY <2>5 DEF tonevars
  <2> QED BY <2>1, <2>2, <2>3, <2>4, <2>5
<1>4. /\ todo' \in Seq(ProperTone)
      /\ todo' # <<>> => pc' \in {"text", "completion"}
      /\ pc' = "completion" => Tail(todo') = <<>>
  <2>1. CASE NextChar
    <3>1. CASE s = <<>>
      <4>1. Tail(<<Completion>>) = <<>>
        OBVIOUS
      <4> QED BY <2>1, <3>1, <4>1, CompletionProper DEF NextChar
    <3>2. CASE s # <<>>
      <4>1. Head(s) \in Chars
        BY <3>2 DEF TypesOK
      <4> QED BY <2>1, <3>2, <4>1, KeyedProper DEF NextChar
    <3> QED BY <3>1, <3>2
  <2>2. CASE Bomb
    <3>1. /\ todo # <<>> /\ todo' = Tail(todo)
          /\ pc' = IF pc = "completion" THEN "idle" ELSE pc
      BY <2>2 DEF Bomb, Queued
    <3>2. Tail(todo) \in Seq(ProperTone)
      BY <3>1 DEF ThreadOK
    <3> QED BY <3>1, <3>2 DEF ThreadOK
  <2>3. CASE \E text \in Texts : QueueMorse(text)
    BY <2>3 DEF QueueMorse, ThreadOK
  <2>4. CASE Mixed
    BY <2>4 DEF Mixed, ThreadOK
  <2>5. CASE UNCHANGED tonevars
    BY <2>5 DEF tonevars, ThreadOK
  <2> QED BY <2>1, <2>2, <2>3, <2>4, <2>5
<1>5. TypesOK'
  <2>1. todo' \in Seq(Tone)
    BY <1>4 DEF ProperTone
  <2> QED BY <1>1, <1>2, <2>1 DEF ring, history, TypesOK
<1>6. ThreadOK'
  BY <1>2, <1>4 DEF ThreadOK
<1> QED BY <1>1, <1>2, <1>5, <1>6

LEMMA PutToneTypes == ASSUME TypesOK, ThreadOK, PutTone PROVE TypesOK' /\ ThreadOK'
<1> USE DEF keying, history
<1>1. /\ todo # <<>> /\ todo' = Tail(todo) /\ Head(todo) \in ProperTone
      /\ Tail(todo) \in Seq(ProperTone) /\ Head(todo) \in Tone
  BY DEF ThreadOK, PutTone, Queued, ProperTone
<1>2. todo' \in Seq(Tone)
  BY <1>1 DEF ProperTone
<1>3. cbtone' \in [Slots -> Tone]
  BY <1>1 DEF PutTone, TypesOK
<1>4. cbtone_wr' \in Slots
  BY TonesAssumption DEF PutTone, TypesOK, Slots
<1>5. cbtone_ready' \in Int /\ cbtone_ready' <= cbtone_size
  BY TonesAssumption DEF PutTone, Full, TypesOK
<1> QED
  BY <1>1, <1>2, <1>3, <1>4, <1>5 DEF PutTone, Queued, TypesOK, ThreadOK

LEMMA MixTypes == ASSUME TypesOK, ThreadOK, Mix PROVE TypesOK' /\ ThreadOK'
<1>1. cbtone[cbtone_rd].duration \in Int /\ left \in Nat /\ cbtone_size \in Nat \ {0}
  BY TonesAssumption DEF TypesOK, Tone
<1>2. PICK n \in Periods : left <= n
  BY DEF ThreadOK, Mix
<1>3. n \in Nat
  BY PeriodAssumption, TonesAssumption
<1>4. CASE left < cbtone[cbtone_rd].duration
  BY <1>1, <1>2, <1>3, <1>4, MixPart DEF TypesOK, ThreadOK
<1>5. CASE cbtone[cbtone_rd].duration <= left
  <2>1. cbtone_rd' \in Slots
    BY <1>1, <1>5, MixRest DEF TypesOK, Slots
  <2>2. left' \in Nat /\ left' <= n
    BY <1>1, <1>2, <1>3, <1>5, MixRest
  <2>3. astray' \in BOOLEAN
    BY <1>5, MixRest DEF TypesOK
  <2> QED BY <1>1, <1>5, <2>1, <2>2, <2>3, MixRest DEF TypesOK, ThreadOK
<1> QED BY <1>4, <1>5, MixSplit

LEMMA BufferTypes ==
  ASSUME TypesOK, ThreadOK, NEW n \in Periods, Buffer(n)
  PROVE  TypesOK' /\ ThreadOK'
<1>1. n <= n
  BY PeriodAssumption, TonesAssumption
<1> QED BY <1>1, BufferSlot DEF TypesOK, ThreadOK

-----------------------------------------------------------------------------
(* Facts about a ring that is on its track                                 *)

LEMMA TrackTypes ==
  ASSUME OnTrack
  PROVE  /\ RingOK /\ TypesOK /\ ThreadOK /\ cbtone_size \in Nat \ {0}
         /\ cbtone_ready \in 0..cbtone_size /\ cbtone_rd \in Slots /\ left \in Nat
         /\ cbtone[cbtone_rd] \in Tone /\ cbtone[cbtone_rd].duration \in Int
         /\ \A i \in 1..cbtone_size - 1 : Slot(i) \in Slots /\ Slot(i) # cbtone_rd
<1>1. /\ RingOK /\ TypesOK /\ ThreadOK /\ cbtone_size \in Nat \ {0}
      /\ cbtone_ready \in 0..cbtone_size /\ cbtone_rd \in Slots /\ left \in Nat
      /\ cbtone[cbtone_rd] \in Tone
  BY TonesAssumption DEF OnTrack, RingOK, TypesOK, DistanceOK
<1>2. 0 \in 0..cbtone_size - 1
  BY <1>1
<1>3. \A i \in 1..cbtone_size - 1 : Slot(i) \in Slots /\ Slot(i) # cbtone_rd
  BY <1>1, <1>2, SlotType
<1> QED BY <1>1, <1>3 DEF Tone

LEMMA PutToneTrack == ASSUME OnTrack, PutTone PROVE OnTrack'
<1>1. RingOK /\ cbtone_ready \in 0..cbtone_size - 1 /\ cbtone_size \in Nat \ {0}
  BY TrackTypes DEF PutTone, Full
<1>2. Head(todo) \in ProperTone
  BY DEF OnTrack, ThreadOK, PutTone, Queued
<1>3. /\ cbtone_wr \in Slots /\ cbtone_wr = Slot(cbtone_ready)
      /\ \A i \in 0..cbtone_size - 1 :
           Slot(i) \in Slots /\ (Slot(i) = cbtone_wr <=> i = cbtone_ready)
      /\ cbtone_rd \in Slots /\ Slot(0) = cbtone_rd
  BY <1>1, SlotType DEF RingOK, TypesOK
<1>4. /\ \A i : Slot(i)' = Slot(i)
      /\ \A slot \in Slots : cbtone'[slot] = IF slot = cbtone_wr THEN Head(todo)
                                             ELSE cbtone[slot]
      /\ cbtone_ready' = cbtone_ready + 1 /\ UNCHANGED <<cbtone_rd, sounded>>
  BY <1>1 DEF PutTone, Queued, history, Slot, RingOK, TypesOK
<1>5. DistanceOK'
  <2>1. cbtone_wr \in 0..cbtone_size - 1 /\ cbtone_rd \in 0..cbtone_size - 1
    BY <1>1 DEF RingOK, TypesOK, Slots
  <2>2. cbtone_wr = IF cbtone_rd + cbtone_ready < cbtone_size
                    THEN cbtone_rd + cbtone_ready
                    ELSE cbtone_rd + cbtone_ready - cbtone_size
    <3>1. cbtone_wr = (cbtone_rd + cbtone_ready) % cbtone_size
      BY <1>1 DEF RingOK, DistanceOK
    <3>2. cbtone_rd + cbtone_ready \in Nat /\ cbtone_rd + cbtone_ready < 2 * cbtone_size
      BY <1>1, <2>1
    <3>3. (cbtone_rd + cbtone_ready) % cbtone_size
            = IF cbtone_rd + cbtone_ready < cbtone_size
              THEN cbtone_rd + cbtone_ready
              ELSE cbtone_rd + cbtone_ready - cbtone_size
      BY <1>1, <2>1, <3>2, Wrap
    <3> QED BY <3>1, <3>3
  <2>3. cbtone_wr' = IF cbtone_wr + 1 < cbtone_size THEN cbtone_wr + 1 ELSE 0
    <3>1. cbtone_wr' = (cbtone_wr + 1) % cbtone_size
      BY DEF PutTone
    <3>2. cbtone_wr + 1 \in Nat /\ cbtone_wr + 1 < 2 * cbtone_size
      BY <1>1, <2>1
    <3>3. (cbtone_wr + 1) % cbtone_size
            = IF cbtone_wr + 1 < cbtone_size THEN cbtone_wr + 1
              ELSE cbtone_wr + 1 - cbtone_size
      BY <1>1, <2>1, <3>2, Wrap
    <3> QED BY <1>1, <2>1, <3>1, <3>3
  <2>4. (cbtone_rd' + cbtone_ready') % cbtone_size =
          IF cbtone_rd + cbtone_ready + 1 < cbtone_size
          THEN cbtone_rd + cbtone_ready + 1
          ELSE cbtone_rd + cbtone_ready + 1 - cbtone_size
    <3>1. cbtone_rd' + cbtone_ready' = cbtone_rd + cbtone_ready + 1
      BY <1>1, <1>4, <2>1
    <3>2. /\ cbtone_rd + cbtone_ready + 1 \in Nat
          /\ cbtone_rd + cbtone_ready + 1 < 2 * cbtone_size
      BY <1>1, <2>1
    <3>3. (cbtone_rd + cbtone_ready + 1) % cbtone_size
            = IF cbtone_rd + cbtone_ready + 1 < cbtone_size
              THEN cbtone_rd + cbtone_ready + 1
              ELSE cbtone_rd + cbtone_ready + 1 - cbtone_size
      BY <1>1, <2>1, <3>2, Wrap
    <3> QED BY <3>1, <3>3
  <2> QED BY <1>1, <1>4, <2>1, <2>2, <2>3, <2>4 DEF DistanceOK
<1>6. pc # "mix" /\ pc' # "mix"
  BY DEF PutTone, Queued, OnTrack, ThreadOK
<1>7. WaitingOK'
  <2>1. ASSUME NEW i \in 1..cbtone_ready PROVE cbtone'[Slot(i)] \in ProperTone
    <3>1. i \in 0..cbtone_size - 1 /\ Slot(i) \in Slots
      BY <1>1, <1>3
    <3>2. CASE i = cbtone_ready
      BY <1>2, <1>3, <1>4, <3>1, <3>2
    <3>3. CASE i # cbtone_ready
      <4>1. i \in 1..cbtone_ready - 1 /\ Slot(i) # cbtone_wr
        BY <1>1, <1>3, <3>1, <3>3
      <4> QED BY <1>4, <3>1, <4>1 DEF OnTrack, WaitingOK
    <3> QED BY <3>2, <3>3
  <2>2. cbtone'[cbtone_rd].duration > 0
    BY <1>1, <1>2, <1>3, <1>4 DEF OnTrack, WaitingOK, ProperTone
  <2> QED BY <1>1, <1>4, <1>6, <2>1, <2>2 DEF WaitingOK
<1>8. TypesOK' /\ ThreadOK'
  BY PutToneTypes, TrackTypes
<1> QED BY <1>5, <1>7, <1>8 DEF OnTrack, RingOK

(* A part of a tone, or of a slot without one, is mixed to the end of the  *)
(* buffer.                                                                 *)
LEMMA MixPartTrack ==
  ASSUME OnTrack, Mix, left < cbtone[cbtone_rd].duration
  PROVE  OnTrack' /\ \A i : Slot(i)' = Slot(i)
<1>1. \A i : Slot(i)' = Slot(i)
  BY TrackTypes, MixPart DEF Slot
<1>2. DistanceOK'
  BY TrackTypes, MixPart DEF OnTrack, RingOK, DistanceOK
<1>3. WaitingOK'
  <2>1. cbtone'[cbtone_rd].duration > 0 /\ left' = 0 /\ UNCHANGED <<cbtone_rd, cbtone_ready>>
    BY TrackTypes, MixPart
  <2>2. \A i \in 1..cbtone_ready - 1 : cbtone'[Slot(i)] \in ProperTone
    BY TrackTypes, MixPart DEF OnTrack, WaitingOK
  <2>3. cbtone_ready = 0 => sounded' = 0
    BY TrackTypes, MixPart
  <2> QED BY <1>1, <2>1, <2>2, <2>3 DEF WaitingOK
<1>4. TypesOK' /\ ThreadOK'
  BY TrackTypes, MixTypes
<1> QED BY <1>1, <1>2, <1>3, <1>4 DEF OnTrack, RingOK

(* A tone is mixed to its end, which is followed by another or by a slot   *)
(* without one.                                                            *)
LEMMA MixRestTrack ==
  ASSUME OnTrack, Mix, cbtone[cbtone_rd].duration <= left, cbtone_ready > 0
  PROVE  /\ OnTrack' /\ ~cbtone[cbtone_rd].fcomp
         /\ \E n \in Periods : left' < n
<1>1. /\ RingOK /\ TypesOK /\ cbtone_size \in Nat \ {0} /\ cbtone_ready \in 1..cbtone_size
      /\ cbtone_rd \in Slots /\ left \in Nat /\ cbtone[cbtone_rd].duration \in Int
  BY TrackTypes
<1>2. /\ cbtone_rd' = (cbtone_rd + 1) % cbtone_size /\ cbtone_ready' = cbtone_ready - 1
      /\ cbtone_wr' = cbtone_wr /\ pc = "mix" /\ cbtone[cbtone_rd].duration > 0
      /\ left' = left - cbtone[cbtone_rd].duration /\ sounded' = 0
      /\ cbtone'[cbtone_rd].duration = 0
      /\ \A slot \in Slots : slot # cbtone_rd => cbtone'[slot] = cbtone[slot]
  BY <1>1, MixRest
<1>3. ~cbtone[cbtone_rd].fcomp
  BY <1>1, <1>2 DEF OnTrack, WaitingOK
<1>4. \E n \in Periods : left' < n
  <2>1. PICK n \in Periods : left <= n
    BY <1>2 DEF OnTrack, ThreadOK
  <2>2. n \in Int
    BY PeriodAssumption, TonesAssumption
  <2>3. left' < n
    BY <1>1, <1>2, <2>1, <2>2
  <2> QED BY <2>3
<1>5. \A i \in 0..cbtone_size - 2 : Slot(i)' = Slot(i + 1)
  BY <1>1, <1>2, SlotNext
<1>6. DistanceOK'
  <2>1. /\ cbtone_rd \in 0..cbtone_size - 1
        /\ cbtone_rd' = IF cbtone_rd + 1 < cbtone_size THEN cbtone_rd + 1 ELSE 0
    <3>1. cbtone_rd \in 0..cbtone_size - 1
      BY <1>1 DEF Slots
    <3> QED BY <1>1, <1>2, <3>1, Wrap
  <2>2. (cbtone_rd + cbtone_ready) % cbtone_size
          = IF cbtone_rd + cbtone_ready < cbtone_size THEN cbtone_rd + cbtone_ready
            ELSE cbtone_rd + cbtone_ready - cbtone_size
    BY <1>1, <2>1, Wrap
  <2>3. /\ cbtone_rd' + cbtone_ready' \in Nat
        /\ cbtone_rd' + cbtone_ready' < 2 * cbtone_size
    BY <1>1, <1>2, <2>1
  <2>4. (cbtone_rd' + cbtone_ready') % cbtone_size
          = IF cbtone_rd' + cbtone_ready' < cbtone_size THEN cbtone_rd' + cbtone_ready'
            ELSE cbtone_rd' + cbtone_ready' - cbtone_size
    <3> DEFINE sum == cbtone_rd' + cbtone_ready'
    <3>1. sum \in Nat /\ sum < 2 * cbtone_size
      BY <2>3
    <3> HIDE DEF sum
    <3>2. sum % cbtone_size = IF sum < cbtone_size THEN sum ELSE sum - cbtone_size
      BY <3>1, Wrap
    <3> QED BY <1>1, <1>2, <2>1, <2>3, <3>2 DEF sum
  <2>5. cbtone_wr = (cbtone_rd + cbtone_ready) % cbtone_size
    BY <1>1 DEF RingOK, DistanceOK
  <2> QED BY <1>1, <1>2, <2>1, <2>2, <2>4, <2>5 DEF DistanceOK
<1>7. WaitingOK'
  <2>1. ASSUME NEW i \in 0..cbtone_ready' - 1
        PROVE  cbtone'[Slot(i)'] \in ProperTone
    <3>1. i + 1 \in 1..cbtone_ready - 1 /\ i + 1 \in 1..cbtone_size - 1
          /\ i \in 0..cbtone_size - 2
      BY <1>1, <1>2
    <3>2. Slot(i)' = Slot(i + 1) /\ Slot(i + 1) \in Slots /\ Slot(i + 1) # cbtone_rd
      BY <1>5, <3>1, TrackTypes
    <3>3. cbtone[Slot(i + 1)] \in ProperTone
      BY <3>1 DEF OnTrack, WaitingOK
    <3> QED BY <1>2, <3>2, <3>3
  <2>2. ASSUME cbtone_ready' > 0
        PROVE  cbtone'[cbtone_rd'] \in ProperTone
    <3>1. 0 \in 0..cbtone_ready' - 1 /\ 0 \in 0..cbtone_size - 2 /\ cbtone_size > 1
          /\ 0 + 1 = 1
      BY <1>1, <1>2, <2>2
    <3>2. cbtone_rd' = Slot(0)'
      BY <1>1, <1>2, <1>5, <3>1, SlotNext
    <3> QED BY <2>1, <3>1, <3>2
  <2>3. ASSUME cbtone_ready' > 0
        PROVE  /\ cbtone'[cbtone_rd'].duration > 0
               /\ cbtone'[cbtone_rd'].fcomp => cbtone'[cbtone_rd'].duration > left'
    BY <1>1, <1>2, <1>4, <2>2, <2>3, PeriodAssumption, TonesAssumption DEF ProperTone, Tone
  <2> QED BY <1>1, <1>2, <2>1, <2>3 DEF WaitingOK
<1>8. TypesOK' /\ ThreadOK'
  BY TrackTypes, MixTypes
<1> QED BY <1>3, <1>4, <1>6, <1>7, <1>8 DEF OnTrack, RingOK

LEMMA BufferTrack ==
  ASSUME OnTrack, NEW n \in Periods, Buffer(n)
  PROVE  OnTrack' /\ cbtone_ready > 0 /\ \A i : Slot(i)' = Slot(i)
<1>1. cbtone_ready > 0 /\ UNCHANGED <<cbtone_rd, cbtone_ready, cbtone_wr>>
  BY TrackTypes, BufferSlot
<1>2. \A i : Slot(i)' = Slot(i)
  BY <1>1 DEF Slot
<1>3. DistanceOK'
  BY <1>1 DEF OnTrack, RingOK, DistanceOK
<1>4. WaitingOK'
  <2>1. \A i \in 1..cbtone_ready - 1 : cbtone'[Slot(i)] \in ProperTone
    BY TrackTypes, BufferSlot DEF OnTrack, WaitingOK
  <2>2. cbtone'[cbtone_rd].duration > 0 /\ ~cbtone'[cbtone_rd].fcomp
    BY <1>1, TrackTypes, BufferSlot DEF OnTrack, WaitingOK
  <2> QED BY <1>1, <1>2, <2>1, <2>2, TrackTypes DEF WaitingOK
<1>5. TypesOK' /\ ThreadOK'
  BY TrackTypes, BufferTypes
<1> QED BY <1>1, <1>2, <1>3, <1>4, <1>5 DEF OnTrack, RingOK

LEMMA ElsewhereTrack ==
  ASSUME OnTrack, Elsewhere
  PROVE  OnTrack' /\ \A i : Slot(i)' = Slot(i)
<1>1. /\ TypesOK' /\ ThreadOK' /\ UNCHANGED <<ring, history>>
      /\ pc' = "mix" => pc = "mix" /\ left' = left
  BY TrackTypes, RingKept
<1>2. UNCHANGED <<cbtone, cbtone_ready, cbtone_wr, cbtone_rd, sounded>>
  BY <1>1 DEF ring, history
<1>3. \A i : Slot(i)' = Slot(i)
  BY <1>2 DEF Slot
<1>4. DistanceOK' /\ WaitingOK'
  BY <1>1, <1>2, <1>3 DEF OnTrack, RingOK, DistanceOK, WaitingOK
<1> QED BY <1>1, <1>3, <1>4 DEF OnTrack, RingOK

-----------------------------------------------------------------------------
(* A step of TonesNext is one of these.                                    *)
LEMMA StepCases ==
  ASSUME [TonesNext]_tonevars
  PROVE  PutTone \/ Mix \/ Elsewhere \/ \E n \in Periods : Buffer(n)
BY DEF TonesNext, AudioThread, QueueTone, Elsewhere

(* Once astray, always astray; on track, on track or astray.               *)
LEMMA StepInv ==
  TonesInv /\ [TonesNext]_tonevars => TonesInv' /\ (astray => astray')
<1> SUFFICES ASSUME TonesInv, [TonesNext]_tonevars
             PROVE  TonesInv' /\ (astray => astray')
  OBVIOUS
<1>1. TypesOK /\ ThreadOK
  BY DEF TonesInv
<1>2. TypesOK' /\ ThreadOK'
  BY <1>1, StepCases, PutToneTypes, MixTypes, RingKept, BufferTypes
<1>3. astray => astray'
  <2>1. CASE PutTone
    BY <2>1 DEF PutTone, Queued, history
  <2>2. CASE Mix
    BY <2>2 DEF Mix
  <2>3. CASE Elsewhere
    BY <1>1, <2>3, RingKept DEF history
  <2>4. CASE \E n \in Periods : Buffer(n)
    BY <1>1, <2>4, BufferSlot
  <2> QED BY <2>1, <2>2, <2>3, <2>4, StepCases
<1>4. ASSUME ~astray' PROVE OnTrack'
  <2>1. OnTrack
    BY <1>3, <1>4 DEF TonesInv
  <2>2. CASE PutTone
    BY <2>1, <2>2, PutToneTrack
  <2>3. CASE Mix
    <3>1. CASE left < cbtone[cbtone_rd].duration
      BY <2>1, <2>3, <3>1, MixPartTrack
    <3>2. CASE cbtone[cbtone_rd].duration <= left
      <4>1. ~(cbtone_ready <= 0)
        BY <1>1, <1>4, <2>3, <3>2, MixRest
      <4>2. cbtone_ready > 0
        BY <1>1, <4>1 DEF TypesOK
      <4> QED BY <2>1, <2>3, <3>2, <4>2, MixRestTrack
    <3> QED BY <1>1, <3>1, <3>2, MixSplit
  <2>4. CASE Elsewhere
    BY <2>1, <2>4, ElsewhereTrack
  <2>5. CASE \E n \in Periods : Buffer(n)
    BY <2>1, <2>5, BufferTrack
  <2> QED BY <2>2, <2>3, <2>4, <2>5, StepCases
<1> QED BY <1>2, <1>3, <1>4 DEF TonesInv

(* TonesInv holds in every reachable state, whatever the memory held that  *)
(* g_new returned.                                                         *)
THEOREM TonesCorrect == TonesSpec => []TonesInv
<1>1. TonesInit => TonesInv
  BY InitInv DEF TonesInv, OnTrack, RingOK
<1> QED BY <1>1, StepInv, PTL DEF TonesSpec

(* The ready count is the distance between the indices of the ring and     *)
(* never leaves its range, full or run dry, until the loop is led astray;  *)
(* the indices never leave the ring at all (channel.c lines 115-165).      *)
THEOREM RingCorrect == TonesSpec => []TonesTypeOK
<1>1. TonesInv => TonesTypeOK
  BY DEF TonesInv, OnTrack, RingOK, TonesTypeOK
<1> QED BY <1>1, TonesCorrect, PTL

-----------------------------------------------------------------------------
(* The ring as the queue of module ToneQueue                               *)

(* The first tone with the samples that have been sounded of it.           *)
WholeFirst == [cbtone[cbtone_rd] EXCEPT !.duration = @ + sounded]

QueueIs ==
  /\ Sounding \in Seq(Tone)
  /\ Len(Sounding) = cbtone_ready
  /\ \A i \in 2..cbtone_ready : Sounding[i] = cbtone[Slot(i - 1)]
  /\ cbtone_ready > 0 => Sounding[1] = WholeFirst /\ Head(Sounding) = WholeFirst
  /\ WholeFirst.duration = cbtone[cbtone_rd].duration + sounded
  /\ WholeFirst.fcomp = cbtone[cbtone_rd].fcomp

LEMMA QueueOf == RingOK => QueueIs
<1> SUFFICES ASSUME RingOK PROVE QueueIs
  OBVIOUS
<1>1. /\ cbtone_ready \in Nat /\ cbtone_rd \in Int /\ cbtone_size \in Nat \ {0}
      /\ cbtone_ready <= cbtone_size /\ sounded \in Nat /\ cbtone_rd \in Slots
      /\ cbtone[cbtone_rd] \in Tone /\ cbtone[cbtone_rd].duration \in Int
  BY TonesAssumption DEF RingOK, TypesOK, DistanceOK, Slots, Tone
<1>2. ASSUME NEW i \in 1..cbtone_ready
      PROVE  /\ (cbtone_rd + i - 1) % cbtone_size = Slot(i - 1)
             /\ cbtone[Slot(i - 1)] \in Tone
  <2>1. cbtone_rd + i - 1 = cbtone_rd + (i - 1) /\ i - 1 \in 0..cbtone_size - 1
    BY <1>1
  <2>2. Slot(i - 1) \in Slots
    BY <2>1, SlotType
  <2> QED BY <2>1, <2>2 DEF Slot, RingOK, TypesOK
<1>3. WholeFirst \in Tone /\ WholeFirst.duration = cbtone[cbtone_rd].duration + sounded
  <2> DEFINE whole == cbtone[cbtone_rd].duration + sounded
  <2>1. whole \in Int
    BY <1>1
  <2>2. WholeFirst = [cbtone[cbtone_rd] EXCEPT !.duration = whole]
    BY DEF WholeFirst
  <2> HIDE DEF whole
  <2>3. WholeFirst \in Tone /\ WholeFirst.duration = whole
    BY <1>1, <2>1, <2>2 DEF Tone
  <2> QED BY <2>3 DEF whole
<1>4. WholeFirst.fcomp = cbtone[cbtone_rd].fcomp
  BY <1>1 DEF WholeFirst, Tone
<1>5. (cbtone_rd + 1 - 1) % cbtone_size = cbtone_rd
  <2>1. cbtone_rd + 1 - 1 = cbtone_rd + 0
    BY <1>1
  <2>2. Slot(0) = cbtone_rd
    BY SlotType
  <2> QED BY <2>1, <2>2 DEF Slot
<1>6. Sounding = [i \in 1..cbtone_ready |->
                    IF i = 1 THEN WholeFirst ELSE cbtone[Slot(i - 1)]]
  BY <1>2, <1>5 DEF Sounding, WholeFirst
<1>7. Sounding \in Seq(Tone) /\ Len(Sounding) = cbtone_ready
  <2>1. \A i \in 1..cbtone_ready :
          (IF i = 1 THEN WholeFirst ELSE cbtone[Slot(i - 1)]) \in Tone
    BY <1>2, <1>3
  <2> QED BY <1>1, <1>6, <2>1
<1>8. \A i \in 2..cbtone_ready : Sounding[i] = cbtone[Slot(i - 1)]
  BY <1>1, <1>6
<1>9. cbtone_ready > 0 => Sounding[1] = WholeFirst /\ Head(Sounding) = WholeFirst
  BY <1>1, <1>6, <1>7
<1> QED BY <1>3, <1>4, <1>7, <1>8, <1>9 DEF QueueIs

LEMMA QueueOfPrime == RingOK' => QueueIs'
BY QueueOf, PTL

LEMMA SameQueue ==
  ASSUME NEW a \in Seq(Tone), NEW b \in Seq(Tone), Len(a) = Len(b),
         \A i \in 1..Len(a) : a[i] = b[i]
  PROVE  a = b
OBVIOUS

(* Replacing the first of a queue.                                         *)
LEMMA Replaced ==
  ASSUME NEW q \in Seq(Tone), q # <<>>, NEW tone \in Tone, NEW r \in Seq(Tone),
         Len(r) = Len(q), r[1] = tone, \A i \in 2..Len(q) : r[i] = q[i]
  PROVE  r = <<tone>> \o Tail(q)
<1> DEFINE b == <<tone>> \o Tail(q)
<1>1. b \in Seq(Tone) /\ Len(b) = Len(q) /\ b[1] = tone
  OBVIOUS
<1>2. \A i \in 2..Len(q) : b[i] = q[i]
  OBVIOUS
<1>3. \A i \in 1..Len(r) : r[i] = b[i]
  BY <1>1, <1>2
<1> HIDE DEF b
<1>4. r = b
  BY <1>1, <1>3, SameQueue
<1> QED BY <1>4 DEF b

(* The queue is the same if the first tone and the slots of the others are.*)
LEMMA SameTones ==
  ASSUME RingOK, RingOK', cbtone_ready' = cbtone_ready,
         \A i \in 1..cbtone_ready - 1 : cbtone'[Slot(i)'] = cbtone[Slot(i)]
  PROVE  /\ Len(Sounding') = Len(Sounding)
         /\ \A i \in 2..Len(Sounding) : Sounding'[i] = Sounding[i]
         /\ (cbtone_ready > 0 => WholeFirst' = WholeFirst) => Sounding' = Sounding
<1>1. QueueIs /\ QueueIs' /\ cbtone_ready \in Nat
  BY QueueOf, QueueOfPrime DEF RingOK, TypesOK, DistanceOK
<1>2. Len(Sounding') = Len(Sounding) /\ Len(Sounding) = cbtone_ready
  BY <1>1 DEF QueueIs
<1>3. ASSUME NEW i \in 2..cbtone_ready PROVE Sounding'[i] = Sounding[i]
  <2>1. i - 1 \in 1..cbtone_ready - 1 /\ i \in 2..cbtone_ready'
    BY <1>1
  <2>2. Sounding'[i] = cbtone'[Slot(i - 1)'] /\ Sounding[i] = cbtone[Slot(i - 1)]
    BY <1>1, <2>1 DEF QueueIs
  <2> QED BY <2>1, <2>2
<1>4. ASSUME cbtone_ready > 0 => WholeFirst' = WholeFirst
      PROVE  Sounding' = Sounding
  <2>1. cbtone_ready > 0 => Sounding'[1] = Sounding[1]
    BY <1>1, <1>4 DEF QueueIs
  <2>2. \A i \in 1..Len(Sounding') : Sounding'[i] = Sounding[i]
    BY <1>1, <1>2, <1>3, <2>1
  <2> QED BY <1>1, <1>2, <2>2, SameQueue DEF QueueIs
<1> QED BY <1>2, <1>3, <1>4

LEMMA PutToneFifo == ASSUME OnTrack, PutTone PROVE Fifo!Put
<1>1. RingOK /\ RingOK' /\ QueueIs /\ QueueIs'
  BY PutToneTrack, QueueOf, QueueOfPrime DEF OnTrack
<1>2. cbtone_ready \in 0..cbtone_size - 1 /\ cbtone_size \in Nat \ {0}
  BY TrackTypes DEF PutTone, Full
<1>3. Head(todo) \in Tone /\ Head(todo).duration \in Int
  BY DEF OnTrack, ThreadOK, PutTone, Queued, ProperTone, Tone
<1>4. /\ cbtone' = [cbtone EXCEPT ![cbtone_wr] = Head(todo)]
      /\ cbtone_ready' = cbtone_ready + 1 /\ \A i : Slot(i)' = Slot(i)
      /\ UNCHANGED <<cbtone_rd, sounded, left>>
  BY DEF PutTone, Queued, history, Slot
<1>5. /\ cbtone_wr \in Slots /\ cbtone_wr = Slot(cbtone_ready) /\ Slot(0) = cbtone_rd
      /\ \A i \in 0..cbtone_ready - 1 : Slot(i) \in Slots /\ Slot(i) # cbtone_wr
  BY <1>1, <1>2, SlotType DEF RingOK, TypesOK
<1>6. Sounding'[cbtone_ready + 1] = Head(todo)
  <2>1. cbtone'[Slot(cbtone_ready)] = Head(todo)
    BY <1>1, <1>4, <1>5 DEF RingOK, TypesOK
  <2>2. CASE cbtone_ready = 0
    <3>1. sounded = 0 /\ cbtone'[cbtone_rd] = Head(todo)
      BY <1>5, <2>1, <2>2 DEF OnTrack, WaitingOK
    <3>2. WholeFirst' = [Head(todo) EXCEPT !.duration = @ + 0]
      BY <1>4, <3>1 DEF WholeFirst
    <3>3. WholeFirst' = Head(todo)
      BY <1>3, <3>2 DEF Tone
    <3> QED BY <1>1, <1>4, <2>2, <3>3 DEF QueueIs
  <2>3. CASE cbtone_ready > 0
    <3>1. cbtone_ready + 1 \in 2..cbtone_ready' /\ cbtone_ready + 1 - 1 = cbtone_ready
      BY <1>2, <1>4, <2>3
    <3>2. Sounding'[cbtone_ready + 1] = cbtone'[Slot(cbtone_ready)]
      BY <1>1, <1>4, <3>1 DEF QueueIs
    <3> QED BY <2>1, <3>2
  <2> QED BY <1>2, <2>2, <2>3
<1>7. ASSUME NEW i \in 1..cbtone_ready PROVE Sounding'[i] = Sounding[i]
  <2>1. i \in 1..cbtone_ready' /\ i - 1 \in 0..cbtone_ready - 1 /\ cbtone_ready > 0
    BY <1>2, <1>4
  <2>2. cbtone'[Slot(i - 1)] = cbtone[Slot(i - 1)]
    BY <1>1, <1>4, <1>5, <2>1 DEF RingOK, TypesOK
  <2>3. CASE i = 1
    <3>1. cbtone'[cbtone_rd] = cbtone[cbtone_rd]
      BY <1>5, <2>2, <2>3
    <3>2. WholeFirst' = WholeFirst
      BY <1>4, <3>1 DEF WholeFirst
    <3> QED BY <1>1, <1>4, <2>1, <2>3, <3>2 DEF QueueIs
  <2>4. CASE i # 1
    <3>1. i \in 2..cbtone_ready /\ i \in 2..cbtone_ready'
      BY <1>2, <2>1, <2>4
    <3> QED BY <1>1, <1>4, <2>2, <3>1 DEF QueueIs
  <2> QED BY <2>3, <2>4
<1>8. Sounding' = Append(Sounding, Head(todo))
  <2> DEFINE a == Append(Sounding, Head(todo))
  <2>1. /\ a \in Seq(Tone) /\ Len(a) = cbtone_ready + 1
        /\ a[cbtone_ready + 1] = Head(todo)
        /\ \A i \in 1..cbtone_ready : a[i] = Sounding[i]
    BY <1>1, <1>2, <1>3 DEF QueueIs
  <2> HIDE DEF a
  <2>2. Sounding' \in Seq(Tone) /\ Len(Sounding') = cbtone_ready + 1
    BY <1>1, <1>4 DEF QueueIs
  <2>3. \A i \in 1..Len(Sounding') : Sounding'[i] = a[i]
    BY <1>2, <1>6, <1>7, <2>1, <2>2
  <2>4. Sounding' = a
    BY <2>1, <2>2, <2>3, SameQueue
  <2> QED BY <2>4 DEF a
<1>9. Len(Sounding') = cbtone_ready + 1 /\ Sounding' # <<>>
  BY <1>1, <1>2, <1>4 DEF QueueIs
<1> QED BY <1>3, <1>4, <1>6, <1>8, <1>9 DEF Fifo!Put

LEMMA BufferFifo ==
  ASSUME OnTrack, NEW n \in Periods, Buffer(n)
  PROVE  Fifo!Ask
<1>1. /\ RingOK /\ RingOK' /\ QueueIs /\ QueueIs' /\ cbtone_ready > 0
      /\ \A i : Slot(i)' = Slot(i)
  BY BufferTrack, QueueOf, QueueOfPrime DEF OnTrack
<1>2. /\ UNCHANGED <<cbtone_rd, cbtone_ready, sounded>>
      /\ left = 0 /\ left' \in Nat \ {0}
      /\ cbtone'[cbtone_rd] = [cbtone[cbtone_rd] EXCEPT !.fcomp = FALSE]
  BY TrackTypes, BufferSlot DEF OnTrack, ThreadOK
<1>3. \A i \in 1..cbtone_ready - 1 : cbtone'[Slot(i)'] = cbtone[Slot(i)]
  BY <1>1, TrackTypes, BufferSlot
<1>4. WholeFirst' = [WholeFirst EXCEPT !.fcomp = FALSE]
  <2>1. cbtone[cbtone_rd] \in Tone /\ sounded \in Int
    BY TrackTypes DEF TypesOK
  <2>2. WholeFirst' = [[cbtone[cbtone_rd] EXCEPT !.fcomp = FALSE]
                         EXCEPT !.duration = @ + sounded]
    BY <1>2 DEF WholeFirst
  <2> QED BY <2>1, <2>2, ToneExcept DEF WholeFirst
<1>5. WholeFirst' = [Head(Sounding) EXCEPT !.fcomp = FALSE]
  BY <1>1, <1>4 DEF QueueIs
<1>6. /\ Sounding \in Seq(Tone) /\ Sounding' \in Seq(Tone) /\ Sounding # <<>>
      /\ Sounding'[1] = WholeFirst' /\ WholeFirst' \in Tone
  BY <1>1, <1>2, TrackTypes DEF QueueIs
<1>7. Sounding' = <<WholeFirst'>> \o Tail(Sounding)
  BY <1>1, <1>2, <1>3, <1>6, SameTones, Replaced
<1> QED BY <1>2, <1>5, <1>6, <1>7 DEF Fifo!Ask

LEMMA MixFifo ==
  ASSUME OnTrack, Mix, ~astray'
  PROVE  Fifo!SoundPart \/ Fifo!SoundRest \/ Fifo!RunDry
<1>1. /\ RingOK /\ TypesOK /\ QueueIs /\ cbtone_ready \in Nat /\ cbtone_size \in Nat \ {0}
      /\ cbtone[cbtone_rd] \in Tone /\ cbtone[cbtone_rd].duration \in Int
      /\ left \in Nat /\ left > 0 /\ sounded \in Nat /\ cbtone_ready <= cbtone_size
  BY TrackTypes, QueueOf DEF OnTrack, RingOK, TypesOK, Mix
<1>2. CASE left < cbtone[cbtone_rd].duration
  <2>1. /\ RingOK' /\ UNCHANGED <<cbtone_rd, cbtone_ready>> /\ left' = 0
        /\ sounded' = (IF cbtone_ready > 0 THEN sounded + left ELSE 0)
        /\ cbtone'[cbtone_rd]
             = [cbtone[cbtone_rd] EXCEPT !.duration = cbtone[cbtone_rd].duration - left]
        /\ \A i \in 1..cbtone_ready - 1 : cbtone'[Slot(i)'] = cbtone[Slot(i)]
    BY <1>1, <1>2, TrackTypes, MixPart, MixPartTrack DEF OnTrack
  <2>2. CASE cbtone_ready > 0
    <3>1. WholeFirst' = WholeFirst
      <4> DEFINE rest == cbtone[cbtone_rd].duration - left
      <4>1. rest \in Int /\ rest + (sounded + left) = cbtone[cbtone_rd].duration + sounded
        BY <1>1
      <4> HIDE DEF rest
      <4>2. cbtone'[cbtone_rd] = [cbtone[cbtone_rd] EXCEPT !.duration = rest]
        BY <2>1 DEF rest
      <4>3. WholeFirst' = [cbtone[cbtone_rd] EXCEPT !.duration = rest + (sounded + left)]
        <5>1. WholeFirst' = [[cbtone[cbtone_rd] EXCEPT !.duration = rest]
                               EXCEPT !.duration = @ + (sounded + left)]
          BY <2>1, <2>2, <4>2 DEF WholeFirst
        <5>2. sounded + left \in Int
          BY <1>1
        <5> QED BY <1>1, <4>1, <5>1, <5>2, ToneExcept
      <4> QED BY <4>1, <4>3 DEF WholeFirst
    <3>2. Sounding' = Sounding /\ Sounding # <<>>
      BY <1>1, <2>1, <2>2, <3>1, SameTones DEF QueueIs
    <3>3. Head(Sounding).duration = cbtone[cbtone_rd].duration + sounded
      BY <1>1, <2>2 DEF QueueIs
    <3>4. sounded + left < Head(Sounding).duration
      BY <1>1, <1>2, <3>3
    <3> QED BY <1>1, <2>1, <2>2, <3>2, <3>4 DEF Fifo!SoundPart
  <2>3. CASE cbtone_ready = 0
    <3>1. Sounding' = Sounding /\ Sounding = <<>>
      BY <1>1, <2>1, <2>3, SameTones DEF QueueIs
    <3>2. sounded' = sounded
      BY <2>1, <2>3 DEF OnTrack, WaitingOK
    <3> QED BY <2>1, <3>1, <3>2 DEF Fifo!RunDry
  <2> QED BY <1>1, <2>2, <2>3
<1>3. CASE cbtone[cbtone_rd].duration <= left
  <2>1. cbtone_ready > 0
    <3>1. ~(cbtone_ready <= 0)
      BY <1>1, <1>3, MixRest
    <3> QED BY <1>1, <3>1
  <2>2. RingOK' /\ QueueIs' /\ ~cbtone[cbtone_rd].fcomp
    BY <1>3, <2>1, MixRestTrack, QueueOfPrime DEF OnTrack
  <2>3. /\ cbtone_rd' = (cbtone_rd + 1) % cbtone_size /\ cbtone_ready' = cbtone_ready - 1
        /\ left' = left - cbtone[cbtone_rd].duration /\ sounded' = 0
        /\ \A slot \in Slots : slot # cbtone_rd => cbtone'[slot] = cbtone[slot]
    BY <1>1, <1>3, MixRest
  <2>4. /\ \A i \in 0..cbtone_size - 2 : Slot(i)' = Slot(i + 1)
        /\ cbtone_size > 1 => cbtone_rd' = Slot(1)
    BY <1>1, <2>3, SlotNext
  <2>5. ASSUME NEW i \in 1..cbtone_ready - 1 PROVE Sounding'[i] = Sounding[i + 1]
    <3>1. /\ i + 1 \in 2..cbtone_ready /\ i + 1 - 1 = i /\ i \in 1..cbtone_size - 1
          /\ i - 1 \in 0..cbtone_size - 2 /\ i - 1 + 1 = i /\ cbtone_ready' > 0
          /\ cbtone_size > 1
      BY <1>1, <2>3
    <3>2. Slot(i) \in Slots /\ Slot(i) # cbtone_rd
      BY <3>1, TrackTypes
    <3>3. Sounding[i + 1] = cbtone[Slot(i)] /\ cbtone'[Slot(i)] = cbtone[Slot(i)]
      BY <1>1, <2>3, <3>1, <3>2 DEF QueueIs
    <3>4. CASE i = 1
      <4>1. cbtone'[cbtone_rd'] = cbtone[Slot(1)] /\ cbtone[Slot(1)] \in Tone
        BY <1>1, <2>4, <3>1, <3>2, <3>3, <3>4 DEF TypesOK
      <4>2. WholeFirst' = [cbtone[Slot(1)] EXCEPT !.duration = @ + 0]
        BY <2>3, <4>1 DEF WholeFirst
      <4>3. WholeFirst' = cbtone[Slot(1)]
        BY <4>1, <4>2 DEF Tone
      <4> QED BY <2>2, <3>1, <3>3, <3>4, <4>3 DEF QueueIs
    <3>5. CASE i # 1
      <4>1. i \in 2..cbtone_ready'
        BY <1>1, <2>3, <3>5
      <4>2. Sounding'[i] = cbtone'[Slot(i - 1)']
        BY <2>2, <4>1 DEF QueueIs
      <4>3. Slot(i - 1)' = Slot(i)
        BY <2>4, <3>1
      <4> QED BY <3>3, <4>2, <4>3
    <3> QED BY <3>4, <3>5
  <2>6. /\ Sounding \in Seq(Tone) /\ Sounding' \in Seq(Tone)
        /\ Len(Sounding) = cbtone_ready /\ Len(Sounding') = cbtone_ready - 1
        /\ Head(Sounding) = WholeFirst /\ Sounding # <<>>
    BY <1>1, <2>1, <2>2, <2>3 DEF QueueIs
  <2>7. Sounding' = Tail(Sounding)
    <3> DEFINE t == Tail(Sounding)
    <3>1. t \in Seq(Tone) /\ Len(t) = cbtone_ready - 1
      BY <2>6
    <3>2. \A i \in 1..cbtone_ready - 1 : t[i] = Sounding[i + 1]
      BY <2>6
    <3> HIDE DEF t
    <3>3. \A i \in 1..Len(Sounding') : Sounding'[i] = t[i]
      BY <2>5, <2>6, <3>2
    <3>4. Sounding' = t
      BY <2>6, <3>1, <3>3, SameQueue
    <3> QED BY <3>4 DEF t
  <2>8. /\ Head(Sounding).duration = cbtone[cbtone_rd].duration + sounded
        /\ ~Head(Sounding).fcomp
    BY <1>1, <2>2, <2>6 DEF QueueIs
  <2>9. /\ sounded + left >= Head(Sounding).duration
        /\ left' = left - (Head(Sounding).duration - sounded)
    BY <1>1, <1>3, <2>3, <2>8
  <2> QED BY <1>1, <2>3, <2>6, <2>7, <2>8, <2>9 DEF Fifo!SoundRest
<1> QED BY <1>1, <1>2, <1>3, MixSplit

LEMMA ElsewhereFifo ==
  ASSUME OnTrack, Elsewhere
  PROVE  Fifo!RunDry \/ UNCHANGED <<Sounding, sounded, left>>
<1>1. /\ UNCHANGED <<cbtone, cbtone_ready, cbtone_wr, cbtone_rd, sounded>>
      /\ left' # left => pc = "mix" /\ left' = 0
  BY TrackTypes, RingKept DEF ring, history
<1>2. Sounding' = Sounding
  BY <1>1 DEF Sounding
<1>3. CASE left' = left
  BY <1>1, <1>2, <1>3
<1>4. CASE left' # left
  <2>1. Mixed
    BY <1>1, <1>4 DEF Elsewhere, NextChar, QueueMorse, Bomb, Queued, ThreadOK, OnTrack,
                      tonevars
  <2>2. cbtone_ready = 0
    <3>1. cbtone[cbtone_rd].duration <= 0
      BY <1>1, <1>4, <2>1 DEF Mixed
    <3> QED BY <3>1, TrackTypes DEF OnTrack, WaitingOK
  <2>3. Sounding = <<>>
    <3>1. QueueIs
      BY QueueOf DEF OnTrack
    <3> QED BY <2>2, <3>1 DEF QueueIs
  <2> QED BY <1>1, <1>2, <1>4, <2>3 DEF Fifo!RunDry
<1> QED BY <1>3, <1>4

(* The ring buffer, whatever its size, is a queue that sounds every tone   *)
(* once, in order, without a gap and for as many samples as its duration   *)
(* says, and passes no completion over (channel.c lines 115-165), as long  *)
(* as no buffer outlasts the completion's tone and the loop is not led     *)
(* astray; nothing is assumed of the memory the ring starts with.          *)
THEOREM ImplementsFifo == TonesSpec => FifoSpec
<1>1. TonesInit => Fifo!QueueInit
  <2> SUFFICES ASSUME TonesInit PROVE Fifo!QueueInit
    OBVIOUS
  <2>1. QueueIs /\ cbtone_ready = 0
    BY InitInv, QueueOf DEF OnTrack, TonesInit
  <2> QED BY <2>1 DEF QueueIs, TonesInit, Fifo!QueueInit
<1>2. TonesInv /\ [TonesNext]_tonevars
        => [astray' \/ Fifo!QueueNext]_<<Sounding, sounded, left>>
  <2> SUFFICES ASSUME TonesInv, [TonesNext]_tonevars, ~astray'
               PROVE  [Fifo!QueueNext]_<<Sounding, sounded, left>>
    OBVIOUS
  <2>1. OnTrack
    BY StepInv DEF TonesInv
  <2>2. CASE PutTone
    BY <2>1, <2>2, PutToneFifo DEF Fifo!QueueNext
  <2>3. CASE \E n \in Periods : Buffer(n)
    BY <2>1, <2>3, BufferFifo DEF Fifo!QueueNext
  <2>4. CASE Mix
    BY <2>1, <2>4, MixFifo DEF Fifo!QueueNext
  <2>5. CASE Elsewhere
    BY <2>1, <2>5, ElsewhereFifo DEF Fifo!QueueNext
  <2> QED BY <2>2, <2>3, <2>4, <2>5, StepCases
<1> QED BY <1>1, <1>2, TonesCorrect, PTL DEF TonesSpec, FifoSpec

-----------------------------------------------------------------------------
(* Memory that starts out harmless stays so                                *)

FreeInv == OnTrack /\ ~astray /\ FreeOK

LEMMA PutToneFree == ASSUME FreeInv, PutTone PROVE FreeOK'
<1>1. /\ cbtone_ready \in 0..cbtone_size - 1 /\ cbtone_size \in Nat \ {0}
      /\ cbtone \in [Slots -> Tone] /\ RingOK
  BY TrackTypes DEF FreeInv, PutTone, Full, TypesOK
<1>2. \A i \in 0..cbtone_size - 1 :
        Slot(i) \in Slots /\ (Slot(i) = cbtone_wr <=> i = cbtone_ready)
  BY <1>1, SlotType
<1>3. \A i : Slot(i)' = Slot(i)
  BY DEF PutTone, Slot
<1>4. \A slot \in Slots : slot # cbtone_wr => cbtone'[slot] = cbtone[slot]
  BY <1>1 DEF PutTone
<1>5. ASSUME NEW i \in 1..cbtone_size - 1, i >= cbtone_ready'
      PROVE  Harmless(cbtone'[Slot(i)'].duration)
  <2>1. i \in 0..cbtone_size - 1 /\ i >= cbtone_ready /\ i # cbtone_ready
    BY <1>1, <1>5 DEF PutTone
  <2>2. cbtone'[Slot(i)'] = cbtone[Slot(i)]
    BY <1>2, <1>3, <1>4, <2>1
  <2> QED BY <2>1, <2>2 DEF FreeInv, FreeOK
<1>6. cbtone_ready' # 0
  BY <1>1 DEF PutTone
<1> QED BY <1>5, <1>6 DEF FreeOK

(* A slot the loop ends holds a tone ...                                   *)
LEMMA EndsTone ==
  ASSUME FreeInv, Mix, cbtone[cbtone_rd].duration <= left
  PROVE  cbtone_ready > 0
BY TrackTypes, MixRest DEF FreeInv, FreeOK

(* ... and holds none when it is done with.                                *)
LEMMA MixFree == ASSUME FreeInv, Mix PROVE FreeOK'
<1>1. /\ TypesOK /\ RingOK /\ OnTrack /\ cbtone_size \in Nat \ {0}
      /\ cbtone_ready \in 0..cbtone_size /\ cbtone_rd \in Slots /\ left \in Nat
      /\ cbtone[cbtone_rd].duration \in Int
  BY TrackTypes DEF FreeInv
<1>2. \A i \in 1..cbtone_size - 1 : Slot(i) \in Slots /\ Slot(i) # cbtone_rd
  BY <1>1, TrackTypes
<1>3. CASE left < cbtone[cbtone_rd].duration
  <2>1. /\ UNCHANGED <<cbtone_rd, cbtone_ready>> /\ left' = 0
        /\ cbtone'[cbtone_rd].duration = cbtone[cbtone_rd].duration - left
        /\ \A slot \in Slots : slot # cbtone_rd => cbtone'[slot] = cbtone[slot]
        /\ \A i : Slot(i)' = Slot(i)
    BY <1>1, <1>3, MixPart, MixPartTrack
  <2>2. \A i \in 1..cbtone_size - 1 :
          i >= cbtone_ready' => Harmless(cbtone'[Slot(i)'].duration)
    BY <1>2, <2>1 DEF FreeInv, FreeOK
  <2>3. cbtone'[cbtone_rd'].duration > left'
    BY <1>1, <1>3, <2>1
  <2> QED BY <2>2, <2>3 DEF FreeOK
<1>4. CASE cbtone[cbtone_rd].duration <= left
  <2>1. /\ cbtone_ready > 0 /\ cbtone_ready' = cbtone_ready - 1
        /\ cbtone_rd' = (cbtone_rd + 1) % cbtone_size
        /\ cbtone'[cbtone_rd].duration = 0
        /\ \A slot \in Slots : slot # cbtone_rd => cbtone'[slot] = cbtone[slot]
    BY <1>1, <1>4, MixRest, EndsTone
  <2>2. PICK n \in Periods : left' < n
    BY <1>1, <1>4, <2>1, MixRestTrack
  <2>3. /\ \A i \in 0..cbtone_size - 2 : Slot(i)' = Slot(i + 1)
        /\ Slot(cbtone_size - 1)' = cbtone_rd
        /\ cbtone_size = 1 => cbtone_rd' = cbtone_rd
        /\ cbtone_size > 1 => cbtone_rd' = Slot(1)
    BY <1>1, <2>1, SlotNext
  <2>4. ASSUME NEW i \in 1..cbtone_size - 1, i >= cbtone_ready'
        PROVE  Harmless(cbtone'[Slot(i)'].duration)
    <3>1. CASE i = cbtone_size - 1
      BY <2>1, <2>3, <3>1 DEF Harmless
    <3>2. CASE i # cbtone_size - 1
      <4>1. i \in 0..cbtone_size - 2 /\ i + 1 \in 1..cbtone_size - 1 /\ i + 1 >= cbtone_ready
        BY <1>1, <2>1, <2>4, <3>2
      <4> QED BY <1>2, <2>1, <2>3, <4>1 DEF FreeInv, FreeOK
    <3> QED BY <3>1, <3>2
  <2>5. ASSUME cbtone_ready' = 0
        PROVE  cbtone'[cbtone_rd'].duration <= 0 \/ cbtone'[cbtone_rd'].duration > left'
    <3>1. CASE cbtone_size = 1
      BY <2>1, <2>3, <3>1
    <3>2. CASE cbtone_size # 1
      <4>1. 1 \in 1..cbtone_size - 1 /\ cbtone_size > 1 /\ 1 >= cbtone_ready
        BY <1>1, <2>1, <2>5, <3>2
      <4>2. cbtone'[cbtone_rd'] = cbtone[Slot(1)] /\ cbtone[Slot(1)] \in Tone
        BY <1>1, <1>2, <2>1, <2>3, <4>1 DEF TypesOK
      <4>3. Harmless(cbtone[Slot(1)].duration)
        BY <4>1 DEF FreeInv, FreeOK
      <4>4. left' \in Nat /\ n \in Nat
        BY <1>1, MixTypes, PeriodAssumption, TonesAssumption DEF OnTrack, TypesOK
      <4> QED BY <2>2, <4>2, <4>3, <4>4 DEF Harmless, Tone
    <3> QED BY <3>1, <3>2
  <2> QED BY <2>4, <2>5 DEF FreeOK
<1> QED BY <1>1, <1>3, <1>4, MixSplit

LEMMA FreeStep == FreeInv /\ [TonesNext]_tonevars => FreeInv'
<1> SUFFICES ASSUME FreeInv, [TonesNext]_tonevars PROVE FreeInv'
  OBVIOUS
<1>1. OnTrack /\ TypesOK /\ ~astray
  BY TrackTypes DEF FreeInv
<1>2. CASE PutTone
  <2>1. ~astray'
    BY <1>1, <1>2 DEF PutTone, Queued, history
  <2> QED BY <1>1, <1>2, <2>1, PutToneTrack, PutToneFree DEF FreeInv
<1>3. CASE \E n \in Periods : Buffer(n)
  <2>1. PICK n \in Periods : Buffer(n)
    BY <1>3
  <2>2. /\ OnTrack' /\ ~astray' /\ cbtone_ready' > 0 /\ cbtone_ready' = cbtone_ready
        /\ \A i \in 1..cbtone_size - 1 : cbtone'[Slot(i)'] = cbtone[Slot(i)]
    BY <1>1, <2>1, BufferTrack, BufferSlot, TrackTypes
  <2>3. FreeOK'
    BY <2>2 DEF FreeInv, FreeOK
  <2> QED BY <2>2, <2>3 DEF FreeInv
<1>4. CASE Mix
  <2>1. OnTrack' /\ ~astray'
    <3>1. CASE left < cbtone[cbtone_rd].duration
      BY <1>1, <1>4, <3>1, MixPart, MixPartTrack
    <3>2. CASE cbtone[cbtone_rd].duration <= left
      <4>1. cbtone_ready > 0 /\ cbtone_ready \in Nat
        BY <1>1, <1>4, <3>2, EndsTone, TrackTypes
      <4>2. ~(cbtone_ready <= 0)
        BY <4>1
      <4> QED BY <1>1, <1>4, <3>2, <4>1, <4>2, MixRest, MixRestTrack
    <3> QED BY <1>1, <3>1, <3>2, MixSplit
  <2> QED BY <1>4, <2>1, MixFree DEF FreeInv
<1>5. CASE Elsewhere
  <2>1. /\ UNCHANGED <<cbtone, cbtone_ready, cbtone_rd, astray>>
        /\ pc' = "mix" => pc = "mix" /\ left' = left
    BY <1>1, <1>5, TrackTypes, RingKept DEF ring, history
  <2>2. OnTrack' /\ \A i : Slot(i)' = Slot(i)
    BY <1>1, <1>5, ElsewhereTrack
  <2> QED BY <1>1, <2>1, <2>2 DEF FreeInv, FreeOK
<1> QED BY <1>2, <1>3, <1>4, <1>5, StepCases

(* From memory without a duration that ends within a buffer the loop never *)
(* runs through a slot that holds no tone, however often the ring has been *)
(* used and wherever a buffer ends in a tone (channel.c lines 124-135).    *)
THEOREM HarmlessMemory == TonesSpec => StaysOnTrack
<1> DEFINE harmless == \A slot \in Slots : Harmless(cbtone[slot].duration)
<1>1. TonesInit /\ harmless => FreeInv
  <2> SUFFICES ASSUME TonesInit, harmless PROVE FreeInv
    OBVIOUS
  <2>1. OnTrack /\ ~astray
    BY InitInv
  <2>2. \A i \in 1..cbtone_size - 1 : Slot(i) \in Slots
    BY <2>1, TrackTypes
  <2> QED BY <2>1, <2>2 DEF FreeInv, FreeOK, TonesInit
<1>2. FreeInv => ~astray
  BY DEF FreeInv
<1> HIDE DEF harmless
<1>3. TonesSpec => (harmless => []~astray)
  BY <1>1, <1>2, FreeStep, PTL DEF TonesSpec
<1> QED BY <1>3 DEF StaysOnTrack, harmless
=============================================================================
