# SoftTSC in TLA+

This directory is the formal model of SoftTSC, the MPT1327 trunking system
controller in `src/`: a program that runs a control channel through the sound card
of a computer and sets up voice calls between radio units.  The modules follow the
code handler by handler, TLC checks them on small instances, and TLAPS proves what
matters most for every value of the constants.

Run from this directory: `tlc -config MCChannel.cfg MCChannel`, `tlapm
ChannelProofs.tla`, and so on; `PROJECT.json` lists every run, mutant, theorem,
hazard and finding, and the source lines behind every definition.

## 1. The system

| part | file | state | operations |
|---|---|---|---|
| trunking controller | `module/tsc.py` | `call`, the one call; `Call` objects kept alive by closures | `rxfunc` (RQS, RQR, RQE, RQC, MAINT), `CreateCall`, `Call.AHY`, `AHYUpdate`, `ChannelReady`, `RestartChannel`; the operator's loop in `main` |
| channel controller | `module/channel.py` | `txstate`, `ahlcount`, two queues, pending TX completion, reservation count, window about to open, open window, `morse` | `_txcvimpl` once per half slot, `_rxcvimpl` once per codeword, `_morse_done`, `Tx`, `TxTraf` |
| codewords | `module/mpt1327.py`, FCS in `module/channel.c` | none | one class per message, `RUtoTSCDecode`, two FCS functions |
| modem glue | `module/channel.c` | receive shift register, tone ring `cbtone` with its mutex, sound ring `cbsnd` | `modem_tx`, `modem_rx`, `sound_tx`, `sound_rx`, `queue_tone`, `queue_morse`, `bridge` |
| FFSK modem | `mskmodem/mskmodem.c` | phase and bit counters; filters, discriminator, bit clock | `modem_tx`, `modem_rx` once per buffer |
| JACK client | `mskmodem/sound_jack.c` | client and ports, `isStarted` | `process` once per buffer, run, stop, free |
| extension module | `module/module.c` | the channel and the Python callbacks | interpreter lock around each callback, construction, `start`, `stop`, `morse`, `bridge`, destruction |
| system codes | `module/mpt1343.py` | none | encode and decode, national and regional |

How they interact.  JACK's audio thread calls `process` for every buffer: the modem
first hands the received samples to the glue and decodes bits, whose complete
codewords go up through `_rxcv`, then fills the buffer to send, asking for the next
64 bits through `_txcv`.  Everything the controller does happens inside these two
callbacks, on one thread, so they never overlap.  The operator's thread reads lines
from the terminal and stores a Morse text in `Channel.morse`; it is the only other
writer.  The tone ring is filled (`queue_morse`) and emptied (`sound_tx`) on the
audio thread too, under a mutex that does not nest.  When the last tone's completion
comes up, the glue calls `_morse_done`.

What is hard.

* A message with a solicited reply passes through four places: the queue, on the
  air (`txreserveditem`), the open window (`rxcomplete`), its callback.  Between any
  two, requests, replies, time-outs, idents and a disconnect may come in.
* A TX completion runs at the start of the *next* half slot and may move the
  transmitter to another channel, over whatever the state machine was going to do.
* Callbacks raise (a codeword nobody can decode), and the exception skips what
  comes after them.
* Two threads share `morse`; the handler that reads it clears it in a later step.
* Rings are indexed modulo their size by two parties at their own pace; completions
  are looked for at buffer boundaries only; the bridge is switched in the middle of
  a buffer.
* Sender and receiver each have a clock of their own making: the receiver never sees the
  last sample of a buffer, and its bit clock has to make up for it out of the bits themselves.
* The methods of the modem object hold the interpreter lock while they wait for the audio
  thread, and the audio thread holds the mutex of the tones while it waits for the
  interpreter lock.
* Everything that must eventually happen (windows close, idents end, messages go
  out) depends on something else happening first.

What makes each part correct is in section 3, property by property.  The hazards, each at its
line, are listed in `PROJECT.json`.

## 2. The modules

```
  AirInterface  <== refined by ==  Channel  <== EXTENDS ==  TSC  == refines ==>  CallService
                                      |                      |
                                 ChannelProofs  <== EXTENDS == TSCProofs  <== OutcomeProofs

  ToneQueue     <== refined by ==  Tones  <-- TonesProofs

  SoundBridge, Lifecycle  <== EXTENDS ==  Audio  <-- AudioProofs

  Codewords     <== EXTENDS ==     Link, Syscode  <-- LinkProofs (EXTENDS CyclicProofs)

  Modulator, BitClock <- Demodulator  <== EXTENDS ==  Modem  <-- ModemProofs
```

**AirInterface** is what a radio unit may rely on: sync word then address codeword,
changes between control and traffic channel behind a complete message only,
every slot reserved for a reply withdrawn from random access, silence during an
ident.

**Channel** is `channel.py`.  One action per branch of `_txcvimpl`; all of them begin
with `Begin`, the common start of the function (time-out, TX completion, window).
`TxMorse`/`TxMorseClear` are the one handler that is two actions, because
the operator's thread can act between its two statements; `pc` tells where the audio
thread is.  `RxMore`, `RxLast` and `RxRaises` are `_rxcvimpl` in a window: more to come, reply
complete, callback raised.  `Submit` is `Tx` and `TxTraf`.  The layer above is left open:
what its callbacks queue is any member of `Bursts`.  `lastcw` is the codeword of the
half slot just sent (the code keeps it for its log), `ident` the text the modem is
sounding.  `remaining` stops at zero where the code counts below it, since only
`remaining > 0` is asked.

**TSC** is `tsc.py` on top of it.  Every action is an action of `Channel` with the
open parts filled in: `HalfSlot` supplies `AHYUpdate` on a time-out, `Reply` the
same on an answer, `CreateCall`, `Busy`, `Refuse`, `Ignore`, `Presel` and
`Disconnect` are the cases of `rxfunc`.  A call is an identifier, reused only once
nothing refers to it.  `carried` is a history variable: the call whose grant moved
the transmitter to the traffic channel.

**CallService** is what the parties of a call may rely on: a call goes from *asked* to *granted* and
*carried*, or to *refused*, or is dropped, and never back; the caller whose unit is not heard of in time hears
of it, and only he; the traffic channel is on the air exactly while a call is carried, the current one only
once those given up are through; each hang-up leads back to the control channel once.  It has no queues, no windows and
no time.  The stage of a call in `TSC` is told by where its outcome is (`StageOf`), `owed` by the CLEARs
queued that lead back.  A half slot of the controller is one step of the service, though it may
close one call's window and take another call's message off the queue: `Waits` is the first part, the rest of
`HalfSlot` the second.

**ToneQueue** and **Tones** are the tone synthesiser of `channel.c`.  `NextChar`,
`PutTone`, `Bomb` are `queue_morse` and `queue_tone` tone by tone (`Bomb` is the
return that skips the unlock); `Buffer`, `Mix`, `Mixed` are the loop of `sound_tx`,
one step per slot the loop reads.  Signals are durations in samples; the
sine is left out.  `ToneQueue` counts the samples of its first tone and the room left in the buffer, so that
a tone goes only when it has been sounded for its whole duration; the ring, which counts its durations down,
tells it by the history variable `sounded`.  The memory of the ring is what `g_new` happens to return
(`Unwritten`).  The history variable `astray` says that the loop has run through a slot with no tone of anybody's, which
that memory can make it do; what the properties say of the ring, they say until then.

**SoundBridge** is `cbsnd`: `Receive`, `Bridge`, `Transmit` in the order in which one
JACK buffer calls them.  A sample is told by its place in the buffer at hand.

**Lifecycle** is the life of the modem object: the main thread's `Construct`, `Start` and
`Connected`, `Stop` and `Deactivated`, `Dealloc` and `Closed` (a method that waits is two
actions, and keeps the interpreter lock in between), and the audio thread's way through
`process`, with the three places where it calls a Python function, one of them under
the mutex of the tones.  The interpreter lock may change hands between any two bytecodes
(`GiveGil`, `Yield`).  The destructor goes through the same steps as `stop` and then on to the
end; a second `start`, or a `stop` of a modem that is not started, changes nothing and is no action.
External: `jack_deactivate` and `jack_client_close` return when no callback is in progress, as
libjack does.

**Audio** composes the two: `process` begins with `sound_rx` (`Begin`), a handler called from
the bits may switch the bridge (`Switch`), `sound_tx` comes before the mutex (`Sound`).

**Codewords** is `mpt1327.py` with the check sequence.  A codeword is the set of the
positions of its ones; a class is its constant bits and a table of fields, each with
its shift and its width; one `Encode` and one `Decode` stand for the `cw` and `decode`
methods.  The acknowledgements and `MAINT` have both methods, with shifts and masks of
their own, and so a table for either (`ACKRead`, `MAINTRead`); for all others the code has one direction
only, and the other is the radio unit's, which goes by the same table.  `RUtoTSCDecode` is the code's dispatch,
its missing classes (`KeyError`) included.  `Remainder`, `Checked` and `Fcs` are both
`mpt1327_channel_fcs` and `mpt1327_fcs_py`, which are the same steps in two languages.

**Link** is `modem_tx` and `modem_rx` of `channel.c`: a half slot is put together, then
its 64 bits arrive one by one (`Bit`) in `rx_cw`, whose contents are taken for a codeword
whenever the check sequence is right.  `Say` may come with received errors
(`Noise`).  `half`, `left`, `sent`, `said` are the air; the receiver sees its register
only.  `quiet` is a history variable: the bits since a codeword was last completed, counted up to fourteen.
That a sync word precedes every message is what `Framed` of Channel shows.  `Raised`
is the half slot of a `_txcv` that raised: `None` is no number, what is converted is -1, and a
codeword of ones goes out.

**Syscode** is `mpt1343.py` with the same tables of fields.

**Modulator** is `modem_tx` of `mskmodem.c` sample by sample, with angles in eightieths of a
cycle.  **BitClock** is the phase-locked loop at the end of `modem_rx`, **Demodulator** what comes before it:
band filter, crossings, monostable, discriminator and low-pass filter.  Both filters have the code's fifty
coefficients each; samples are integers, in units of 1/400 (`Sine`), and coefficients in units of 1E-7, so that the sums are exact
where the code's are floating point.  The code keeps the last fifty samples in a ring and sums them up for each
output; `Convolved` adds each sample to the fifty sums it has a part in.  The discriminator's ring is a set of ages.  **Modem** puts the
modulator of one station and the demodulator of another together: each sample sent is heard,
or is the one that `modem_rx` leaves out at the end of a buffer (`Skip`).  The two have nothing to do with each other:
the sender starts anywhere in a buffer of the receiver (`Offsets`).
A transmission begins with reversals, as `PREAMBLE` of every sync word has it.

**MC\*** modules hold model values for TLC, **\*Proofs** the theorems.  Operators
named `Bug...` are mutations used by the mutant runs; no specification reaches them.

## 3. What the runs check

### channel (MCChannel.cfg, 96 864 states)

Safety: `Framed`, `Aligned` (nothing ever breaks a slot in two), `IdentExclusive`
(the completion that forces state 0 comes at no other time than in an ident),
`TrafficWordReady` (state 3 never pops an empty queue), and `AirSpec`, the refinement
of `AirInterface`: mode is `txstate`, the word on the air is `lastcw`, and the slots owed
are `txreserved` less the slot that the message itself addresses.
Liveness: `QueueDrains`, `IdentTaken`, `IdentEnds`, `WindowCloses`.

Bounds.  `SlotTimeout = 4` and `FrameSlots = 5` are the code's values.  `MaxLen = 2`
has a reply of one slot, and one of two, with a withdrawn slot between.  `MaxQueue = 1` per queue is
enough for a queue to be empty, non-empty and refilled between any two half slots;
what the order *inside* a queue does is the business of `tsc`.  `MCBursts` has one item of each
kind that can be built: plain, soliciting, moving to traffic, moving to control.

### tsc (MCTSC.cfg, 54 722 states)

Safety: `OneOutcome` (the outcome of a call is waiting in one place at a time: a
reply and a time-out never both count), `NoStrandedTraffic` (for a call that was given up a CLEAR that
leads back is still queued), `WindowKept` (the window of the current call is not
replaced), `ServiceSpec`.  Liveness: `CallDecided`, `GrantCarried`, `BackToControl`.

`MovesOn` is the safety that the first two of these rest on.  `Waits` ranks the place where a call is waiting by
the half slots that its stage can last: the position of its message in the queue, plus the window behind it if the message is an
ahoy, or what is left of the window.  While the stage lasts, each control slot and each half slot with the window about to open or open brings the
rank down, and nothing in between raises it: no reservation, reject, hang-up, ident or other call.  The one exception
is the finding `call_times_out`, an answer that cannot be decoded.

Bounds.  Two calls alive at a time: the old one in closures and queues, the new one
in `call`.  `RaQueue = 2` is the length of the queue up to which a random access
message may still queue something; `MaxQueue = 6` leaves room above it for
what callbacks add, so a time-out or a reply is never held back by the bound, and
for two clear-downs on the traffic queue.  One text is enough: the
texts are told apart in `text_kept` only.

`ServiceSpec` is the refinement of `CallService`.  Every action and every disjunct of the abstract
specification is needed: without it some step of `TSC` has nothing to be mapped to.

### tones (MCTones.cfg, 58 382 states)

`TonesTypeOK` (the ready count is the distance of the indices), `FifoSpec`
(refinement of `ToneQueue`: every tone sounded once, for exactly the samples it was queued with over all the buffers it
falls into, in order and without a gap, no completion
passed over), both until the loop is led astray; `StaysOnTrack` (it never is, if no slot starts out with a
duration that ends within a buffer: the tones leave none behind) and `IdentSounded` (a text taken up is completed, or
the ring ran full, or the loop went astray).

Bounds.  Ring of 7, dot of 2 samples, buffers of 1, 3 and 8 samples: shorter than a
tone, straddling tones, and as long as the completion's.  Texts short
enough that two in a row fill the ring exactly and wrap its indices, and one of eleven
tones that does not fit.  `Unwritten` durations 0, 1 and 9, in every slot any of them, stand for
the memory `g_new` returns: nothing, something that ends within a buffer and something that outlasts every buffer.
The loop of `sound_tx` runs past the last tone into whatever is there.  A pointer of that memory that is not null
would be called as a completion; where that leads is not followed.  The system stops when
the ring runs full, hence `CHECK_DEADLOCK FALSE`; what that means is `long_text`.

What a short duration in the memory means.  The exception `astray` is no formality: `g_new` (`channel.c:291`) does not
initialise the ring, though memory fresh from the system is zero.  With `Unwritten = {1}`, a
ring of ten and the short texts only, TLC finds `TemporarilyInterrupted` of `long_text` violated without any text being too long:
the loop runs on behind the last tone, the ready count falls below zero (`channel.c:131`), the tones of the next text bring it back to zero,
none of them is sounded and its completion is never called.  `g_new0` would rule this out, as `StaysOnTrack` shows.

### audio (MCAudio.cfg, 4 902 states)

`BridgeTypeOK` (between buffers the ring is empty: no delay builds up) and `Relayed`
(what was received with the bridge on is sent at once, whole; nothing else ever is),
however often the bridge is switched between reception and transmission, the modem stopped and
started.  `LifeTypeOK` (who holds which lock where), `ContextsLive` (the audio thread works on
live contexts, and `isStarted` tells outside of the methods whether it may work at all) and,
under fairness, `CallbackReturns` (the audio thread gets through `process`, whatever it calls,
unless the main thread is stopping the modem).

Bounds.  Ring 30 and buffer 3 are ten buffers to the ring, as 10240 and the
recommended 1024 are.  `Relayed` does not hold for buffers that do not divide the ring: the second
`memcpy` of `sound_rx` starts at the front of the buffer again.  A buffer has room for one
codeword received and one asked for: 64 bits are 2560 samples, more than a buffer.
One object, one text in the tone ring at a time.  `CHECK_DEADLOCK FALSE` because the object is
freed in the end, and because `stop` may stop everything; what that means is `stop_returns`.

### modem (MCModem.cfg, 1 874 117 states)

`Continuous` (the sine has no jumps), `WordTime` (words are asked for in the time of a word),
`BitSpacing` (bits come out 38, 40 or 44 samples apart, whatever is received) and `EachBitOnce`:
behind the preamble every bit is taken once, as it was sent, between the middle of the next bit on the air and
that of the one after.  That is what the two filters make of it, each of which delays the signal by
half of its length and smears a bit over its neighbours.

Bounds.  Words of four bits, three of them, in any order and with silence between
transmissions: runs of one to six zeros and up to four ones.  A buffer of 128 samples is an eighth of the
recommended 1024, so that eight times as many samples
are left out: a run of six bits is as hard on the clock as one of 48 would be.  A bit is 40 samples and
a buffer 128, whose common divisor is eight; so the sender starts at each of eight offsets in a buffer, and between them the
end of a buffer comes at every one of the forty samples of a bit.  The preamble is
sixteen bits here and 48 in the code.  In this instance the clock has locked after nine reversals at the latest;
with buffers of 1024, where the correction by the left out sample is rarer, a transmission that begins at the
wrong moment of the bit clock was seen to take up to 53.  With
buffers of 64 or less bits are lost in the model, as they are when the C code itself is run.
One receiver clock: that the other
station's sound card is faster or slower is left out, as is noise.

### link (MCLink.cfg, 418 236 states)

`HeardWhole` (a message received without an error is heard with its last bit, whatever came before), `Unheeded` (what goes
out in the place of a message, a system codeword, the traffic sync word or the ones of a controller that
raised, is not taken for one), `ErrorsNoticed` (an odd number of errors or a
burst of up to fifteen bits silences the message, whatever came before it: there is no carrier detect and nothing else to go by),
`Understood` (class and fields come out as they went in, less the bits there is no room
for), `Synchronised` (system codewords end in the sync word of their channel) and `HeardApart` (behind a codeword
that is heard, fourteen bits go by before another can be: nothing is heard a few bits out of step, whatever is sent).

Bounds.  Every class that can be encoded or decoded; per field a message with ones in that
field and in the first ident, and more of them than the field holds, so that an overlap or a
missing mask shows.  Both system codewords for the default code and for 0x7FFF, where the test's
range stops short.  Errors in the last bit of each part, in both parts, a burst of fourteen bits, and
three far apart.  No two
half slots depend on each other beyond the 64 bits of the register, so one slot behind another is all
there is.  That nothing but messages is ever heard is no property of the program: one window in 65 536 has the
check sequence of its own contents by chance, the receiver knows no slots, and an even number of errors far
apart can pass.  `MCLink` also assumes, and TLC evaluates, `LayoutsSound` (no field of a codeword reaches into
another or into the bits that tell classes apart; every class the decoder knows decodes to itself; where a class has an
encoder and a decoder of its own, both have the same fields), `CodeSound`
(the lowest coefficient of the generator is one and its degree fits the register, it divides `x^63 + 1`, one bit shifted
through the register comes out even, and the sync words are made out of the system code zero) and the check sequences of five codewords recorded from the air, from the test of `mpt1327.py`.

### Where the code differs from what it says

| run | what TLC shows |
|---|---|
| text_kept | A text typed while the one before it is being handed to the modem is lost (`channel.py:132`). |
| no_false_busy | A call that failed stays in `call`, so call requests are rejected for a call that is nowhere (`tsc.py:67`). |
| clears_given_up | The CLEARs of a Disconnect heeded on the control channel wait in the traffic queue and end the next call (`tsc.py:100`). |
| call_times_out | A reply that cannot be decoded leaves its window open, rewound by each codeword heard (`channel.py:199`). |
| long_text | A text of more than 512 tones leaves the mutex locked; the audio thread waits for itself (`channel.c:153`). |
| stop_returns | `stop` keeps the interpreter lock while it waits for the audio thread, which may be waiting for that lock (`module.c:93`). |

Each checks one property and each is a finding in `PROJECT.json`, with the line it quotes.

## 4. Fairness

Nothing obliges a radio unit or the operator to do anything: no fairness on
reception, random access or typing.

* `WF(Transmit)`, in `TSC` `WF(Transmitter)`: JACK calls `process` for as long as the client is active, and
  the modem asks for a codeword every 64 bits.  The bounds never disable
  it in `tsc`.  In `channel` a half slot whose time-out queues nothing is always possible.
* `WF(MorseDone)`, in `TSC` `WF(IdentSent)`: an ident that is sounded ends.  This is what `IdentSounded` of `Tones`
  shows, for texts that fit the ring and memory that does not lead the loop astray; `Channel` is about those.
* `WF(AudioThread)` in `Tones`: the thread runs unless it waits for its mutex.
* `LifeFairness` in `Audio`.  Weak: the steps of a method that has begun, once what they wait
  for has come, and the audio thread between two locks.  Strong: `GiveGil` and `AudioTakesGil`,
  because CPython makes the holder of its lock give it up to a thread that asks for it
  (the switch interval), and `Returns`, because the handlers of `channel.py` have no loops and return
  however often they are interrupted.  Nothing obliges the audio server to begin another buffer
  here, or the main thread to call any method.

Some liveness properties have an exception in their statement.  `EndlessIdents`:
an operator who types a text during every ident keeps the channel silent, and
nothing in the code limits this.  `RxRaises` infinitely often: the finding
`call_times_out`.

## 5. What is proved

All theorems are for arbitrary constants under the named assumptions of the modules
(`ChannelAssumption`, `TSCAssumption`, `TonesAssumption`, `PeriodAssumption`,
`BridgeAssumption`, `ModemAssumption`), which say no more than: sizes are numbers,
model values are distinct, buffers are no longer than the completion's tone (12800
samples; JACK's longest buffer is 8192).  Of the memory that the ring of tones starts from nothing is assumed.

**Channel** (`ChannelProofs`).  `TypeOK /\ Framed /\ Aligned /\ IdentExclusive /\
TrafficWordReady` (`ChannelInv`) is inductive.  None of its parts is so alone: the
state a half slot runs in is the one the pending completion left (`StateNow`), so
`Framed` after a step needs `Aligned` before it; `Aligned` needs that no ident
starts with a completion pending (`IdentExclusive`), and `TrafficWordReady` that state 3
is entered from state 2 only, which is `Aligned` again.  From it: `ChannelCorrect`, `TypeCorrect`,
`TrafficWordIsReady`, `IdentIsExclusive`, and `ImplementsAir`, each step mapped to a step of
the air interface or a stutter.

**TSC** (`TSCProofs`).  `TSCInv` adds that everything that solicits a reply, queued, on
the air or in a window, carries a call, and that nothing in the traffic queue leads to
the traffic channel.  With it every step of `TSC` is a step of `Channel`
(`StepIsChannelStep`: the bursts of its callbacks are in `Bursts`), so
`TSCImplementsChannel` and `TSCImplementsAir` follow, with `TSCTypeCorrect`: a callback
always finds its `Call` object.

**Outcomes of calls** (`OutcomeProofs`).  None of the three safety properties of `tsc` is inductive, and they
need each other.  `OutcomeInv` adds to `TSCInv`, over the queue, the two windows, the call carried and the
current call:
`Outcomes`, a call has its outcome in one place at most; `Order`, the current call is behind those given up: no
ahoy is queued behind its own, none at all once it is sent, and once it is decided every other
outcome comes first; `Carrying`, a call is carried exactly while the channel is in a traffic
state; and `Covered`, there is an injection from the calls given up that still have a place to the CLEARs
queued that lead back.  The steps are broken into what they do to these places (time passes,
a window is decided, a window opens, an item is taken, a burst is queued), with a lemma for each.  The one
delicate step takes a last CLEAR: if it ends the current call, `Order` says that no other has a place; if it
ends one given up, that one's CLEAR takes over for whichever call had been mapped to this CLEAR.
`OneOutcomeEach`, `WindowIsKept` and `NobodyStranded` follow.

**The call service** (`OutcomeProofs`).  `ImplementsService`, from `OutcomeInv` with one more conjunct, `Rung`: a
window is about to open only behind an ahoy.  `StageIn` tells a call's stage from the same five values, and
`StagesApart` that, with one outcome each, no part of it hides another.  Then there is a lemma for each thing that
moves a stage: a burst is queued (`MarksJoined`, `BurstMarks`), a window is decided (`StageSettled`), replaced
(`StageOpens`) or goes on (`StageLess`), an item is taken (`StagePops`); and one per action of `TSC` that puts them together.
A half slot goes through the stages between its two parts, `StagesBetween`.  What the invariant is needed for:
that the window of the current call is never replaced, and that nobody is waiting when its grant is taken, is `Order`; that a taken
CLEAR ends a call that is carried is `Carrying`; that only one call moves in each part is `Outcomes`.  The hang-ups
owed are counted by a bijection between the CLEARs behind the one taken and those left (`RestartsLeft`).

**Waiting** (`OutcomeProofs`).  `CallsMoveOn`, from `OutcomeInv` and one more invariant, `Brief`: no message of `tsc.py`
solicits more than one codeword, so no slot is ever withdrawn and a control slot takes the first item of the queue
(`SlotTakesItem`).  An item taken moves all others one place up (`BehindPopped`); what is queued comes behind them
(`BehindJoined`).  A half slot without an item taken leaves the queue alone, and then `Outcomes` says that a call with an item
in it has no window that could have been counted down.  If the window of a call itself expires, or its answer is a grant, its stage
has changed (`TimeOutRefuses`, `ReplyWaits`), so nothing is claimed.  With the fairness of section 4 this is why an undecided call is decided; that
last step, from a rank that falls to *eventually*, is liveness and is TLC's.

**Tones** (`TonesProofs`).  `TonesInv` is `TypesOK`, where the thread is (`ThreadOK`), and, until the loop is led astray,
`OnTrack`: the ready count is the distance of the indices; the tones in the slots in use are proper ones (positive
duration; a completion's outlasts a buffer), less what has been `sounded` of the first one, and that is not so much that
a completion not yet called would end in this buffer.  Nothing is said of the slots not in
use: if the loop finds a duration there, the step sets `astray`.  From it `TonesCorrect`,
`RingCorrect` and `ImplementsFifo`, where a step of the ring is a step of the queue under
`Sounding`, the slots in use in order from the read index with the samples sounded added to the first.  `HarmlessMemory`
is about the other slots and needs an invariant of its own, `FreeInv`: if those started out exhausted or outlasting a buffer,
they remain so, because a tone leaves no duration behind.  The slot at the read index is the exception, since the loop may take
something off it when the tones run out: it outlasts what is left of that buffer, and is written before it is read again.

**Link** (`LinkProofs`).  `LinkInv`: the low bits of the register are the part of the half
slot received so far, and a message's half slot is its codeword and check sequence, less
the errors.  `HearsWhole` and `Understands` follow for every message, system code and error
pattern, under the hypothesis `LayoutsSound`: a closed formula about the tables, which TLC evaluates in
the run `link`.  What the cyclic code computes does not matter to these, only that it is sixteen bits.
`LinkTypeCorrect` is the type invariant with the same hypothesis; `SyscodesReadAsMade` says of the
conversions of `mpt1343.py` that they are inverse to each other, for all numbers, too long ones cut.
That every code is also made again from what is read out of it TLC evaluates for all 32 768 of them
(an assumption of `MCLink`).

**The cyclic code** (`CyclicProofs`, used by `LinkProofs`).  What the check sequence does is proved for every codeword, from its
definition.  `Remainder` is a recursive function; the induction theorems of the library take an operator as
their parameter, which the provers cannot instantiate, so `Induction` states the principle for a *set* of numbers and
follows from the well-foundedness of `<`.  By it: the register exists and has fifteen bits; it is linear (`CkLinear`,
hence `RemainderLinear`, `FcsAdded`); and a number with its remainder behind it leaves no
remainder (`Feedback`).  Codeword and check sequence together have even parity (`AcceptedEven`), so what is accepted
differs from a codeword by an even number of errors whose remainder is zero (`AcceptedErrors`).  A burst of
at most fifteen bits is no such pattern: by induction over the long division, once a bit of it has been carried,
what is left of the word ends fifteen bits below the last one carried, so that it is never nothing; and a burst
that carries nothing lies in the parity bit alone, which is an odd number (`BurstRemainder`).  Hence
`NoticesErrors`, for every message and pattern of errors; the half slot before it does not matter, since at the end of a message the
register holds its 64 bits and nothing else.  `SystemSync`: the filler of a system codeword is
the remainder of what is before it, so that by linearity and `Feedback` the system code cancels out, and the check sequence of any of the 32 768 is that
of the system code zero; the last bit follows from the parity.  `Synchronises` is the same on the air.  `SyncUnheeded`: none
of these, nor the traffic sync word, nor the codeword of ones that an exception leaves, decodes to a message.  The
hypothesis `CodeSound` is about the constants of the code alone, six closed formulas that TLC evaluates in the run `link`.

**Slips** (`CyclicProofs`, `LinkProofs`).  `HearsApart` is about a receiver that hears a codeword and, some bits later, another.
Because one bit of the check sequence is inverted, what is accepted is never a word of the code but one away from it: the upper 63 of
its bits leave the remainder of that bit (`AcceptedInCode`).  The code is cyclic over 63 bits
(`RotatedInCode`, by `TopBit`: what the topmost bit leaves is the generator divided by `x`), so the word accepted first,
rotated by a slip of `s` bits, leaves the remainder of the inverted bit moved by `s`, but for the bits that came in at the end.  If
the second were accepted too, the difference would be a word of the code no longer than a burst, and not nothing, which
`BurstRemainder` refuses (`AcceptedApart`).  `LastHeard` is the invariant that brings this on the air: what was accepted `quiet` bits ago is still in the
register, that many places up.  Without the inversion the word of 64 zeros would be a codeword, and a run of zeros would be heard as one at every bit.

**Audio** (`AudioProofs`).  `LifeInv` adds to `LifeTypeOK` and `ContextsLive` what the main thread has
done by where it is: connecting, the client is active but not yet started; closing, it no longer is; and
only an open modem is ever active.  `ImplementsBoth` shows that a step of the composition is a step of
each part or leaves it alone, so both parts keep what is proved of them: `AudioTypeCorrect`,
`AudioContextsLive`, and under the hypothesis `Divides` `AudioRelays` and `BridgeKeepsTime`.  These last two come from the bridge's own invariant
(`BridgeRelays`), which adds that both indices are multiples of the buffer that leave room for a
whole one, and that between reception and transmission the ring holds the buffer at
hand or nothing.  The external assumption on libjack is in the guards of `Deactivated` and `ClientClosed`.

**Modem** (`ModemProofs`).  For every word length, buffer, preamble and set of words: `ModemTypeCorrect`,
`WordsTakeTheirTime` (the age of a word is told by phase and bits left),
`BitsAreSpaced` (the time since the last bit is told by the count, of which there are three lengths; the
flags do not matter, so it holds for any input and any buffer boundary), `SineIsContinuous`
(at the first sample of a bit the angle goes on from the end of the bit before, since forty times the
advance is what `padj` takes up).

Only model-checked: all liveness (under fairness, out of the prover's reach), of which `CallsMoveOn` proves the part that is
safety; and `EachBitOnce`, which depends on sums of the
filters' coefficients and holds for long enough buffers and short enough runs only.

## 6. What is not modelled

* Noise, and the difference between two sound cards' clocks: analogue signal processing.
* What a completion pointer in memory that nobody wrote would call.
* Formatting, logging, the Aloha length tables (they are printed only), `MARK` (raises when
  it is made).  The handlers of `TSC` see a codeword's class and what they read of it, not
  its bits; Codewords shows that these arrive.
* `sound_pulse.c`: not built (`mskmodem/CMakeLists.txt` compiles the JACK client).
* Mixing of tones and bridged audio into one buffer by addition; both rings are modelled
  by themselves.  `modem_tx` of the FFSK modem overwrites either while a codeword is sent.
* Errors of JACK: `g_error` ends the program.  The method `tone`: it does nothing.
* Reference counts and the cyclic garbage collector (`tp_traverse`, `tp_clear`); results of callbacks are
  never released, which leaks and has no other effect.
* Construction that fails for want of arguments, after which the destructor looks into a null pointer:
  `channel.py` always passes them.
* The letter space that a space character gets on top of its word space (nine dots; the comment at
  `channel.c:202` says seven): `Space` of Tones has the code's durations, no property is about them.

## 7. Plan

1. *Done*: Channel and AirInterface; TSC and CallService; Tones and ToneQueue; SoundBridge; Codewords, Link
   and Syscode; Modulator, BitClock, Demodulator and Modem; Lifecycle and Audio; their proofs.
2. To come: that nothing queued by the trunking controller is ever lost on the composed system of TSC and
   Tones (an ident is sounded by the ring of Tones, where `TSC` has it end by itself).
