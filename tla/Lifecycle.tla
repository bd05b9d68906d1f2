----------------------------- MODULE Lifecycle ------------------------------
(***************************************************************************)
(* The life of a modem object and the two threads that meet in it.  The    *)
(* main thread runs Python code, and the methods start, stop and the       *)
(* destructor of module/module.c with all they call in channel.c,          *)
(* mskmodem.c and sound_jack.c.  JACK's audio thread runs process for      *)
(* every buffer while the client is active and calls Python functions from *)
(* it.                                                                     *)
(*                                                                         *)
(* Python code runs under the interpreter lock, which a thread gives away  *)
(* between two bytecodes when the other asks for it, or while it waits for *)
(* a line from the terminal.  The methods do not give it away.             *)
(*                                                                         *)
(* External: jack_deactivate and jack_client_close return once no process  *)
(* callback is in progress.  Without that, nothing would keep the callback *)
(* from a context that is being freed.                                     *)
(***************************************************************************)
EXTENDS Integers

VARIABLES
  gil,         \* the thread that holds the interpreter lock
  mutex,       \* the thread that holds the mutex of the tone ring
  modem,       \* the object and its contexts: "none", "open" or "freed"
  isStarted,   \* of MSKModemSoundContext
  active,      \* the JACK client is active
  main,        \* where the main thread is
  dealloc,     \* its stop is part of the destructor
  audio,       \* where the audio thread is, "idle" outside of process
  call,        \* its call of a Python function: "none", "waiting", "running"
  completion   \* a text with a completion is in the tone ring

lifevars ==
  <<gil, mutex, modem, isStarted, active, main, dealloc, audio, call, completion>>

Nobody == "nobody"

LifeInit ==
  /\ gil = Nobody /\ mutex = Nobody
  /\ modem = "none" /\ isStarted = FALSE /\ active = FALSE
  /\ main = "python" /\ dealloc = FALSE
  /\ audio = "idle" /\ call = "none" /\ completion = FALSE

-----------------------------------------------------------------------------
(* The main thread                                                         *)

TakeGil ==
  /\ main = "python" /\ gil = Nobody
  /\ gil' = "main"
  /\ UNCHANGED <<mutex, modem, isStarted, active, main, dealloc, audio, call, completion>>

GiveGil ==
  /\ main = "python" /\ gil = "main"
  /\ gil' = Nobody
  /\ UNCHANGED <<mutex, modem, isStarted, active, main, dealloc, audio, call, completion>>

Calls(object) == main = "python" /\ gil = "main" /\ modem = object

(* mpt1327Modem_init.  Without JACK g_error ends the program.              *)
Construct ==
  /\ Calls("none")
  /\ modem' = "open"
  /\ UNCHANGED <<gil, mutex, isStarted, active, main, dealloc, audio, call, completion>>

(* start: callbacks may come before the ports are connected.               *)
Start ==
  /\ Calls("open") /\ ~isStarted
  /\ active' = TRUE
  /\ main' = "connecting"
  /\ UNCHANGED <<gil, mutex, modem, isStarted, dealloc, audio, call, completion>>

Connected ==
  /\ main = "connecting"
  /\ isStarted' = TRUE
  /\ main' = "python"
  /\ UNCHANGED <<gil, mutex, modem, active, dealloc, audio, call, completion>>

(* stop                                                                    *)
Stop ==
  /\ Calls("open") /\ isStarted
  /\ main' = "deactivating"
  /\ UNCHANGED <<gil, mutex, modem, isStarted, active, dealloc, audio, call, completion>>

(* The destructor stops the modem and then frees it, which stops it once   *)
(* more to no effect.                                                      *)
BugDealloc ==
  /\ Calls("open")
  /\ dealloc' = TRUE
  /\ modem' = "freed"
  /\ main' = IF isStarted THEN "deactivating" ELSE "closing"
  /\ UNCHANGED <<gil, mutex, isStarted, active, audio, call, completion>>
Dealloc ==
  /\ Calls("open")
  /\ dealloc' = TRUE
  /\ main' = IF isStarted THEN "deactivating" ELSE "closing"
  /\ UNCHANGED <<gil, mutex, modem, isStarted, active, audio, call, completion>>

(* jack_deactivate returns.                                                *)
Deactivated ==
  /\ main = "deactivating" /\ audio = "idle"
  /\ active' = FALSE
  /\ isStarted' = FALSE
  /\ main' = IF dealloc THEN "closing" ELSE "python"
  /\ UNCHANGED <<gil, mutex, modem, dealloc, audio, call, completion>>

(* jack_client_close returns ...                                           *)
ClientClosed == audio = "idle" /\ active' = FALSE

(* ... and the contexts are freed, the tones that still wait with them.    *)
Freed == modem' = "freed" /\ completion' = FALSE

Closed ==
  /\ main = "closing"
  /\ ClientClosed /\ Freed
  /\ dealloc' = FALSE
  /\ main' = "python"
  /\ UNCHANGED <<gil, mutex, isStarted, audio, call>>

-----------------------------------------------------------------------------
(* The audio thread: sound_rx and the bits, sound_tx with its tones, then  *)
(* the samples of modem_tx.  In all but the bridge a Python function may be*)
(* called.  One buffer has room for one codeword received and one asked    *)
(* for.                                                                    *)

Advance(from, to) ==
  /\ audio = from /\ call = "none"
  /\ audio' = to
  /\ UNCHANGED <<gil, modem, isStarted, active, main, dealloc, call, completion>>

Process == active /\ Advance("idle", "receiving") /\ UNCHANGED mutex

Received == Advance("receiving", "sounding") /\ UNCHANGED mutex

LockTones == mutex = Nobody /\ Advance("sounding", "tones") /\ mutex' = "audio"

BugUnlockTones == Advance("tones", "transmitting") /\ UNCHANGED mutex
UnlockTones == Advance("tones", "transmitting") /\ mutex' = Nobody

Processed == Advance("transmitting", "idle") /\ UNCHANGED mutex

(* The three callbacks begin by waiting for the interpreter lock; the one  *)
(* for a completion does so with the mutex held.                           *)
Ensure(part) ==
  /\ audio = part /\ call = "none"
  /\ call' = "waiting"
  /\ UNCHANGED <<gil, mutex, modem, isStarted, active, main, dealloc, audio, completion>>

RecvCallback == Ensure("receiving")
TxcvCallback == Ensure("transmitting")
ComplCallback == completion /\ Ensure("tones")

(* PyGILState_Ensure, and again after every Yield.                         *)
AudioTakesGil ==
  /\ call # "none" /\ gil = Nobody
  /\ gil' = "audio"
  /\ call' = "running"
  /\ UNCHANGED <<mutex, modem, isStarted, active, main, dealloc, audio, completion>>

InPython(part) == audio = part /\ call = "running" /\ gil = "audio"

Yield ==
  /\ call = "running" /\ gil = "audio"
  /\ gil' = Nobody
  /\ UNCHANGED <<mutex, modem, isStarted, active, main, dealloc, audio, call, completion>>

(* A codeword received may switch the bridge, which is none of this.       *)
Handle == InPython("receiving") /\ UNCHANGED lifevars

(* The answer to a codeword asked for may be a text, whose tones are queued*)
(* under the mutex.                                                        *)
QueueText ==
  /\ InPython("transmitting") /\ ~completion
  /\ mutex = Nobody
  /\ completion' = TRUE
  /\ UNCHANGED <<gil, mutex, modem, isStarted, active, main, dealloc, audio, call>>

(* PyGILState_Release, on the way to the next part.                        *)
Release(part, next) ==
  /\ InPython(part)
  /\ gil' = Nobody
  /\ call' = "none"
  /\ audio' = next
  /\ UNCHANGED <<mutex, modem, isStarted, active, main, dealloc>>

RecvReturns == Release("receiving", "sounding") /\ UNCHANGED completion
TxcvReturns == Release("transmitting", "idle") /\ UNCHANGED completion
BugComplReturns == Release("tones", "tones") /\ mutex = Nobody /\ completion' = FALSE
ComplReturns == Release("tones", "tones") /\ completion' = FALSE

-----------------------------------------------------------------------------
MainNext ==
  \/ TakeGil \/ GiveGil
  \/ Construct \/ Start \/ Connected \/ Stop \/ Dealloc \/ Deactivated \/ Closed

Returns == RecvReturns \/ ComplReturns \/ TxcvReturns

(* What the audio thread does without a lock, or as soon as it gets it.    *)
Proceed == Received \/ LockTones \/ UnlockTones \/ Processed

AudioNext ==
  \/ Process \/ Proceed
  \/ RecvCallback \/ TxcvCallback \/ ComplCallback
  \/ AudioTakesGil \/ Yield \/ Handle \/ QueueText \/ Returns

LifeNext == MainNext \/ AudioNext

(* The interpreter passes its lock on to the thread that asks for it, and  *)
(* functions called from the audio thread return.                          *)
LifeFairness ==
  /\ WF_lifevars(Connected) /\ WF_lifevars(Deactivated) /\ WF_lifevars(Closed)
  /\ SF_lifevars(GiveGil) /\ SF_lifevars(AudioTakesGil)
  /\ WF_lifevars(Proceed) /\ SF_lifevars(Returns)

LifeSpec == LifeInit /\ [][LifeNext]_lifevars

-----------------------------------------------------------------------------
(* Properties                                                              *)

(* Type invariant.  The mutex is held for the tones and no longer, and the *)
(* interpreter lock for the whole of a method, its waits included.         *)
LifeTypeOK ==
  /\ gil \in {Nobody, "main", "audio"} /\ mutex \in {Nobody, "audio"}
  /\ mutex = "audio" <=> audio = "tones"
  /\ main # "python" => gil = "main"
  /\ gil = "audio" => call = "running"
  /\ modem \in {"none", "open", "freed"}
  /\ {isStarted, active, dealloc, completion} \subseteq BOOLEAN
  /\ main \in {"python", "connecting", "deactivating", "closing"}
  /\ audio \in {"idle", "receiving", "sounding", "tones", "transmitting"}
  /\ call \in {"none", "waiting", "running"}

(* The audio thread never works on contexts that do not exist yet or no    *)
(* longer, and outside of start, stop and free the flag isStarted tells    *)
(* whether it may work at all (module.c lines 176-184, channel.c 299-311). *)
ContextsLive ==
  /\ audio # "idle" => modem = "open" /\ active
  /\ main = "python" => (isStarted <=> active)

(* A process callback returns, whatever Python functions it calls, with the*)
(* mutex held or not: neither lock is ever waited for by a thread that the *)
(* holder waits for, except that the destructor and stop wait for the audio*)
(* thread (channel.c line 115, module.c lines 41-77).                      *)
CallbackReturns ==
  audio # "idle" ~> audio = "idle" \/ main \in {"deactivating", "closing"}

(* "Stops the modem" (module.c line 216).                                  *)
StopReturns == main = "deactivating" ~> main = "python"
=============================================================================
