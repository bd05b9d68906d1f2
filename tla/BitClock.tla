------------------------------ MODULE BitClock ------------------------------
(***************************************************************************)
(* The bit clock of modem_rx in mskmodem/mskmodem.c (lines 197-236): it    *)
(* counts the samples of a bit, turns the count back a little sooner or    *)
(* later than after 40 samples when the detected bits change early or late *)
(* in it, and hands a bit to rx_f whenever the count starts again.         *)
(***************************************************************************)
EXTENDS Integers

VARIABLES
  slast,      \* the bit detected last
  pll_count,  \* samples since the count started
  pll,        \* FALSE in the second half of the count
  pll_early,  \* the bits changed early, or late, since the count started;
  pll_late,   \* forgotten at the end of a buffer
  since       \* HISTORY: samples since the last call of rx_f

clockvars == <<slast, pll_count, pll, pll_early, pll_late, since>>

Never == -1

ClockInit ==
  /\ slast = 0 /\ pll_count = 0 /\ pll = TRUE
  /\ pll_early = FALSE /\ pll_late = FALSE
  /\ since = Never

Early(b) == pll_early \/ (pll_count < 19 /\ b # slast)
Late(b) == pll_late \/ (pll_count > 21 /\ b # slast)

BugReset(b) ==
  \/ pll_count = 37 /\ Early(b) /\ ~Late(b)
  \/ pll_count = 39 /\ (Early(b) <=> Late(b))
BugSwapped(b) ==
  \/ pll_count = 37 /\ Late(b) /\ ~Early(b)
  \/ pll_count = 39 /\ (Early(b) <=> Late(b))
  \/ pll_count = 43
Reset(b) ==
  \/ pll_count = 37 /\ Early(b) /\ ~Late(b)
  \/ pll_count = 39 /\ (Early(b) <=> Late(b))
  \/ pll_count = 43

(* rx_f is called with the bit that the sample completes.                  *)
BugTakes == pll_count <= 20
Takes == pll_count <= 20 /\ ~pll

(* One sample, out of which b was detected.                                *)
Tick(b) ==
  /\ slast' = b
  /\ pll' = (pll_count <= 20)
  /\ pll_count' = IF Reset(b) THEN 0 ELSE pll_count + 1
  /\ pll_early' = (Early(b) /\ ~Reset(b))
  /\ pll_late' = (Late(b) /\ ~Reset(b))
  /\ since' = IF Takes THEN 1 ELSE IF since = Never THEN Never ELSE since + 1

(* The flags are variables of a call, which ends with the buffer, one      *)
(* sample of which is left out.                                            *)
EndBuffer ==
  /\ pll_early' = FALSE /\ pll_late' = FALSE
  /\ UNCHANGED <<slast, pll_count, pll, since>>

-----------------------------------------------------------------------------
(* Properties                                                              *)

(* Whatever is detected and wherever the buffers end, a bit is 38, 40 or 44*)
(* samples long: the clock neither stops nor hands out a bit twice (the    *)
(* conditions of lines 211-219 leave no way around the reset).             *)
BitSpacing == Takes => since \in {Never, 38, 40, 44}
=============================================================================
