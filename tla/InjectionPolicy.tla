--------------------------- MODULE InjectionPolicy ---------------------------
(***************************************************************************)
(* What the adaptive interrupt manager promises about its injections,      *)
(* whatever its selection policy (spec 3, 4.3 and 8): an attempt happens   *)
(* only after warmup, at least min_between after the end of the previous   *)
(* attempt, and only on a line that is not cooling; an attempt on a line   *)
(* either leaves its cooling deadline alone (a success) or pushes it to at *)
(* least cooldown_ms after the attempt ends (a failure).  An attempt with  *)
(* no line available still counts for the spacing.  The clock only moves  *)
(* forward.                                                                *)
(***************************************************************************)
EXTENDS Integers

CONSTANTS StartTime, Warmup, MinBetween, BaseCooldown, Grace,
          Lines,   \* the candidate lines, fixed at construction
          NoIrq    \* an attempt that found no line to raise

VARIABLES
    now,       \* the clock
    lastEnd,   \* when the latest attempt ended (0 before any)
    cool       \* per line, the time before which it may not be attempted

vars == <<now, lastEnd, cool>>

Init ==
    /\ now = StartTime
    /\ lastEnd = 0
    /\ cool = [n \in Lines |-> 0]

Tick ==
    /\ now' = now + 1
    /\ UNCHANGED <<lastEnd, cool>>

Attempt(n) ==
    /\ now - StartTime >= Warmup
    /\ now - lastEnd >= MinBetween
    /\ n = NoIrq \/ now >= cool[n]
    /\ now' = now + (IF n = NoIrq THEN 0 ELSE Grace)
    /\ lastEnd' = now'
    /\ \/ cool' = cool
       \/ /\ n # NoIrq
          /\ cool'[n] >= now' + BaseCooldown
          /\ cool' = [cool EXCEPT ![n] = cool'[n]]

Next == Tick \/ \E n \in Lines \cup {NoIrq} : Attempt(n)

\* Checked as the property of a detailed specification, never run alone: a
\* failed attempt may set any cooling deadline from cooldown_ms on.
Spec == Init /\ [][Next]_vars

=============================================================================
