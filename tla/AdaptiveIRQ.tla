---------------------------- MODULE AdaptiveIRQ ----------------------------
(***************************************************************************)
(* The adaptive interrupt manager, class AdaptiveIRQManager of             *)
(* adapt/adaptive_irq.py.                                                  *)
(*                                                                         *)
(* Time is time.monotonic() counted in integer units (a unit is 10 ms in   *)
(* the MC modules, the length of the grace sleep of fire_one_irq).  Every  *)
(* method of the class is an operator from a manager record m (and the     *)
(* current time t) to the record after the call, so that a caller that     *)
(* runs several methods inside one hook (WaitInterceptor) composes them    *)
(* in code order.  The actions of this module are the methods called one   *)
(* at a time by an arbitrary client, with the clock advancing between.    *)
(***************************************************************************)
EXTENDS Integers, SequencesExt

CONSTANTS
    StartTime,       \* time.monotonic() when the manager is constructed
    Warmup,          \* warmup_sec, in time units
    StallMs,         \* stall_ms, in time units
    MinBetween,      \* min_between_irqs_ms, in time units
    BaseCooldown,    \* cooldown_ms, in time units
    Epsilon,         \* epsilon, as a percentage 0..100
    Grace,           \* time.sleep(0.01) in fire_one_irq
    ProgressWindow,  \* the 0.10 s of _made_progress_recently
    Whitelist,       \* cfg irq_whitelist: a sequence of ids and names
    Blacklist,       \* cfg irq_blacklist: a sequence of ids and names
    MaxIrq,          \* cfg max_irq
    Names,           \* the IRQ names that may appear in the lists
    ResolveName,     \* _resolve_irq_name: Names -> ids \cup {NoIrq}
    NoIrq,           \* Python None for an IRQ number
    WaitPcs,         \* addresses of wait instructions in the firmware
    NoPc,            \* Python None for _last_wait_pc
    MaxTime          \* bound on the clock (a state constraint)

ASSUME /\ {StartTime, Warmup, StallMs, MinBetween, BaseCooldown, Grace,
           ProgressWindow, MaxIrq, MaxTime} \subseteq Nat
       /\ Epsilon \in 0..100
       /\ ResolveName \in [Names -> Nat \cup {NoIrq}]

VARIABLES
    now,        \* time.monotonic()
    mgr,        \* the fields of the AdaptiveIRQManager instance
    failures    \* history: failed attempts observed per line (not in code)

vars == <<now, mgr, failures>>

(***************************************************************************)
(* Candidate enumeration, done once in __init__.                           *)
(***************************************************************************)
\* _normalize_irq_list: ints kept, names resolved, unresolved names dropped.
NormalizeIrqList(items) ==
    LET resolved(it) == IF it \in Names THEN ResolveName[it] ELSE it
    IN  SelectSeq([i \in 1..Len(items) |-> resolved(items[i])],
                  LAMBDA n : n # NoIrq)

\* _enumerate_irq_lines: whitelist if non-empty, else 0..max_irq-1, then
\* blacklisted ids dropped.
EnumerateIrqLines ==
    LET bl   == ToSet(NormalizeIrqList(Blacklist))
        base == IF Len(Whitelist) > 0 THEN NormalizeIrqList(Whitelist)
                ELSE [i \in 1..MaxIrq |-> i - 1]
    IN  SelectSeq(base, LAMBDA n : n \notin bl)

\* irq_stats is a dict built from irq_list: its keys, in insertion order,
\* are the first occurrences of each line.  _pick_irq iterates this order.
IrqOrder ==
    FoldLeft(LAMBDA acc, n : IF Contains(acc, n) THEN acc ELSE Append(acc, n),
             <<>>, EnumerateIrqLines)

Irqs == ToSet(IrqOrder)

Stat == [tries : Nat, wins : Nat, coolUntil : Int]

InitMgr ==
    [lastProgress |-> StartTime,
     lastIrqTs    |-> 0,
     lastWaitPc   |-> NoPc,
     irqStats     |-> [n \in Irqs |-> [tries |-> 0, wins |-> 0, coolUntil |-> 0]]]

(***************************************************************************)
(* The methods, as operators on a manager record m at time t.              *)
(***************************************************************************)
Ready(t) == t - StartTime >= Warmup

NotifyProgress(m, t) == [m EXCEPT !.lastProgress = t]

\* Mutant: "return stalled", the spacing test dropped.
ShouldTryIrqNoSpacing(m, t) == t - m.lastProgress >= StallMs

ShouldTryIrq(m, t) ==
    /\ t - m.lastProgress >= StallMs
    /\ t - m.lastIrqTs >= MinBetween

\* Mutant: the timestamp stored in ms instead of seconds.
OnIrqFiredMs(m, t) == [m EXCEPT !.lastIrqTs = t * 1000]

OnIrqFired(m, t) == [m EXCEPT !.lastIrqTs = t]

\* Mutant: a new wait site recorded without counting as progress.
SawWaitAtNoProgress(m, pc, t) ==
    IF m.lastWaitPc # pc THEN [m EXCEPT !.lastWaitPc = pc] ELSE m

SawWaitAt(m, pc, t) ==
    IF m.lastWaitPc # pc
    THEN NotifyProgress([m EXCEPT !.lastWaitPc = pc], t)
    ELSE m

MadeProgressRecently(m, t) == t - m.lastProgress < ProgressWindow

\* random.random() < epsilon: the outcomes the configured epsilon allows.
ExploreOutcomes ==
    {b \in BOOLEAN : (b => Epsilon > 0) /\ (~b => Epsilon < 100)}

\* score(n) >= score(k), as exact rationals wins / max(1, tries).
ScoreGeq(s, k) ==
    s.wins * (IF k.tries > 1 THEN k.tries ELSE 1)
        >= k.wins * (IF s.tries > 1 THEN s.tries ELSE 1)

\* The lines _pick_irq may return: None when every line is cooling, any
\* candidate when exploring, else the first candidate (in dict order)
\* with the highest win rate, which is what max() returns.
PickIrq(m, t) ==
    LET cands == SelectSeq(IrqOrder, LAMBDA n : t >= m.irqStats[n].coolUntil)
        best  == cands[CHOOSE i \in 1..Len(cands) :
                   /\ \A j \in 1..Len(cands) :
                        ScoreGeq(m.irqStats[cands[i]], m.irqStats[cands[j]])
                   /\ \A j \in 1..(i - 1) :
                        ~ScoreGeq(m.irqStats[cands[j]], m.irqStats[cands[i]])]
    IN  IF cands = <<>> THEN {NoIrq}
        ELSE UNION {IF b THEN ToSet(cands) ELSE {best} : b \in ExploreOutcomes}

\* The cooldown a failure on a line with `fails` cumulative failures gets.
\* Mutant: off by one in the exponent, max(0, fails - 2).
BackoffOffByOne(fails) ==
    BaseCooldown * 2 ^ (IF fails - 2 > 0 THEN fails - 2 ELSE 0)

Backoff(fails) == BaseCooldown * 2 ^ (IF fails - 1 > 0 THEN fails - 1 ELSE 0)

(***************************************************************************)
(* _raise_irq(irqn) on a backend b: what uc.nvic and uc offer under each   *)
(* probed name, "absent" (missing or not callable), "returns" or "raises". *)
(* The NVIC loop calls the first callable name only: if that call raises,  *)
(* the exception leaves the loop and the other NVIC names are not tried.   *)
(* The fallback tries every callable name of uc in turn, going on after    *)
(* one that raises.  True when a call returned.                            *)
(***************************************************************************)
NvicNames == <<"set_pending", "raise_irq", "trigger_irq">>
UcNames   == <<"set_pending_irq", "raise_irq", "trigger_irq", "irq">>

RaiseIrq(b) ==
    LET callable == SelectSeq(NvicNames, LAMBDA c : b.nvic[c] # "absent")
        viaNvic  == b.hasNvic /\ callable # <<>> /\ b.nvic[Head(callable)] = "returns"
        viaUc    == \E k \in DOMAIN UcNames : b.uc[UcNames[k]] = "returns"
    IN  viaNvic \/ viaUc

\* fire_one_irq with the picked line irqn, called at time t.  The raise
\* (_raise_irq) does not touch the manager; tries is counted whatever it
\* returned.  The grace sleep makes the check run at t + Grace, and the
\* calling thread is the emulator's, so nothing updates _last_progress
\* while it sleeps.
FireOneIrq(m, t, irqn) ==
    IF irqn = NoIrq THEN m
    ELSE LET tried == [m EXCEPT !.irqStats[irqn].tries = @ + 1]
             s     == tried.irqStats[irqn]
             t2    == t + Grace
         IN  IF MadeProgressRecently(tried, t2)
             THEN [tried EXCEPT !.irqStats[irqn].wins = @ + 1]
             ELSE [tried EXCEPT !.irqStats[irqn].coolUntil =
                                    t2 + Backoff(s.tries - s.wins)]

\* Time that fire_one_irq spends asleep.
FireDuration(irqn) == IF irqn = NoIrq THEN 0 ELSE Grace

\* The history variable after an attempt on irqn: one more failure when
\* the attempt set a cooldown.
CountFailure(f, m, m2, irqn) ==
    IF irqn # NoIrq /\ m2.irqStats[irqn].wins = m.irqStats[irqn].wins
    THEN [f EXCEPT ![irqn] = @ + 1]
    ELSE f

-----------------------------------------------------------------------------
(***************************************************************************)
(* The manager driven by an arbitrary client: any public method, at any   *)
(* time, in any order.                                                     *)
(***************************************************************************)
Init ==
    /\ now = StartTime
    /\ mgr = InitMgr
    /\ failures = [n \in Irqs |-> 0]

\* Wall time passes between calls.
Tick ==
    /\ now' = now + 1
    /\ UNCHANGED <<mgr, failures>>

NotifyProgressCall ==
    /\ mgr' = NotifyProgress(mgr, now)
    /\ UNCHANGED <<now, failures>>

OnIrqFiredCall ==
    /\ mgr' = OnIrqFired(mgr, now)
    /\ UNCHANGED <<now, failures>>

SawWaitAtCall(pc) ==
    /\ mgr' = SawWaitAt(mgr, pc, now)
    /\ UNCHANGED <<now, failures>>

FireOneIrqCall ==
    \E irqn \in PickIrq(mgr, now) :
        /\ mgr' = FireOneIrq(mgr, now, irqn)
        /\ now' = now + FireDuration(irqn)
        /\ failures' = CountFailure(failures, mgr, mgr', irqn)

Next ==
    \/ Tick
    \/ NotifyProgressCall
    \/ OnIrqFiredCall
    \/ \E pc \in WaitPcs : SawWaitAtCall(pc)
    \/ FireOneIrqCall

Spec == Init /\ [][Next]_vars

\* Bound on the explored clock.
TimeBound == now <= MaxTime

-----------------------------------------------------------------------------
TypeOK ==
    /\ now \in StartTime..(MaxTime + Grace)
    /\ mgr.lastProgress \in StartTime..(MaxTime + Grace)
    /\ mgr.lastIrqTs \in 0..(MaxTime + Grace)
    /\ mgr.lastWaitPc \in WaitPcs \cup {NoPc}
    /\ mgr.irqStats \in [Irqs -> Stat]
    /\ failures \in [Irqs -> Nat]

\* Exponential backoff keyed to the line's own failures: the k-th failed
\* attempt on a line (counted independently of tries/wins) cools it for
\* cooldown_ms * 2^(k-1), measured from the end of the grace sleep.  Any
\* slip in the tries/wins bookkeeping of fire_one_irq changes the cooldown.
BackoffDoublesPerFailure ==
    [][\A n \in Irqs :
         mgr'.irqStats[n].coolUntil # mgr.irqStats[n].coolUntil
            => mgr'.irqStats[n].coolUntil - now'
                 = BaseCooldown * 2 ^ failures[n]]_vars

=============================================================================
