--------------------------- MODULE WaitInterceptor ---------------------------
(***************************************************************************)
(* The WFI/WFE code hook of adapt/wait_interceptor.py driving the          *)
(* AdaptiveIRQManager.  The hook runs on the emulator thread for every     *)
(* instruction; one invocation, with every manager method it calls, is one *)
(* atomic step (the manager has no other caller and no other thread).      *)
(* The firmware is the environment: it either executes instructions that   *)
(* are not decoded as a wait (time passes, the hook returns early) or      *)
(* reaches a wait instruction at one of the addresses WaitPcs.             *)
(***************************************************************************)
EXTENDS Integers, SequencesExt

CONSTANTS StartTime, Warmup, StallMs, MinBetween, BaseCooldown, Epsilon,
          Grace, ProgressWindow, Whitelist, Blacklist, MaxIrq, Names,
          ResolveName, NoIrq, WaitPcs, NoPc, MaxTime,
          Backends  \* what uc.nvic and uc offer _raise_irq on this host (a
                    \* method may raise on one call and not on another)

ASSUME Backends # {}

VARIABLES
    now,      \* time.monotonic()
    mgr,      \* the AdaptiveIRQManager fields
    last,     \* history: what the latest wait hook did
    runStart  \* history: when the firmware began hitting lastWaitPc, or
              \* when the latest injection at it ended

vars == <<now, mgr, last, runStart>>

A == INSTANCE AdaptiveIRQ WITH failures <- [n \in {} |-> 0]

NoHook == [intercepted |-> FALSE, irq |-> NoIrq, raised |-> FALSE,
           at |-> StartTime]

Init ==
    /\ now = StartTime
    /\ mgr = A!InitMgr
    /\ last = NoHook
    /\ runStart = StartTime

\* The firmware executes one time unit of instructions that the hook does
\* not take for a wait: CPSR T-bit clear, unreadable opcode, or an opcode
\* other than 0xBF30/0xBF20.  The hook returns with no side effect.
Execute ==
    /\ now' = now + 1
    /\ UNCHANGED <<mgr, last, runStart>>

\* _code_hook at a decoded wait instruction, with _on_wait inlined:
\* saw_wait_at first, then the warmup gate, then should_try_irq deciding
\* between an injection (fire_one_irq, on_irq_fired, return True so the
\* hook advances the PC past the wait) and "progress" (notify_progress,
\* the wait executes).
WaitHook(pc) ==
    LET m1 == A!SawWaitAt(mgr, pc, now)
        restart(t, intercepted) ==
            IF pc # mgr.lastWaitPc \/ intercepted THEN t ELSE runStart
    IN
    \/ /\ ~A!Ready(now)
       /\ mgr' = m1
       /\ last' = [NoHook EXCEPT !.at = now]
       /\ runStart' = restart(now, FALSE)
       /\ UNCHANGED now
    \/ /\ A!Ready(now)
       /\ A!ShouldTryIrq(m1, now)
       /\ \E irqn \in A!PickIrq(m1, now), b \in Backends :
            LET t2 == now + A!FireDuration(irqn) IN
            /\ mgr' = A!OnIrqFired(A!FireOneIrq(m1, now, irqn), t2)
            /\ now' = t2
            /\ last' = [intercepted |-> TRUE, irq |-> irqn,
                        raised |-> irqn # NoIrq /\ A!RaiseIrq(b), at |-> t2]
            /\ runStart' = restart(t2, TRUE)
    \/ /\ A!Ready(now)
       /\ ~A!ShouldTryIrq(m1, now)
       /\ mgr' = A!NotifyProgress(m1, now)
       /\ last' = [NoHook EXCEPT !.at = now]
       /\ runStart' = restart(now, FALSE)
       /\ UNCHANGED now

HookStep == \E pc \in WaitPcs : WaitHook(pc)

Next == Execute \/ HookStep

Spec == Init /\ [][Next]_vars

TimeBound == now <= MaxTime

-----------------------------------------------------------------------------
\* The hook only injects at a wait site the firmware was already waiting
\* at: reaching a new wait site is progress (saw_wait_at), so the first
\* hook there lets the wait execute.
InjectOnlyAtRepeatedWait ==
    [][HookStep /\ last'.intercepted => \E pc \in WaitPcs :
         WaitHook(pc) /\ pc = mgr.lastWaitPc]_vars

\* The comment of saw_wait_at: "if we keep seeing the same WFI/WFE PC for
\* long, treat as stuck".  Once warmup is over and the global spacing
\* allows it, a hook at the wait site the firmware has kept hitting for at
\* least stall_ms injects an interrupt.
SameWaitStallInjects ==
    [][(/\ A!Ready(now)
        /\ mgr.lastWaitPc \in WaitPcs
        /\ now - mgr.lastIrqTs >= MinBetween
        /\ now - runStart >= StallMs
        /\ WaitHook(mgr.lastWaitPc))
       => last'.intercepted]_vars

\* fire_one_irq's grace window: when the firmware progresses right after
\* an injection (it reaches another wait site within the progress window)
\* the injected line is credited with a win.
ProgressAfterInjectionCredited ==
    [][(/\ last.intercepted /\ last.irq # NoIrq
        /\ now - last.at < ProgressWindow
        /\ \E pc \in WaitPcs \ {mgr.lastWaitPc} : WaitHook(pc))
       => mgr.irqStats[last.irq].wins > 0]_vars

\* The hook driving the manager keeps the manager's promises (spec 3, 4.3,
\* 8): every injection attempt comes after warmup, min_between after the
\* end of the previous one (_last_irq_ts), and on a line that is not
\* cooling, and a failed one cools its line for at least cooldown_ms after
\* the grace sleep.  Hooks that do not inject refine stuttering steps.
Policy == INSTANCE InjectionPolicy
              WITH lastEnd <- mgr.lastIrqTs,
                   cool <- [n \in A!Irqs |-> mgr.irqStats[n].coolUntil],
                   Lines <- A!Irqs

ImplementsInjectionPolicy == Policy!Spec

=============================================================================
