---------------------------- MODULE GlobalMonitor ----------------------------
(***************************************************************************)
(* The composition root of adapt/global_monitor.py, class GlobalMonitor,   *)
(* over the StateRecognizer and CrashFilter of this repository and its     *)
(* AdaptiveIRQManager.  The ingress events are on_step, on_wait and        *)
(* on_crash, each one atomic step (all run on the emulator thread).        *)
(*                                                                         *)
(* The collaborators are the repository's classes, and the monitor calls   *)
(* methods some of them lack: AdaptiveIRQManager defines neither           *)
(* consider_injection nor on_crash, and WaitInstrInterceptor has no        *)
(* on_wait.  Such a call raises AttributeError out of the ingress method,  *)
(* after the statements before it took effect; `raised` records it.  (As   *)
(* shipped, the module's own imports of BBLogger and WaitInterceptor fail; *)
(* the model is of the class as its code reads.)  The logger events        *)
(* on_coverage, on_new_basic_block and on_execs_per_sec only forward to    *)
(* the logger and change no controller state.                             *)
(***************************************************************************)
EXTENDS Integers, SequencesExt

CONSTANTS
    Pcs, RecentLen, DiversityMax, TopHitPct, PingpongMin, MaxPingpong,
    Unset, EnvChoices, CfgChoices, Infos, MaxSeen,
    TickEvery,   \* GM_TICK_EVERY_STEPS
    MaxSteps     \* bound on the explored _step_count

VARIABLES
    stepCount,                           \* _step_count
    recent, pingpongCnt, idleScore,      \* the recognizer srec
    seen, fresh, alternating,            \* its history variables
    filter, cfSeen,                      \* the crash filter cflt (_seen)
    raised      \* history: what the latest ingress call raised, "none" or
                \* the missing attribute of its AttributeError

srVars == <<recent, pingpongCnt, idleScore, seen, fresh, alternating>>
vars == <<stepCount, srVars, filter, cfSeen, raised>>

SR == INSTANCE StateRecognizer

CF == INSTANCE CrashFilter WITH seen <- cfSeen,
                               last <- [called |-> FALSE, raised |-> FALSE]

Init ==
    /\ stepCount = 0
    /\ SR!Init
    /\ \E env \in CF!Sources(EnvChoices), cfg \in CF!Sources(CfgChoices) :
         filter = CF!Construct(env, cfg)
    /\ filter.ok                  \* CrashFilter() returned
    /\ cfSeen = 0
    /\ raised = "none"

\* tick() on the recognizer state s: False when neither stalled_like() nor
\* idle_now; else adapt.consider_injection(), which raises.
Tick(s) ==
    IF 100 * s.num >= 45 * s.den \/ 100 * s.num >= 60 * s.den
    THEN "consider_injection"
    ELSE "none"

\* on_step(pc): count, feed the recognizer, tick every max(1, tick_every)
\* steps.
OnStep(pc) ==
    /\ stepCount < MaxSteps
    /\ stepCount' = stepCount + 1
    /\ SR!OnStep(pc)
    /\ raised' = IF stepCount' % (IF TickEvery > 1 THEN TickEvery ELSE 1) = 0
                 THEN Tick(idleScore') ELSE "none"
    /\ UNCHANGED <<filter, cfSeen>>

\* on_wait(pc): self.waiter.on_wait(pc) is its first statement.
OnWait ==
    /\ raised' = "on_wait"
    /\ UNCHANGED <<stepCount, srVars, filter, cfSeen>>

\* on_crash(info): should_report; a suppressed crash returns; a reported
\* one is recorded (cflt.record) and then passed to adapt.on_crash().
OnCrash(info) ==
    LET verdict == CF!ShouldReport(filter, info) IN
    /\ cfSeen < MaxSeen
    /\ \/ /\ verdict.raised
          /\ raised' = "ValueError"
          /\ UNCHANGED cfSeen
       \/ /\ ~verdict.raised /\ ~verdict.value
          /\ raised' = "none"
          /\ UNCHANGED cfSeen
       \/ /\ ~verdict.raised /\ verdict.value
          /\ raised' = "on_crash"
          /\ cfSeen' = cfSeen + 1
    /\ UNCHANGED <<stepCount, srVars, filter>>

Next ==
    \/ \E pc \in Pcs : OnStep(pc)
    \/ OnWait
    \/ \E info \in Infos : OnCrash(info)

Spec == Init /\ [][Next]_vars

-----------------------------------------------------------------------------
TypeOK ==
    /\ stepCount \in 0..MaxSteps
    /\ SR!TypeOK
    /\ filter.ok
    /\ cfSeen \in 0..MaxSeen
    /\ raised \in {"none", "ValueError", "consider_injection", "on_crash",
                   "on_wait"}

\* The recognizer as the monitor feeds it (one on_step per sample): a
\* firmware spinning on one address (a `b .` loop) is recognised as idle,
\* so the tick gate opens; whenever the recent window holds a single
\* address, idle_now, whatever the samples evicted before it and the
\* ping-pong counter they left.
SingleAddressLoopIdle == SR!SingleAddressLoopIdle

\* Spec 7, "no condition in this layer is fatal", for the tick: when the
\* recognizer's gate opens (stalled_like or idle_now) on a tick_every-th
\* on_step, tick() hands over to the adaptive manager without raising.
TickNeverRaises == raised # "consider_injection"

\* Spec 7 and 7(b), for a crash report: on_crash returns, whatever the
\* filter's configuration came from; the verdict of should_report never
\* raises out of int() of a stored configuration value.
CrashVerdictNeverRaises == raised # "ValueError"

=============================================================================
