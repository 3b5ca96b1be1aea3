# TLA+ models of the adaptive interrupt controller

This directory holds TLA+ models of the adaptive interrupt-injection
controller in `src/harness/fuzzware_harness/adapt/`. The models are checked
with TLC. The controller runs inside the emulator's per-instruction callback.
It watches for the firmware stalling, usually at a WFI/WFE instruction. It
then picks an interrupt line to raise, using explore/exploit with per-line
backoff.

## 1. Inventory

| Component | Source | State | Operations |
|---|---|---|---|
| Adaptive interrupt manager | `adaptive_irq.py` | `start_ts`, `_last_progress`, `_last_irq_ts`, `_last_wait_pc`, `irq_stats[n] = {tries, wins, cool_until}`, the candidate list (fixed in `__init__`) | `ready`, `notify_progress`, `should_try_irq`, `on_irq_fired`, `saw_wait_at`, `fire_one_irq` (`_pick_irq`, `_raise_irq`, grace sleep, win or backoff), `_enumerate_irq_lines` |
| Wait interceptor | `wait_interceptor.py` | none of its own | a `UC_HOOK_CODE` hook that decodes Thumb WFI/WFE. `_on_wait` calls the manager. `_advance_pc` skips the wait. |
| State recognizer | `state_recognizer.py` | `_pcs`, `_recent` (deques, at least 8 long), `_pingpong_cnt`, `_idle_score` | `on_step(pc)`, `on_wait` (a no-op), `idle_score`, `idle_now` (≥0.6), `stalled_like` (≥0.45) |
| Global monitor | `global_monitor.py` | `_step_count`, `_tick_every` | `on_step`, `on_wait`, `on_crash`, `tick` (recognizer gate, then `adapt.consider_injection()`) |
| Crash filter | `crash_filter.py` | `_seen` counter and config | `should_report`, `record`, `reset` |
| PC logger | `bb_logger.py` | a thread, its stop flag, the CSV file | samples the PC every interval into a CSV file, opened in append mode |
| Boot wiring | `aidf_boot.py`, `__init__.py` | none | reads the environment, always starts the logger, tries to install the controller |

**How the parts interact.** The emulator calls the interceptor's hook on
every instruction, on its own thread. When the hook decodes a wait
instruction, it calls, in this order:

1. `saw_wait_at(pc)` (a new wait site counts as progress);
2. `ready()`;
3. `should_try_irq()`;
4. either `fire_one_irq()` then `on_irq_fired()`, after which the hook skips
   the wait, or `notify_progress()`.

`fire_one_irq` sleeps 10 ms on that same thread. Only then does it test
whether progress happened within the last 100 ms. The global monitor
composes the recognizer with the manager. It calls `consider_injection` and
`on_crash`, but the manager defines neither. It also imports `BBLogger` and
`WaitInterceptor`, which do not exist. `aidf_boot` builds the objects with
keyword arguments their constructors do not accept, and it swallows the
exceptions. So the only wiring that works is a direct
`WaitInstrInterceptor.install(uc, mgr)`.

**What is hard.**
- Everything runs on one thread, so a handler is atomic. The hard part is
  the order of calls and the clock:
  - the stall clock and the spacing clock interact;
  - the grace sleep blocks the thread it waits on;
  - warmup gates the first injection;
  - cooldowns and backoff run on each line's own timeline.
- The recognizer is a numeric heuristic over a sliding window.
- The failure paths degrade silently: a raise that fails, a list where every
  line is cooling, a PC write that fails.

**What makes each part correct.**
- Manager:
  - no injection before warmup;
  - a cooling line is never attempted;
  - the k-th failure on a line cools it for `base·2^(k-1)`;
  - an injection that unblocks the firmware is credited as a win;
  - a stuck wait site is eventually injected.
- Interceptor:
  - it injects only at a repeated wait site;
  - driving the manager, it keeps the manager's warmup, spacing and
    cooldown promises.
- Recognizer:
  - a single-address loop is idle;
  - an A,B,A,B spin is idle;
  - a diverse stream is not idle.
- Crash filter:
  - timeouts and MMIO faults are suppressed only when enabled;
  - novel reasons are always reported.
- PC logger:
  - after the stop flag is set, at most one more row is written;
  - the thread then ends and releases the CSV file;
  - a restarted process keeps the trace of earlier ones.

`PROJECT.json` lists every hazard, at the line where it bites, with the
properties that cover it.

## 2. Modules and how they correspond to the code

- **`AdaptiveIRQ.tla`** models the manager.
  - Each method is an operator from a manager record `m` and a time `t` to
    the record after the call: `Ready`, `NotifyProgress`, `ShouldTryIrq`,
    `OnIrqFired`, `SawWaitAt`, `PickIrq`, `FireOneIrq`. This lets callers
    compose the methods in code order within one step.
  - `PickIrq` returns the set of lines `_pick_irq` can return:
    - when random exploration is possible (`0 < epsilon`), any candidate;
    - otherwise, the first candidate in dict order with the highest exact
      `wins/max(1,tries)`, as `max()` picks it;
    - `NoIrq` when every line is cooling.
  - `_raise_irq` changes no manager state. `RaiseIrq(b)` computes its
    result on a backend `b`, which says for each probed name of `uc.nvic`
    and `uc` whether it is absent, returns or raises. Only the first
    callable NVIC name is tried; the `uc` fallback tries every name.
  - The actions of this module are the methods called one at a time by an
    arbitrary client, interleaved with `Tick`.
  - `failures` is a history variable. It counts the failures seen on each
    line independently of `tries`/`wins`.
- **`WaitInterceptor.tla`** instantiates `AdaptiveIRQ`.
  - `WaitHook(pc)` is the whole hook at a decoded WFI/WFE. It has three
    disjuncts: before warmup, inject, and progress.
  - `Execute` is the firmware running non-wait instructions for one time
    unit; on those the hook returns early.
  - `last` and `runStart` are history variables that the properties read.
- **`BootLogger.tla`** models `aidf_boot.boot` and the sampler of
  `bb_logger.enable`.
  - `Boot` is the whole of `boot`: the interval's `int()` may raise out of
    it; otherwise the sampler starts and the adaptive install's import
    fails and is logged.
  - The sampler thread is `wpc`, a position in its loop, with one action
    per step: `WorkerOpen` (open and header; `open(None)` when
    `BB_LOG_CSV` is unset kills the thread), `WorkerCheck` (the flag
    test), `WorkerSample` (read, write, flush, or an I/O error),
    `WorkerSleep`.
  - `Stop`, `Exit` and `Restart` are the main thread and the campaign:
    setting the flag (no code of the repository sets it; `enable` stashes
    it on `uc` for a caller to set, so `Stop` is modelled from spec 5),
    the process ending (which kills the daemon thread),
    and the next process booting with the same CSV path. `file` survives
    a restart: one entry per header row, counting the rows after it.
- **`StateRecognizer.tla`** models `on_step`.
  - It keeps `_recent` only. `_pcs` receives the same appends and is at
    least as long, so the three samples `on_step` reads from `_pcs` are the
    same as in `_recent`.
  - The score is the code's formula computed as an exact rational.
  - The wait bonus is 0, because nothing in the repository sets
    `last_wait_ts`.
  - `seen`, `fresh` and `alternating` are history variables.

- **`InjectionPolicy.tla`** is the abstract specification of what the
  manager promises, whatever its selection policy: an attempt only after
  warmup, at least `min_between` after the end of the previous attempt, only
  on a line that is not cooling; a failed attempt cools its line for at least
  `cooldown_ms` after the grace sleep. Its state is the clock, the end of the
  latest attempt and one cooling deadline per line. `WaitInterceptor` defines
  `Policy == INSTANCE InjectionPolicy WITH lastEnd <- mgr.lastIrqTs,
  cool <- [n |-> mgr.irqStats[n].coolUntil]`, and
  `ImplementsInjectionPolicy == Policy!Spec` is a property of the
  `wait_interceptor` run. An injecting hook maps to `Attempt`, `Execute` to
  `Tick`, every other hook to a stuttering step.
- **`CrashFilter.tla`** models `crash_filter.py`.
  - `Construct(env, cfg)` is `__init__`: each setting from the environment,
    else cfg, else the default. A Python value is abstracted to what `int()`
    does with it: an int, a decimal string, a `0x` hex string, a word.
    `Failed` stands for the `ValueError` `__init__` raises.
  - `ShouldReport` is `should_report`. A reason is a sequence of
    one-character strings; `Lower` is `str.lower()` and the substring test
    is `SubSeqs`. The address test uses `&` from `Bitwise`. A 32-bit address,
    mask or prefix is represented by its top byte: every mask used has its
    low 24 bits clear, and TLC's integers are 32-bit signed.
  - `ShouldReportCall`, `Record` and `Reset` are the three methods; `last`
    is a history variable holding the latest verdict.
- **`GlobalMonitor.tla`** composes `StateRecognizer` (same variables) with
  the pure operators of `CrashFilter`.
  - `OnStep` counts, feeds the recognizer and ticks every `tick_every` steps;
    `Tick` is the `stalled_like`/`idle_now` gate, after which the code calls
    `adapt.consider_injection()`.
  - `OnWait` calls `waiter.on_wait`; `OnCrash` filters, records, then calls
    `adapt.on_crash`.
  - The manager defines neither `consider_injection` nor `on_crash`, and the
    interceptor has no `on_wait`. The history variable `raised` records the
    `AttributeError` (or the filter's `ValueError`) an ingress call raises,
    after the statements before it took effect.

Time is `time.monotonic()` in integer units of 10 ms, the length of the
grace sleep. This keeps the code's fixed ratio of grace sleep (1) to
progress window (10).

## 3. Runs

| Run | Result | What it shows |
|---|---|---|
| `adaptive_irq_client` | pass | Under any order of calls and ticks, `BackoffDoublesPerFailure` holds: the k-th failure on a line cools it for `base·2^(k-1)`, counted independently of the code's `tries - wins`. `TypeOK` bounds the manager's timestamps. |
| `wait_interceptor` | pass | `InjectOnlyAtRepeatedWait`: a new wait site is progress, so the hook injects only at the site it saw last. `ImplementsInjectionPolicy`: the refinement below. Three `_raise_irq` backends, one whose first NVIC method raises. |
| `wait_stall_reset` | violation | A WFI hit every time unit is never injected: each hook resets the stall clock (finding 1). |
| `wins_never_credited` | violation | With `stall_ms ≥ 90 ms` no injection ever counts as a win (finding 2). |
| `pingpong_never_counts` | violation | The ping-pong counter tests `_pcs[-1]` instead of `_pcs[-2]`, so A,B,A,B,A scores 0.44 (finding 3). |
| `fresh_window_idle` | violation | The first sample of any stream scores 0.73 (finding 4). |
| `crash_filter` | pass | `VerdictMatchesPolicy`: for every source of every setting and the modelled reports, a verdict suppresses exactly the enabled timeouts, hangs and MMIO faults (flagged or in the region). Its MMIO test uses the code's own top-byte arithmetic, and the novel reason "exchange" is left to the next run. |
| `crash_hang_substring` | violation | The reason "exchange" is suppressed as a hang: `'hang' in reason` is a substring test (finding 5). |
| `global_monitor` | pass | `SingleAddressLoopIdle`: every recognizer window of a single address, reached through `on_step` after any earlier samples, is `idle_now`. `TypeOK` covers the recognizer's counter and score. |
| `crash_prefix_raises` | violation | `CrashVerdictNeverRaises` fails in one step: with the cfg prefix given as the string `'0x40000000'`, `should_report` raises `ValueError` on a segfault at an address (finding 6). |
| `monitor_tick_raises` | violation | `TickNeverRaises` fails after two `on_step` calls at one address: the gate opens and `tick()` calls the missing `consider_injection` (finding 7). |
| `boot_logger` | pass | For every environment `boot` reads, with I/O faults and one restart: `StopBoundsRows`, at most one row is written after the stop flag is set; `StopReleasesFile` (liveness), once the flag is set the sampler ends and no longer holds the file; `TraceOnlyGrows`, across exits, kills, I/O errors and the restart, the trace keeps every earlier header and row. |

The `wait_interceptor` run also checks `ImplementsInjectionPolicy`, the
refinement of the abstract `InjectionPolicy`.

Each property of a passing run has a mutant in `PROJECT.json`. A mutant is a
plausible bug, defined next to the operator it replaces, that the property
catches. The mutants are:

- a timestamp stored in ms instead of seconds;
- an off-by-one in the backoff exponent;
- `saw_wait_at` not counting a new site as progress;
- the decay without its floor;
- the diversity term without its `1 -`;
- the reason compared without lowercasing;
- `should_try_irq` returning `stalled` without the spacing test;
- the sampler looping back to its write without testing the flag;
- the sampler's loop as `while True`;
- the CSV opened with `"w"` instead of `"a"`.

**Bounds.**
- The manager has 2 lines. Enumeration goes through the whitelist,
  blacklist, name resolution and dedup paths.
- There are 2 wait sites.
- The epsilon of 20% allows both explore and exploit.
- The horizons are 14 units for the client run and 29 for the interceptor
  run. They are long enough for:
  - two failures on one line (base cooldown 2);
  - injections after a stall of 10 behind a warmup of 12;
  - the spacing gate (3) to matter.
- Any `stall_ms` of 90 ms or more behaves like the code's 1500 ms and
  140 ms. No stall that long can end inside the 100 ms progress window.
- The recognizer uses:
  - the smallest window the code allows (8);
  - the default diversity (8) and hotspot (0.55) thresholds;
  - `pingpong_min` = 3, so that `pingpong_min + 2` samples fit in the
    window;
  - the counter bounded at 6.
- The crash filter enumerates every source of each setting that matters
  (unset, int, decimal, hex string) and six reports: a timeout, a hang in
  capitals, segfaults inside and outside the MMIO region, a flagged MMIO
  fault, and an empty reason without an address.
  `_seen` is bounded at 2.
- The global monitor uses three PCs (symmetric), `tick_every` = 2 so ticks
  happen both on and off the gate, and 11 steps: the window of 8 fills
  and then evicts, so a single-address window can follow other samples.
- The interceptor's `_raise_irq` backends: a working `nvic.set_pending`;
  a raising one with `uc.irq` as fallback; and an NVIC whose first method
  raises while a later one would work, with nothing on `uc`.
- The boot and sampler run enumerates all 8 combinations of the three
  environment switches `boot` reads, lets `open` and every write fail,
  and allows one restart of the process (two processes append to the
  same CSV). Rows per header are counted up to 2.

**Fairness.** Only `boot_logger` checks liveness. Its specification has
weak fairness on each step of the sampler thread: the OS keeps scheduling
a live thread, and each statement of its loop finishes, the sleep
included. Nothing is assumed of the main thread: nobody has to set the
stop flag and the process need not exit. Its cfg turns deadlock checking
off because the last process of a campaign, once exited, stays down. The
other runs check safety only. Their clock is bounded by a state
constraint, and a constraint cuts the behaviours that liveness needs.

## 4. Not modelled, and why

- The contents of the CSV rows (timestamp, PC or `NA`) are not modelled. The
  racing register read is a sample step that may read the PC or fail; the
  spec accepts a stale sample. `__init__.py` only re-exports two classes.
- Boot's adaptive install always fails on its import, so the controller
  it would build is not composed with the sampler.
- The CPU itself is not modelled. Instruction decoding is abstracted to
  "wait at pc" or "something else".
- The global monitor's logger events (`on_coverage`, `on_new_basic_block`,
  `on_execs_per_sec`) only forward to the logger. Its imports of `BBLogger`
  and `WaitInterceptor` fail as shipped; the model is of the class as its
  code reads.
- The recognizer runs cap the ping-pong counter at 6. The code lets it grow
  on a long constant run and decays it by one per change, as spec 4.1
  prescribes. Such a stale counter adds at most 0.20, which lifts over 0.45
  only windows of four or fewer distinct addresses. Those windows are loops
  themselves, so this is not listed as a hazard.
- Three hazards of the boot and the sampler are modelled but checked by
  no property:
  - the header row each restarted process appends mid-trace;
  - the sampler dying silently when `BB_LOG_CSV` is unset;
  - `boot` raising on a non-numeric interval.

  Each is a plain branch of the model. The spec puts the logger and
  configuration loading out of scope and asks nothing of them there.
- The result of `_raise_irq` is computed (`RaiseIrq`, recorded in
  `last.raised`) but no property reads it. `fire_one_irq` discards it, and
  the hook skips the wait after any attempt, as the comment at
  `adaptive_irq.py:173` intends. The NVIC probe giving up after its first
  raising method (`adaptive_irq.py:158`) therefore only means that an
  interrupt never reaches the firmware, and the firmware's response to
  interrupts is not modelled. It is listed as a hazard without a property.
- Liveness of the injection itself is not checked. The interceptor and
  manager models need exact time arithmetic. Their clock is bounded by a
  state constraint, and an untimed abstraction would lose the warmup,
  stall, spacing and cooldown gates that decide when an injection
  happens.

## 5. Plan

1. *(done)* `AdaptiveIRQ`, `WaitInterceptor`, `StateRecognizer`.
2. *(done)* `CrashFilter` and `GlobalMonitor`, with the hang substring, the
   string-typed cfg prefix and the missing collaborator methods as findings.
3. *(done)* `InjectionPolicy` and its refinement by `WaitInterceptor`.
4. *(done)* `BootLogger`: boot, the sampler thread, process exit and
   restart, with liveness of the stop.
5. *(not done, see section 4)* Liveness of the injection: whether a
   firmware stuck at one wait site, with hooks spaced by at least
   `stall_ms`, is eventually injected.
