----------------------------- MODULE BootLogger -----------------------------
(***************************************************************************)
(* The boot wiring of adapt/aidf_boot.py (boot) and the periodic PC        *)
(* sampler it always starts, adapt/bb_logger.py (enable and its worker     *)
(* thread).  Two threads interleave: the main thread, which runs boot,     *)
(* then emulates, may set the stop flag stashed on uc, and finally exits   *)
(* the process; and the sampler, a daemon thread looping over its stop     *)
(* flag.  One worker action is one statement group between the points     *)
(* where the thread can be preempted with a visible effect.  A process     *)
(* exit kills the daemon thread wherever it is; the CSV file, opened in    *)
(* append mode, survives into the next process of the campaign.  Time is   *)
(* abstracted away: the sleep only lets the other thread run.              *)
(***************************************************************************)
EXTENDS Integers, Sequences

CONSTANTS
    Envs,          \* the environments boot can read (records, see MC module)
    IoFaults,      \* whether open() and the writes may raise OSError
    MaxRows,       \* bound on the rows counted per header (saturating)
    MaxRestarts    \* bound on the processes of one campaign

ASSUME IoFaults \in BOOLEAN /\ MaxRows \in Nat /\ MaxRestarts \in Nat

\* Where the sampler thread is: not started, about to open the file, about
\* to test the flag, about to sample, sleeping; or ended.
Ended == {"done", "died", "killed"}
Alive == {"open", "check", "sample", "sleep"}

VARIABLES
    proc,          \* the main thread: "init", "running", "raised", "exited"
    env,           \* the environment of the current process
    adapt,         \* what boot did about the adaptive controller
    wpc,           \* the sampler thread's position, or "none"
    stopFlag,      \* stop_flag["stop"]
    fileOpen,      \* the sampler holds the CSV file open
    file,          \* the CSV file: per header row written, the rows after it
    restarts,      \* processes started so far, minus one
    rowsAfterStop  \* history: rows written while the flag was set (capped)

vars == <<proc, env, adapt, wpc, stopFlag, fileOpen, file, restarts,
          rowsAfterStop>>

Init ==
    /\ proc = "init"
    /\ env \in Envs
    /\ adapt = "none"
    /\ wpc = "none"
    /\ stopFlag = FALSE
    /\ fileOpen = FALSE
    /\ file = <<>>
    /\ restarts = 0
    /\ rowsAfterStop = 0

(***************************************************************************)
(* boot(uc).  The arguments of bb_logger.enable are evaluated first:       *)
(* int() of AIDF_BB_LOG_INTERVAL_MS raises ValueError out of boot, before   *)
(* any thread exists.  Otherwise enable creates the flag, starts the       *)
(* worker and returns.  In adaptive mode with ADAPT_ENABLE=1 boot then      *)
(* imports WaitInstrInterceptor and CrashFilter from .adaptive_irq, which  *)
(* defines neither: the ImportError is caught and logged.                  *)
(***************************************************************************)
Boot ==
    /\ proc = "init"
    /\ \/ /\ ~env.intervalIsInt
          /\ proc' = "raised"
          /\ UNCHANGED <<adapt, wpc>>
       \/ /\ env.intervalIsInt
          /\ proc' = "running"
          /\ wpc' = "open"
          /\ adapt' = IF env.adaptive THEN "import_failed" ELSE "skipped"
    /\ UNCHANGED <<env, stopFlag, fileOpen, file, restarts, rowsAfterStop>>

\* Someone holding uc sets uc._bb_logger_stop["stop"] (the comment of
\* enable: "so you can stop it if needed").
Stop ==
    /\ proc = "running"
    /\ ~stopFlag
    /\ stopFlag' = TRUE
    /\ UNCHANGED <<proc, env, adapt, wpc, fileOpen, file, restarts,
                   rowsAfterStop>>

\* Mutant: open(csv_path, "w"), truncating the trace of earlier processes.
WorkerOpenTruncates ==
    /\ wpc = "open"
    /\ \/ /\ env.csvSet
          /\ wpc' = "check"
          /\ fileOpen' = TRUE
          /\ file' = <<0>>
       \/ /\ ~env.csvSet \/ IoFaults
          /\ wpc' = "died"
          /\ UNCHANGED <<fileOpen, file>>
    /\ UNCHANGED <<proc, env, adapt, stopFlag, restarts, rowsAfterStop>>

\* with open(csv_path, "a") and the header row.  csv_path is None when
\* BB_LOG_CSV is unset or empty: open(None) raises TypeError and the
\* thread dies; so does an OSError.
WorkerOpen ==
    /\ wpc = "open"
    /\ \/ /\ env.csvSet
          /\ wpc' = "check"
          /\ fileOpen' = TRUE
          /\ file' = Append(file, 0)
       \/ /\ ~env.csvSet \/ IoFaults
          /\ wpc' = "died"
          /\ UNCHANGED <<fileOpen, file>>
    /\ UNCHANGED <<proc, env, adapt, stopFlag, restarts, rowsAfterStop>>

\* Mutant: `while True`, the flag never consulted.
WorkerCheckIgnoresStop ==
    /\ wpc = "check"
    /\ wpc' = "sample"
    /\ UNCHANGED <<proc, env, adapt, stopFlag, fileOpen, file, restarts,
                   rowsAfterStop>>

\* while not stop_flag["stop"]: leaving the loop leaves the with block,
\* which closes the file.
WorkerCheck ==
    /\ wpc = "check"
    /\ wpc' = IF stopFlag THEN "done" ELSE "sample"
    /\ fileOpen' = (fileOpen /\ ~stopFlag)
    /\ UNCHANGED <<proc, env, adapt, stopFlag, file, restarts, rowsAfterStop>>

\* _read_pc, time.time(), writerow of the pc or "NA", flush.  The register
\* read races with uc_emu_start on the main thread and may raise (then
\* "NA"); the row written is abstracted away, only counted.  A failing
\* write ends the thread through the with block, closing the file.
WorkerSample ==
    /\ wpc = "sample"
    /\ \/ /\ wpc' = "sleep"
          /\ file' = [file EXCEPT ![Len(file)] =
                          IF @ < MaxRows THEN @ + 1 ELSE @]
          /\ rowsAfterStop' = IF stopFlag /\ rowsAfterStop < 2
                              THEN rowsAfterStop + 1 ELSE rowsAfterStop
          /\ UNCHANGED fileOpen
       \/ /\ IoFaults
          /\ wpc' = "died"
          /\ fileOpen' = FALSE
          /\ UNCHANGED <<file, rowsAfterStop>>
    /\ UNCHANGED <<proc, env, adapt, stopFlag, restarts>>

\* Mutant: the loop goes on sampling without testing the flag again.
WorkerSleepNoCheck ==
    /\ wpc = "sleep"
    /\ wpc' = "sample"
    /\ UNCHANGED <<proc, env, adapt, stopFlag, fileOpen, file, restarts,
                   rowsAfterStop>>

\* time.sleep(max(0.001, interval_ms / 1000.0)), then the loop test.
WorkerSleep ==
    /\ wpc = "sleep"
    /\ wpc' = "check"
    /\ UNCHANGED <<proc, env, adapt, stopFlag, fileOpen, file, restarts,
                   rowsAfterStop>>

\* The process ends (the emulation returned, or the fuzzer killed it): the
\* daemon thread is killed wherever it is and the OS releases its file.
Exit ==
    /\ proc \in {"running", "raised"}
    /\ proc' = "exited"
    /\ wpc' = IF wpc \in Alive THEN "killed" ELSE wpc
    /\ fileOpen' = FALSE
    /\ UNCHANGED <<env, adapt, stopFlag, file, restarts, rowsAfterStop>>

\* The next process of the campaign starts, with the same environment and
\* the same CSV path, and boots again.
Restart ==
    /\ proc = "exited"
    /\ restarts < MaxRestarts
    /\ proc' = "init"
    /\ restarts' = restarts + 1
    /\ adapt' = "none"
    /\ wpc' = "none"
    /\ stopFlag' = FALSE
    /\ rowsAfterStop' = 0
    /\ UNCHANGED <<env, fileOpen, file>>

Worker == WorkerOpen \/ WorkerCheck \/ WorkerSample \/ WorkerSleep

Next == Boot \/ Stop \/ Worker \/ Exit \/ Restart

\* The OS keeps scheduling the sampler thread while the process lives, and
\* every statement of its loop (the sleep included) finishes: weak fairness
\* of each worker step.  Nothing obliges anyone to stop it or the process
\* to exit.
Fairness ==
    /\ WF_vars(WorkerOpen) /\ WF_vars(WorkerCheck)
    /\ WF_vars(WorkerSample) /\ WF_vars(WorkerSleep)

Spec == Init /\ [][Next]_vars /\ Fairness

-----------------------------------------------------------------------------
\* The stop is cooperative through the checked flag (spec 5): once the
\* flag is set, the sampler writes at most the one row of the iteration
\* that had already passed the flag test, however the two threads
\* interleave.
StopBoundsRows == rowsAfterStop <= 1

\* Spec 9, "guaranteed output-stream release on cancellation": once the
\* flag is set, the sampler thread ends and no longer holds the CSV file,
\* whether it was about to open it, mid-loop or asleep.
StopReleasesFile == stopFlag ~> (wpc \in Ended /\ ~fileOpen)

\* The trace survives process crashes and restarts of the campaign: the
\* sampler of a later process (after any exit, kill or I/O error of an
\* earlier one) only appends, so every header and row already in the CSV
\* stays, and only the latest header's rows grow.
TraceOnlyGrows ==
    [][/\ Len(file') >= Len(file)
       /\ \A i \in 1..Len(file) :
            /\ file'[i] >= file[i]
            /\ i < Len(file) => file'[i] = file[i]]_file

=============================================================================
