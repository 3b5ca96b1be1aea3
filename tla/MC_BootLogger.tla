---------------------------- MODULE MC_BootLogger ----------------------------
EXTENDS BootLogger

\* Every combination the three environment switches boot reads can take:
\* BB_LOG_CSV set or unset/empty, AIDF_BB_LOG_INTERVAL_MS an integer or
\* not, MODE=adaptive with ADAPT_ENABLE=1 or not.
MCEnvs == [csvSet : BOOLEAN, intervalIsInt : BOOLEAN, adaptive : BOOLEAN]

=============================================================================
