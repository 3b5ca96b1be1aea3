------------------------ MODULE MC_GlobalMonitor ------------------------
(***************************************************************************)
(* GlobalMonitor instantiated for TLC: three addresses and the smallest   *)
(* recent window (8) as in MC_StateRecognizer, a tick every 2 steps, and  *)
(* a crash filter with default toggles whose cfg may hold the MMIO prefix *)
(* as an int or a hex string.  Crash reports: a timeout, a fault in RAM   *)
(* and a fault in the MMIO region (addresses are top bytes, as in         *)
(* CrashFilter).                                                          *)
(***************************************************************************)
EXTENDS GlobalMonitor

CONSTANTS a, b, c, NoAddr

MCPcs == {a, b, c}

MCSymmetry == Permutations(MCPcs)

\* The string "0x40000000" (CrashFilter!HexStr(64)).
HexPrefix == [type |-> "str", form |-> "hex", val |-> 64]

MCEnv == [ignore_mmio |-> {Unset}, ignore_timeout |-> {Unset},
          prefix |-> {Unset}, mask |-> {Unset}]

MCCfg == [ignore_mmio |-> {Unset}, ignore_timeout |-> {Unset},
          prefix |-> {Unset, HexPrefix}, mask |-> {Unset}]

Report(r, k, addr) == [reason |-> r, kind |-> k, addr |-> addr, isMmio |-> FALSE]

MCInfos ==
    { Report(<<"t","i","m","e","o","u","t">>, "timeout", NoAddr),
      Report(<<"s","i","g","s","e","g","v">>, "other", 32),    \* 0x20...
      Report(<<"s","i","g","s","e","g","v">>, "other", 64) }   \* 0x40...
=============================================================================
