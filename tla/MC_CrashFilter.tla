------------------------- MODULE MC_CrashFilter -------------------------
(***************************************************************************)
(* CrashFilter instantiated for TLC.  The settings come from the sources  *)
(* a deployment uses: the environment (always strings) and a cfg dict     *)
(* (ints or strings).  The reports cover each branch of should_report:    *)
(* a lower- and an upper-case timeout/hang reason, a fault flagged MMIO,   *)
(* faults at addresses inside and outside 0x40000000/0xF0000000, and a    *)
(* report without reason or address.  Numbers are top bytes of 32-bit    *)
(* values (64 is 0x40000000, 240 is 0xF0000000).                          *)
(***************************************************************************)
EXTENDS CrashFilter

CONSTANTS NoAddr

Timeout  == <<"t","i","m","e","o","u","t">>
HangUp   == <<"H","A","N","G">>
Segv     == <<"s","i","g","s","e","g","v">>
Exchange == <<"e","x","c","h","a","n","g","e">>

MCEnv ==
    [ignore_mmio |-> {Unset}, ignore_timeout |-> {Unset, DecStr(0)},
     prefix |-> {Unset, HexStr(64)}, mask |-> {Unset}]

MCCfg ==
    [ignore_mmio |-> {Unset, PyInt(0)}, ignore_timeout |-> {Unset},
     prefix |-> {Unset, PyInt(64), HexStr(64)},
     mask |-> {Unset, DecStr(240)}]

Report(r, k, a, m) == [reason |-> r, kind |-> k, addr |-> a, isMmio |-> m]

MCInfos ==
    { Report(Timeout, "timeout", NoAddr, FALSE),
      Report(HangUp, "hang", 32, FALSE),           \* 0x20000100
      Report(Segv, "other", 64, FALSE),           \* 0x40001000
      Report(Segv, "other", 32, TRUE),
      Report(Segv, "other", 80, FALSE),           \* 0x50000000
      Report(<<>>, "other", NoAddr, FALSE) }

\* A reason of a novel class that contains the letters h,a,n,g.
MCInfosExchange ==
    MCInfos \cup {Report(Exchange, "other", 32, FALSE)}
=============================================================================
