------------------------ MODULE MC_WaitInterceptor ------------------------
(***************************************************************************)
(* WaitInterceptor instantiated for TLC.  One time unit is 10 ms (the     *)
(* grace sleep); stall_ms is 100 ms, at or above which no stall can end   *)
(* inside the 100 ms progress window (the code's defaults, 1500 ms and    *)
(* the 140 ms of aidf_boot, are in the same regime).  Two wait sites and  *)
(* two interrupt lines.                                                   *)
(***************************************************************************)
EXTENDS WaitInterceptor

CONSTANTS pcA, pcB

MCWaitPcs == {pcA, pcB}
\* No whitelist: lines 0..max_irq-1, with line 0 blacklisted.
MCWhitelist == <<>>
MCBlacklist == <<0>>
MCNames == {}
MCResolveName == [x \in {} |-> NoIrq]
\* Backends for _raise_irq, one method per name at most.
Probe(names, works) == [c \in ToSet(names) |-> IF c \in DOMAIN works THEN works[c] ELSE "absent"]
\* uc.nvic.set_pending works.
NvicBackend == [hasNvic |-> TRUE, nvic |-> Probe(A!NvicNames, "set_pending" :> "returns"),
                uc |-> Probe(A!UcNames, <<>>)]
\* uc.nvic.set_pending raises; uc.irq works as the fallback.
FallbackBackend == [hasNvic |-> TRUE, nvic |-> Probe(A!NvicNames, "set_pending" :> "raises"),
                    uc |-> Probe(A!UcNames, "irq" :> "returns")]
\* uc.nvic.set_pending raises, uc.nvic.trigger_irq would work, nothing on uc.
NvicFirstRaisesBackend ==
    [hasNvic |-> TRUE,
     nvic |-> Probe(A!NvicNames, ("set_pending" :> "raises") @@ ("trigger_irq" :> "returns")),
     uc |-> Probe(A!UcNames, <<>>)]
MCBackends == {NvicBackend, FallbackBackend, NvicFirstRaisesBackend}
=============================================================================
