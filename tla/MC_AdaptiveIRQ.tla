--------------------------- MODULE MC_AdaptiveIRQ ---------------------------
(***************************************************************************)
(* AdaptiveIRQ instantiated for TLC.  One time unit is 10 ms: the grace   *)
(* sleep is 1 unit and the progress window of _made_progress_recently is  *)
(* 10.  The configured durations are scaled down so that several stalls,  *)
(* injections and backoffs fit inside the explored horizon.               *)
(***************************************************************************)
EXTENDS AdaptiveIRQ

CONSTANTS pcA, pcB, usart, unknown

\* A whitelist mixing an id, a resolvable name and an unresolvable one;
\* line 3 is blacklisted.  The enumeration yields the lines 1 and 2.
MCWhitelist == <<1, usart, unknown, 3, 1>>
MCBlacklist == <<3>>
MCNames == {usart, unknown}
MCResolveName == [x \in MCNames |-> IF x = usart THEN 2 ELSE NoIrq]
MCWaitPcs == {pcA, pcB}
=============================================================================
