---------------------------- MODULE CrashFilter ----------------------------
(***************************************************************************)
(* The crash triage of adapt/crash_filter.py, class CrashFilter.           *)
(*                                                                         *)
(* __init__ resolves four settings, each from an environment variable, a   *)
(* cfg entry, or a default.  Configuration values are abstracted to what   *)
(* Python's int() does with them: an int, a decimal string, a "0x..." hex  *)
(* string, or a word that no base parses.  should_report lowercases the    *)
(* reason, tests it for the substrings "timeout" and "hang", then tests    *)
(* the MMIO flag and the address against mask/prefix (Bitwise &).  A 32-bit *)
(* address, mask or prefix is represented by its top byte: the default     *)
(* mask and every mask of the MC modules has its low 24 bits clear, so the *)
(* comparison never sees the others (TLC integers are 32-bit signed).  A   *)
(* reason is a sequence of one-character strings, so that lowercasing and  *)
(* the substring test are modelled by what they do.                        *)
(***************************************************************************)
EXTENDS Integers, SequencesExt, Functions, Bitwise

CONSTANTS
    Unset,          \* a key absent from os.environ or from cfg
    EnvChoices,     \* [Settings -> the values os.environ may hold]
    CfgChoices,     \* [Settings -> the values cfg may hold]
    Infos,          \* the crash info dicts reported, with the class of crash
                    \* the reason denotes (field kind, not read by the code)
    MaxSeen         \* bound on the explored _seen counter

Settings == {"ignore_mmio", "ignore_timeout", "prefix", "mask"}

\* Python values a setting can hold.
PyInt(n)  == [type |-> "int", val |-> n]
DecStr(n) == [type |-> "str", form |-> "dec", val |-> n]
HexStr(n) == [type |-> "str", form |-> "hex", val |-> n]
WordStr   == [type |-> "str", form |-> "word", val |-> 0]

\* int(v) (base 10) and int(v, 0) (base from the prefix) of Python: the
\* parsed number, or ok = FALSE where Python raises ValueError.
IntOf(v, base) ==
    IF \/ v.type = "int"
       \/ v.form = "dec"
       \/ v.form = "hex" /\ base = 0
    THEN [ok |-> TRUE, val |-> v.val]
    ELSE [ok |-> FALSE, val |-> 0]

\* int(v) != 0 of the two toggles.
ToggleOf(v) == [ok |-> IntOf(v, 10).ok, val |-> IntOf(v, 10).val # 0]

\* What is left when __init__ raised ValueError: no filter object.
Failed == [ok |-> FALSE]

VARIABLES
    filter,   \* the attributes __init__ set, or Failed
    seen,     \* _seen
    last      \* history: the latest should_report call and its outcome

vars == <<filter, seen, last>>

(***************************************************************************)
(* __init__: env.get(K, cfg.get(k, default)).  The toggles pass through    *)
(* int() and "!= 0".  prefix and mask are int(., 0) of the environment     *)
(* string when it is set, else the raw cfg value (or the default int),     *)
(* stored unparsed.                                                        *)
(***************************************************************************)
Construct(env, cfg) ==
    LET pick(s, dflt) ==
            IF env[s] # Unset THEN env[s]
            ELSE IF cfg[s] # Unset THEN cfg[s] ELSE dflt
        toggle(s) == ToggleOf(pick(s, PyInt(1)))
        region(s, dflt) ==
            IF env[s] # Unset
            THEN [ok |-> IntOf(env[s], 0).ok, stored |-> PyInt(IntOf(env[s], 0).val)]
            ELSE [ok |-> TRUE, stored |-> pick(s, PyInt(dflt))]
        prefix == region("prefix", 64)    \* 0x40000000
        mask   == region("mask", 240)     \* 0xF0000000
    IN  IF ~(toggle("ignore_mmio").ok /\ toggle("ignore_timeout").ok
             /\ prefix.ok /\ mask.ok)
        THEN Failed
        ELSE [ok            |-> TRUE,
              ignoreMmio    |-> toggle("ignore_mmio").val,
              ignoreTimeout |-> toggle("ignore_timeout").val,
              prefix        |-> prefix.stored,
              mask          |-> mask.stored]

\* str.lower() of a reason.
UpperCase == <<"A","B","C","D","E","F","G","H","I","J","K","L","M","N","O",
               "P","Q","R","S","T","U","V","W","X","Y","Z">>
LowerCase == <<"a","b","c","d","e","f","g","h","i","j","k","l","m","n","o",
               "p","q","r","s","t","u","v","w","x","y","z">>

\* Mutant: the reason compared without lowercasing.
LowerKept(text) == text

Lower(text) ==
    [i \in DOMAIN text |->
        IF \E k \in DOMAIN UpperCase : UpperCase[k] = text[i]
        THEN LowerCase[CHOOSE k \in DOMAIN UpperCase : UpperCase[k] = text[i]]
        ELSE text[i]]

\* Python's `needle in haystack` for strings: a contiguous substring.
HasSubstring(haystack, needle) == needle \in SubSeqs(haystack)

\* should_report(info): the returned boolean, or raised when int() of a
\* stored prefix or mask fails at the address comparison.
Returns(b) == [raised |-> FALSE, value |-> b]
Raises     == [raised |-> TRUE, value |-> FALSE]

ShouldReport(f, info) ==
    LET reason == Lower(info.reason)
    IN  CASE f.ignoreTimeout
               /\ (\/ HasSubstring(reason, <<"t","i","m","e","o","u","t">>)
                   \/ HasSubstring(reason, <<"h","a","n","g">>)) -> Returns(FALSE)
          [] f.ignoreMmio /\ info.isMmio                             -> Returns(FALSE)
          [] f.ignoreMmio /\ info.addr \in Nat ->
               LET mask == IntOf(f.mask, 10)
                   pre  == IntOf(f.prefix, 10)
               IN  IF ~mask.ok \/ ~pre.ok THEN Raises
                   ELSE Returns((info.addr & mask.val) # pre.val)
          [] OTHER                                                   -> Returns(TRUE)

\* The contents os.environ or cfg may have for the four keys.
Sources(choices) ==
    [ignore_mmio : choices["ignore_mmio"], ignore_timeout : choices["ignore_timeout"],
     prefix : choices["prefix"], mask : choices["mask"]]

Init ==
    /\ \E env \in Sources(EnvChoices), cfg \in Sources(CfgChoices) :
         filter = Construct(env, cfg)
    /\ seen = 0
    /\ last = [called |-> FALSE, info |-> CHOOSE i \in Infos : TRUE] @@ Raises

ShouldReportCall(info) ==
    /\ filter.ok
    /\ last' = [called |-> TRUE, info |-> info] @@ ShouldReport(filter, info)
    /\ UNCHANGED <<filter, seen>>

\* record(info): _seen += 1.
Record ==
    /\ filter.ok
    /\ seen < MaxSeen
    /\ seen' = seen + 1
    /\ UNCHANGED <<filter, last>>

\* reset(): _seen = 0.
Reset ==
    /\ filter.ok
    /\ seen' = 0
    /\ UNCHANGED <<filter, last>>

Next == (\E info \in Infos : ShouldReportCall(info)) \/ Record \/ Reset

Spec == Init /\ [][Next]_vars

-----------------------------------------------------------------------------
\* The triage of spec 4.4, stated over what the report denotes: a crash is
\* suppressed exactly when it is a timeout or a hang and timeout
\* suppression is on, or it is an MMIO fault (flagged, or at an address in
\* the configured region) and MMIO suppression is on.  Every other crash,
\* novel reasons included, is reported.  Checked for every verdict
\* should_report returns.
VerdictMatchesPolicy ==
    LET mask == IntOf(filter.mask, 10)
        pre  == IntOf(filter.prefix, 10)
        inRegion(i) ==
            /\ i.addr \in Nat /\ mask.ok /\ pre.ok
            /\ (i.addr & mask.val) = pre.val
        suppress(i) ==
            \/ filter.ignoreTimeout /\ i.kind \in {"timeout", "hang"}
            \/ filter.ignoreMmio /\ (i.isMmio \/ inRegion(i))
    IN  last.called /\ ~last.raised => (last.value = ~suppress(last.info))

=============================================================================
