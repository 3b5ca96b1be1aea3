-------------------------- MODULE StateRecognizer --------------------------
(***************************************************************************)
(* The idleness recognizer, class StateRecognizer of                       *)
(* adapt/state_recognizer.py.  It is fed one program-counter sample per    *)
(* on_step and keeps                                                       *)
(*   _pcs     a deque of the last max(8, win) samples,                     *)
(*   _recent  a deque of the last max(8, recent_len) samples,              *)
(*   _pingpong_cnt and _idle_score.                                        *)
(* Both deques receive the same appends and hold at least 8, so the three  *)
(* samples of _pcs that on_step reads (_pcs[-1], _pcs[-3] and whether the  *)
(* length reaches 2 and 3) are those of _recent: the model keeps _recent   *)
(* only.  Addresses are model values (the code only compares them).  The   *)
(* score is the exact rational of the code's float formula; ties exactly   *)
(* at a gate (0.6, 0.45) are where float rounding could decide otherwise.  *)
(***************************************************************************)
EXTENDS Integers, SequencesExt

CONSTANTS
    Pcs,            \* program-counter values the firmware runs through
    RecentLen,      \* SR_RECENT (deque length max(8, recent_len))
    DiversityMax,   \* SR_DIVERSITY_MAX
    TopHitPct,      \* SR_TOP_HIT_RATIO, as a percentage
    PingpongMin,    \* SR_PINGPONG_MIN
    MaxPingpong     \* bound on the explored ping-pong counter

ASSUME /\ RecentLen \in Nat /\ RecentLen >= 8
       /\ PingpongMin + 2 <= RecentLen
       /\ DiversityMax \in Nat \ {0}
       /\ TopHitPct \in 0..99
       /\ PingpongMin \in Nat \ {0}

VARIABLES
    recent,       \* _recent, oldest sample first
    pingpongCnt,  \* _pingpong_cnt
    idleScore,    \* _idle_score as [num, den]
    seen,         \* history: the addresses sampled so far (not in code)
    fresh,        \* history: no sample so far repeated an earlier one
    alternating   \* history: the samples so far are A,B,A,B,... with A # B

vars == <<recent, pingpongCnt, idleScore, seen, fresh, alternating>>

ZeroScore == [num |-> 0, den |-> 1]

\* Most frequent count of an address in the window (Counter.most_common).
TopHits(w) ==
    LET count(x) == Len(SelectSeq(w, LAMBDA y : y = x))
    IN  CHOOSE c \in {count(x) : x \in ToSet(w)} :
            \A x \in ToSet(w) : count(x) <= c

MinInt(a, b) == IF a < b THEN a ELSE b
MaxInt(a, b) == IF a > b THEN a ELSE b

\* _update_idle_score: 0.55 diversity + 0.25 hotspot + 0.20 ping-pong + the
\* wait bonus, clipped to [0,1], over the common denominator
\* 100 * D * (100 - T) * L * P.  The wait bonus reads last_wait_ts of the
\* wait collaborator; no code of the repository sets that attribute
\* (getattr returns None), so the bonus is 0.
\* Mutant: the diversity part without its "1 -".
ScoreDivInverted(w, cnt) ==
    IF w = <<>> THEN ZeroScore
    ELSE LET D   == DiversityMax
             T   == TopHitPct
             P   == PingpongMin
             L   == Len(w)
             u   == Cardinality(ToSet(w))
             den == 100 * D * (100 - T) * L * P
             div == 55 * MinInt(D, u) * (100 - T) * L * P
             top == 25 * MaxInt(0, 100 * TopHits(w) - T * L) * D * P
             pp  == 20 * MinInt(P, cnt) * D * (100 - T) * L
         IN  [num |-> MinInt(den, div + top + pp), den |-> den]

Score(w, cnt) ==
    IF w = <<>> THEN ZeroScore
    ELSE LET D   == DiversityMax
             T   == TopHitPct
             P   == PingpongMin
             L   == Len(w)
             u   == Cardinality(ToSet(w))
             den == 100 * D * (100 - T) * L * P
             div == 55 * (D - MinInt(D, u)) * (100 - T) * L * P
             top == 25 * MaxInt(0, 100 * TopHits(w) - T * L) * D * P
             pp  == 20 * MinInt(P, cnt) * D * (100 - T) * L
         IN  [num |-> MinInt(den, div + top + pp), den |-> den]

IdleNow == 100 * idleScore.num >= 60 * idleScore.den

StalledLike == 100 * idleScore.num >= 45 * idleScore.den

Init ==
    /\ recent = <<>>
    /\ pingpongCnt = 0
    /\ idleScore = ZeroScore
    /\ seen = {}
    /\ fresh = TRUE
    /\ alternating = TRUE

\* The ping-pong counter update of on_step, reading the samples before pc.
\* Mutant: the decay without its floor at 0.
PingpongNoFloor(w, cnt, pc) ==
    LET L == Len(w) IN
    IF L < 2 THEN cnt
    ELSE IF w[L] = pc /\ L >= 3 /\ w[L - 2] = pc THEN cnt + 1
    ELSE IF w[L] # pc THEN cnt - 1
    ELSE cnt

PingpongNext(w, cnt, pc) ==
    LET L == Len(w) IN
    IF L < 2 THEN cnt
    ELSE IF w[L] = pc /\ L >= 3 /\ w[L - 2] = pc THEN cnt + 1
    ELSE IF w[L] # pc THEN MaxInt(0, cnt - 1)
    ELSE cnt

\* deque(maxlen=RecentLen).append: the oldest sample is evicted when full.
Push(w, pc) ==
    IF Len(w) < RecentLen THEN Append(w, pc) ELSE Append(Tail(w), pc)

\* on_step(pc): ping-pong update, append to both windows, rescore.
OnStep(pc) ==
    LET cnt2 == PingpongNext(recent, pingpongCnt, pc)
        w2   == Push(recent, pc)
    IN  /\ pingpongCnt' = cnt2
        /\ recent' = w2
        /\ idleScore' = Score(w2, cnt2)
        /\ seen' = seen \cup {pc}
        /\ fresh' = (fresh /\ pc \notin seen)
        /\ alternating' = (/\ alternating
                           /\ Len(recent) >= 1 => recent[Len(recent)] # pc
                           /\ Len(recent) >= 2 => recent[Len(recent) - 1] = pc)

Next == \E pc \in Pcs : OnStep(pc)

Spec == Init /\ [][Next]_vars

\* Bound on the explored ping-pong counter, which a constant stream grows
\* without limit.
StateBound == pingpongCnt <= MaxPingpong

-----------------------------------------------------------------------------
TypeOK ==
    /\ recent \in Seq(Pcs) /\ Len(recent) <= RecentLen
    /\ pingpongCnt \in Nat
    /\ idleScore.num \in 0..idleScore.den
    /\ seen \subseteq Pcs
    /\ fresh \in BOOLEAN
    /\ alternating \in BOOLEAN

\* A firmware spinning on one address (e.g. a `b .` loop) is recognised as
\* idle: whenever the recent window holds a single address, idle_now.
SingleAddressLoopIdle ==
    Cardinality(ToSet(recent)) = 1 => IdleNow

\* Spec 8: a strictly never-repeating sample sequence keeps the idle score
\* at 0.
NeverRepeatingScoresZero == fresh => idleScore.num = 0

\* Spec 4.1 / 8: a strictly alternating two-address sequence A,B,A,B,...
\* of at least pingpong_min + 2 samples drives the score to idle_now.
\* (recent holds every sample while fewer than RecentLen >= n were taken.)
AlternationIdle ==
    (alternating /\ Len(recent) >= PingpongMin + 2) => IdleNow

=============================================================================
