----------------------------- MODULE RateLimits -----------------------------
(***************************************************************************)
(* The three rate limiters: src/govwin/rate_limiter.py counts the calls of *)
(* a rolling hour and refuses, src/hubspot/rate_limiter.py counts those of *)
(* ten seconds and sleeps, src/ace/rate_limiter.py keeps a bucket of       *)
(* tokens for reads and one for writes and sleeps.  Each belongs to one    *)
(* client object of one invocation, which makes its calls one by one; what *)
(* concurrent invocations do together is not limited by anything here.     *)
(*                                                                         *)
(* A behaviour is about one limiter.  Time is counted in ticks; calls has  *)
(* the calls at the tick they leave, the other variables what the limiter  *)
(* knows.  A call is taken to be with the service when it leaves: one that *)
(* is slow to connect may arrive closer to the next one.                   *)
(***************************************************************************)
EXTENDS Integers, Sequences, FiniteSets

CONSTANTS
    Window,    \* _window_seconds of the two windows
    Quota,     \* calls the service allows in a window
    Margin,    \* safety_margin, buffer: calls of the quota left unused
    Rate,      \* reads and writes AWS allows in a second, and at once
    Second,    \* ticks in a second
    MaxTicks,  \* bound: the clock
    MaxCalls   \* bound: calls in a behaviour

Kinds == {"read", "write"}

ASSUME LimitAssumption ==
    /\ \A n \in {Window, Quota, Margin, Second, MaxTicks, MaxCalls} : n \in Nat
    /\ Margin < Quota /\ Second > 0
    /\ Rate \in [Kinds -> Nat \ {0}]

VARIABLES
    ticks,
    limiter,  \* the limiter the behaviour is about
    stamps,   \* the calls a window knows of
    tokens,   \* per kind: the tokens of a bucket, a Second-th of one each
    refilled, \* when the buckets were refilled last
    turn,     \* the call under way
    calls,    \* the calls so far, as they left for the service
    unstamped \* GovWin: calls that got no answer and were not recorded

lvars == <<ticks, limiter, stamps, tokens, refilled, turn, calls, unstamped>>

Limiters == {"govwin", "hubspot", "ace"}
Free     == [pc |-> "free", kind |-> "read", wake |-> 0]
Capacity(kind) == Rate[kind] * Second

LimitInit ==
    /\ ticks = 0 /\ limiter \in Limiters /\ stamps = << >>
    /\ tokens = [kind \in Kinds |-> Capacity(kind)] /\ refilled = 0
    /\ turn = Free /\ calls = << >> /\ unstamped = 0

-----------------------------------------------------------------------------
(* Helpers.                                                                *)

\* The service gets a call.
Call_(kind) ==
    /\ Len(calls) < MaxCalls
    /\ calls' = Append(calls, [kind |-> kind, tick |-> ticks])

\* _prune_old_calls, _prune: the old stamps go; they are the first ones.
Recent(s) == LET old == {i \in DOMAIN s : s[i] <= ticks - Window}
             IN  SubSeq(s, Cardinality(old) + 1, Len(s))

\* _effective_limit, _max_requests.
Limit == Quota - Margin

Smaller(a, b) == IF a < b THEN a ELSE b

\* Mutant: the bucket has no capacity.
Refilled_NoCap == [kind \in Kinds |-> tokens[kind] + (ticks - refilled) * Rate[kind]]

\* _refill.
Refilled == [kind \in Kinds |->
    Smaller(Capacity(kind), tokens[kind] + (ticks - refilled) * Rate[kind])]

LimitTick ==
    /\ ticks < MaxTicks /\ ticks' = ticks + 1
    /\ UNCHANGED <<limiter, stamps, tokens, refilled, turn, calls, unstamped>>

-----------------------------------------------------------------------------
(* GovWin: acquire, the call, and record_call once it is answered.         *)

AcquireGovWin ==
    /\ limiter = "govwin" /\ turn = Free
    /\ stamps' = Recent(stamps)
    /\ turn' = IF Len(stamps') + 1 <= Limit THEN [Free EXCEPT !.pc = "calling"] ELSE Free
    /\ UNCHANGED <<ticks, limiter, tokens, refilled, calls, unstamped>>

CallGovWin ==
    /\ turn.pc = "calling" /\ Call_("read")
    /\ turn' = [turn EXCEPT !.pc = "called"]
    /\ UNCHANGED <<ticks, limiter, stamps, tokens, refilled, unstamped>>

RecordGovWin ==
    /\ turn.pc = "called"
    /\ stamps' = Append(stamps, ticks)
    /\ turn' = Free
    /\ UNCHANGED <<ticks, limiter, tokens, refilled, calls, unstamped>>

\* A transport error leaves _request before the call is recorded.
LoseGovWin ==
    /\ turn.pc = "called"
    /\ unstamped' = unstamped + 1
    /\ turn' = Free
    /\ UNCHANGED <<ticks, limiter, stamps, tokens, refilled, calls>>

-----------------------------------------------------------------------------
(* HubSpot: wait_if_needed, then the call.                                 *)

AcquireHubSpot ==
    /\ limiter = "hubspot" /\ turn = Free
    /\ stamps' = Recent(stamps)
    /\ turn' = [Free EXCEPT !.pc = "asleep", !.wake =
                   IF Len(stamps') < Limit THEN ticks ELSE stamps'[1] + Window + 1]
    /\ UNCHANGED <<ticks, limiter, tokens, refilled, calls, unstamped>>

\* Mutant: the sleep is cut short, and the window not looked at again.
WakeHubSpot_Early ==
    /\ limiter = "hubspot" /\ turn.pc = "asleep" /\ ticks + 2 >= turn.wake
    /\ stamps' = Append(stamps, ticks)
    /\ Call_("read")
    /\ turn' = Free
    /\ UNCHANGED <<ticks, limiter, tokens, refilled, unstamped>>

\* No sleep ends early; the call is recorded, then made.
WakeHubSpot ==
    /\ limiter = "hubspot" /\ turn.pc = "asleep" /\ ticks >= turn.wake
    /\ stamps' = Append(stamps, ticks)
    /\ Call_("read")
    /\ turn' = Free
    /\ UNCHANGED <<ticks, limiter, tokens, refilled, unstamped>>

-----------------------------------------------------------------------------
(* AWS: acquire_read and acquire_write.                                    *)

\* _consume: a token, or the time until there will be one.
AcquireAce(kind) ==
    /\ limiter = "ace" /\ turn = Free
    /\ refilled' = ticks
    /\ IF Refilled[kind] >= Second
         THEN /\ tokens' = [Refilled EXCEPT ![kind] = @ - Second]
              /\ Call_(kind)
              /\ UNCHANGED turn
         ELSE /\ tokens' = Refilled
              /\ turn' = [pc |-> "asleep", kind |-> kind, wake |->
                    ticks + (Second - Refilled[kind] + Rate[kind] - 1) \div Rate[kind]]
              /\ UNCHANGED calls
    /\ UNCHANGED <<ticks, limiter, stamps, unstamped>>

\* After the sleep: refill, and take the token.
WakeAce ==
    /\ limiter = "ace" /\ turn.pc = "asleep" /\ ticks >= turn.wake
    /\ refilled' = ticks
    /\ tokens' = [Refilled EXCEPT ![turn.kind] = IF @ >= Second THEN @ - Second ELSE 0]
    /\ Call_(turn.kind)
    /\ turn' = Free
    /\ UNCHANGED <<ticks, limiter, stamps, unstamped>>

LimitNext ==
    \/ LimitTick
    \/ AcquireGovWin \/ CallGovWin \/ RecordGovWin \/ LoseGovWin
    \/ AcquireHubSpot \/ WakeHubSpot
    \/ \E kind \in Kinds : AcquireAce(kind)
    \/ WakeAce

LimitSpec == LimitInit /\ [][LimitNext]_lvars

-----------------------------------------------------------------------------
(* Properties.                                                             *)

\* Types of what the limiter knows and the service saw.
LimitTypeOK ==
    /\ ticks \in 0..MaxTicks /\ limiter \in Limiters
    /\ stamps \in Seq(0..MaxTicks) /\ Len(stamps) <= MaxCalls
    /\ tokens \in [Kinds -> Nat] /\ \A kind \in Kinds : tokens[kind] <= Capacity(kind)
    /\ refilled \in 0..ticks
    /\ turn \in [pc : {"free", "calling", "called", "asleep"}, kind : Kinds, wake : Nat]
    /\ calls \in Seq([kind : Kinds, tick : 0..MaxTicks]) /\ Len(calls) <= MaxCalls
    /\ unstamped \in 0..MaxCalls

\* The calls of a kind in the ticks from a to b.
Within(kind, a, b) ==
    Cardinality({i \in DOMAIN calls : calls[i].kind = kind /\ calls[i].tick \in a..b})

\* No service is sent more calls than it allows, whenever they are made and
\* answered: HubSpot and GovWin in any window, GovWin though a call that got
\* no answer is not recorded, while those are fewer than the safety margin;
\* AWS in any stretch of time, the burst a full bucket allows included.
QuotaKept ==
    \A a, b \in 0..MaxTicks : a <= b =>
        /\ limiter = "govwin" /\ b < a + Window /\ unstamped <= Margin
             => Within("read", a, b) <= Quota
        /\ limiter = "hubspot" /\ b < a + Window => Within("read", a, b) <= Limit
        /\ limiter = "ace" => \A kind \in Kinds :
              Within(kind, a, b) * Second <= Capacity(kind) + (b - a) * Rate[kind]
=============================================================================
