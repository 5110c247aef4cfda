---------------------------- MODULE PartsProofs -----------------------------
(***************************************************************************)
(* Proofs about the parts that every container of the system has for       *)
(* itself, or shares with the others of its kind: the caches it keeps      *)
(* between invocations (ContainerCaches), for any number of containers,    *)
(* versions and failed reads and any TTL that a read does not exceed; the  *)
(* rate limiter of a client (RateLimits), for any window, quota, margin,   *)
(* rates and number of calls; the token of GovWin (GovWinClient), for any  *)
(* number of invocations that share it, any lifetime and buffer, and       *)
(* whatever fails; and the signed requests of HubSpot (HubSpotRequests),   *)
(* for any number of containers, deliveries and attempts, any freshness of *)
(* a signature, and whatever fails.                                        *)
(***************************************************************************)
EXTENDS ContainerCaches, RateLimits, GovWinClient, HubSpotRequests, SequenceTheorems,
        FiniteSetTheorems, WellFoundedInduction, TLAPS

-----------------------------------------------------------------------------
(* The caches of a container.                                              *)

(* Every version taken from the source, whether it is kept, on its way or  *)
(* was answered, was current at the time noted with it; so it was replaced *)
(* then or later.                                                          *)

\* The source: what is current, or still to come, was not replaced.
SourceInv == \A v \in Versions : v >= current => replaced[v] = Never

\* What a container keeps was current when its age began.
KeptInv ==
    \A x \in Containers :
        /\ kept[x].at <= time /\ kept[x].version <= current
        /\ kept[x].at <= replaced[kept[x].version]

\* So was what it reads, and the read does not take longer than a call does.
ReadingInv ==
    \A x \in Containers : reading[x] # Resting =>
        /\ reading[x].since <= time /\ time <= reading[x].since + Delay
        /\ reading[x].got <= current /\ reading[x].since <= replaced[reading[x].got]

\* An answer is not older than what was kept for TTL, or read for as long as a
\* call takes.
AnswerInv ==
    \A x \in Containers :
        /\ answer[x].at <= time /\ answer[x].version <= current
        /\ answer[x].version # 0 => answer[x].at <= replaced[answer[x].version] + Ttl

CacheInv == CacheTypeOK /\ SourceInv /\ KeptInv /\ ReadingInv /\ AnswerInv

-----------------------------------------------------------------------------

\* The bounds, as the provers need them.
LEMMA CacheConstants ==
    /\ Ttl \in Nat /\ Delay \in Nat /\ MaxTime \in Nat /\ MaxVersions \in Nat
    /\ MaxOutages \in Nat /\ Delay <= Ttl /\ MaxVersions > 0 /\ Never \in Nat
  BY CacheAssumption DEF Never

\* The initial states: the containers have nothing.
LEMMA InitCacheInv == CacheInit => CacheInv
<1> SUFFICES ASSUME CacheInit PROVE CacheInv
  OBVIOUS
<1> USE CacheConstants
<1>1. current \in Versions
  BY SMT DEF CacheInit, Versions
<1>2. CacheTypeOK
  BY <1>1, SMT DEF CacheInit, CacheTypeOK, Nothing, Resting, Versions, Never
<1>3. \A v \in Versions : replaced[v] = Never
  BY DEF CacheInit
<1>4. SourceInv
  BY <1>3 DEF SourceInv
<1>5. 0 \in Versions /\ 0 <= Never /\ 0 <= Never + Ttl
  BY SMT DEF Versions, Never
<1>6. KeptInv /\ ReadingInv /\ AnswerInv
  BY <1>1, <1>3, <1>5, SMT
  DEF CacheInit, KeptInv, ReadingInv, AnswerInv, Nothing, Resting, Versions
<1> QED
  BY <1>2, <1>4, <1>6 DEF CacheInv

\* Time passes; a read that has taken as long as a call may holds it up.
LEMMA StepTimePasses == ASSUME CacheInv, TimePasses PROVE CacheInv'
<1> USE CacheConstants
<1> USE DEF CacheInv, TimePasses
<1>1. CacheTypeOK'
  BY SMT DEF CacheTypeOK
<1>2. SourceInv'
  BY DEF SourceInv
<1>3. KeptInv' /\ AnswerInv'
  BY SMT DEF CacheTypeOK, KeptInv, AnswerInv
<1>4. ReadingInv'
  <2> SUFFICES ASSUME NEW x \in Containers, reading[x] # Resting
               PROVE  /\ reading[x].since <= time + 1 /\ time + 1 <= reading[x].since + Delay
                      /\ reading[x].got <= current
                      /\ reading[x].since <= replaced[reading[x].got]
    BY DEF ReadingInv
  <2>1. /\ reading[x].since <= time /\ time < reading[x].since + Delay
        /\ reading[x].got <= current /\ reading[x].since <= replaced[reading[x].got]
    BY DEF ReadingInv
  <2>2. reading[x].since \in 0..Never /\ time \in 0..MaxTime
    BY DEF CacheTypeOK
  <2> QED
    BY <2>1, <2>2, SMT
<1> QED
  BY <1>1, <1>2, <1>3, <1>4

\* A new version: what was noted of the one before is older than now.
LEMMA StepReplace == ASSUME CacheInv, Replace PROVE CacheInv'
<1> USE CacheConstants
<1> USE DEF CacheInv, Replace
<1>1. /\ time \in 0..MaxTime /\ current \in Versions /\ current + 1 \in Versions
      /\ replaced \in [Versions -> 0..Never]
  BY SMT DEF CacheTypeOK, Versions
<1>2. time \in 0..Never /\ replaced[current] = Never /\ time <= Never
  BY <1>1, SMT DEF SourceInv, Never, Versions
<1>3. /\ replaced' \in [Versions -> 0..Never]
      /\ \A v \in Versions : replaced'[v] = IF v = current THEN time ELSE replaced[v]
  BY <1>1, <1>2
<1>4. CacheTypeOK'
  BY <1>1, <1>3 DEF CacheTypeOK
<1>5. SourceInv'
  BY <1>1, <1>3, SMT DEF SourceInv, Versions
<1>6. \A v \in Versions, t \in Nat : t <= time /\ t <= replaced[v] => t <= replaced'[v]
  BY <1>3
<1>7. KeptInv'
  BY <1>1, <1>6, SMT DEF CacheTypeOK, KeptInv, Versions
<1>8. ReadingInv'
  BY <1>1, <1>6, SMT DEF CacheTypeOK, ReadingInv, Resting, Versions, Never
<1>9. AnswerInv'
  <2> SUFFICES ASSUME NEW x \in Containers
               PROVE  /\ answer[x].at <= time /\ answer[x].version <= current + 1
                      /\ answer[x].version # 0 => answer[x].at <= replaced'[answer[x].version] + Ttl
    BY DEF AnswerInv
  <2>1. answer[x].version \in Versions /\ answer[x].at \in Nat
    BY SMT DEF CacheTypeOK
  <2>2. /\ answer[x].at <= time /\ answer[x].version <= current
        /\ answer[x].version # 0 => answer[x].at <= replaced[answer[x].version] + Ttl
    BY DEF AnswerInv
  <2>3. CASE answer[x].version = current
    <3>1. replaced'[answer[x].version] = time
      BY <1>3, <2>1, <2>3
    <3> QED
      BY <1>1, <2>1, <2>2, <3>1, SMT DEF Versions
  <2>4. CASE answer[x].version # current
    <3>1. replaced'[answer[x].version] = replaced[answer[x].version]
      BY <1>3, <2>1, <2>4
    <3> QED
      BY <1>1, <2>1, <2>2, <3>1, SMT DEF Versions
  <2> QED
    BY <2>3, <2>4
<1> QED
  BY <1>4, <1>5, <1>7, <1>8, <1>9

\* Answers are given now.
LEMMA StepAnswer ==
    ASSUME CacheTypeOK, AnswerInv, UNCHANGED <<time, current, replaced>>,
           NEW x \in Containers, NEW v \in Versions, Answer(x, v),
           v <= current, v # 0 => time <= replaced[v] + Ttl
    PROVE  answer' \in [Containers -> [version : Versions, at : 0..MaxTime]] /\ AnswerInv'
<1>1. time \in 0..MaxTime
  BY DEF CacheTypeOK
<1>2. answer' = [answer EXCEPT ![x] = [version |-> v, at |-> time]]
  BY DEF Answer
<1>3. answer' \in [Containers -> [version : Versions, at : 0..MaxTime]]
  BY <1>1, <1>2 DEF CacheTypeOK
<1>4. \A y \in Containers :
         answer'[y] = IF y = x THEN [version |-> v, at |-> time] ELSE answer[y]
  BY <1>2 DEF CacheTypeOK
<1>5. AnswerInv'
  BY <1>1, <1>4, CacheConstants, SMT DEF AnswerInv
<1> QED
  BY <1>3, <1>5

\* A request answers with what is kept, which is not older than TTL, or reads.
LEMMA StepAsk == ASSUME CacheInv, NEW x \in Containers, Ask(x) PROVE CacheInv'
<1> USE CacheConstants
<1> USE DEF CacheInv
<1>0. /\ UNCHANGED <<time, source, current, replaced, kept>>
      /\ time \in 0..MaxTime /\ current \in Versions /\ source \in Sources
      /\ replaced \in [Versions -> 0..Never] /\ kept[x].version \in Versions
      /\ kept[x].at \in Nat
  BY SMT DEF Ask, CacheTypeOK
<1>1. SourceInv' /\ KeptInv'
  BY <1>0 DEF SourceInv, KeptInv
<1>2. CASE /\ kept[x].version # 0 /\ time < kept[x].at + Ttl
           /\ Answer(x, kept[x].version) /\ UNCHANGED <<reading, outages>>
  <2>1. kept[x].version <= current /\ kept[x].at <= replaced[kept[x].version]
    BY DEF KeptInv
  <2>2. time <= replaced[kept[x].version] + Ttl
    BY <1>0, <1>2, <2>1, SMT DEF Never, Versions
  <2>3. answer' \in [Containers -> [version : Versions, at : 0..MaxTime]] /\ AnswerInv'
    BY <1>0, <1>2, <2>1, <2>2, StepAnswer
  <2>4. CacheTypeOK' /\ ReadingInv'
    BY <1>0, <1>2, <2>3 DEF CacheTypeOK, ReadingInv
  <2> QED
    BY <1>1, <2>3, <2>4
<1>3. CASE /\ reading' = [reading EXCEPT ![x] = [since |-> time, got |-> current]]
           /\ UNCHANGED <<answer, outages>>
  <2>1. time \in 0..Never /\ time <= Never /\ time <= time + Delay
    BY <1>0, SMT DEF Never
  <2>2. /\ reading' \in [Containers -> [since : 0..Never, got : Versions]]
        /\ \A y \in Containers :
              reading'[y] = IF y = x THEN [since |-> time, got |-> current] ELSE reading[y]
    BY <1>0, <1>3, <2>1 DEF CacheTypeOK
  <2>3. replaced[current] = Never
    BY <1>0, SMT DEF SourceInv, Versions
  <2>4. CacheTypeOK'
    BY <1>0, <1>3, <2>2 DEF CacheTypeOK
  <2>5. ReadingInv'
    <3> SUFFICES ASSUME NEW y \in Containers, reading'[y] # Resting
                 PROVE  /\ reading'[y].since <= time /\ time <= reading'[y].since + Delay
                        /\ reading'[y].got <= current
                        /\ reading'[y].since <= replaced[reading'[y].got]
      BY <1>0 DEF ReadingInv
    <3>1. CASE y = x
      <4>1. reading'[y].since = time /\ reading'[y].got = current
        BY <2>2, <3>1
      <4> QED
        BY <1>0, <2>1, <2>3, <4>1, SMT DEF Versions
    <3>2. CASE y # x
      BY <2>2, <3>2 DEF ReadingInv
    <3> QED
      BY <3>1, <3>2
  <2>6. AnswerInv'
    BY <1>0, <1>3 DEF AnswerInv
  <2> QED
    BY <1>1, <2>4, <2>5, <2>6
<1>4. CASE /\ outages < MaxOutages /\ outages' = outages + 1
           /\ UNCHANGED reading /\ (Answer(x, 0) \/ UNCHANGED answer)
  <2>1. outages' \in 0..MaxOutages
    BY <1>4, SMT DEF CacheTypeOK
  <2>2. 0 \in Versions /\ 0 <= current
    BY <1>0, SMT DEF Versions
  <2>3. answer' \in [Containers -> [version : Versions, at : 0..MaxTime]] /\ AnswerInv'
    <3>1. CASE Answer(x, 0)
      BY <1>0, <3>1, <2>2, StepAnswer
    <3>2. CASE UNCHANGED answer
      BY <1>0, <3>2 DEF AnswerInv, CacheTypeOK
    <3> QED
      BY <1>4, <3>1, <3>2
  <2>4. CacheTypeOK' /\ ReadingInv'
    BY <1>0, <1>4, <2>1, <2>3 DEF CacheTypeOK, ReadingInv
  <2> QED
    BY <1>1, <2>3, <2>4
<1> QED
  BY <1>2, <1>3, <1>4 DEF Ask, Read_

\* What was read is kept with the time its read began.
LEMMA StepKeep == ASSUME CacheInv, NEW x \in Containers, Keep(x) PROVE CacheInv'
<1> USE CacheConstants
<1> USE DEF CacheInv
<1> DEFINE r == reading[x]
<1>0. /\ UNCHANGED <<time, source, current, replaced, outages>> /\ r # Resting
      /\ time \in 0..MaxTime /\ current \in Versions /\ source \in Sources
      /\ replaced \in [Versions -> 0..Never] /\ r.got \in Versions /\ r.since \in 0..Never
  BY SMT DEF Keep, CacheTypeOK
<1>1. /\ r.since <= time /\ time <= r.since + Delay
      /\ r.got <= current /\ r.since <= replaced[r.got]
  BY <1>0 DEF ReadingInv
<1>2. r.since \in 0..MaxTime
  BY <1>0, <1>1, SMT DEF Never
<1>3. /\ kept' \in [Containers -> [version : Versions, at : 0..MaxTime]]
      /\ \A y \in Containers :
            kept'[y] = kept[y] \/ kept'[y] = [version |-> r.got, at |-> r.since]
  <2>1. CASE kept' = kept
    BY <2>1 DEF CacheTypeOK
  <2>2. CASE kept' = [kept EXCEPT ![x] = [version |-> r.got, at |-> r.since]]
    BY <1>0, <1>2, <2>2 DEF CacheTypeOK
  <2> QED
    BY <2>1, <2>2 DEF Keep
<1>4. KeptInv'
  <2> SUFFICES ASSUME NEW y \in Containers
               PROVE  /\ kept'[y].at <= time /\ kept'[y].version <= current
                      /\ kept'[y].at <= replaced[kept'[y].version]
    BY <1>0 DEF KeptInv
  <2>1. CASE kept'[y] = kept[y]
    BY <2>1 DEF KeptInv
  <2>2. CASE kept'[y] = [version |-> r.got, at |-> r.since]
    BY <1>1, <2>2
  <2> QED
    BY <1>3, <2>1, <2>2
<1>5. time <= replaced[r.got] + Ttl
  <2>1. PICK s, e : s = r.since /\ e = replaced[r.got]
    OBVIOUS
  <2>2. s \in 0..Never /\ e \in 0..Never /\ time \in 0..MaxTime
    BY <1>0, <2>1
  <2>3. time <= s + Delay /\ s <= e
    BY <1>1, <2>1
  <2> QED
    BY <2>1, <2>2, <2>3, SMT
<1>6. answer' \in [Containers -> [version : Versions, at : 0..MaxTime]] /\ AnswerInv'
  <2>1. CASE Answer(x, r.got)
    BY <1>0, <1>1, <1>5, <2>1, StepAnswer
  <2>2. CASE UNCHANGED answer
    BY <1>0, <2>2 DEF AnswerInv, CacheTypeOK
  <2> QED
    BY <2>1, <2>2 DEF Keep
<1>7. /\ reading' \in [Containers -> [since : 0..Never, got : Versions]]
      /\ \A y \in Containers : reading'[y] = IF y = x THEN Resting ELSE reading[y]
  <2>1. Resting \in [since : 0..Never, got : Versions]
    BY SMT DEF Resting, Versions, Never
  <2> QED
    BY <2>1 DEF Keep, CacheTypeOK
<1>8. ReadingInv'
  BY <1>0, <1>7 DEF ReadingInv, Resting, Never
<1>9. CacheTypeOK' /\ SourceInv'
  BY <1>0, <1>3, <1>6, <1>7 DEF CacheTypeOK, SourceInv
<1> QED
  BY <1>4, <1>6, <1>8, <1>9

-----------------------------------------------------------------------------

\* CacheInv is inductive: every step of a container, of the source and of time
\* keeps it.
THEOREM CacheInvariant == CacheSpec => []CacheInv
<1>1. CacheInv /\ [CacheNext]_cvars => CacheInv'
  <2> SUFFICES ASSUME CacheInv, [CacheNext]_cvars PROVE CacheInv'
    OBVIOUS
  <2>1. CASE TimePasses
    BY <2>1, StepTimePasses
  <2>2. CASE Replace
    BY <2>2, StepReplace
  <2>3. ASSUME NEW x \in Containers, Ask(x) PROVE CacheInv'
    BY <2>3, StepAsk
  <2>4. ASSUME NEW x \in Containers, Keep(x) PROVE CacheInv'
    BY <2>4, StepKeep
  <2>5. CASE UNCHANGED cvars
    BY <2>5 DEF cvars, CacheInv, CacheTypeOK, SourceInv, KeptInv, ReadingInv, AnswerInv
  <2> QED
    BY <2>1, <2>2, <2>3, <2>4, <2>5 DEF CacheNext
<1> QED
  BY <1>1, InitCacheInv, PTL DEF CacheSpec

\* What get_signing_secret and _load_solutions hand out was replaced TTL ago at
\* most, for any number of containers, however many requests they serve.
THEOREM StaleBounded == CacheSpec => []StaleForTtlAtMost
<1>1. CacheInv => StaleForTtlAtMost
  BY DEF CacheInv, AnswerInv, StaleForTtlAtMost
<1> QED
  BY <1>1, CacheInvariant, PTL

-----------------------------------------------------------------------------
(* The rate limiters.  A window keeps its quota because it forgets no call *)
(* that is not old: the k-th stamp it has is not older than the call in the*)
(* same place, so that calls which are far enough apart in number (by more *)
(* than a window may have) are a window apart in time.  A bucket keeps its *)
(* rate because the calls of any stretch of time and the tokens it has left*)
(* are never more than the bucket and what the time put into it.           *)

\* A call that the service saw, and what the limiter does about the next one.
LimitCall == [kind : Kinds, tick : 0..MaxTicks]
Turn      == [pc : {"free", "calling", "called", "asleep"}, kind : Kinds, wake : Nat]

\* What each limiter has.
KnownInv ==
    /\ ticks \in 0..MaxTicks /\ limiter \in Limiters
    /\ stamps \in Seq(0..MaxTicks) /\ unstamped \in Nat
    /\ tokens \in [Kinds -> Nat] /\ \A kind \in Kinds : tokens[kind] <= Capacity(kind)
    /\ refilled \in 0..ticks /\ turn \in Turn
    /\ calls \in Seq(LimitCall) /\ Len(calls) <= MaxCalls
    /\ limiter = "govwin" => turn.pc # "asleep"
    /\ limiter = "hubspot" => turn.pc \in {"free", "asleep"} /\ unstamped = 0
    /\ limiter = "ace" => turn.pc \in {"free", "asleep"} /\ unstamped = 0 /\ stamps = << >>
    /\ limiter # "ace" => \A i \in DOMAIN calls : calls[i].kind = "read"

\* Time goes forward.
ForwardInv ==
    /\ \A i \in DOMAIN calls : calls[i].tick <= ticks
    /\ \A i \in DOMAIN stamps : stamps[i] <= ticks
    /\ \A i, j \in DOMAIN calls : i <= j => calls[i].tick <= calls[j].tick
    /\ \A i, j \in DOMAIN stamps : i <= j => stamps[i] <= stamps[j]

\* A window has forgotten as many calls as it has pruned.  The first ones are
\* old, and no stamp of the rest is from before the call that has its place.
InFlight  == IF turn.pc = "called" THEN 1 ELSE 0
Forgotten == Len(calls) - Len(stamps) - unstamped - InFlight
WindowInv ==
    /\ Forgotten \in Nat
    /\ \A k \in 1..Len(stamps) : calls[Forgotten + k].tick <= stamps[k]
    /\ \A i \in 1..Forgotten : calls[i].tick + Window <= ticks

\* Who may call has room; HubSpot's limiter may have one stamp too many, which
\* is then old by the end of its sleep.
RoomInv ==
    /\ turn.pc = "calling" => Len(stamps) < Limit
    /\ limiter = "hubspot" /\ turn.pc = "free" =>
          (Len(stamps) > Limit => Len(stamps) = Limit + 1 /\ stamps[1] + Window <= ticks)
    /\ limiter = "hubspot" /\ turn.pc = "asleep" =>
          (Len(stamps) >= Limit => Len(stamps) = Limit /\ stamps[1] + Window <= turn.wake)

\* So calls that are far apart in number are far apart in time.
SpacedInv ==
    \A i, j \in DOMAIN calls :
        i + Limit + unstamped <= j => calls[i].tick + Window <= calls[j].tick

WindowsInv == limiter # "ace" => WindowInv /\ RoomInv /\ SpacedInv

\* A bucket and the calls of any stretch of time until now do not have more
\* than the bucket and the rate allow; nor had they at any time in the past.
TokensInv(kind) ==
    \A a \in 0..ticks :
        Within(kind, a, ticks) * Second + Refilled[kind] <=
            Capacity(kind) + (ticks - a) * Rate[kind]
PastInv(kind) ==
    \A a, b \in 0..MaxTicks : a <= b /\ b < ticks =>
        Within(kind, a, b) * Second <= Capacity(kind) + (b - a) * Rate[kind]

\* At the end of a sleep there is a token.
SleepInv ==
    turn.pc = "asleep" =>
        Second <= tokens[turn.kind] + (turn.wake - refilled) * Rate[turn.kind]
BucketsInv ==
    limiter = "ace" => SleepInv /\ \A kind \in Kinds : TokensInv(kind) /\ PastInv(kind)

-----------------------------------------------------------------------------
(* Numbers, sets of numbers and sequences of stamps.                       *)

\* The constants, as the provers need them.
LEMMA LimitConstants ==
    /\ Window \in Nat /\ Quota \in Nat /\ Margin \in Nat /\ Second \in Nat /\ Second > 0
    /\ MaxTicks \in Nat /\ MaxCalls \in Nat /\ Margin < Quota
    /\ Limit \in Nat /\ Limit > 0 /\ Limit + Margin = Quota
    /\ \A kind \in Kinds : /\ Rate[kind] \in Nat /\ Rate[kind] > 0
                           /\ Capacity(kind) \in Nat /\ Capacity(kind) >= Second
<1>1. /\ Window \in Nat /\ Quota \in Nat /\ Margin \in Nat /\ Second \in Nat /\ Second > 0
      /\ MaxTicks \in Nat /\ MaxCalls \in Nat /\ Margin < Quota
  BY LimitAssumption
<1>2. Limit \in Nat /\ Limit > 0 /\ Limit + Margin = Quota
  BY <1>1, SMT DEF Limit
<1>3. ASSUME NEW kind \in Kinds
      PROVE  /\ Rate[kind] \in Nat /\ Rate[kind] > 0
             /\ Capacity(kind) \in Nat /\ Capacity(kind) >= Second
  <2>1. Rate[kind] \in Nat /\ Rate[kind] # 0
    BY LimitAssumption
  <2>2. \A r, s \in Nat : r # 0 => r * s \in Nat /\ r * s >= s
    BY SMT
  <2> QED
    BY <1>1, <2>1, <2>2, SMT DEF Capacity
<1> QED
  BY <1>1, <1>2, <1>3

\* A set of numbers with a least one.
LEMMA LeastNumber ==
    ASSUME NEW S \in SUBSET Nat, S # {}
    PROVE  \E m \in S : \A x \in S : m <= x
<1> DEFINE less == OpToRel(<, Nat)
<1>1. IsWellFoundedOn(less, Nat)
  BY NatLessThanWellFounded, Zenon
<1>2. \A x, m \in Nat : x < m => <<x, m>> \in less
  BY SMT DEF OpToRel
<1> HIDE DEF less
<1>3. PICK m \in S : \A x \in S : ~(<<x, m>> \in less)
  BY <1>1, WFMin, Zenon
<1>4. \A x \in S : ~(x < m)
  BY <1>2, <1>3, Zenon
<1> QED
  BY <1>4, SMT

\* Numbers that are less than n apart are at most n.
LEMMA CloseNumbers ==
    ASSUME NEW S \in SUBSET Nat, NEW n \in Nat,
           \A i, j \in S : j < i + n
    PROVE  IsFiniteSet(S) /\ Cardinality(S) <= n
<1>1. CASE S = {}
  BY <1>1, FS_EmptySet
<1>2. CASE S # {}
  <2>1. PICK m \in S : \A x \in S : m <= x
    BY <1>2, LeastNumber
  <2>2. S \subseteq m..(m + n - 1) /\ n > 0 /\ m \in Int /\ m + n - 1 \in Int
    BY <2>1, SMT
  <2>3. IsFiniteSet(m..(m + n - 1)) /\ Cardinality(m..(m + n - 1)) = n
    BY <2>2, FS_Interval, SMT
  <2> QED
    BY <2>2, <2>3, FS_Subset
<1> QED
  BY <1>1, <1>2

\* The first elements, and only they, are a set that has all numbers up to its
\* own.
LEMMA InitialNumbers ==
    ASSUME NEW n \in Nat, NEW S \in SUBSET (1..n), \A i \in S : \A j \in 1..i : j \in S
    PROVE  Cardinality(S) \in 0..n /\ S = 1..Cardinality(S)
<1>1. IsFiniteSet(1..n) /\ Cardinality(1..n) = n
  BY FS_Interval, SMT
<1>2. IsFiniteSet(S) /\ Cardinality(S) \in Nat /\ Cardinality(S) <= n
  BY <1>1, FS_Subset, FS_CardinalityType
<1>3. PICK c : c = Cardinality(S)
  OBVIOUS
<1>4. ASSUME NEW i \in S PROVE i \in 1..c
  <2>1. 1..i \subseteq S /\ i \in Nat
    BY <1>4
  <2>2. Cardinality(1..i) = i /\ i >= 1
    BY <2>1, FS_Interval, SMT
  <2>3. Cardinality(1..i) <= Cardinality(S)
    BY <1>2, <2>1, FS_Subset
  <2> QED
    BY <1>2, <1>3, <2>1, <2>2, <2>3, SMT
<1>5. IsFiniteSet(1..c) /\ Cardinality(1..c) = c
  BY <1>2, <1>3, FS_Interval, SMT
<1>6. S = 1..c
  BY <1>3, <1>4, <1>5, FS_Subset
<1> QED
  BY <1>2, <1>3, <1>6

\* Pruning takes the first stamps, those that are old, and keeps the others.
LEMMA RecentStamps ==
    ASSUME stamps \in Seq(0..MaxTicks), ticks \in Nat,
           \A i, j \in DOMAIN stamps : i <= j => stamps[i] <= stamps[j]
    PROVE  \E d \in 0..Len(stamps) :
              /\ Recent(stamps) \in Seq(0..MaxTicks) /\ Len(Recent(stamps)) = Len(stamps) - d
              /\ \A i \in 1..(Len(stamps) - d) : Recent(stamps)[i] = stamps[i + d]
              /\ \A i \in 1..d : stamps[i] <= ticks - Window
              /\ \A i \in (d + 1)..Len(stamps) : stamps[i] > ticks - Window
<1> DEFINE n   == Len(stamps)
           old == {i \in DOMAIN stamps : stamps[i] <= ticks - Window}
<1>1. n \in Nat /\ DOMAIN stamps = 1..n /\ \A i \in 1..n : stamps[i] \in 0..MaxTicks
  BY LenProperties, ElementOfSeq
<1>2. \A i \in 1..n : stamps[i] \in Int /\ ticks - Window \in Int
  BY <1>1, LimitConstants, SMT
<1>3. \A i \in old : \A j \in 1..i : j \in old
  BY <1>1, <1>2, SMT
<1>4. old \in SUBSET (1..n)
  BY <1>1
<1> HIDE DEF n
<1>5. PICK d : d = Cardinality(old)
  OBVIOUS
<1>6. d \in 0..n /\ old = 1..d
  BY <1>1, <1>3, <1>4, <1>5, InitialNumbers
<1>7. Recent(stamps) = SubSeq(stamps, d + 1, n)
  BY <1>5 DEF Recent, n
<1>8. \A i \in (d + 1)..n : stamps[i] \in 0..MaxTicks
  BY <1>1, <1>6, SMT
<1>9. /\ Recent(stamps) \in Seq(0..MaxTicks)
      /\ Len(Recent(stamps)) = IF d + 1 <= n THEN n - (d + 1) + 1 ELSE 0
      /\ \A i \in 1..(n - (d + 1) + 1) : Recent(stamps)[i] = stamps[(d + 1) + i - 1]
  BY <1>1, <1>6, <1>7, <1>8, SubSeqProperties, SMT
<1>10. \A i \in 1..d : stamps[i] <= ticks - Window
  BY <1>6
<1>11. \A i \in (d + 1)..n : stamps[i] > ticks - Window
  <2>1. ASSUME NEW i \in (d + 1)..n PROVE i \in 1..n /\ i \notin 1..d
    BY <1>1, <1>6, SMT
  <2> QED
    BY <1>1, <1>2, <1>6, <2>1, SMT
<1>12. Len(Recent(stamps)) = n - d
  BY <1>1, <1>6, <1>9, SMT
<1>13. ASSUME NEW i \in 1..(n - d) PROVE Recent(stamps)[i] = stamps[i + d]
  <2>1. i \in 1..(n - (d + 1) + 1) /\ (d + 1) + i - 1 = i + d
    BY <1>1, <1>6, SMT
  <2> QED
    BY <1>9, <2>1
<1> QED
  BY <1>6, <1>9, <1>10, <1>11, <1>12, <1>13 DEF n

\* The wait for a token is long enough.
LEMMA LongEnough ==
    ASSUME NEW r \in Nat, r > 0, NEW m \in Nat
    PROVE  /\ (m + r - 1) \div r \in Nat
           /\ ((m + r - 1) \div r) * r >= m
<1>1. PICK q : q = (m + r - 1) \div r
  OBVIOUS
<1>2. q \in Nat
  BY <1>1, SMT
<1>3. m + r - 1 < r * q + r
  BY <1>1, <1>2, SMT
<1>4. q * r = r * q /\ r * q \in Int
  BY <1>2, SMT
<1> QED
  BY <1>1, <1>2, <1>3, <1>4, SMT

-----------------------------------------------------------------------------
(* Types, and time.                                                        *)

\* The facts about types that the proofs need.
LEMMA KnownFacts ==
    ASSUME KnownInv
    PROVE  /\ ticks \in Nat /\ ticks <= MaxTicks /\ ticks \in Int
           /\ Len(calls) \in Nat /\ DOMAIN calls = 1..Len(calls)
           /\ Len(stamps) \in Nat /\ DOMAIN stamps = 1..Len(stamps)
           /\ \A i \in 1..Len(calls) :
                calls[i] \in LimitCall /\ calls[i].tick \in Nat /\ calls[i].kind \in Kinds
           /\ \A i \in 1..Len(stamps) : stamps[i] \in 0..MaxTicks /\ stamps[i] \in Nat
           /\ unstamped \in Nat /\ InFlight \in {0, 1} /\ Forgotten \in Int
           /\ turn.pc \in {"free", "calling", "called", "asleep"} /\ turn.wake \in Nat
           /\ turn.kind \in Kinds /\ refilled \in Nat /\ refilled <= ticks
<1>1. ticks \in Nat /\ ticks <= MaxTicks /\ ticks \in Int /\ refilled \in Nat /\ refilled <= ticks
  BY LimitConstants, SMT DEF KnownInv
<1>2. /\ Len(calls) \in Nat /\ DOMAIN calls = 1..Len(calls)
      /\ \A i \in 1..Len(calls) : calls[i] \in LimitCall
  BY LenProperties, ElementOfSeq DEF KnownInv
<1>3. /\ Len(stamps) \in Nat /\ DOMAIN stamps = 1..Len(stamps)
      /\ \A i \in 1..Len(stamps) : stamps[i] \in 0..MaxTicks
  BY LenProperties, ElementOfSeq DEF KnownInv
<1>4. \A i \in 1..Len(stamps) : stamps[i] \in Nat
  BY <1>3, SMT
<1>5. \A i \in 1..Len(calls) : calls[i].tick \in Nat /\ calls[i].kind \in Kinds
  BY <1>2, LimitConstants, SMT DEF LimitCall
<1>6. InFlight \in {0, 1} /\ unstamped \in Nat
  BY DEF InFlight, KnownInv
<1>7. Forgotten \in Int
  BY <1>2, <1>3, <1>6, SMT DEF Forgotten
<1>8. /\ turn.pc \in {"free", "calling", "called", "asleep"} /\ turn.wake \in Nat
      /\ turn.kind \in Kinds
  BY DEF KnownInv, Turn
<1> QED
  BY <1>1, <1>2, <1>3, <1>4, <1>5, <1>6, <1>7, <1>8

\* A call that the service gets.
LEMMA CallAdded ==
    ASSUME KnownInv, NEW kind \in Kinds, Call_(kind)
    PROVE  /\ calls' \in Seq(LimitCall) /\ Len(calls') = Len(calls) + 1 /\ Len(calls') <= MaxCalls
           /\ DOMAIN calls' = 1..(Len(calls) + 1)
           /\ \A i \in 1..Len(calls) : calls'[i] = calls[i]
           /\ calls'[Len(calls) + 1] = [kind |-> kind, tick |-> ticks]
<1>1. [kind |-> kind, tick |-> ticks] \in LimitCall
  BY DEF LimitCall, KnownInv
<1>2. Len(calls) < MaxCalls /\ calls' = Append(calls, [kind |-> kind, tick |-> ticks])
  BY DEF Call_
<1>3. calls \in Seq(LimitCall)
  BY DEF KnownInv
<1>4. /\ calls' \in Seq(LimitCall) /\ Len(calls') = Len(calls) + 1
      /\ \A i \in 1..Len(calls) : calls'[i] = calls[i]
      /\ calls'[Len(calls) + 1] = [kind |-> kind, tick |-> ticks]
  BY <1>1, <1>2, <1>3, AppendProperties
<1>5. DOMAIN calls' = 1..(Len(calls) + 1)
  BY <1>4, LenProperties
<1>6. Len(calls') <= MaxCalls
  BY <1>2, <1>4, KnownFacts, LimitConstants, SMT
<1> QED
  BY <1>4, <1>5, <1>6

\* A stamp that the limiter adds.
LEMMA StampAdded ==
    ASSUME KnownInv, stamps' = Append(stamps, ticks)
    PROVE  /\ stamps' \in Seq(0..MaxTicks) /\ Len(stamps') = Len(stamps) + 1
           /\ DOMAIN stamps' = 1..(Len(stamps) + 1)
           /\ \A i \in 1..Len(stamps) : stamps'[i] = stamps[i]
           /\ stamps'[Len(stamps) + 1] = ticks
<1>1. stamps \in Seq(0..MaxTicks) /\ ticks \in 0..MaxTicks
  BY DEF KnownInv
<1>2. /\ stamps' \in Seq(0..MaxTicks) /\ Len(stamps') = Len(stamps) + 1
      /\ \A i \in 1..Len(stamps) : stamps'[i] = stamps[i]
      /\ stamps'[Len(stamps) + 1] = ticks
  BY <1>1, AppendProperties
<1> QED
  BY <1>2, LenProperties

\* Stamps that the limiter prunes.
LEMMA StampsPruned ==
    ASSUME KnownInv, ForwardInv, stamps' = Recent(stamps)
    PROVE  \E d \in 0..Len(stamps) :
              /\ stamps' \in Seq(0..MaxTicks) /\ Len(stamps') = Len(stamps) - d
              /\ DOMAIN stamps' = 1..(Len(stamps) - d)
              /\ \A i \in 1..(Len(stamps) - d) : stamps'[i] = stamps[i + d]
              /\ \A i \in 1..d : stamps[i] <= ticks - Window
              /\ \A i \in (d + 1)..Len(stamps) : stamps[i] > ticks - Window
<1>1. stamps \in Seq(0..MaxTicks) /\ ticks \in Nat
  BY KnownFacts DEF KnownInv
<1>2. \A i, j \in DOMAIN stamps : i <= j => stamps[i] <= stamps[j]
  BY DEF ForwardInv
<1>3. PICK d \in 0..Len(stamps) :
              /\ Recent(stamps) \in Seq(0..MaxTicks) /\ Len(Recent(stamps)) = Len(stamps) - d
              /\ \A i \in 1..(Len(stamps) - d) : Recent(stamps)[i] = stamps[i + d]
              /\ \A i \in 1..d : stamps[i] <= ticks - Window
              /\ \A i \in (d + 1)..Len(stamps) : stamps[i] > ticks - Window
  BY <1>1, <1>2, RecentStamps
<1>4. DOMAIN Recent(stamps) = 1..(Len(stamps) - d)
  BY <1>3, LenProperties
<1> QED
  BY <1>3, <1>4

\* Multiplication by a rate.
LEMMA Times ==
    ASSUME NEW r \in Nat
    PROVE  /\ \A x \in Nat : x * r \in Nat
           /\ \A x, y \in Int : (x + y) * r = x * r + y * r /\ (x - y) * r = x * r - y * r
           /\ \A x, y \in Int : x <= y => x * r <= y * r
           /\ \A x \in Int : x * r \in Int
           /\ 0 * r = 0 /\ 1 * r = r
<1>1. \A x \in Nat : x * r \in Nat
  BY SMT
<1>2. \A x, y \in Int : (x + y) * r = x * r + y * r /\ (x - y) * r = x * r - y * r
  BY SMT
<1>3. \A x, y \in Int : x <= y => x * r <= y * r
  BY SMT
<1> QED
  BY <1>1, <1>2, <1>3, SMT

\* The buckets, refilled.
LEMMA RefilledTyped ==
    ASSUME KnownInv
    PROVE  /\ Refilled \in [Kinds -> Nat]
           /\ \A kind \in Kinds :
                /\ Refilled[kind] <= Capacity(kind)
                /\ Refilled[kind] <= tokens[kind] + (ticks - refilled) * Rate[kind]
                /\ tokens[kind] \in Nat /\ (ticks - refilled) * Rate[kind] \in Nat
                /\ \/ Refilled[kind] = Capacity(kind)
                   \/ Refilled[kind] = tokens[kind] + (ticks - refilled) * Rate[kind]
<1> SUFFICES ASSUME NEW kind \in Kinds
             PROVE  /\ Refilled[kind] \in Nat
                    /\ Refilled[kind] <= Capacity(kind)
                    /\ Refilled[kind] <= tokens[kind] + (ticks - refilled) * Rate[kind]
                    /\ tokens[kind] \in Nat /\ (ticks - refilled) * Rate[kind] \in Nat
                    /\ \/ Refilled[kind] = Capacity(kind)
                       \/ Refilled[kind] = tokens[kind] + (ticks - refilled) * Rate[kind]
  BY DEF Refilled
<1>1. Refilled[kind] =
        Smaller(Capacity(kind), tokens[kind] + (ticks - refilled) * Rate[kind])
  BY DEF Refilled
<1>2. PICK e : e = (ticks - refilled) * Rate[kind]
  OBVIOUS
<1>3. ticks - refilled \in Nat /\ Rate[kind] \in Nat
  BY KnownFacts, LimitConstants, SMT
<1>4. e \in Nat
  BY <1>2, <1>3, Times
<1>5. tokens[kind] \in Nat /\ Capacity(kind) \in Nat
  BY LimitConstants DEF KnownInv
<1> QED
  BY <1>1, <1>2, <1>4, <1>5, SMT DEF Smaller

\* Every action keeps the types.
LEMMA KnownNext == ASSUME KnownInv, ForwardInv, [LimitNext]_lvars PROVE KnownInv'
<1>0. /\ ticks \in 0..MaxTicks /\ limiter \in Limiters
      /\ stamps \in Seq(0..MaxTicks) /\ unstamped \in Nat
      /\ tokens \in [Kinds -> Nat] /\ (\A kind \in Kinds : tokens[kind] <= Capacity(kind))
      /\ refilled \in 0..ticks /\ turn \in Turn
      /\ calls \in Seq(LimitCall) /\ Len(calls) <= MaxCalls
  BY DEF KnownInv
<1>1. Free \in Turn /\ Free.pc = "free"
  BY DEF Free, Turn, Kinds
<1>2. CASE LimitTick
  <2>1. ticks' \in 0..MaxTicks /\ refilled \in 0..ticks'
    BY <1>2, KnownFacts, LimitConstants, SMT DEF LimitTick
  <2> QED
    BY <1>0, <1>2, <2>1 DEF LimitTick, KnownInv
<1>3. CASE AcquireGovWin
  <2>1. stamps' \in Seq(0..MaxTicks)
    BY <1>3, StampsPruned DEF AcquireGovWin
  <2>2. turn' \in Turn /\ turn'.pc \in {"free", "calling"}
    BY <1>1, <1>3 DEF AcquireGovWin, Free, Turn, Kinds
  <2> QED
    BY <1>0, <1>3, <2>1, <2>2 DEF AcquireGovWin, KnownInv
<1>4. CASE CallGovWin
  <2>1. turn.pc = "calling" /\ limiter = "govwin"
    BY <1>0, <1>4 DEF CallGovWin, KnownInv, Limiters
  <2>2. Call_("read") /\ "read" \in Kinds
    BY <1>4 DEF CallGovWin, Kinds
  <2>3. /\ calls' \in Seq(LimitCall) /\ Len(calls') <= MaxCalls
        /\ DOMAIN calls' = 1..(Len(calls) + 1)
        /\ \A i \in 1..Len(calls) : calls'[i] = calls[i]
        /\ calls'[Len(calls) + 1] = [kind |-> "read", tick |-> ticks]
    BY <2>2, CallAdded
  <2>4. \A i \in DOMAIN calls' : calls'[i].kind = "read"
    <3>1. \A i \in 1..(Len(calls) + 1) : i \in 1..Len(calls) \/ i = Len(calls) + 1
      BY KnownFacts, SMT
    <3>2. \A i \in 1..Len(calls) : calls[i].kind = "read"
      BY <2>1, KnownFacts DEF KnownInv
    <3> QED
      BY <2>3, <3>1, <3>2
  <2>5. turn' \in Turn /\ turn'.pc = "called"
    BY <1>0, <1>4 DEF CallGovWin, Turn
  <2> QED
    BY <1>0, <1>4, <2>1, <2>3, <2>4, <2>5 DEF CallGovWin, KnownInv
<1>5. CASE RecordGovWin
  <2>1. stamps' \in Seq(0..MaxTicks) /\ turn' = Free
    BY <1>5, StampAdded DEF RecordGovWin
  <2>2. limiter = "govwin"
    BY <1>0, <1>5 DEF RecordGovWin, KnownInv, Limiters
  <2> QED
    BY <1>0, <1>1, <1>5, <2>1, <2>2 DEF RecordGovWin, KnownInv
<1>6. CASE LoseGovWin
  <2>1. unstamped' \in Nat
    BY <1>0, <1>6, SMT DEF LoseGovWin
  <2>2. limiter = "govwin" /\ turn' = Free
    BY <1>0, <1>6 DEF LoseGovWin, KnownInv, Limiters
  <2> QED
    BY <1>0, <1>1, <1>6, <2>1, <2>2 DEF LoseGovWin, KnownInv
<1>7. CASE AcquireHubSpot
  <2>1. PICK d \in 0..Len(stamps) :
              /\ stamps' \in Seq(0..MaxTicks) /\ Len(stamps') = Len(stamps) - d
              /\ DOMAIN stamps' = 1..(Len(stamps) - d)
    BY <1>7, StampsPruned DEF AcquireHubSpot
  <2>2. PICK w : w = IF Len(stamps') < Limit THEN ticks ELSE stamps'[1] + Window + 1
    OBVIOUS
  <2>3. w \in Nat
    <3>1. CASE Len(stamps') < Limit
      BY <2>2, <3>1, KnownFacts
    <3>2. CASE ~(Len(stamps') < Limit)
      <4>1. Len(stamps') \in Nat /\ Limit > 0 /\ Limit \in Nat
        BY <2>1, KnownFacts, LimitConstants, SMT
      <4>2. 1 \in 1..Len(stamps')
        BY <3>2, <4>1, SMT
      <4>3. stamps'[1] \in 0..MaxTicks
        BY <2>1, <4>2, ElementOfSeq
      <4> QED
        BY <2>2, <3>2, <4>3, LimitConstants, SMT
    <3> QED
      BY <3>1, <3>2
  <2>4. turn' = [Free EXCEPT !.pc = "asleep", !.wake = w]
    BY <1>7, <2>2 DEF AcquireHubSpot
  <2>5. turn' \in Turn /\ turn'.pc = "asleep"
    BY <2>3, <2>4 DEF Turn, Free, Kinds
  <2> QED
    BY <1>0, <1>7, <2>1, <2>5 DEF AcquireHubSpot, KnownInv
<1>8. CASE WakeHubSpot
  <2>1. limiter = "hubspot" /\ Call_("read") /\ "read" \in Kinds
    BY <1>8 DEF WakeHubSpot, Kinds
  <2>2. stamps' \in Seq(0..MaxTicks) /\ turn' = Free
    BY <1>8, StampAdded DEF WakeHubSpot
  <2>3. /\ calls' \in Seq(LimitCall) /\ Len(calls') <= MaxCalls
        /\ DOMAIN calls' = 1..(Len(calls) + 1)
        /\ \A i \in 1..Len(calls) : calls'[i] = calls[i]
        /\ calls'[Len(calls) + 1] = [kind |-> "read", tick |-> ticks]
    BY <2>1, CallAdded
  <2>4. \A i \in DOMAIN calls' : calls'[i].kind = "read"
    <3>1. \A i \in 1..(Len(calls) + 1) : i \in 1..Len(calls) \/ i = Len(calls) + 1
      BY KnownFacts, SMT
    <3>2. \A i \in 1..Len(calls) : calls[i].kind = "read"
      BY <2>1, KnownFacts DEF KnownInv
    <3> QED
      BY <2>3, <3>1, <3>2
  <2> QED
    BY <1>0, <1>1, <1>8, <2>1, <2>2, <2>3, <2>4 DEF WakeHubSpot, KnownInv
<1>9. ASSUME NEW kind \in Kinds, AcquireAce(kind) PROVE KnownInv'
  <2>1. /\ limiter = "ace" /\ turn = Free /\ refilled' = ticks
        /\ UNCHANGED <<ticks, limiter, stamps, unstamped>>
    BY <1>9 DEF AcquireAce
  <2>2. refilled' \in 0..ticks'
    BY <2>1, KnownFacts, SMT
  <2>3. CASE Refilled[kind] >= Second
    <3>1. tokens' = [Refilled EXCEPT ![kind] = @ - Second] /\ Call_(kind) /\ turn' = turn
      BY <1>9, <2>3 DEF AcquireAce
    <3>2. Refilled[kind] - Second \in Nat /\ Refilled[kind] - Second <= Capacity(kind)
      BY <2>3, RefilledTyped, LimitConstants, SMT
    <3>3. tokens' \in [Kinds -> Nat] /\ \A x \in Kinds : tokens'[x] <= Capacity(x)
      BY <3>1, <3>2, RefilledTyped
    <3>4. calls' \in Seq(LimitCall) /\ Len(calls') <= MaxCalls
      BY <3>1, CallAdded
    <3> QED
      BY <1>0, <2>1, <2>2, <3>1, <3>3, <3>4 DEF KnownInv
  <2>4. CASE ~(Refilled[kind] >= Second)
    <3>1. PICK q : q = (Second - Refilled[kind] + Rate[kind] - 1) \div Rate[kind]
      OBVIOUS
    <3>2. /\ tokens' = Refilled /\ calls' = calls
          /\ turn' = [pc |-> "asleep", kind |-> kind, wake |-> ticks + q]
      BY <1>9, <2>4, <3>1 DEF AcquireAce
    <3>3. q \in Nat
      <4>1. Second - Refilled[kind] \in Nat /\ Rate[kind] \in Nat /\ Rate[kind] > 0
        BY <2>4, RefilledTyped, LimitConstants, SMT
      <4> QED
        BY <3>1, <4>1, LongEnough
    <3>4. ticks + q \in Nat
      BY <3>3, KnownFacts, SMT
    <3>5. turn' \in Turn /\ turn'.pc = "asleep"
      BY <3>2, <3>4 DEF Turn
    <3>6. tokens' \in [Kinds -> Nat] /\ \A x \in Kinds : tokens'[x] <= Capacity(x)
      BY <3>2, RefilledTyped
    <3> QED
      BY <1>0, <2>1, <2>2, <3>2, <3>5, <3>6 DEF KnownInv
  <2> QED
    BY <2>3, <2>4
<1>10. CASE WakeAce
  <2>1. /\ limiter = "ace" /\ refilled' = ticks /\ turn' = Free
        /\ tokens' = [Refilled EXCEPT ![turn.kind] = IF @ >= Second THEN @ - Second ELSE 0]
        /\ Call_(turn.kind) /\ UNCHANGED <<ticks, limiter, stamps, unstamped>>
    BY <1>10 DEF WakeAce
  <2>2. refilled' \in 0..ticks' /\ turn.kind \in Kinds
    BY <2>1, KnownFacts, SMT
  <2>3. PICK m : m = IF Refilled[turn.kind] >= Second THEN Refilled[turn.kind] - Second ELSE 0
    OBVIOUS
  <2>4. m \in Nat /\ m <= Capacity(turn.kind)
    BY <2>2, <2>3, RefilledTyped, LimitConstants, SMT
  <2>5. tokens' = [Refilled EXCEPT ![turn.kind] = m]
    BY <2>1, <2>2, <2>3, RefilledTyped
  <2>6. tokens' \in [Kinds -> Nat] /\ \A x \in Kinds : tokens'[x] <= Capacity(x)
    BY <2>2, <2>4, <2>5, RefilledTyped
  <2>7. calls' \in Seq(LimitCall) /\ Len(calls') <= MaxCalls
    BY <2>1, <2>2, CallAdded
  <2> QED
    BY <1>0, <1>1, <2>1, <2>2, <2>6, <2>7 DEF KnownInv
<1>11. CASE UNCHANGED lvars
  BY <1>0, <1>11 DEF KnownInv, lvars
<1> QED
  BY <1>2, <1>3, <1>4, <1>5, <1>6, <1>7, <1>8, <1>9, <1>10, <1>11 DEF LimitNext

\* Time goes forward.
LEMMA ForwardNext == ASSUME KnownInv, ForwardInv, [LimitNext]_lvars PROVE ForwardInv'
<1>1. ticks' \in Int /\ ticks <= ticks'
  BY KnownFacts, SMT DEF LimitNext, lvars, LimitTick, AcquireGovWin, CallGovWin, RecordGovWin,
     LoseGovWin, AcquireHubSpot, WakeHubSpot, AcquireAce, WakeAce
<1>2. /\ \A i \in DOMAIN calls' : calls'[i].tick <= ticks'
      /\ \A i, j \in DOMAIN calls' : i <= j => calls'[i].tick <= calls'[j].tick
  <2>1. CASE calls' = calls
    BY <1>1, <2>1, KnownFacts, SMT DEF ForwardInv
  <2>2. ASSUME NEW kind \in Kinds, Call_(kind), ticks' = ticks
        PROVE  /\ \A i \in DOMAIN calls' : calls'[i].tick <= ticks'
               /\ \A i, j \in DOMAIN calls' : i <= j => calls'[i].tick <= calls'[j].tick
    <3>1. PICK n : n = Len(calls)
      OBVIOUS
    <3>2. /\ DOMAIN calls' = 1..(n + 1) /\ n \in Nat /\ ticks \in Nat
          /\ \A i \in 1..n : calls'[i].tick = calls[i].tick /\ calls[i].tick \in Nat
          /\ calls'[n + 1].tick = ticks
      <4>1. /\ DOMAIN calls' = 1..(n + 1) /\ \A i \in 1..n : calls'[i] = calls[i]
            /\ calls'[n + 1] = [kind |-> kind, tick |-> ticks]
        BY <2>2, <3>1, CallAdded
      <4>2. [kind |-> kind, tick |-> ticks].tick = ticks
        OBVIOUS
      <4>3. n \in Nat /\ ticks \in Nat /\ \A i \in 1..n : calls[i].tick \in Nat
        BY <3>1, KnownFacts
      <4> QED
        BY <4>1, <4>2, <4>3
    <3>3. /\ \A i \in 1..n : calls[i].tick <= ticks
          /\ \A i, j \in 1..n : i <= j => calls[i].tick <= calls[j].tick
      BY <3>1, KnownFacts DEF ForwardInv
    <3>4. \A i \in 1..(n + 1) : i \in 1..n \/ i = n + 1
      BY <3>2, SMT
    <3>5. \A i, j \in 1..(n + 1) : i <= j => (i \in 1..n /\ j \in 1..n) \/ j = n + 1
      BY <3>2, SMT
    <3>6. \A i \in 1..(n + 1) : calls'[i].tick <= ticks
      BY <3>2, <3>3, <3>4, SMT
    <3> QED
      BY <2>2, <3>2, <3>3, <3>5, <3>6, SMT
  <2>3. calls' = calls \/ \E kind \in Kinds : Call_(kind) /\ ticks' = ticks
    BY KnownFacts DEF LimitNext, lvars, LimitTick, AcquireGovWin, CallGovWin, RecordGovWin,
       LoseGovWin, AcquireHubSpot, WakeHubSpot, AcquireAce, WakeAce, Kinds
  <2> QED
    BY <2>1, <2>2, <2>3
<1>3. /\ \A i \in DOMAIN stamps' : stamps'[i] <= ticks'
      /\ \A i, j \in DOMAIN stamps' : i <= j => stamps'[i] <= stamps'[j]
  <2> DEFINE n == Len(stamps)
  <2>0. n \in Nat /\ DOMAIN stamps = 1..n /\ \A i \in 1..n : stamps[i] \in Nat /\ ticks \in Nat
    BY KnownFacts
  <2>00. /\ \A i \in 1..n : stamps[i] <= ticks
         /\ \A i, j \in 1..n : i <= j => stamps[i] <= stamps[j]
    BY <2>0 DEF ForwardInv
  <2> HIDE DEF n
  <2>1. CASE stamps' = stamps
    BY <1>1, <2>0, <2>00, <2>1, SMT
  <2>2. CASE stamps' = Append(stamps, ticks) /\ ticks' = ticks
    <3>1. /\ DOMAIN stamps' = 1..(n + 1) /\ stamps'[n + 1] = ticks
          /\ \A i \in 1..n : stamps'[i] = stamps[i]
      BY <2>2, StampAdded DEF n
    <3>2. \A i \in 1..(n + 1) : i \in 1..n \/ i = n + 1
      BY <2>0, SMT
    <3>3. ASSUME NEW i \in 1..(n + 1) PROVE stamps'[i] <= ticks
      <4>1. CASE i \in 1..n
        BY <2>00, <3>1, <4>1
      <4>2. CASE i = n + 1
        BY <2>2, <3>1, <4>2, KnownFacts, SMT
      <4> QED
        BY <3>2, <4>1, <4>2
    <3>4. \A i, j \in 1..(n + 1) : i <= j => (i \in 1..n /\ j \in 1..n) \/ j = n + 1
      BY <2>0, SMT
    <3> QED
      BY <2>0, <2>00, <2>2, <3>1, <3>3, <3>4, SMT
  <2>3. CASE stamps' = Recent(stamps) /\ ticks' = ticks
    <3>1. PICK d \in 0..n :
              /\ DOMAIN stamps' = 1..(n - d)
              /\ \A i \in 1..(n - d) : stamps'[i] = stamps[i + d]
      BY <2>3, StampsPruned DEF n
    <3>2. \A i \in 1..(n - d) : i + d \in 1..n
      BY <2>0, <3>1, SMT
    <3>3. \A i, j \in 1..(n - d) : i <= j => i + d <= j + d
      BY <2>0, <3>1, SMT
    <3> QED
      BY <2>0, <2>00, <2>3, <3>1, <3>2, <3>3
  <2>4. \/ stamps' = stamps
        \/ stamps' = Append(stamps, ticks) /\ ticks' = ticks
        \/ stamps' = Recent(stamps) /\ ticks' = ticks
    BY DEF LimitNext, lvars, LimitTick, AcquireGovWin, CallGovWin, RecordGovWin,
       LoseGovWin, AcquireHubSpot, WakeHubSpot, AcquireAce, WakeAce
  <2> QED
    BY <2>1, <2>2, <2>3, <2>4
<1> QED
  BY <1>2, <1>3 DEF ForwardInv

-----------------------------------------------------------------------------
(* The windows.                                                            *)

\* The numbers that the window invariants are about.
LEMMA LimitNumbers ==
    ASSUME KnownInv
    PROVE  /\ Len(calls) \in Nat /\ Len(stamps) \in Nat /\ unstamped \in Nat
           /\ InFlight \in 0..1 /\ Limit \in Nat /\ Limit > 0 /\ Window \in Nat /\ ticks \in Nat
           /\ Forgotten = Len(calls) - Len(stamps) - unstamped - InFlight
           /\ \A i \in 1..Len(calls) : calls[i].tick \in Nat
           /\ \A i \in 1..Len(stamps) : stamps[i] \in Nat
           /\ DOMAIN calls = 1..Len(calls) /\ DOMAIN stamps = 1..Len(stamps)
<1>1. InFlight \in 0..1
  BY SMT DEF InFlight
<1> QED
  BY <1>1, KnownFacts, LimitConstants DEF Forgotten

\* Time passes, and nothing is called or stamped.
LEMMA WindowWaits ==
    ASSUME KnownInv, WindowInv, ticks' \in Nat, ticks <= ticks',
           UNCHANGED <<calls, stamps>>, unstamped' + InFlight' = unstamped + InFlight,
           unstamped' \in Nat, InFlight' \in Nat
    PROVE  WindowInv'
<1>0. /\ calls' = calls /\ stamps' = stamps
      /\ Forgotten' = Len(calls) - Len(stamps) - unstamped' - InFlight'
  BY DEF Forgotten
<1>1. /\ Len(calls) \in Nat /\ Len(stamps) \in Nat /\ unstamped \in Nat /\ InFlight \in 0..1
      /\ Forgotten = Len(calls) - Len(stamps) - unstamped - InFlight /\ Forgotten \in Nat
      /\ \A i \in 1..Len(calls) : calls[i].tick \in Nat
      /\ Window \in Nat /\ ticks \in Nat
      /\ \A i \in 1..Forgotten : calls[i].tick + Window <= ticks
  BY LimitNumbers DEF WindowInv
<1> DEFINE n == Len(calls)
           m == Len(stamps)
<1> HIDE DEF n, m
<1>2. /\ n \in Nat /\ m \in Nat /\ Forgotten = n - m - unstamped - InFlight
      /\ Forgotten' = n - m - unstamped' - InFlight'
  BY <1>0, <1>1 DEF n, m
<1>3. Forgotten' = Forgotten
  <2>1. PICK u, f, g : u = unstamped' /\ f = InFlight' /\ g = InFlight
    OBVIOUS
  <2>2. /\ u \in Nat /\ f \in Nat /\ g \in 0..1 /\ unstamped \in Nat
        /\ u + f = unstamped + g
    BY <1>1, <2>1
  <2>3. n - m - u - f = n - m - unstamped - g
    BY <1>2, <2>2, SMT
  <2> QED
    BY <1>2, <2>1, <2>3
<1>4. ASSUME NEW i \in 1..Forgotten PROVE calls[i].tick + Window <= ticks'
  <2>1. i \in 1..n
    BY <1>1, <1>2, SMT
  <2>2. calls[i].tick + Window <= ticks /\ calls[i].tick \in Nat
    BY <1>1, <2>1 DEF n
  <2> QED
    BY <1>1, <2>2, SMT
<1> QED
  BY <1>0, <1>1, <1>3, <1>4 DEF WindowInv

\* The window is pruned.
LEMMA WindowPruned ==
    ASSUME KnownInv, ForwardInv, WindowInv, stamps' = Recent(stamps),
           UNCHANGED <<calls, ticks, unstamped>>, InFlight = 0, InFlight' = 0
    PROVE  WindowInv'
<1> DEFINE n == Len(calls)
           m == Len(stamps)
           p == Forgotten
<1>1. PICK d \in 0..m :
              /\ Len(stamps') = m - d
              /\ \A i \in 1..(m - d) : stamps'[i] = stamps[i + d]
              /\ \A i \in 1..d : stamps[i] <= ticks - Window
  BY StampsPruned
<1>2. /\ n \in Nat /\ m \in Nat /\ unstamped \in Nat /\ ticks \in Nat /\ Window \in Nat
      /\ p = n - m - unstamped /\ \A i \in 1..n : calls[i].tick \in Nat
      /\ \A i \in 1..m : stamps[i] \in Nat
  BY LimitNumbers, SMT
<1>3. /\ p \in Nat /\ \A k \in 1..m : calls[p + k].tick <= stamps[k]
      /\ \A i \in 1..p : calls[i].tick + Window <= ticks
  BY DEF WindowInv
<1>4. Forgotten' = n - (m - d) - unstamped - 0
  BY <1>1 DEF Forgotten
<1>5. PICK q : q = p + d
  OBVIOUS
<1> HIDE DEF n, m, p
<1>6. Forgotten' = q /\ q \in Nat /\ d \in Nat /\ d <= m /\ p + m <= n
  BY <1>1, <1>2, <1>3, <1>4, <1>5, SMT
<1>7. ASSUME NEW k \in 1..(m - d) PROVE calls[q + k].tick <= stamps'[k]
  <2>1. k + d \in 1..m /\ q + k = p + (k + d)
    BY <1>2, <1>3, <1>5, <1>6, SMT
  <2> QED
    BY <1>1, <1>3, <2>1
<1>8. ASSUME NEW i \in 1..q PROVE calls[i].tick + Window <= ticks
  <2>1. CASE i \in 1..p
    BY <1>3, <2>1
  <2>2. CASE i \notin 1..p
    <3>1. PICK k : k = i - p
      OBVIOUS
    <3>2. k \in 1..d /\ k \in 1..m /\ i = p + k /\ i \in 1..n
      BY <1>2, <1>3, <1>5, <1>6, <2>2, <3>1, SMT
    <3>3. calls[i].tick <= stamps[k] /\ stamps[k] <= ticks - Window
      BY <1>1, <1>3, <3>2
    <3> QED
      BY <1>2, <3>2, <3>3, SMT
  <2> QED
    BY <2>1, <2>2
<1> QED
  BY <1>1, <1>6, <1>7, <1>8 DEF WindowInv, m

\* A call that is far enough from the old ones.
LEMMA SpacedCall ==
    ASSUME KnownInv, SpacedInv, NEW kind \in Kinds, Call_(kind), unstamped' = unstamped,
           \A i \in 1..Len(calls) :
              i + Limit + unstamped <= Len(calls) + 1 => calls[i].tick + Window <= ticks
    PROVE  SpacedInv'
<1> DEFINE n == Len(calls)
<1>1. /\ n \in Nat /\ DOMAIN calls = 1..n /\ Limit \in Nat /\ Limit > 0 /\ unstamped \in Nat
  BY LimitNumbers
<1>2. /\ DOMAIN calls' = 1..(n + 1) /\ \A i \in 1..n : calls'[i] = calls[i]
      /\ calls'[n + 1] = [kind |-> kind, tick |-> ticks]
  BY CallAdded
<1>3. calls'[n + 1].tick = ticks
  BY <1>2
<1>4. \A i \in 1..n : i + Limit + unstamped <= n + 1 => calls[i].tick + Window <= ticks
  OBVIOUS
<1> HIDE DEF n
<1>5. ASSUME NEW i \in 1..(n + 1), NEW j \in 1..(n + 1), i + Limit + unstamped <= j
      PROVE  calls'[i].tick + Window <= calls'[j].tick
  <2>1. i \in 1..n
    BY <1>1, <1>5, SMT
  <2>2. CASE j \in 1..n
    BY <1>1, <1>2, <1>5, <2>1, <2>2 DEF SpacedInv
  <2>3. CASE j = n + 1
    BY <1>2, <1>3, <1>4, <1>5, <2>1, <2>3
  <2>4. j \in 1..n \/ j = n + 1
    BY <1>1, SMT
  <2> QED
    BY <2>2, <2>3, <2>4
<1> QED
  BY <1>2, <1>5 DEF SpacedInv

\* GovWin.
LEMMA WindowsGovWin ==
    ASSUME KnownInv, ForwardInv, WindowsInv,
           AcquireGovWin \/ CallGovWin \/ RecordGovWin \/ LoseGovWin
    PROVE  WindowsInv'
<1>0. limiter = "govwin" /\ limiter' = "govwin"
  BY DEF AcquireGovWin, CallGovWin, RecordGovWin, LoseGovWin, KnownInv, Limiters
<1>1. WindowInv /\ RoomInv /\ SpacedInv
  BY <1>0 DEF WindowsInv
<1>2. CASE AcquireGovWin
  <2>1. /\ turn.pc = "free" /\ stamps' = Recent(stamps) /\ UNCHANGED <<calls, ticks, unstamped>>
        /\ turn'.pc \in {"free", "calling"}
        /\ turn'.pc = "calling" => Len(stamps') + 1 <= Limit
    BY <1>2 DEF AcquireGovWin, Free
  <2>2. InFlight = 0 /\ InFlight' = 0
    BY <2>1 DEF InFlight
  <2>3. WindowInv'
    BY <1>1, <2>1, <2>2, WindowPruned
  <2>4. Len(stamps') \in Nat
    BY <2>1, StampsPruned, LenProperties
  <2>5. turn'.pc = "calling" => Len(stamps') < Limit
    BY <2>1, <2>4, LimitConstants, SMT
  <2>6. RoomInv'
    BY <1>0, <2>5 DEF RoomInv, Limit
  <2>7. SpacedInv'
    BY <1>1, <2>1 DEF SpacedInv, Limit
  <2> QED
    BY <2>3, <2>6, <2>7 DEF WindowsInv
<1>3. CASE CallGovWin
  <2> DEFINE n == Len(calls)
             m == Len(stamps)
             p == Forgotten
  <2>1. /\ turn.pc = "calling" /\ Call_("read") /\ "read" \in Kinds /\ turn'.pc = "called"
        /\ UNCHANGED <<ticks, stamps, unstamped>>
    BY <1>3, KnownFacts DEF CallGovWin, KnownInv, Turn, Kinds
  <2>2. InFlight = 0 /\ InFlight' = 1
    BY <2>1 DEF InFlight
  <2>3. /\ DOMAIN calls' = 1..(n + 1) /\ Len(calls') = n + 1
        /\ \A i \in 1..n : calls'[i] = calls[i]
    BY <2>1, CallAdded
  <2>4. /\ n \in Nat /\ m \in Nat /\ unstamped \in Nat /\ p = n - m - unstamped /\ p \in Nat
        /\ \A k \in 1..m : calls[p + k].tick <= stamps[k]
        /\ \A i \in 1..p : calls[i].tick + Window <= ticks
        /\ m < Limit /\ Limit \in Nat
    BY <1>1, <2>1, <2>2, LimitNumbers, SMT DEF WindowInv, RoomInv
  <2>5. Forgotten' = (n + 1) - m - unstamped - 1
    BY <2>1, <2>2, <2>3 DEF Forgotten
  <2> HIDE DEF n, m, p
  <2>6. Forgotten' = p /\ \A k \in 1..m : p + k \in 1..n
    BY <2>4, <2>5, SMT
  <2>7. \A i \in 1..p : i \in 1..n
    BY <2>4, SMT
  <2>8. WindowInv'
    BY <2>1, <2>3, <2>4, <2>6, <2>7 DEF WindowInv, m
  <2>9. RoomInv'
    BY <1>0, <2>1 DEF RoomInv, Limit
  <2>10. ASSUME NEW i \in 1..n, i + Limit + unstamped <= n + 1
         PROVE  calls[i].tick + Window <= ticks
    <3>1. i \in 1..p
      BY <2>4, <2>10, SMT
    <3> QED
      BY <2>4, <3>1
  <2>11. SpacedInv'
    BY <1>1, <2>1, <2>10, SpacedCall DEF n
  <2> QED
    BY <2>8, <2>9, <2>11 DEF WindowsInv
<1>4. CASE RecordGovWin
  <2> DEFINE n == Len(calls)
             m == Len(stamps)
             p == Forgotten
  <2>1. /\ turn.pc = "called" /\ stamps' = Append(stamps, ticks) /\ turn'.pc = "free"
        /\ UNCHANGED <<ticks, calls, unstamped>>
    BY <1>4 DEF RecordGovWin, Free
  <2>2. InFlight = 1 /\ InFlight' = 0
    BY <2>1 DEF InFlight
  <2>3. /\ Len(stamps') = m + 1 /\ stamps'[m + 1] = ticks
        /\ \A k \in 1..m : stamps'[k] = stamps[k]
    BY <2>1, StampAdded
  <2>4. /\ n \in Nat /\ m \in Nat /\ unstamped \in Nat /\ p = n - m - unstamped - 1 /\ p \in Nat
        /\ \A k \in 1..m : calls[p + k].tick <= stamps[k]
        /\ \A i \in 1..p : calls[i].tick + Window <= ticks
    BY <1>1, <2>2, LimitNumbers, SMT DEF WindowInv
  <2>5. Forgotten' = n - (m + 1) - unstamped - 0
    BY <2>1, <2>2, <2>3 DEF Forgotten
  <2>6. \A i \in 1..n : calls[i].tick <= ticks
    BY KnownFacts DEF ForwardInv
  <2> HIDE DEF n, m, p
  <2>7. Forgotten' = p /\ p + (m + 1) \in 1..n
    BY <2>4, <2>5, SMT
  <2>8. ASSUME NEW k \in 1..(m + 1) PROVE calls[p + k].tick <= stamps'[k]
    <3>1. k \in 1..m \/ k = m + 1
      BY <2>4, SMT
    <3> QED
      BY <2>3, <2>4, <2>6, <2>7, <3>1
  <2>9. WindowInv'
    BY <2>1, <2>3, <2>4, <2>7, <2>8 DEF WindowInv
  <2>10. RoomInv'
    BY <1>0, <2>1 DEF RoomInv, Limit
  <2>11. SpacedInv'
    BY <1>1, <2>1 DEF SpacedInv, Limit
  <2> QED
    BY <2>9, <2>10, <2>11 DEF WindowsInv
<1>5. CASE LoseGovWin
  <2>1. /\ turn.pc = "called" /\ unstamped' = unstamped + 1 /\ turn'.pc = "free"
        /\ UNCHANGED <<ticks, calls, stamps>>
    BY <1>5 DEF LoseGovWin, Free
  <2>2. InFlight = 1 /\ InFlight' = 0
    BY <2>1 DEF InFlight
  <2>3. /\ unstamped' \in Nat /\ InFlight' \in Nat /\ ticks' \in Nat /\ ticks <= ticks'
        /\ unstamped' + InFlight' = unstamped + InFlight
    BY <2>1, <2>2, LimitNumbers, SMT
  <2>4. WindowInv'
    BY <1>1, <2>1, <2>3, WindowWaits
  <2>5. RoomInv'
    BY <1>0, <2>1 DEF RoomInv, Limit
  <2>6. ASSUME NEW i \in DOMAIN calls, NEW j \in DOMAIN calls, i + Limit + (unstamped + 1) <= j
        PROVE  i + Limit + unstamped <= j
    BY <2>6, LimitNumbers, SMT
  <2>7. SpacedInv'
    BY <1>1, <2>1, <2>6 DEF SpacedInv, Limit
  <2> QED
    BY <2>4, <2>5, <2>7 DEF WindowsInv
<1> QED
  BY <1>2, <1>3, <1>4, <1>5

\* HubSpot.
LEMMA WindowsHubSpot ==
    ASSUME KnownInv, ForwardInv, WindowsInv, AcquireHubSpot \/ WakeHubSpot
    PROVE  WindowsInv'
<1>0. limiter = "hubspot" /\ limiter' = "hubspot" /\ unstamped = 0 /\ unstamped' = 0
  BY DEF AcquireHubSpot, WakeHubSpot, KnownInv
<1>1. WindowInv /\ RoomInv /\ SpacedInv
  BY <1>0 DEF WindowsInv
<1> DEFINE n == Len(calls)
           m == Len(stamps)
           p == Forgotten
<1>2. CASE AcquireHubSpot
  <2>1. /\ turn.pc = "free" /\ stamps' = Recent(stamps) /\ UNCHANGED <<calls, ticks, unstamped>>
        /\ turn'.pc = "asleep"
        /\ turn'.wake = IF Len(stamps') < Limit THEN ticks ELSE stamps'[1] + Window + 1
    BY <1>2 DEF AcquireHubSpot, Free
  <2>2. InFlight = 0 /\ InFlight' = 0
    BY <2>1 DEF InFlight
  <2>3. WindowInv'
    BY <1>1, <2>1, <2>2, WindowPruned
  <2>4. PICK d \in 0..m :
              /\ stamps' \in Seq(0..MaxTicks) /\ Len(stamps') = m - d
              /\ \A i \in (d + 1)..m : stamps[i] > ticks - Window
    BY <2>1, StampsPruned
  <2>5. /\ m \in Nat /\ Limit \in Nat /\ Limit > 0 /\ ticks \in Nat /\ Window \in Nat
        /\ \A i \in 1..m : stamps[i] \in Nat
        /\ m > Limit => m = Limit + 1 /\ stamps[1] + Window <= ticks
    BY <1>0, <1>1, <2>1, LimitNumbers DEF RoomInv
  <2> HIDE DEF m
  <2>6. ASSUME Len(stamps') >= Limit PROVE Len(stamps') = Limit
    <3>1. CASE m > Limit
      <4>1. stamps[1] \in Nat /\ stamps[1] + Window <= ticks /\ 1 \in 1..m /\ m = Limit + 1
        BY <2>5, <3>1, SMT
      <4>2. d # 0
        <5>1. ASSUME d = 0 PROVE 1 \in (d + 1)..m
          BY <4>1, <5>1, SMT
        <5> QED
          BY <2>4, <2>5, <4>1, <5>1, SMT
      <4> QED
        BY <2>4, <2>5, <2>6, <4>1, <4>2, SMT
    <3>2. CASE ~(m > Limit)
      BY <2>4, <2>5, <2>6, <3>2, SMT
    <3> QED
      BY <3>1, <3>2
  <2>7. ASSUME Len(stamps') >= Limit PROVE stamps'[1] + Window <= turn'.wake
    <3>1. Len(stamps') = Limit /\ 1 \in 1..Len(stamps')
      BY <2>5, <2>6, <2>7, SMT
    <3>2. stamps'[1] \in 0..MaxTicks
      BY <2>4, <3>1, ElementOfSeq
    <3>3. turn'.wake = stamps'[1] + Window + 1
      BY <2>1, <2>5, <3>1, SMT
    <3> QED
      BY <2>5, <3>2, <3>3, LimitConstants, SMT
  <2>8. RoomInv'
    BY <1>0, <2>1, <2>6, <2>7 DEF RoomInv, Limit
  <2>9. SpacedInv'
    BY <1>1, <2>1 DEF SpacedInv, Limit
  <2> QED
    BY <2>3, <2>8, <2>9 DEF WindowsInv
<1>3. CASE WakeHubSpot
  <2>1. /\ turn.pc = "asleep" /\ ticks >= turn.wake /\ Call_("read") /\ "read" \in Kinds
        /\ stamps' = Append(stamps, ticks) /\ turn'.pc = "free"
        /\ UNCHANGED <<ticks, unstamped>>
    BY <1>3 DEF WakeHubSpot, Free, Kinds
  <2>2. InFlight = 0 /\ InFlight' = 0
    BY <2>1 DEF InFlight
  <2>3. /\ Len(calls') = n + 1 /\ calls'[n + 1] = [kind |-> "read", tick |-> ticks]
        /\ \A i \in 1..n : calls'[i] = calls[i]
    BY <2>1, CallAdded
  <2>4. /\ Len(stamps') = m + 1 /\ stamps'[m + 1] = ticks
        /\ \A k \in 1..m : stamps'[k] = stamps[k]
    BY <2>1, StampAdded
  <2>5. /\ n \in Nat /\ m \in Nat /\ p = n - m /\ p \in Nat /\ Limit \in Nat /\ Limit > 0
        /\ \A k \in 1..m : calls[p + k].tick <= stamps[k]
        /\ \A i \in 1..p : calls[i].tick + Window <= ticks
        /\ \A i \in 1..n : calls[i].tick \in Nat
        /\ \A i \in 1..m : stamps[i] \in Nat
        /\ ticks \in Nat /\ Window \in Nat
    BY <1>0, <1>1, <2>2, LimitNumbers, SMT DEF WindowInv
  <2>6. m >= Limit => m = Limit /\ stamps[1] + Window <= turn.wake
    BY <1>0, <1>1, <2>1 DEF RoomInv
  <2>7. Forgotten' = (n + 1) - (m + 1) - 0 - 0
    BY <1>0, <2>2, <2>3, <2>4 DEF Forgotten
  <2>8. turn.wake \in Nat
    BY KnownFacts
  <2>9. calls'[n + 1].tick = ticks
    BY <2>3
  <2> HIDE DEF n, m, p
  <2>10. Forgotten' = p
    BY <2>5, <2>7, SMT
  <2>11. ASSUME m >= Limit PROVE stamps[1] \in Nat /\ stamps[1] + Window <= ticks /\ 1 \in 1..m
    <3>1. 1 \in 1..m
      BY <2>5, <2>11, SMT
    <3>2. stamps[1] \in Nat
      BY <2>5, <3>1
    <3> QED
      BY <2>1, <2>5, <2>6, <2>8, <2>11, <3>1, <3>2, SMT
  <2>12. ASSUME NEW k \in 1..(m + 1) PROVE calls'[p + k].tick <= stamps'[k]
    <3>1. CASE k \in 1..m
      <4>1. p + k \in 1..n
        BY <2>5, <3>1, SMT
      <4> QED
        BY <2>3, <2>4, <2>5, <3>1, <4>1
    <3>2. CASE k \notin 1..m
      <4>1. k = m + 1 /\ p + k = n + 1
        BY <2>5, <2>12, <3>2, SMT
      <4> QED
        BY <2>4, <2>5, <2>9, <4>1, SMT
    <3> QED
      BY <3>1, <3>2
  <2>13. ASSUME NEW i \in 1..p PROVE calls'[i].tick + Window <= ticks
    <3>1. i \in 1..n
      BY <2>5, <2>13, SMT
    <3> QED
      BY <2>3, <2>5, <3>1
  <2>14. WindowInv'
    BY <2>1, <2>4, <2>5, <2>10, <2>12, <2>13 DEF WindowInv
  <2>15. RoomInv'
    <3>1. ASSUME m + 1 > Limit PROVE m + 1 = Limit + 1 /\ stamps'[1] + Window <= ticks
      <4>1. m >= Limit
        BY <2>5, <3>1, SMT
      <4> QED
        BY <2>4, <2>6, <2>11, <4>1
    <3> QED
      BY <1>0, <2>1, <2>4, <3>1 DEF RoomInv, Limit
  <2>16. ASSUME NEW i \in 1..n, i + Limit + unstamped <= n + 1
         PROVE  calls[i].tick + Window <= ticks
    <3>1. CASE i \in 1..p
      BY <2>5, <3>1
    <3>2. CASE i \notin 1..p
      <4>1. m >= Limit /\ i = p + 1
        BY <1>0, <2>5, <2>6, <2>16, <3>2, SMT
      <4>2. calls[i].tick <= stamps[1] /\ calls[i].tick \in Nat
        BY <2>5, <2>11, <4>1
      <4> QED
        BY <2>5, <2>11, <4>1, <4>2, SMT
    <3> QED
      BY <3>1, <3>2
  <2>17. SpacedInv'
    BY <1>1, <2>1, <2>16, SpacedCall DEF n
  <2> QED
    BY <2>14, <2>15, <2>17 DEF WindowsInv
<1> QED
  BY <1>2, <1>3

\* Time, and the steps that are about nothing here.
LEMMA WindowsNext ==
    ASSUME KnownInv, ForwardInv, WindowsInv, [LimitNext]_lvars PROVE WindowsInv'
<1>1. CASE LimitTick \/ UNCHANGED lvars
  <2> SUFFICES ASSUME limiter' # "ace" PROVE WindowInv' /\ RoomInv' /\ SpacedInv'
    BY DEF WindowsInv
  <2>1. /\ UNCHANGED <<limiter, stamps, turn, calls, unstamped>>
        /\ ticks' = ticks \/ ticks' = ticks + 1
    BY <1>1 DEF LimitTick, lvars
  <2>2. WindowInv /\ RoomInv /\ SpacedInv
    BY <2>1 DEF WindowsInv
  <2>3. InFlight' = InFlight /\ InFlight' \in Nat /\ unstamped' \in Nat
    BY <2>1, LimitNumbers, SMT DEF InFlight
  <2>4. ticks' \in Nat /\ ticks <= ticks'
    BY <2>1, LimitNumbers, SMT
  <2>5. unstamped' + InFlight' = unstamped + InFlight
    BY <2>1, <2>3
  <2>6. WindowInv'
    BY <2>1, <2>2, <2>3, <2>4, <2>5, WindowWaits
  <2>7. ASSUME Len(stamps) > Limit, stamps[1] + Window <= ticks PROVE stamps[1] + Window <= ticks'
    <3>1. 1 \in 1..Len(stamps)
      BY <2>7, LimitNumbers, SMT
    <3>2. stamps[1] \in Nat /\ Window \in Nat /\ ticks \in Nat
      BY <3>1, LimitNumbers
    <3> QED
      BY <2>4, <2>7, <3>2, SMT
  <2>8. RoomInv'
    BY <2>1, <2>2, <2>7 DEF RoomInv, Limit
  <2>9. SpacedInv'
    BY <2>1, <2>2 DEF SpacedInv, Limit
  <2> QED
    BY <2>6, <2>8, <2>9
<1>2. CASE AcquireGovWin \/ CallGovWin \/ RecordGovWin \/ LoseGovWin
  BY <1>2, WindowsGovWin
<1>3. CASE AcquireHubSpot \/ WakeHubSpot
  BY <1>3, WindowsHubSpot
<1>4. CASE (\E kind \in Kinds : AcquireAce(kind)) \/ WakeAce
  BY <1>4 DEF AcquireAce, WakeAce, WindowsInv
<1> QED
  BY <1>1, <1>2, <1>3, <1>4 DEF LimitNext

\* The windows keep the quotas.
LEMMA WindowQuota ==
    ASSUME KnownInv, WindowsInv, limiter # "ace", NEW a \in 0..MaxTicks, NEW b \in 0..MaxTicks,
           b < a + Window
    PROVE  Within("read", a, b) <= Limit + unstamped
<1> DEFINE S == {i \in DOMAIN calls : calls[i].kind = "read" /\ calls[i].tick \in a..b}
<1>1. S \in SUBSET Nat
  BY LimitNumbers, SMT
<1>2. Limit + unstamped \in Nat
  BY LimitNumbers, SMT
<1>3. ASSUME NEW i \in S, NEW j \in S PROVE j < i + (Limit + unstamped)
  <2>1. SpacedInv
    BY DEF WindowsInv
  <2>2. i \in DOMAIN calls /\ j \in DOMAIN calls /\ i \in Nat /\ j \in Nat
    BY LimitNumbers, SMT
  <2>3. calls[i].tick \in a..b /\ calls[j].tick \in a..b
    OBVIOUS
  <2>4. CASE i + Limit + unstamped <= j
    <3>1. calls[i].tick + Window <= calls[j].tick
      BY <2>1, <2>2, <2>4 DEF SpacedInv
    <3> QED
      BY <2>3, <3>1, LimitConstants, SMT
  <2>5. CASE ~(i + Limit + unstamped <= j)
    BY <2>2, <2>5, LimitNumbers, SMT
  <2> QED
    BY <2>4, <2>5
<1> HIDE DEF S
<1>4. Cardinality(S) <= Limit + unstamped
  BY <1>1, <1>2, <1>3, CloseNumbers
<1> QED
  BY <1>4 DEF Within, S

-----------------------------------------------------------------------------
(* The buckets.                                                            *)

\* Calls are counted by numbers.
LEMMA WithinTyped ==
    ASSUME KnownInv, NEW kind, NEW a, NEW b
    PROVE  /\ IsFiniteSet({i \in DOMAIN calls : calls[i].kind = kind /\ calls[i].tick \in a..b})
           /\ Within(kind, a, b) \in Nat /\ Within(kind, a, b) * Second \in Nat
<1> DEFINE S == {i \in DOMAIN calls : calls[i].kind = kind /\ calls[i].tick \in a..b}
<1>1. IsFiniteSet(1..Len(calls))
  <2>1. 1 \in Int /\ Len(calls) \in Int
    BY LimitNumbers, SMT
  <2> QED
    BY <2>1, FS_Interval
<1>2. S \subseteq 1..Len(calls)
  BY LimitNumbers
<1>3. IsFiniteSet(S) /\ Cardinality(S) \in Nat
  BY <1>1, <1>2, FS_Subset, FS_CardinalityType
<1>4. Within(kind, a, b) \in Nat
  BY <1>3 DEF Within
<1> QED
  BY <1>3, <1>4, LimitConstants, Times

\* A call counts from the tick it is made in.
LEMMA WithinCalled ==
    ASSUME KnownInv, NEW kind \in Kinds, Call_(kind), NEW x \in Kinds,
           NEW a \in Nat, NEW b \in Nat
    PROVE  Within(x, a, b)' =
              IF x = kind /\ ticks \in a..b THEN Within(x, a, b) + 1 ELSE Within(x, a, b)
<1> DEFINE n == Len(calls)
           S == {i \in DOMAIN calls : calls[i].kind = x /\ calls[i].tick \in a..b}
           T == {i \in DOMAIN calls' : calls'[i].kind = x /\ calls'[i].tick \in a..b}
<1>1. /\ DOMAIN calls' = 1..(n + 1) /\ \A i \in 1..n : calls'[i] = calls[i]
      /\ calls'[n + 1] = [kind |-> kind, tick |-> ticks]
  BY CallAdded
<1>2. calls'[n + 1].kind = kind /\ calls'[n + 1].tick = ticks
  BY <1>1
<1>3. n \in Nat /\ DOMAIN calls = 1..n
  BY LimitNumbers
<1>4. Within(x, a, b) = Cardinality(S) /\ Within(x, a, b)' = Cardinality(T)
  BY DEF Within
<1>5. IsFiniteSet(S)
  <2>1. IsFiniteSet(1..n) /\ S \subseteq 1..n
    BY <1>3, FS_Interval, SMT
  <2> QED
    BY <2>1, FS_Subset
<1> HIDE DEF n
<1>6. /\ \A i \in 1..(n + 1) : i \in 1..n \/ i = n + 1
      /\ \A i \in 1..n : i \in 1..(n + 1)
      /\ n + 1 \notin 1..n /\ n + 1 \in 1..(n + 1)
  BY <1>3, SMT
<1>7. CASE x = kind /\ ticks \in a..b
  <2>1. T = S \cup {n + 1} /\ n + 1 \notin S
    BY <1>1, <1>2, <1>3, <1>6, <1>7
  <2>2. Cardinality(T) = Cardinality(S) + 1
    BY <1>5, <2>1, FS_AddElement
  <2> QED
    BY <1>4, <1>7, <2>2
<1>8. CASE ~(x = kind /\ ticks \in a..b)
  <2>1. T = S
    BY <1>1, <1>2, <1>3, <1>6, <1>8
  <2> QED
    BY <1>4, <1>8, <2>1
<1> QED
  BY <1>7, <1>8

\* No call is made in the future.
LEMMA WithinAhead ==
    ASSUME KnownInv, ForwardInv, NEW kind \in Kinds, NEW a \in Nat, NEW b \in Nat, ticks <= b
    PROVE  /\ a <= ticks => Within(kind, a, b) = Within(kind, a, ticks)
           /\ a > ticks  => Within(kind, a, b) = 0
<1>1. \A i \in DOMAIN calls : calls[i].tick \in Nat /\ calls[i].tick <= ticks
  BY LimitNumbers DEF ForwardInv
<1>2. ticks \in Nat
  BY LimitNumbers
<1>3. \A i \in DOMAIN calls : calls[i].tick \in a..b <=> calls[i].tick \in a..ticks
  BY <1>1, <1>2, SMT
<1>4. Within(kind, a, b) = Within(kind, a, ticks)
  BY <1>3 DEF Within
<1>5. ASSUME a > ticks PROVE Within(kind, a, b) = 0
  <2>1. \A i \in DOMAIN calls : calls[i].tick \notin a..b
    BY <1>1, <1>2, <1>5, SMT
  <2>2. {i \in DOMAIN calls : calls[i].kind = kind /\ calls[i].tick \in a..b} = {}
    BY <2>1
  <2> QED
    BY <2>2, FS_EmptySet DEF Within
<1> QED
  BY <1>4, <1>5

\* The numbers that the bucket invariants are about.
LEMMA BucketNumbers ==
    ASSUME KnownInv, NEW kind \in Kinds
    PROVE  /\ Refilled[kind] \in Nat /\ tokens[kind] \in Nat /\ Refilled[kind] <= Capacity(kind)
           /\ Capacity(kind) \in Nat /\ Second \in Nat /\ Second <= Capacity(kind)
           /\ Rate[kind] \in Nat /\ ticks \in Nat /\ refilled \in Nat /\ refilled <= ticks
           /\ \A x \in Int : x * Rate[kind] \in Int
  BY RefilledTyped, LimitConstants, KnownFacts, Times

\* Buckets that were refilled now have what they have.
LEMMA JustRefilled ==
    ASSUME KnownInv', refilled' = ticks', NEW kind \in Kinds
    PROVE  Refilled'[kind] = tokens'[kind]
<1>1. /\ tokens'[kind] \in Nat /\ tokens'[kind] <= Capacity(kind) /\ ticks' \in 0..MaxTicks
      /\ Capacity(kind) \in Nat
  BY LimitConstants DEF KnownInv, Capacity
<1>2. Refilled'[kind] =
        Smaller(Capacity(kind), tokens'[kind] + (ticks' - refilled') * Rate[kind])
  BY DEF Refilled, Capacity, Smaller
<1>3. ticks' - refilled' = 0
  <2>1. PICK t : t = ticks'
    OBVIOUS
  <2>2. t \in Nat
    BY <1>1, <2>1, LimitConstants, SMT
  <2>3. t - t = 0
    BY <2>2, SMT
  <2> QED
    BY <2>1, <2>3
<1>4. (ticks' - refilled') * Rate[kind] = 0
  BY <1>3, LimitConstants, Times
<1> QED
  BY <1>1, <1>2, <1>4, SMT DEF Smaller

\* A token is taken for a call.
LEMMA TokenTaken ==
    ASSUME KnownInv, KnownInv', NEW kind \in Kinds, Call_(kind), Refilled[kind] >= Second,
           ticks' = ticks, refilled' = ticks, tokens' = [Refilled EXCEPT ![kind] = @ - Second],
           NEW x \in Kinds, TokensInv(x), PastInv(x)
    PROVE  TokensInv(x)' /\ PastInv(x)'
<1>0. /\ Refilled[x] \in Nat /\ Second \in Nat /\ Capacity(x) \in Nat /\ Rate[x] \in Nat
      /\ ticks \in Nat /\ \A y \in Int : y * Rate[x] \in Int
  BY BucketNumbers
<1>1. Refilled'[x] = IF x = kind THEN Refilled[x] - Second ELSE Refilled[x]
  <2>1. Refilled'[x] = tokens'[x]
    BY JustRefilled
  <2> QED
    BY <2>1, RefilledTyped
<1>2. ASSUME NEW a \in 0..ticks
      PROVE  Within(x, a, ticks)' * Second + Refilled'[x] <= Capacity(x) + (ticks - a) * Rate[x]
  <2>1. a \in Nat /\ ticks \in a..ticks /\ (ticks - a) \in Int
    BY <1>0, SMT
  <2>2. PICK w : w = Within(x, a, ticks)
    OBVIOUS
  <2>3. PICK v : v = Within(x, a, ticks)'
    OBVIOUS
  <2>4. PICK e : e = (ticks - a) * Rate[x]
    OBVIOUS
  <2>5. v = IF x = kind THEN w + 1 ELSE w
    BY <1>0, <2>1, <2>2, <2>3, WithinCalled
  <2>6. w \in Nat /\ w * Second \in Nat /\ e \in Int
    BY <1>0, <2>1, <2>2, <2>4, WithinTyped
  <2>7. w * Second + Refilled[x] <= Capacity(x) + e
    BY <2>2, <2>4 DEF TokensInv
  <2>8. (w + 1) * Second = w * Second + Second
    BY <1>0, <2>6, SMT
  <2>9. PICK r : r = Refilled'[x]
    OBVIOUS
  <2>10. r = IF x = kind THEN Refilled[x] - Second ELSE Refilled[x]
    BY <1>1, <2>9
  <2>11. v * Second + r <= Capacity(x) + e
    BY <1>0, <2>5, <2>6, <2>7, <2>8, <2>10, SMT
  <2> QED
    BY <2>3, <2>4, <2>9, <2>11
<1>3. TokensInv(x)'
  BY <1>2 DEF TokensInv, Capacity
<1>4. ASSUME NEW a \in 0..MaxTicks, NEW b \in 0..MaxTicks, a <= b, b < ticks
      PROVE  Within(x, a, b)' = Within(x, a, b)
  <2>1. a \in Nat /\ b \in Nat /\ ticks \notin a..b
    BY <1>0, <1>4, LimitConstants, SMT
  <2> QED
    BY <2>1, WithinCalled
<1>5. PastInv(x)'
  BY <1>4 DEF PastInv, Capacity
<1> QED
  BY <1>3, <1>5

\* AWS.
LEMMA BucketsAce ==
    ASSUME KnownInv, KnownInv', BucketsInv, (\E kind \in Kinds : AcquireAce(kind)) \/ WakeAce
    PROVE  BucketsInv'
<1>0. limiter = "ace" /\ SleepInv /\ \A x \in Kinds : TokensInv(x) /\ PastInv(x)
  BY DEF AcquireAce, WakeAce, BucketsInv
<1>1. ASSUME NEW kind \in Kinds, AcquireAce(kind) PROVE BucketsInv'
  <2>1. turn = Free /\ refilled' = ticks /\ ticks' = ticks
    BY <1>1 DEF AcquireAce
  <2>2. CASE Refilled[kind] >= Second
    <3>1. tokens' = [Refilled EXCEPT ![kind] = @ - Second] /\ Call_(kind) /\ turn'.pc = "free"
      BY <1>1, <2>1, <2>2 DEF AcquireAce, Free
    <3>2. \A x \in Kinds : TokensInv(x)' /\ PastInv(x)'
      BY <1>0, <2>1, <2>2, <3>1, TokenTaken
    <3> QED
      BY <3>1, <3>2 DEF BucketsInv, SleepInv
  <2>3. CASE ~(Refilled[kind] >= Second)
    <3>1. PICK q : q = (Second - Refilled[kind] + Rate[kind] - 1) \div Rate[kind]
      OBVIOUS
    <3>2. /\ tokens' = Refilled /\ calls' = calls
          /\ turn' = [pc |-> "asleep", kind |-> kind, wake |-> ticks + q]
      BY <1>1, <2>3, <3>1 DEF AcquireAce
    <3>3. q \in Nat /\ q * Rate[kind] >= Second - Refilled[kind]
      <4>1. Second - Refilled[kind] \in Nat /\ Rate[kind] \in Nat /\ Rate[kind] > 0
        BY <2>3, BucketNumbers, LimitConstants, SMT
      <4> QED
        BY <3>1, <4>1, LongEnough
    <3>4. turn'.kind = kind /\ turn'.wake = ticks + q
      BY <3>2
    <3>5. turn'.wake - refilled' = q
      BY <2>1, <3>3, <3>4, BucketNumbers, SMT
    <3>6. Second <= Refilled[kind] + q * Rate[kind]
      BY <3>3, BucketNumbers, SMT
    <3>7. SleepInv'
      BY <3>2, <3>4, <3>5, <3>6 DEF SleepInv
    <3>8. ASSUME NEW x \in Kinds PROVE TokensInv(x)' /\ PastInv(x)'
      <4>1. Refilled'[x] = Refilled[x]
        BY <2>1, <3>2, JustRefilled
      <4>2. \A a, b : Within(x, a, b)' = Within(x, a, b)
        BY <3>2 DEF Within
      <4>3. TokensInv(x) /\ PastInv(x)
        BY <1>0
      <4>4. ASSUME NEW a \in 0..ticks
            PROVE  Within(x, a, ticks)' * Second + Refilled'[x] <=
                      Capacity(x) + (ticks - a) * Rate[x]
        BY <2>1, <4>1, <4>2, <4>3 DEF TokensInv
      <4>5. TokensInv(x)'
        BY <2>1, <4>4 DEF TokensInv, Capacity
      <4>6. PastInv(x)'
        BY <2>1, <4>2, <4>3 DEF PastInv, Capacity
      <4> QED
        BY <4>5, <4>6
    <3> QED
      BY <3>7, <3>8 DEF BucketsInv
  <2> QED
    BY <2>2, <2>3
<1>2. CASE WakeAce
  <2>1. /\ turn.pc = "asleep" /\ ticks >= turn.wake /\ turn'.pc = "free"
        /\ refilled' = ticks /\ ticks' = ticks /\ Call_(turn.kind) /\ turn.kind \in Kinds
        /\ tokens' = [Refilled EXCEPT ![turn.kind] = IF @ >= Second THEN @ - Second ELSE 0]
    BY <1>2, KnownFacts DEF WakeAce, Free
  <2>2. PICK kind : kind = turn.kind
    OBVIOUS
  <2>3. Refilled[kind] >= Second
    <3>1. kind \in Kinds /\ turn.wake \in Nat /\ turn.wake - refilled <= ticks - refilled
      BY <2>1, <2>2, KnownFacts, SMT
    <3>2. PICK e, f : e = (turn.wake - refilled) * Rate[kind] /\ f = (ticks - refilled) * Rate[kind]
      OBVIOUS
    <3>3. turn.wake - refilled \in Int /\ ticks - refilled \in Int
      BY KnownFacts, SMT
    <3>4. e <= f /\ e \in Int /\ f \in Int
      BY <3>1, <3>2, <3>3, BucketNumbers, Times
    <3>5. Second <= tokens[kind] + e
      BY <1>0, <2>1, <2>2, <3>2 DEF SleepInv
    <3>6. Refilled[kind] = Capacity(kind) \/ Refilled[kind] = tokens[kind] + f
      BY <3>1, <3>2, RefilledTyped
    <3> QED
      BY <3>1, <3>4, <3>5, <3>6, BucketNumbers, SMT
  <2>4. tokens' = [Refilled EXCEPT ![kind] = @ - Second]
    BY <2>1, <2>2, <2>3
  <2>5. \A x \in Kinds : TokensInv(x)' /\ PastInv(x)'
    BY <1>0, <2>1, <2>2, <2>3, <2>4, TokenTaken
  <2> QED
    BY <2>1, <2>5 DEF BucketsInv, SleepInv
<1> QED
  BY <1>1, <1>2

\* Time passes.
LEMMA BucketsTick ==
    ASSUME KnownInv, ForwardInv, KnownInv', BucketsInv, LimitTick PROVE BucketsInv'
<1>0. /\ ticks' = ticks + 1 /\ UNCHANGED <<limiter, tokens, refilled, turn, calls>>
  BY DEF LimitTick
<1> SUFFICES ASSUME limiter = "ace" PROVE BucketsInv'
  BY <1>0 DEF BucketsInv
<1>1. SleepInv'
  BY <1>0 DEF BucketsInv, SleepInv
<1>2. ASSUME NEW x \in Kinds PROVE TokensInv(x)' /\ PastInv(x)'
  <2>0. TokensInv(x) /\ PastInv(x)
    BY DEF BucketsInv
  <2>1. /\ Refilled[x] \in Nat /\ tokens[x] \in Nat /\ Capacity(x) \in Nat /\ Second \in Nat
        /\ Rate[x] \in Nat /\ ticks \in Nat /\ refilled \in Nat /\ refilled <= ticks
        /\ \A y \in Int : y * Rate[x] \in Int
    BY BucketNumbers
  <2>2. \A a, b : Within(x, a, b)' = Within(x, a, b)
    BY <1>0 DEF Within
  <2>3. PICK r : r = Refilled'[x]
    OBVIOUS
  <2>30. PICK t : t = ticks'
    OBVIOUS
  <2>31. t \in Nat /\ t = ticks + 1 /\ ticks <= t
    BY <1>0, <2>1, <2>30, SMT
  <2>4. r \in Int /\ r <= Capacity(x) /\ r <= Refilled[x] + Rate[x]
    <3>1. PICK e, f : e = (ticks - refilled) * Rate[x] /\ f = (t - refilled) * Rate[x]
      OBVIOUS
    <3>2. ticks - refilled \in Int /\ (ticks - refilled) + 1 = t - refilled
      BY <2>1, <2>31, SMT
    <3>3. f = e + Rate[x] /\ e \in Int
      <4>1. ((ticks - refilled) + 1) * Rate[x] = (ticks - refilled) * Rate[x] + 1 * Rate[x]
        BY <2>1, <3>2, Times
      <4>2. 1 * Rate[x] = Rate[x]
        BY <2>1, Times
      <4> QED
        BY <2>1, <3>1, <3>2, <4>1, <4>2
    <3>4. Refilled[x] = Smaller(Capacity(x), tokens[x] + e)
      BY <3>1 DEF Refilled
    <3>5. r = Smaller(Capacity(x), tokens[x] + f)
      <4>1. Refilled'[x] =
              Smaller(Capacity(x), tokens'[x] + (ticks' - refilled') * Rate[x])
        BY DEF Refilled, Capacity, Smaller
      <4>2. tokens' = tokens /\ refilled' = refilled /\ ticks' = t
        BY <1>0, <2>30
      <4>3. (ticks' - refilled') * Rate[x] = f
        BY <3>1, <4>2
      <4> QED
        BY <2>3, <4>1, <4>2, <4>3
    <3> QED
      BY <2>1, <3>3, <3>4, <3>5, SMT DEF Smaller
  <2>5. ASSUME NEW a \in 0..t
        PROVE  Within(x, a, t) * Second + r <= Capacity(x) + (t - a) * Rate[x]
    <3>1. a \in Nat
      BY <2>1, <2>31, SMT
    <3>2. CASE a <= ticks
      <4>1. PICK w, e, f : /\ w = Within(x, a, ticks)
                           /\ e = (ticks - a) * Rate[x] /\ f = (t - a) * Rate[x]
        OBVIOUS
      <4>2. Within(x, a, t) = w /\ w * Second \in Nat
        BY <2>31, <3>1, <3>2, <4>1, WithinAhead, WithinTyped
      <4>3. ticks - a \in Int /\ (ticks - a) + 1 = t - a /\ a \in 0..ticks
        BY <2>1, <2>31, <3>1, <3>2, SMT
      <4>4. f = e + Rate[x] /\ e \in Int
        <5>1. ((ticks - a) + 1) * Rate[x] = (ticks - a) * Rate[x] + 1 * Rate[x]
          BY <2>1, <4>3, Times
        <5>2. 1 * Rate[x] = Rate[x]
          BY <2>1, Times
        <5> QED
          BY <2>1, <4>1, <4>3, <5>1, <5>2
      <4>5. w * Second + Refilled[x] <= Capacity(x) + e
        BY <2>0, <4>1, <4>3 DEF TokensInv
      <4>6. w * Second + r <= Capacity(x) + f
        BY <2>1, <2>4, <4>2, <4>4, <4>5, SMT
      <4> QED
        BY <4>1, <4>2, <4>6
    <3>3. CASE ~(a <= ticks)
      <4>1. a > ticks /\ t - a = 0
        BY <2>1, <2>31, <2>5, <3>1, <3>3, SMT
      <4>2. Within(x, a, t) = 0
        BY <2>31, <3>1, <4>1, WithinAhead
      <4>3. Within(x, a, t) * Second = 0 /\ (t - a) * Rate[x] = 0
        BY <2>1, <4>1, <4>2, Times
      <4> QED
        BY <2>1, <2>4, <4>3, SMT
    <3> QED
      BY <3>2, <3>3
  <2>6. TokensInv(x)'
    <3>1. ASSUME NEW a \in 0..t
          PROVE  Within(x, a, t)' * Second + r <= Capacity(x) + (t - a) * Rate[x]
      BY <2>2, <2>5, <3>1
    <3> QED
      BY <2>3, <2>30, <3>1 DEF TokensInv, Capacity
  <2>7. ASSUME NEW a \in 0..MaxTicks, NEW b \in 0..MaxTicks, a <= b, b < ticks + 1
        PROVE  Within(x, a, b) * Second <= Capacity(x) + (b - a) * Rate[x]
    <3>1. CASE b < ticks
      BY <2>0, <2>7, <3>1 DEF PastInv
    <3>2. CASE ~(b < ticks)
      <4>1. b = ticks /\ a \in 0..ticks /\ ticks - a \in Int
        BY <2>1, <2>7, <3>2, LimitConstants, SMT
      <4>2. PICK w, e : w = Within(x, a, ticks) * Second /\ e = (ticks - a) * Rate[x]
        OBVIOUS
      <4>3. w \in Nat /\ e \in Int /\ w + Refilled[x] <= Capacity(x) + e
        BY <2>0, <2>1, <4>1, <4>2, WithinTyped DEF TokensInv
      <4>4. w <= Capacity(x) + e
        BY <2>1, <4>3, SMT
      <4> QED
        BY <4>1, <4>2, <4>4
    <3> QED
      BY <3>1, <3>2
  <2>8. PastInv(x)'
    BY <1>0, <2>2, <2>7 DEF PastInv, Capacity
  <2> QED
    BY <2>6, <2>8
<1> QED
  BY <1>1, <1>2 DEF BucketsInv

\* Any step keeps the buckets.
LEMMA BucketsNext ==
    ASSUME KnownInv, ForwardInv, KnownInv', BucketsInv, [LimitNext]_lvars PROVE BucketsInv'
<1>1. CASE LimitTick
  BY <1>1, BucketsTick
<1>2. CASE (\E kind \in Kinds : AcquireAce(kind)) \/ WakeAce
  BY <1>2, BucketsAce
<1>3. CASE AcquireGovWin \/ CallGovWin \/ RecordGovWin \/ LoseGovWin
  <2>1. limiter' = "govwin"
    BY <1>3 DEF AcquireGovWin, CallGovWin, RecordGovWin, LoseGovWin, KnownInv, Limiters
  <2> QED
    BY <2>1 DEF BucketsInv
<1>4. CASE AcquireHubSpot \/ WakeHubSpot
  <2>1. limiter' = "hubspot"
    BY <1>4 DEF AcquireHubSpot, WakeHubSpot
  <2> QED
    BY <2>1 DEF BucketsInv
<1>5. CASE UNCHANGED lvars
  BY <1>5 DEF lvars, BucketsInv, SleepInv, TokensInv, PastInv, Within, Refilled, Capacity, Smaller
<1> QED
  BY <1>1, <1>2, <1>3, <1>4, <1>5 DEF LimitNext

-----------------------------------------------------------------------------
(* The invariant and the theorems.                                         *)

\* All of them.
LimitInv == KnownInv /\ ForwardInv /\ WindowsInv /\ BucketsInv

\* No calls, no stamps, full buckets.
LEMMA LimitStart == LimitInit => LimitInv
<1> SUFFICES ASSUME LimitInit PROVE LimitInv
  OBVIOUS
<1>1. /\ ticks = 0 /\ limiter \in Limiters /\ stamps = << >> /\ calls = << >>
      /\ tokens = [kind \in Kinds |-> Capacity(kind)] /\ refilled = 0
      /\ turn = Free /\ unstamped = 0 /\ turn.pc = "free"
  BY DEF LimitInit, Free
<1>2. /\ \A S : << >> \in Seq(S) /\ Len(<< >>) = 0
      /\ DOMAIN << >> = {}
  BY EmptySeq, LenProperties
<1>3. KnownInv
  <2>1. 0 \in 0..MaxTicks /\ 0 \in 0..ticks /\ Len(calls) <= MaxCalls /\ 0 \in Nat
    BY <1>1, <1>2, LimitConstants, SMT
  <2>2. Free \in Turn
    BY DEF Free, Turn, Kinds
  <2>3. tokens \in [Kinds -> Nat] /\ \A kind \in Kinds : tokens[kind] <= Capacity(kind)
    BY <1>1, LimitConstants, SMT
  <2> QED
    BY <1>1, <1>2, <2>1, <2>2, <2>3 DEF KnownInv
<1>4. ForwardInv
  BY <1>1, <1>2 DEF ForwardInv
<1>5. WindowsInv
  <2>1. InFlight = 0
    BY <1>1 DEF InFlight
  <2>2. Forgotten = 0 /\ 0 \in Nat /\ Len(stamps) = 0
    BY <1>1, <1>2, <2>1, SMT DEF Forgotten
  <2>3. 1..0 = {}
    BY SMT
  <2>4. WindowInv
    BY <2>2, <2>3 DEF WindowInv
  <2>5. ~(0 > Limit)
    BY LimitConstants, SMT
  <2>6. RoomInv
    BY <1>1, <2>2, <2>5 DEF RoomInv
  <2>7. SpacedInv
    BY <1>1, <1>2 DEF SpacedInv
  <2> QED
    BY <2>4, <2>6, <2>7 DEF WindowsInv
<1>6. BucketsInv
  <2>1. ASSUME NEW kind \in Kinds PROVE TokensInv(kind) /\ PastInv(kind)
    <3>1. Capacity(kind) \in Nat /\ Rate[kind] \in Nat /\ Refilled[kind] <= Capacity(kind)
          /\ Refilled[kind] \in Nat
      BY <1>3, BucketNumbers
    <3>2. ASSUME NEW a \in 0..ticks
          PROVE  Within(kind, a, ticks) * Second + Refilled[kind]
                    <= Capacity(kind) + (ticks - a) * Rate[kind]
      <4>1. {i \in DOMAIN calls : calls[i].kind = kind /\ calls[i].tick \in a..ticks} = {}
        BY <1>1, <1>2
      <4>2. Within(kind, a, ticks) = 0
        BY <4>1, FS_EmptySet DEF Within
      <4>3. a = 0 /\ ticks - a = 0
        <5>1. a \in 0..0 /\ ticks = 0
          BY <1>1, <3>2
        <5>2. a = 0 /\ 0 - 0 = 0
          BY <5>1, SMT
        <5> QED
          BY <5>1, <5>2
      <4>4. Within(kind, a, ticks) * Second = 0 /\ (ticks - a) * Rate[kind] = 0
        BY <3>1, <4>2, <4>3, LimitConstants, Times
      <4> QED
        BY <3>1, <4>4, SMT
    <3>3. \A b \in 0..MaxTicks : ~(b < ticks)
      BY <1>1, LimitConstants, SMT
    <3> QED
      BY <3>2, <3>3 DEF TokensInv, PastInv
  <2> QED
    BY <1>1, <2>1 DEF BucketsInv, SleepInv
<1> QED
  BY <1>3, <1>4, <1>5, <1>6 DEF LimitInv

\* Every step keeps the invariant.
LEMMA LimitStep == LimitInv /\ [LimitNext]_lvars => LimitInv'
  BY KnownNext, ForwardNext, WindowsNext, BucketsNext DEF LimitInv

\* The invariant has the types.
LEMMA LimitsKnown == LimitInv => LimitTypeOK
<1> SUFFICES ASSUME LimitInv PROVE LimitTypeOK
  OBVIOUS
<1>1. KnownInv
  BY DEF LimitInv
<1>2. Len(stamps) <= MaxCalls /\ unstamped \in 0..MaxCalls
  <2>1. Len(calls) <= MaxCalls
    BY <1>1 DEF KnownInv
  <2>2. CASE limiter = "ace"
    <3>1. stamps = << >> /\ unstamped = 0
      BY <1>1, <2>2 DEF KnownInv
    <3>2. Len(stamps) = 0
      BY <3>1
    <3> QED
      BY <3>1, <3>2, LimitConstants, SMT
  <2>3. CASE limiter # "ace"
    <3>1. Forgotten \in Nat
      BY <2>3 DEF LimitInv, WindowsInv, WindowInv
    <3> QED
      BY <1>1, <2>1, <3>1, LimitNumbers, LimitConstants, SMT
  <2> QED
    BY <2>2, <2>3
<1>3. calls \in Seq([kind : Kinds, tick : 0..MaxTicks])
  BY <1>1 DEF KnownInv, LimitCall
<1> QED
  BY <1>1, <1>2, <1>3 DEF KnownInv, LimitTypeOK, Turn

\* The types of what the limiters know and the services saw.
THEOREM LimitsTyped == LimitSpec => []LimitTypeOK
  BY LimitStart, LimitStep, LimitsKnown, PTL DEF LimitSpec

\* The invariant keeps the quotas.
LEMMA LimitsKeep == LimitInv => QuotaKept
<1> SUFFICES ASSUME LimitInv, NEW a \in 0..MaxTicks, NEW b \in 0..MaxTicks, a <= b
             PROVE  /\ limiter = "govwin" /\ b < a + Window /\ unstamped <= Margin
                         => Within("read", a, b) <= Quota
                    /\ limiter = "hubspot" /\ b < a + Window => Within("read", a, b) <= Limit
                    /\ limiter = "ace" => \A kind \in Kinds :
                          Within(kind, a, b) * Second <= Capacity(kind) + (b - a) * Rate[kind]
  BY DEF QuotaKept
<1>0. KnownInv /\ ForwardInv /\ WindowsInv /\ BucketsInv
  BY DEF LimitInv
<1>1. a \in Nat /\ b \in Nat /\ b - a \in Nat
  BY LimitConstants, SMT
<1>2. ASSUME limiter = "govwin", b < a + Window, unstamped <= Margin
      PROVE  Within("read", a, b) <= Quota
  <2>1. Within("read", a, b) <= Limit + unstamped /\ Within("read", a, b) \in Nat
    BY <1>0, <1>2, WindowQuota, WithinTyped
  <2> QED
    BY <1>0, <1>2, <2>1, LimitNumbers, LimitConstants, SMT
<1>3. ASSUME limiter = "hubspot", b < a + Window PROVE Within("read", a, b) <= Limit
  <2>1. Within("read", a, b) <= Limit + unstamped /\ unstamped = 0
    BY <1>0, <1>3, WindowQuota DEF KnownInv
  <2> QED
    BY <2>1, LimitConstants, SMT
<1>4. ASSUME limiter = "ace", NEW kind \in Kinds
      PROVE  Within(kind, a, b) * Second <= Capacity(kind) + (b - a) * Rate[kind]
  <2>1. TokensInv(kind) /\ PastInv(kind)
    BY <1>0, <1>4 DEF BucketsInv
  <2>2. CASE b < ticks
    BY <2>1, <2>2 DEF PastInv
  <2>3. CASE ~(b < ticks) /\ a <= ticks
    <3>1. ticks \in Nat /\ ticks <= b /\ a \in 0..ticks /\ ticks - a \in Nat /\ ticks - a <= b - a
      BY <1>0, <1>1, <2>3, LimitNumbers, SMT
    <3>2. PICK w, e, f : /\ w = Within(kind, a, ticks) * Second
                         /\ e = (ticks - a) * Rate[kind] /\ f = (b - a) * Rate[kind]
      OBVIOUS
    <3>3. w \in Nat /\ w + Refilled[kind] <= Capacity(kind) + e
      BY <1>0, <2>1, <3>1, <3>2, WithinTyped DEF TokensInv
    <3>4. e \in Nat /\ f \in Nat /\ e <= f
      BY <1>1, <3>1, <3>2, LimitConstants, Times
    <3>5. Within(kind, a, b) * Second = w
      BY <1>0, <1>1, <2>3, <3>1, <3>2, WithinAhead
    <3> QED
      BY <1>0, <3>2, <3>3, <3>4, <3>5, BucketNumbers, SMT
  <2>4. CASE ~(a <= ticks)
    <3>1. ticks <= b /\ a > ticks
      BY <1>0, <1>1, <2>4, LimitNumbers, SMT
    <3>2. Within(kind, a, b) = 0
      BY <1>0, <1>1, <3>1, WithinAhead
    <3>3. Within(kind, a, b) * Second = 0
      BY <3>2, LimitConstants, Times
    <3>4. (b - a) * Rate[kind] \in Nat
      BY <1>1, LimitConstants, Times
    <3> QED
      BY <3>3, <3>4, LimitConstants, SMT
  <2> QED
    BY <2>2, <2>3, <2>4
<1> QED
  BY <1>2, <1>3, <1>4

\* No service sees more calls than it allows.
THEOREM QuotasAreKept == LimitSpec => []QuotaKept
  BY LimitStart, LimitStep, LimitsKeep, PTL DEF LimitSpec

-----------------------------------------------------------------------------
(* The token of GovWin.                                                    *)

(* A token that was refused cannot come back because only the invocation   *)
(* it was issued to ever puts it to the vault, once, before anybody can    *)
(* have sent it; so it is enough that the vault is emptied before the      *)
(* invocation that was refused reads it again.                             *)

\* What an invocation holds was issued; it sends and puts real tokens only,
\* and stops after the last attempt.
HeldInv ==
    \A c \in Clients :
        /\ client[c].mem.token \in DOMAIN issued \cup {0}
        /\ client[c].refused \subseteq DOMAIN issued
        /\ client[c].pc \in {"cache", "send"} => client[c].mem.token # 0
        /\ client[c].pc = "again" => client[c].tries < Attempts

\* A token on its way to the vault is nowhere else, and was refused to nobody.
PrivateInv ==
    \A c \in Clients : client[c].pc = "cache" =>
        /\ vault.token # client[c].mem.token
        /\ \A d \in Clients :
              /\ client[c].mem.token \notin client[d].refused
              /\ d # c => client[d].mem.token # client[c].mem.token

\* What was refused is in nobody's memory, nor in the vault once it was emptied.
RefusedInv ==
    unput \/ \A c \in Clients :
        /\ client[c].mem.token \notin client[c].refused
        /\ client[c].pc = "clear" \/ vault.token \notin client[c].refused

TokenInv == TokenTypeOK /\ HeldInv /\ PrivateInv /\ RefusedInv

-----------------------------------------------------------------------------

\* The bounds, as the provers need them.
LEMMA TokenConstants ==
    /\ Life \in Nat /\ Buffer \in Nat /\ MaxNow \in Nat /\ MaxTokens \in Nat
    /\ MaxTokenFaults \in Nat
  BY TokenAssumption

\* Nothing is no token.
LEMMA NothingIsTyped == NoGrant \in Grant /\ Off \in Client
<1>1. 0 \in 0..(MaxNow + Life)
  BY TokenConstants, SMT
<1>2. NoGrant \in Grant
  BY <1>1 DEF NoGrant, Grant
<1>3. 0 \in 0..Attempts
  BY SMT DEF Attempts
<1> QED
  BY <1>2, <1>3 DEF Off, Client, TokenPcs

\* A failure counts against the bound.
LEMMA TokenFaultTyped ==
    ASSUME TokenTypeOK, NEW kind, TFault(kind) PROVE tfaults' \in 0..MaxTokenFaults
  BY TokenConstants, SMT DEF TokenTypeOK, TFault

\* The initial states: no token, no invocation.
LEMMA InitTokenInv == TokenInit => TokenInv
<1> SUFFICES ASSUME TokenInit PROVE TokenInv
  OBVIOUS
<1>1. \A c \in Clients : client[c] = Off
  BY DEF TokenInit
<1>2. issued = << >> /\ issued \in Seq(0..(MaxNow + Life)) /\ Len(issued) = 0 /\ DOMAIN issued = {}
  BY SMT DEF TokenInit
<1>3. now \in 0..MaxNow /\ tfaults \in 0..MaxTokenFaults /\ Len(issued) <= MaxTokens
  BY <1>2, TokenConstants, SMT DEF TokenInit
<1>4. TokenTypeOK
  BY <1>2, <1>3, NothingIsTyped DEF TokenInit, TokenTypeOK, NoGrant
<1>5. HeldInv /\ PrivateInv /\ RefusedInv
  BY <1>1 DEF HeldInv, PrivateInv, RefusedInv, Off, NoGrant
<1> QED
  BY <1>4, <1>5 DEF TokenInv

\* Time passes.
LEMMA StepPass == ASSUME TokenInv, Pass PROVE TokenInv'
<1>1. now' \in 0..MaxNow /\ UNCHANGED <<issued, withdrawn, vault, client, unput, tfaults>>
  BY TokenConstants, SMT DEF Pass, TokenInv, TokenTypeOK
<1> QED
  BY <1>1 DEF TokenInv, TokenTypeOK, HeldInv, PrivateInv, RefusedInv

\* GovWin withdraws a token.
LEMMA StepWithdraw == ASSUME TokenInv, NEW t \in DOMAIN issued, Withdraw(t) PROVE TokenInv'
<1>1. tfaults' \in 0..MaxTokenFaults
  BY TokenFaultTyped DEF Withdraw, TokenInv
<1>2. /\ withdrawn' = withdrawn \cup {t}
      /\ UNCHANGED <<now, issued, vault, client, unput>>
  BY DEF Withdraw
<1> QED
  BY <1>1, <1>2 DEF TokenInv, TokenTypeOK, HeldInv, PrivateInv, RefusedInv

\* Most steps of an invocation change only what it has in memory, which comes
\* from the vault if it is new.
LEMMA StepInMemory ==
    ASSUME TokenInv, NEW c \in Clients, NEW n \in Client,
           client' = [client EXCEPT ![c] = n],
           UNCHANGED <<now, issued, withdrawn, vault, unput>>,
           tfaults' \in 0..MaxTokenFaults,
           n.mem.token \in {0, client[c].mem.token, vault.token},
           n.refused \in {{}, client[c].refused},
           n.pc \notin {"cache", "clear"}, n.pc = "send" => n.mem.token # 0,
           n.pc = "again" => n.tries < Attempts,
           client[c].pc = "clear" => n.refused = {}
    PROVE  TokenInv'
<1> USE DEF TokenInv
<1>1. /\ client' \in [Clients -> Client]
      /\ \A d \in Clients : client'[d] = IF d = c THEN n ELSE client[d]
  BY DEF TokenTypeOK
<1>2. TokenTypeOK'
  BY <1>1 DEF TokenTypeOK
<1>3. HeldInv'
  BY <1>1 DEF HeldInv, TokenTypeOK
<1>4. PrivateInv'
  <2> SUFFICES ASSUME NEW e \in Clients, client'[e].pc = "cache"
               PROVE  /\ vault.token # client'[e].mem.token
                      /\ \A d \in Clients :
                            /\ client'[e].mem.token \notin client'[d].refused
                            /\ d # e => client'[d].mem.token # client'[e].mem.token
    BY DEF PrivateInv
  <2>1. e # c /\ client'[e] = client[e]
    BY <1>1
  <2>2. client[e].mem.token # 0 /\ client[e].pc = "cache"
    BY <2>1 DEF HeldInv
  <2>3. /\ vault.token # client[e].mem.token
        /\ \A d \in Clients :
              /\ client[e].mem.token \notin client[d].refused
              /\ d # e => client[d].mem.token # client[e].mem.token
    BY <2>2 DEF PrivateInv
  <2> QED
    BY <1>1, <2>1, <2>2, <2>3
<1>5. RefusedInv'
  <2>1. CASE unput
    BY <2>1 DEF RefusedInv
  <2>2. CASE ~unput
    <3>1. 0 \notin client[c].refused
      BY DEF HeldInv, TokenTypeOK
    <3>2. /\ client[c].mem.token \notin client[c].refused
          /\ client[c].pc = "clear" \/ vault.token \notin client[c].refused
      BY <2>2 DEF RefusedInv
    <3>3. n.mem.token \notin n.refused /\ vault.token \notin n.refused
      BY <3>1, <3>2
    <3> QED
      BY <1>1, <2>2, <3>3 DEF RefusedInv
  <2> QED
    BY <2>1, <2>2
<1> QED
  BY <1>2, <1>3, <1>4, <1>5


\* What is known of the record of an invocation.
LEMMA ClientTyped ==
    ASSUME TokenInv, NEW c \in Clients
    PROVE  /\ client[c] \in Client /\ client[c].mem \in Grant
           /\ client[c].tries \in 0..Attempts /\ client[c].refused \subseteq Numbers
           /\ vault \in Grant /\ now \in 0..MaxNow /\ unput \in BOOLEAN
           /\ tfaults \in 0..MaxTokenFaults
  BY DEF TokenInv, TokenTypeOK, Client

\* Where a request goes on after an attempt that failed.
LEMMA OverTyped ==
    ASSUME TokenInv, NEW c \in Clients
    PROVE  /\ Over(c) \in {"again", "ready"}
           /\ Over(c) = "again" => client[c].tries < Attempts
  BY DEF Over

\* An invocation starts, or ends.
LEMMA StepInvoke == ASSUME TokenInv, NEW c \in Clients, Invoke(c) PROVE TokenInv'
<1>1. CASE client' = [client EXCEPT ![c] = [Off EXCEPT !.pc = "ready"]]
  <2>1. [Off EXCEPT !.pc = "ready"] \in Client
    BY NothingIsTyped DEF Client, TokenPcs
  <2> QED
    BY <1>1, <2>1, ClientTyped, StepInMemory DEF Invoke, Off, NoGrant
<1>2. CASE client' = [client EXCEPT ![c] = Off]
  BY <1>2, NothingIsTyped, ClientTyped, StepInMemory DEF Invoke, Off, NoGrant
<1> QED
  BY <1>1, <1>2 DEF Invoke

\* An attempt begins.
LEMMA StepHeaders == ASSUME TokenInv, NEW c \in Clients, Headers(c) PROVE TokenInv'
<1> DEFINE n == [client[c] EXCEPT !.tries = IF Is(c, "ready") THEN 1 ELSE @ + 1,
                                  !.pc = IF Valid(client[c].mem) THEN "send" ELSE "load"]
<1>1. client[c].pc \in {"ready", "again"} /\ (client[c].pc # "ready" => client[c].tries < Attempts)
  BY DEF Headers, Is, TokenInv, HeldInv
<1>2. (IF Is(c, "ready") THEN 1 ELSE client[c].tries + 1) \in 0..Attempts
  BY <1>1, ClientTyped, SMT DEF Is, Attempts
<1>3. n \in Client
  BY <1>2, ClientTyped DEF Client, TokenPcs
<1>4. /\ client' = [client EXCEPT ![c] = n]
      /\ UNCHANGED <<now, issued, withdrawn, vault, unput, tfaults>>
  BY DEF Headers
<1>5. /\ n.mem = client[c].mem /\ n.refused = client[c].refused
      /\ n.pc = IF Valid(client[c].mem) THEN "send" ELSE "load"
  BY ClientTyped DEF Client
<1>6. n.pc = "send" => n.mem.token # 0
  BY <1>5 DEF Valid
<1> HIDE DEF n
<1> QED
  BY <1>1, <1>3, <1>4, <1>5, <1>6, ClientTyped, StepInMemory

\* Only the place in the request changes.
LEMMA StepMove ==
    ASSUME TokenInv, NEW c \in Clients, NEW pc \in {"ready", "again", "login"}, Move(c, pc),
           UNCHANGED <<now, issued, withdrawn, vault, unput>>,
           tfaults' \in 0..MaxTokenFaults,
           pc = "again" => client[c].tries < Attempts, client[c].pc # "clear"
    PROVE  TokenInv'
<1> DEFINE n == [client[c] EXCEPT !.pc = pc]
<1>1. n \in Client
  BY ClientTyped DEF Client, TokenPcs
<1>2. client' = [client EXCEPT ![c] = n]
  BY DEF Move
<1>3. /\ n.mem = client[c].mem /\ n.refused = client[c].refused
      /\ n.pc = pc /\ n.tries = client[c].tries
  BY ClientTyped DEF Client
<1> HIDE DEF n
<1> QED
  BY <1>1, <1>2, <1>3, StepInMemory

\* The vault is read.
LEMMA StepLoadToken == ASSUME TokenInv, NEW c \in Clients, LoadToken(c) PROVE TokenInv'
<1>1. client[c].pc = "load" /\ UNCHANGED <<now, issued, withdrawn, vault, unput>>
  BY DEF LoadToken, Is
<1>2. CASE Valid(vault) /\ client' = [client EXCEPT ![c].mem = vault, ![c].pc = "send"]
           /\ UNCHANGED tfaults
  <2> DEFINE n == [client[c] EXCEPT !.mem = vault, !.pc = "send"]
  <2>1. n \in Client /\ client' = [client EXCEPT ![c] = n]
    BY <1>2, ClientTyped DEF Client, TokenPcs
  <2>2. n.mem = vault /\ n.refused = client[c].refused /\ n.pc = "send"
    BY ClientTyped DEF Client
  <2>3. vault.token # 0
    BY <1>2 DEF Valid
  <2> HIDE DEF n
  <2> QED
    BY <1>1, <1>2, <2>1, <2>2, <2>3, ClientTyped, StepInMemory
<1>3. CASE /\ client' = [client EXCEPT ![c].refresh = vault.token,
                              ![c].pc = IF vault.token # 0 THEN "refresh" ELSE "login"]
           /\ UNCHANGED tfaults
  <2> DEFINE n == [client[c] EXCEPT !.refresh = vault.token,
                                    !.pc = IF vault.token # 0 THEN "refresh" ELSE "login"]
  <2>1. n \in Client /\ client' = [client EXCEPT ![c] = n]
    BY <1>3, ClientTyped DEF Client, TokenPcs, Grant
  <2>2. n.mem = client[c].mem /\ n.refused = client[c].refused /\ n.pc \in {"refresh", "login"}
    BY ClientTyped DEF Client
  <2> HIDE DEF n
  <2> QED
    BY <1>1, <1>3, <2>1, <2>2, ClientTyped, StepInMemory
<1>4. CASE TFault("no_vault") /\ Move(c, "login")
  BY <1>1, <1>4, TokenFaultTyped, StepMove DEF TokenInv
<1> QED
  BY <1>2, <1>3, <1>4 DEF LoadToken

\* GovWin issues a token that nobody has.
LEMMA StepIssue ==
    ASSUME TokenInv, NEW c \in Clients, Issue(c), client[c].pc # "clear",
           UNCHANGED <<now, withdrawn, vault, unput, tfaults>>
    PROVE  TokenInv'
<1> DEFINE t == Len(issued) + 1
           g == [token |-> t, expires |-> now + Life]
           n == [client[c] EXCEPT !.mem = g, !.pc = "cache"]
<1>1. /\ issued \in Seq(0..(MaxNow + Life)) /\ Len(issued) \in Nat /\ Len(issued) < MaxTokens
      /\ DOMAIN issued = 1..Len(issued)
  BY DEF Issue, TokenInv, TokenTypeOK
<1>2. now + Life \in 0..(MaxNow + Life)
  BY ClientTyped, TokenConstants, SMT
<1>3. /\ issued' \in Seq(0..(MaxNow + Life)) /\ Len(issued') = t
      /\ DOMAIN issued' = DOMAIN issued \cup {t}
  <2>1. issued' = Append(issued, now + Life)
    BY DEF Issue
  <2>2. issued' \in Seq(0..(MaxNow + Life)) /\ Len(issued') = t
    BY <1>1, <1>2, <2>1, AppendProperties
  <2>3. DOMAIN issued' = 1..t
    BY <2>2, LenProperties
  <2> QED
    BY <1>1, <2>2, <2>3, SMT
<1>4. t \in Numbers /\ t # 0 /\ t \notin DOMAIN issued \cup {0} /\ t <= MaxTokens
  BY <1>1, TokenConstants, SMT DEF Numbers
<1>5. g \in Grant
  BY <1>2, <1>4 DEF Grant
<1>6. n \in Client /\ client' = [client EXCEPT ![c] = n]
  BY <1>5, ClientTyped DEF Client, TokenPcs, Issue
<1>7. /\ n.mem.token = t /\ n.refused = client[c].refused /\ n.pc = "cache"
  BY ClientTyped DEF Client
<1> HIDE DEF n, t
<1>8. /\ client' \in [Clients -> Client]
      /\ \A d \in Clients : client'[d] = IF d = c THEN n ELSE client[d]
  BY <1>6 DEF TokenInv, TokenTypeOK
<1>9. TokenTypeOK'
  <2>1. withdrawn \subseteq DOMAIN issued /\ vault.token \in DOMAIN issued \cup {0}
    BY DEF TokenInv, TokenTypeOK
  <2> QED
    BY <1>3, <1>4, <1>8, <2>1, ClientTyped DEF TokenTypeOK
<1>10. HeldInv'
  BY <1>3, <1>4, <1>7, <1>8 DEF TokenInv, HeldInv
<1>11. \A d \in Clients : client[d].mem.token # t /\ t \notin client[d].refused
  BY <1>4 DEF TokenInv, HeldInv
<1>12. vault.token # t
  BY <1>4 DEF TokenInv, TokenTypeOK
<1>13. PrivateInv'
  <2> SUFFICES ASSUME NEW e \in Clients, client'[e].pc = "cache"
               PROVE  /\ vault.token # client'[e].mem.token
                      /\ \A d \in Clients :
                            /\ client'[e].mem.token \notin client'[d].refused
                            /\ d # e => client'[d].mem.token # client'[e].mem.token
    BY DEF PrivateInv
  <2>1. CASE e = c
    BY <1>7, <1>8, <1>11, <1>12, <2>1
  <2>2. CASE e # c
    BY <1>7, <1>8, <1>11, <2>2 DEF TokenInv, PrivateInv
  <2> QED
    BY <2>1, <2>2
<1>14. RefusedInv'
  BY <1>7, <1>8, <1>11 DEF TokenInv, RefusedInv
<1> QED
  BY <1>9, <1>10, <1>13, <1>14 DEF TokenInv

\* A refresh, or a login.
LEMMA StepRefresh == ASSUME TokenInv, NEW c \in Clients, Refresh(c) PROVE TokenInv'
<1>1. client[c].pc = "refresh" /\ UNCHANGED <<now, withdrawn, vault, unput>>
  BY DEF Refresh, Is
<1>2. CASE Issue(c) /\ UNCHANGED tfaults
  BY <1>1, <1>2, StepIssue
<1>3. CASE TFault("no_refresh") /\ Move(c, "login") /\ UNCHANGED issued
  BY <1>1, <1>3, TokenFaultTyped, StepMove DEF TokenInv
<1>4. CASE TFault("no_answer") /\ Move(c, Over(c)) /\ UNCHANGED issued
  <2>1. tfaults' \in 0..MaxTokenFaults
    BY <1>4, TokenFaultTyped DEF TokenInv
  <2> QED
    BY <1>1, <1>4, <2>1, OverTyped, StepMove
<1> QED
  BY <1>2, <1>3, <1>4 DEF Refresh

\* A login with the password.
LEMMA StepLogin == ASSUME TokenInv, NEW c \in Clients, Login(c) PROVE TokenInv'
<1>1. client[c].pc = "login" /\ UNCHANGED <<now, withdrawn, vault, unput>>
  BY DEF Login, Is
<1>2. CASE Issue(c) /\ UNCHANGED tfaults
  BY <1>1, <1>2, StepIssue
<1>3. CASE TFault("no_answer") /\ Move(c, "ready") /\ UNCHANGED issued
  BY <1>1, <1>3, TokenFaultTyped, StepMove DEF TokenInv
<1> QED
  BY <1>2, <1>3 DEF Login

\* A write to the vault is refused, or takes place.
LEMMA PutTyped ==
    ASSUME TokenInv, NEW g, Put(g)
    PROVE  /\ tfaults' \in 0..MaxTokenFaults /\ unput' \in BOOLEAN /\ (unput => unput')
           /\ (vault' = g \/ (vault' = vault /\ unput'))
<1>1. CASE vault' = g /\ UNCHANGED <<unput, tfaults>>
  BY <1>1, ClientTyped DEF TokenInv, TokenTypeOK
<1>2. CASE TFault("no_put") /\ unput' = TRUE /\ UNCHANGED vault
  BY <1>2, TokenFaultTyped DEF TokenInv
<1> QED
  BY <1>1, <1>2 DEF Put

\* The new token goes to the vault.
LEMMA StepCache == ASSUME TokenInv, NEW c \in Clients, Cache(c) PROVE TokenInv'
<1> DEFINE n == [client[c] EXCEPT !.pc = "send"]
           g == client[c].mem
<1>1. /\ client[c].pc = "cache" /\ UNCHANGED <<now, issued, withdrawn>> /\ Put(g)
      /\ client' = [client EXCEPT ![c] = n]
  BY DEF Cache, Is, Move
<1>2. n \in Client /\ n.mem = g /\ n.refused = client[c].refused /\ n.pc = "send"
  BY ClientTyped DEF Client, TokenPcs
<1>3. /\ tfaults' \in 0..MaxTokenFaults /\ unput' \in BOOLEAN /\ (unput => unput')
      /\ (vault' = g \/ (vault' = vault /\ unput'))
  BY <1>1, PutTyped
<1>4. /\ g \in Grant /\ g.token \in DOMAIN issued \cup {0} /\ g.token # 0
  BY <1>1, ClientTyped DEF TokenInv, HeldInv
<1>5. \A d \in Clients : /\ g.token \notin client[d].refused
                         /\ d # c => client[d].mem.token # g.token
  BY <1>1 DEF TokenInv, PrivateInv
<1> HIDE DEF n, g
<1>6. /\ client' \in [Clients -> Client]
      /\ \A d \in Clients : client'[d] = IF d = c THEN n ELSE client[d]
  BY <1>1, <1>2 DEF TokenInv, TokenTypeOK
<1>7. vault' \in Grant /\ vault'.token \in DOMAIN issued \cup {0}
  BY <1>3, <1>4 DEF TokenInv, TokenTypeOK
<1>8. TokenTypeOK'
  BY <1>1, <1>3, <1>6, <1>7 DEF TokenInv, TokenTypeOK
<1>9. HeldInv'
  BY <1>1, <1>2, <1>4, <1>6 DEF TokenInv, HeldInv
<1>10. PrivateInv'
  <2> SUFFICES ASSUME NEW e \in Clients, client'[e].pc = "cache"
               PROVE  /\ vault'.token # client'[e].mem.token
                      /\ \A d \in Clients :
                            /\ client'[e].mem.token \notin client'[d].refused
                            /\ d # e => client'[d].mem.token # client'[e].mem.token
    BY DEF PrivateInv
  <2>1. e # c /\ client'[e] = client[e]
    BY <1>2, <1>6
  <2>2. /\ vault.token # client[e].mem.token
        /\ \A d \in Clients :
              /\ client[e].mem.token \notin client[d].refused
              /\ d # e => client[d].mem.token # client[e].mem.token
    BY <2>1 DEF TokenInv, PrivateInv
  <2>3. vault'.token # client[e].mem.token
    BY <1>3, <1>5, <2>1, <2>2
  <2>4. \A d \in Clients : client'[d].refused = client[d].refused /\ client'[d].mem = client[d].mem
    BY <1>2, <1>6 DEF g
  <2> QED
    BY <2>1, <2>2, <2>3, <2>4
<1>11. RefusedInv'
  <2>1. CASE unput'
    BY <2>1 DEF RefusedInv
  <2>2. CASE ~unput'
    <3>1. vault' = g /\ ~unput
      BY <1>3, <2>2
    <3> QED
      BY <1>2, <1>5, <1>6, <3>1 DEF TokenInv, RefusedInv
  <2> QED
    BY <2>1, <2>2
<1> QED
  BY <1>8, <1>9, <1>10, <1>11 DEF TokenInv

\* The answer of GovWin; a refusal ends the use of the token in memory.
LEMMA StepSend == ASSUME TokenInv, NEW c \in Clients, Send(c) PROVE TokenInv'
<1> DEFINE t == client[c].mem.token
<1>1. client[c].pc = "send" /\ UNCHANGED <<now, issued, withdrawn, vault, unput>>
  BY DEF Send, Is
<1>2. CASE client' = [client EXCEPT ![c].pc = "ready"] /\ UNCHANGED tfaults
  BY <1>1, <1>2, ClientTyped, StepMove DEF Move
<1>3. CASE TFault("no_answer") /\ Move(c, Over(c))
  <2>1. tfaults' \in 0..MaxTokenFaults
    BY <1>3, TokenFaultTyped DEF TokenInv
  <2> QED
    BY <1>1, <1>3, <2>1, OverTyped, StepMove
<1>4. CASE /\ client' = [client EXCEPT ![c].pc = "clear", ![c].mem = NoGrant,
                                       ![c].refused = @ \cup {t}]
           /\ UNCHANGED tfaults
  <2> DEFINE n == [client[c] EXCEPT !.pc = "clear", !.mem = NoGrant, !.refused = @ \cup {t}]
  <2>1. t \in DOMAIN issued /\ t # 0
    BY <1>1 DEF TokenInv, HeldInv
  <2>2. DOMAIN issued \subseteq Numbers
    <3>1. issued \in Seq(0..(MaxNow + Life)) /\ Len(issued) <= MaxTokens
      BY DEF TokenInv, TokenTypeOK
    <3>2. DOMAIN issued = 1..Len(issued) /\ Len(issued) \in Nat
      BY <3>1, LenProperties
    <3> QED
      BY <3>1, <3>2, TokenConstants, SMT DEF Numbers
  <2>3. n \in Client
    BY <2>1, <2>2, ClientTyped, NothingIsTyped DEF Client, TokenPcs
  <2>4. n.mem.token = 0 /\ n.refused = client[c].refused \cup {t} /\ n.pc = "clear"
    BY ClientTyped DEF Client, NoGrant
  <2>5. client' = [client EXCEPT ![c] = n]
    BY <1>4
  <2> HIDE DEF n, t
  <2>6. /\ client' \in [Clients -> Client]
        /\ \A d \in Clients : client'[d] = IF d = c THEN n ELSE client[d]
    BY <2>3, <2>5 DEF TokenInv, TokenTypeOK
  <2>7. TokenTypeOK'
    BY <1>1, <1>4, <2>6 DEF TokenInv, TokenTypeOK
  <2>8. HeldInv'
    BY <1>1, <2>1, <2>4, <2>6 DEF TokenInv, HeldInv
  <2>9. 0 \notin n.refused
    BY <2>1, <2>2, <2>3, SMT DEF Client, Numbers
  <2>10. PrivateInv'
    <3> SUFFICES ASSUME NEW e \in Clients, client'[e].pc = "cache"
                 PROVE  /\ vault.token # client'[e].mem.token
                        /\ \A d \in Clients :
                              /\ client'[e].mem.token \notin client'[d].refused
                              /\ d # e => client'[d].mem.token # client'[e].mem.token
      BY <1>1 DEF PrivateInv
    <3>1. e # c /\ client'[e] = client[e]
      BY <2>4, <2>6
    <3>2. /\ vault.token # client[e].mem.token
          /\ \A d \in Clients :
                /\ client[e].mem.token \notin client[d].refused
                /\ d # e => client[d].mem.token # client[e].mem.token
      BY <3>1 DEF TokenInv, PrivateInv
    <3>3. client[e].mem.token # 0 /\ client[e].mem.token # t
      BY <3>1, <3>2 DEF TokenInv, HeldInv, t
    <3> QED
      BY <2>4, <2>6, <3>1, <3>2, <3>3
  <2>11. RefusedInv'
    BY <1>1, <2>4, <2>6, <2>9 DEF TokenInv, RefusedInv
  <2> QED
    BY <2>7, <2>8, <2>10, <2>11 DEF TokenInv
<1> QED
  BY <1>2, <1>3, <1>4 DEF Send

\* The vault is emptied.
LEMMA StepClear == ASSUME TokenInv, NEW c \in Clients, Clear(c) PROVE TokenInv'
<1> DEFINE n == [client[c] EXCEPT !.pc = Over(c)]
<1>1. /\ client[c].pc = "clear" /\ UNCHANGED <<now, issued, withdrawn>> /\ Put(NoGrant)
      /\ client' = [client EXCEPT ![c] = n]
  BY DEF Clear, Is, Move
<1>2. /\ n \in Client /\ n.mem = client[c].mem /\ n.refused = client[c].refused
      /\ n.pc \in {"again", "ready"} /\ (n.pc = "again" => n.tries < Attempts)
  BY ClientTyped, OverTyped DEF Client, TokenPcs
<1>3. /\ tfaults' \in 0..MaxTokenFaults /\ unput' \in BOOLEAN /\ (unput => unput')
      /\ (vault' = NoGrant \/ (vault' = vault /\ unput'))
  BY <1>1, PutTyped
<1> HIDE DEF n
<1>4. /\ client' \in [Clients -> Client]
      /\ \A d \in Clients : client'[d] = IF d = c THEN n ELSE client[d]
  BY <1>1, <1>2 DEF TokenInv, TokenTypeOK
<1>5. vault' \in Grant /\ vault'.token \in DOMAIN issued \cup {0} /\ NoGrant.token = 0
  BY <1>3, NothingIsTyped DEF TokenInv, TokenTypeOK, NoGrant
<1>6. TokenTypeOK'
  BY <1>1, <1>3, <1>4, <1>5 DEF TokenInv, TokenTypeOK
<1>7. HeldInv'
  BY <1>1, <1>2, <1>4 DEF TokenInv, HeldInv
<1>8. PrivateInv'
  <2> SUFFICES ASSUME NEW e \in Clients, client'[e].pc = "cache"
               PROVE  /\ vault'.token # client'[e].mem.token
                      /\ \A d \in Clients :
                            /\ client'[e].mem.token \notin client'[d].refused
                            /\ d # e => client'[d].mem.token # client'[e].mem.token
    BY DEF PrivateInv
  <2>1. e # c /\ client'[e] = client[e]
    BY <1>2, <1>4
  <2>2. /\ vault.token # client[e].mem.token /\ client[e].mem.token # 0
        /\ \A d \in Clients :
              /\ client[e].mem.token \notin client[d].refused
              /\ d # e => client[d].mem.token # client[e].mem.token
    BY <2>1 DEF TokenInv, PrivateInv, HeldInv
  <2>3. vault'.token # client[e].mem.token
    BY <1>3, <1>5, <2>2
  <2>4. \A d \in Clients : client'[d].refused = client[d].refused /\ client'[d].mem = client[d].mem
    BY <1>2, <1>4
  <2> QED
    BY <2>1, <2>2, <2>3, <2>4
<1>9. RefusedInv'
  <2>1. CASE unput'
    BY <2>1 DEF RefusedInv
  <2>2. CASE ~unput'
    <3>1. vault'.token = 0 /\ ~unput
      BY <1>3, <1>5, <2>2
    <3>2. \A d \in Clients : 0 \notin client'[d].refused
      BY <1>4, SMT DEF Client, Numbers
    <3>3. \A d \in Clients :
            client'[d].refused = client[d].refused /\ client'[d].mem = client[d].mem
      BY <1>2, <1>4
    <3> QED
      BY <3>1, <3>2, <3>3 DEF TokenInv, RefusedInv
  <2> QED
    BY <2>1, <2>2
<1> QED
  BY <1>6, <1>7, <1>8, <1>9 DEF TokenInv

-----------------------------------------------------------------------------

\* TokenInv is inductive: every step of an invocation, of GovWin and of time
\* keeps it, whatever Secrets Manager refuses.
THEOREM TokenInvariant == TokenSpec => []TokenInv
<1>1. TokenInv /\ [TokenNext]_tvars => TokenInv'
  <2> SUFFICES ASSUME TokenInv, [TokenNext]_tvars PROVE TokenInv'
    OBVIOUS
  <2>1. CASE Pass
    BY <2>1, StepPass
  <2>2. ASSUME NEW t \in DOMAIN issued, Withdraw(t) PROVE TokenInv'
    BY <2>2, StepWithdraw
  <2>3. ASSUME NEW c \in Clients,
               \/ Invoke(c) \/ Headers(c) \/ LoadToken(c) \/ Refresh(c) \/ Login(c) \/ Cache(c)
               \/ Send(c) \/ Clear(c)
        PROVE  TokenInv'
    BY <2>3, StepInvoke, StepHeaders, StepLoadToken, StepRefresh, StepLogin, StepCache,
       StepSend, StepClear
  <2>4. CASE UNCHANGED tvars
    BY <2>4 DEF tvars, TokenInv, TokenTypeOK, HeldInv, PrivateInv, RefusedInv, Valid
  <2> QED
    BY <2>1, <2>2, <2>3, <2>4 DEF TokenNext
<1> QED
  BY <1>1, InitTokenInv, PTL DEF TokenSpec

\* The types of what GovWin, the vault and the invocations hold; in particular
\* no request is tried more than three times.
THEOREM TokensTyped == TokenSpec => []TokenTypeOK
<1>1. TokenInv => TokenTypeOK
  BY DEF TokenInv
<1> QED
  BY <1>1, TokenInvariant, PTL

\* _request and invalidate, for any number of invocations: a token is not sent
\* again by the one it was refused, unless the vault could not be written.
THEOREM NotReused == TokenSpec => []RefusedNotReused
<1>1. TokenInv => RefusedNotReused
  BY DEF TokenInv, RefusedInv, RefusedNotReused, Is
<1> QED
  BY <1>1, TokenInvariant, PTL
-----------------------------------------------------------------------------
(* At the door: a served signature has its row, for as long as the row      *)
(* lives.                                                                  *)

\* A call is about a delivery.
PostedInv == \A x \in Lambdas : call[x] # Idle => call[x].sig.id \in DOMAIN deliveries

\* After a serving its row is there, with a ttl that is cut by less than a
\* second, or the time of the row is over.
LivesInv ==
    \A s \in Signature : \A i \in DOMAIN served[s] :
        \/ \E r \in rows : r.sig = s /\ served[s][i] + MaxAge < r.ttl + PerSecond
        \/ served[s][i] + MaxAge + 1 < clock + PerSecond

(* Behind the door: how far a call has come says what it has done.         *)

\* Deliveries whose changes for a queue are there, or logged.
Handed(q) == {d \in DOMAIN deliveries :
    \A c \in deliveries[d].changes : Route(c) = q => c \in queued[q] \cup logged}

\* A call that sends to the second queue is through with the first, one that
\* moves the stage has written the form.
StepInv ==
    \A x \in Lambdas :
        /\ call[x].pc \in {"check", "patch", "flip"} => deliveries[call[x].sig.id].card
        /\ call[x].pc \in {"update", "audit"} => call[x].sig.id \in Handed("submit")
        /\ call[x].pc = "audit" => call[x].sig.id \in Handed("update")
        /\ call[x].pc = "flip" => form # {}

\* The card brings no changes of its own.
CardInv == \A d \in DOMAIN deliveries : deliveries[d].card => deliveries[d].changes = {}

DoorInv    == PostedInv /\ LivesInv /\ ServedApart
BehindInv  == StepInv /\ CardInv /\ ChangesAreQueued /\ SubmitHasForm
RequestInv == RequestTypeOK /\ DoorInv /\ BehindInv

-----------------------------------------------------------------------------
(* Types.                                                                  *)

\* The bounds, as the provers need them.
LEMMA RequestConstants ==
    /\ MaxAge \in Nat /\ Ahead \in Nat /\ MaxClock \in Nat /\ MaxDeliveries \in Nat
    /\ PerSecond \in Nat /\ PerSecond > 0
    /\ MaxTries \in Nat /\ MaxTries > 0 /\ MaxRequestFaults \in Nat
  BY RequestAssumption

\* The list of deliveries.
LEMMA DeliveriesTyped ==
    ASSUME RequestTypeOK
    PROVE  /\ Len(deliveries) \in Nat /\ DOMAIN deliveries = 1..Len(deliveries)
           /\ DOMAIN deliveries \subseteq Ids
           /\ \A d \in DOMAIN deliveries :
                 /\ deliveries[d] \in Delivery /\ deliveries[d].tries \in 1..MaxTries
                 /\ deliveries[d].changes \subseteq Changes
<1>1. deliveries \in Seq(Delivery) /\ Len(deliveries) <= MaxDeliveries
  BY DEF RequestTypeOK
<1>2. /\ Len(deliveries) \in Nat /\ DOMAIN deliveries = 1..Len(deliveries)
      /\ \A d \in DOMAIN deliveries : deliveries[d] \in Delivery
  BY <1>1, LenProperties, ElementOfSeq
<1>3. DOMAIN deliveries \subseteq Ids
  BY <1>1, <1>2, RequestConstants, SMT DEF Ids
<1> QED
  BY <1>2, <1>3 DEF Delivery

\* The calls of the containers.
LEMMA CallTyped ==
    ASSUME RequestTypeOK, NEW x \in Lambdas, call[x] # Idle
    PROVE  /\ call[x] \in Call /\ call[x].sig \in Signature
           /\ call[x].pc \in RequestSteps /\ call[x].pc # "idle"
           /\ call[x].sig.id \in Ids /\ call[x].sig.try \in 1..MaxTries
<1>1. call[x] \in Call
  BY DEF RequestTypeOK
<1> QED
  BY <1>1 DEF Call, Signature, RequestSteps

\* A container at a step is not idle.
LEMMA NotIdle == ASSUME NEW x, call[x].pc # "idle" PROVE call[x] # Idle
  BY DEF Idle

\* A failure counts against the bound.
LEMMA RequestFaultTyped ==
    ASSUME RequestTypeOK, NEW kind, RFault(kind) PROVE rfaults' \in 0..MaxRequestFaults
  BY RequestConstants, SMT DEF RequestTypeOK, RFault

\* The initial states: nothing is sent.
LEMMA InitRequestInv == RequestInit => RequestInv
<1> SUFFICES ASSUME RequestInit PROVE RequestInv
  OBVIOUS
<1> USE DEF RequestInit
<1>1. /\ deliveries = << >> /\ DOMAIN deliveries = {} /\ deliveries \in Seq(Delivery)
      /\ Len(deliveries) = 0
  BY SMT
<1>2. 0 \in 0..MaxClock /\ 0 \in 0..MaxRequestFaults /\ 0 <= MaxDeliveries /\ 0 \in Nat
  BY RequestConstants, SMT
<1>3. RequestTypeOK
  BY <1>1, <1>2 DEF RequestTypeOK
<1>4. \A x \in Lambdas : call[x] = Idle
  OBVIOUS
<1>5. \A s \in Signature : served[s] = << >> /\ DOMAIN served[s] = {}
  OBVIOUS
<1>6. DoorInv
  BY <1>4, <1>5 DEF DoorInv, PostedInv, LivesInv, ServedApart
<1>7. BehindInv
  BY <1>1, <1>4 DEF BehindInv, StepInv, CardInv, ChangesAreQueued, SubmitHasForm, Idle
<1> QED
  BY <1>3, <1>6, <1>7 DEF RequestInv

-----------------------------------------------------------------------------
(* Steps of a container.                                                   *)

\* The deliveries are the same, but for their attempts and outcomes.
SameContents ==
    /\ deliveries' \in Seq(Delivery) /\ Len(deliveries') = Len(deliveries)
    /\ DOMAIN deliveries' = DOMAIN deliveries
    /\ \A d \in DOMAIN deliveries :
          /\ deliveries'[d].card = deliveries[d].card
          /\ deliveries'[d].changes = deliveries[d].changes

\* The deliveries are the same, but for their outcomes.
SameDeliveries ==
    /\ SameContents
    /\ \A d \in DOMAIN deliveries : deliveries'[d].tries = deliveries[d].tries

\* No other container moves.
Only(x) ==
    /\ call' \in [Lambdas -> Call \cup {Idle}]
    /\ \A y \in Lambdas \ {x} : call'[y] = call[y]

\* One call takes the place of another.
LEMMA OneCall ==
    ASSUME RequestTypeOK, NEW x \in Lambdas, NEW n \in Call \cup {Idle},
           call' = [call EXCEPT ![x] = n]
    PROVE  Only(x) /\ call'[x] = n
  BY DEF RequestTypeOK, Only

\* Deliveries are the same when nothing happens to them.
LEMMA UnchangedDeliveries ==
    ASSUME RequestTypeOK, UNCHANGED deliveries PROVE SameDeliveries
  BY DEF RequestTypeOK, SameDeliveries, SameContents

\* A delivery with another outcome.
LEMMA OutcomeTyped ==
    ASSUME RequestTypeOK, NEW id \in DOMAIN deliveries, NEW n \in Delivery,
           deliveries' = [deliveries EXCEPT ![id] = n]
    PROVE  /\ deliveries' \in Seq(Delivery) /\ Len(deliveries') = Len(deliveries)
           /\ DOMAIN deliveries' = DOMAIN deliveries
           /\ \A d \in DOMAIN deliveries : deliveries'[d] = IF d = id THEN n ELSE deliveries[d]
<1>1. deliveries \in Seq(Delivery) /\ id \in 1..Len(deliveries)
  BY LenProperties DEF RequestTypeOK
<1>2. /\ deliveries' \in Seq(Delivery) /\ Len(deliveries') = Len(deliveries)
      /\ \A d \in 1..Len(deliveries) : deliveries'[d] = IF d = id THEN n ELSE deliveries[d]
  BY <1>1, ExceptSeq
<1> QED
  BY <1>1, <1>2, LenProperties

\* The call ends; the delivery counts as done after a 200 or a 202 only.
LEMMA ReplyEffect ==
    ASSUME RequestTypeOK, PostedInv, NEW x \in Lambdas, call[x] # Idle, NEW code,
           Reply(x, code)
    PROVE  /\ Only(x) /\ call'[x] = Idle /\ SameDeliveries
           /\ \A d \in DOMAIN deliveries : deliveries'[d].state = "done" =>
                 \/ deliveries[d].state = "done"
                 \/ d = call[x].sig.id /\ code \in {200, 202}
<1> DEFINE id == call[x].sig.id
           n  == [deliveries[id] EXCEPT !.state = IF code \in {200, 202} THEN "done" ELSE "failed"]
<1>1. Only(x) /\ call'[x] = Idle
  BY OneCall DEF Reply
<1>2. CASE UNCHANGED deliveries
  BY <1>1, <1>2, UnchangedDeliveries
<1>3. CASE deliveries' = [deliveries EXCEPT ![id].state =
                             IF code \in {200, 202} THEN "done" ELSE "failed"]
  <2>1. id \in DOMAIN deliveries
    BY DEF PostedInv
  <2>2. deliveries[id] \in Delivery
    BY <2>1, DeliveriesTyped
  <2>3. /\ n \in Delivery /\ n.card = deliveries[id].card /\ n.changes = deliveries[id].changes
        /\ n.tries = deliveries[id].tries /\ (n.state = "done" => code \in {200, 202})
    BY <2>2 DEF Delivery
  <2>4. deliveries' = [deliveries EXCEPT ![id] = n]
    BY <1>3
  <2> HIDE DEF n, id
  <2>5. /\ deliveries' \in Seq(Delivery) /\ Len(deliveries') = Len(deliveries)
        /\ DOMAIN deliveries' = DOMAIN deliveries
        /\ \A d \in DOMAIN deliveries : deliveries'[d] = IF d = id THEN n ELSE deliveries[d]
    BY <2>1, <2>3, <2>4, OutcomeTyped
  <2> QED
    BY <1>1, <2>3, <2>5 DEF SameDeliveries, SameContents, id
<1> QED
  BY <1>2, <1>3 DEF Reply

\* What was handed to SQS, or logged, stays.
LEMMA HandedStays ==
    ASSUME SameContents, \A q \in Queues : queued[q] \subseteq queued'[q],
           logged \subseteq logged', NEW d \in DOMAIN deliveries, NEW q \in Queues, d \in Handed(q)
    PROVE  d \in Handed(q)'
  BY DEF SameContents, Handed

\* A step past the door leaves the door as it is.
LEMMA PastTheDoor ==
    ASSUME DoorInv, NEW x \in Lambdas, call[x] # Idle, Only(x),
           call'[x] = Idle \/ call'[x].sig = call[x].sig,
           SameDeliveries, UNCHANGED <<clock, rows, served>>
    PROVE  DoorInv'
<1>1. \A y \in Lambdas : y # x => call'[y] = call[y]
  BY DEF Only
<1>2. PostedInv'
  BY <1>1 DEF DoorInv, PostedInv, SameDeliveries, SameContents
<1>3. LivesInv' /\ ServedApart'
  BY DEF DoorInv, LivesInv, ServedApart
<1> QED
  BY <1>2, <1>3 DEF DoorInv

\* A step of a container keeps what is known behind the door, if its new place
\* and the new outcomes are justified.
LEMMA BehindTheDoor ==
    ASSUME PostedInv, BehindInv, NEW x \in Lambdas, call[x] # Idle, Only(x), SameContents,
           \A q \in Queues : queued[q] \subseteq queued'[q],
           logged \subseteq logged', form \subseteq form',
           \/ call'[x] = Idle
           \/ /\ call'[x].sig = call[x].sig
              /\ call'[x].pc \in {"check", "patch", "flip"} => deliveries[call[x].sig.id].card
              /\ call'[x].pc \in {"update", "audit"} => call[x].sig.id \in Handed("submit")'
              /\ call'[x].pc = "audit" => call[x].sig.id \in Handed("update")'
              /\ call'[x].pc = "flip" => form' # {},
           \A d \in DOMAIN deliveries : deliveries'[d].state = "done" =>
              deliveries[d].state = "done" \/ \A q \in Queues : d \in Handed(q)',
           "stage" \in pending' => "stage" \in pending \/ form' # {}
    PROVE  BehindInv'
<1>1. \A y \in Lambdas : y # x => call'[y] = call[y]
  BY DEF Only
<1>2. \A y \in Lambdas : call[y].pc # "idle" => call[y].sig.id \in DOMAIN deliveries
  BY NotIdle DEF PostedInv
<1>3. ASSUME NEW d \in DOMAIN deliveries, NEW q \in Queues, d \in Handed(q) PROVE d \in Handed(q)'
  BY <1>3, HandedStays
<1>4. StepInv'
  <2> SUFFICES ASSUME NEW y \in Lambdas
               PROVE  /\ call'[y].pc \in {"check", "patch", "flip"} =>
                            deliveries'[call'[y].sig.id].card
                      /\ call'[y].pc \in {"update", "audit"} =>
                            call'[y].sig.id \in Handed("submit")'
                      /\ call'[y].pc = "audit" => call'[y].sig.id \in Handed("update")'
                      /\ call'[y].pc = "flip" => form' # {}
    BY DEF StepInv
  <2>1. CASE y = x
    <3>1. CASE call'[x] = Idle
      BY <2>1, <3>1 DEF Idle
    <3>2. CASE call'[x] # Idle
      <4>1. call[x].sig.id \in DOMAIN deliveries
        BY DEF PostedInv
      <4> QED
        BY <2>1, <3>2, <4>1 DEF SameContents
    <3> QED
      BY <3>1, <3>2
  <2>2. CASE y # x
    <3>1. call'[y] = call[y]
      BY <1>1, <2>2
    <3>2. CASE call[y].pc = "idle"
      BY <3>1, <3>2
    <3>3. CASE call[y].pc # "idle"
      <4>1. call[y].sig.id \in DOMAIN deliveries
        BY <1>2, <3>3
      <4>2. deliveries'[call[y].sig.id].card = deliveries[call[y].sig.id].card
        BY <4>1 DEF SameContents
      <4>3. \A q \in Queues : call[y].sig.id \in Handed(q) => call[y].sig.id \in Handed(q)'
        BY <1>3, <4>1
      <4>4. "submit" \in Queues /\ "update" \in Queues
        BY DEF Queues
      <4> QED
        BY <3>1, <4>2, <4>3, <4>4 DEF BehindInv, StepInv
    <3> QED
      BY <3>2, <3>3
  <2> QED
    BY <2>1, <2>2
<1>5. CardInv'
  BY DEF BehindInv, CardInv, SameContents
<1>6. ChangesAreQueued'
  <2> SUFFICES ASSUME NEW d \in DOMAIN deliveries, deliveries'[d].state = "done", NEW q \in Queues
               PROVE  d \in Handed(q)'
    BY DEF ChangesAreQueued, Handed, SameContents
  <2>1. CASE deliveries[d].state = "done"
    <3>1. d \in Handed(q)
      BY <2>1 DEF BehindInv, ChangesAreQueued, Handed
    <3> QED
      BY <3>1, <1>3
  <2> QED
    BY <2>1
<1>7. SubmitHasForm'
  BY DEF BehindInv, SubmitHasForm, SameContents
<1> QED
  BY <1>4, <1>5, <1>6, <1>7 DEF BehindInv

\* A call goes on to its next step.
LEMMA NextEffect ==
    ASSUME RequestTypeOK, NEW x \in Lambdas, call[x] # Idle, NEW step \in RequestSteps,
           Next_(x, step)
    PROVE  Only(x) /\ call'[x].pc = step /\ call'[x].sig = call[x].sig
<1> DEFINE n == [call[x] EXCEPT !.pc = step]
<1>1. call' = [call EXCEPT ![x] = n]
  BY DEF Next_
<1>2. n \in Call /\ n.pc = step /\ n.sig = call[x].sig
  BY CallTyped DEF Call
<1> HIDE DEF n
<1>3. Only(x) /\ call'[x] = n
  BY <1>1, <1>2, OneCall
<1> QED
  BY <1>2, <1>3

\* The types after a step of a container that posts nothing.
LEMMA ContainerTyped ==
    ASSUME RequestTypeOK, NEW x \in Lambdas, Only(x), SameDeliveries, UNCHANGED <<clock, wire>>,
           pending' \subseteq Changes,
           rows' \subseteq [sig : Signature, ttl : 0..(MaxClock + MaxAge)],
           served' \in [Signature -> Seq(0..MaxClock)], queued' \in [Queues -> SUBSET Changes],
           logged' \subseteq Changes, alerted' \subseteq Changes, form' \subseteq Ids,
           rfaults' \in 0..MaxRequestFaults
    PROVE  RequestTypeOK'
  BY DEF RequestTypeOK, SameDeliveries, SameContents, Only

\* The answer ends a call.
LEMMA StepReply ==
    ASSUME RequestInv, NEW x \in Lambdas, call[x] # Idle, NEW code, Reply(x, code),
           UNCHANGED <<clock, wire, rows, served, queued, logged, form>>,
           pending' \subseteq Changes, alerted' \subseteq Changes,
           rfaults' \in 0..MaxRequestFaults,
           code \in {200, 202} => \A q \in Queues : call[x].sig.id \in Handed(q)',
           "stage" \in pending' => "stage" \in pending \/ form # {}
    PROVE  RequestInv'
<1> USE DEF RequestInv
<1>1. /\ Only(x) /\ call'[x] = Idle /\ SameDeliveries
      /\ \A d \in DOMAIN deliveries : deliveries'[d].state = "done" =>
            \/ deliveries[d].state = "done"
            \/ d = call[x].sig.id /\ code \in {200, 202}
  BY ReplyEffect DEF DoorInv
<1>2. RequestTypeOK'
  <2>1. /\ rows' \subseteq [sig : Signature, ttl : 0..(MaxClock + MaxAge)]
        /\ served' \in [Signature -> Seq(0..MaxClock)] /\ queued' \in [Queues -> SUBSET Changes]
        /\ logged' \subseteq Changes /\ form' \subseteq Ids
    BY DEF RequestTypeOK
  <2>2. RequestTypeOK /\ UNCHANGED <<clock, wire>>
    OBVIOUS
  <2> HIDE DEF RequestInv
  <2> QED
    BY <1>1, <2>1, <2>2, ContainerTyped
<1>3. DoorInv'
  <2>1. RequestTypeOK /\ DoorInv /\ UNCHANGED <<clock, wire, rows, served>>
    OBVIOUS
  <2> HIDE DEF RequestInv
  <2> QED
    BY <1>1, <2>1, PastTheDoor
<1>4. RequestTypeOK /\ PostedInv /\ BehindInv
  BY DEF DoorInv
<1>5. \A d \in DOMAIN deliveries : deliveries'[d].state = "done" =>
         deliveries[d].state = "done" \/ \A q \in Queues : d \in Handed(q)'
  BY <1>1
<1>6. BehindInv'
  <2>1. /\ \A q \in Queues : queued[q] \subseteq queued'[q]
        /\ logged \subseteq logged' /\ form \subseteq form'
        /\ "stage" \in pending' => "stage" \in pending \/ form' # {}
    OBVIOUS
  <2> HIDE DEF RequestInv
  <2> QED
    BY <1>1, <1>4, <1>5, <2>1, BehindTheDoor DEF SameDeliveries
<1> QED
  BY <1>2, <1>3, <1>6

\* A call past the door goes on.
LEMMA StepNext ==
    ASSUME RequestInv, NEW x \in Lambdas, call[x] # Idle, NEW step \in RequestSteps \ {"reserve"},
           Next_(x, step), UNCHANGED <<clock, pending, deliveries, wire, rows, served, alerted>>,
           \A q \in Queues : queued[q] \subseteq queued'[q],
           queued' \in [Queues -> SUBSET Changes],
           logged \subseteq logged', logged' \subseteq Changes,
           form \subseteq form', form' \subseteq Ids, rfaults' \in 0..MaxRequestFaults,
           step \in {"check", "patch", "flip"} => deliveries[call[x].sig.id].card,
           step \in {"update", "audit"} => call[x].sig.id \in Handed("submit")',
           step = "audit" => call[x].sig.id \in Handed("update")',
           step = "flip" => form' # {}
    PROVE  RequestInv'
<1> USE DEF RequestInv
<1>1. Only(x) /\ call'[x].pc = step /\ call'[x].sig = call[x].sig
  BY NextEffect
<1>2. SameDeliveries
  BY UnchangedDeliveries
<1>3. RequestTypeOK'
  <2>1. /\ rows' \subseteq [sig : Signature, ttl : 0..(MaxClock + MaxAge)]
        /\ served' \in [Signature -> Seq(0..MaxClock)] /\ pending' \subseteq Changes
        /\ alerted' \subseteq Changes
    BY DEF RequestTypeOK
  <2> QED
    BY <1>1, <1>2, <2>1, ContainerTyped
<1>4. DoorInv'
  BY <1>1, <1>2, PastTheDoor
<1>5. PostedInv
  BY DEF DoorInv
<1>6. BehindInv'
  BY <1>1, <1>2, <1>5, BehindTheDoor DEF SameDeliveries
<1> QED
  BY <1>3, <1>4, <1>6

\* The last whole second.
LEMMA WholeSecond ==
    ASSUME RequestTypeOK
    PROVE  /\ clock - (clock % PerSecond) \in 0..MaxClock
           /\ clock < (clock - (clock % PerSecond)) + PerSecond
<1>1. clock \in Nat /\ clock <= MaxClock
  BY RequestConstants, SMT DEF RequestTypeOK
<1> QED
  BY <1>1, RequestConstants, SMT

\* A row is put for a signature that has none: the serving is apart from the
\* earlier ones, whose rows are gone.
LEMMA RowIsPut ==
    ASSUME RequestTypeOK, DoorInv, NEW s \in Signature, ~Known(s), rows' = rows \cup {Row(s)},
           served' = [served EXCEPT ![s] = Append(@, clock)], UNCHANGED clock
    PROVE  /\ rows' \subseteq [sig : Signature, ttl : 0..(MaxClock + MaxAge)]
           /\ served' \in [Signature -> Seq(0..MaxClock)]
           /\ LivesInv' /\ ServedApart'
<1> DEFINE r == Row(s)
           n == Len(served[s])
<1>1. clock \in 0..MaxClock /\ served[s] \in Seq(0..MaxClock)
  BY DEF RequestTypeOK
<1>2. r \in [sig : Signature, ttl : 0..(MaxClock + MaxAge)] /\ r.sig = s
  <2>1. (clock - (clock % PerSecond)) + MaxAge \in 0..(MaxClock + MaxAge)
    BY WholeSecond, RequestConstants, SMT
  <2> QED
    BY <2>1 DEF Row
<1>3. clock + MaxAge < r.ttl + PerSecond
  <2>1. r.ttl = (clock - (clock % PerSecond)) + MaxAge
    BY DEF Row
  <2> QED
    BY <1>1, <2>1, WholeSecond, RequestConstants, SMT
<1>4. /\ n \in Nat /\ DOMAIN served[s] = 1..n /\ Append(served[s], clock) \in Seq(0..MaxClock)
      /\ DOMAIN Append(served[s], clock) = 1..(n + 1)
      /\ \A i \in 1..n : Append(served[s], clock)[i] = served[s][i]
      /\ Append(served[s], clock)[n + 1] = clock
  BY <1>1, LenProperties, AppendProperties
<1>5. /\ served' \in [Signature -> Seq(0..MaxClock)] /\ served'[s] = Append(served[s], clock)
      /\ \A t \in Signature : t # s => served'[t] = served[t]
  BY <1>4 DEF RequestTypeOK
<1>6. \A i \in DOMAIN served[s] :
         served[s][i] \in 0..MaxClock /\ served[s][i] + MaxAge + 1 < clock + PerSecond
  BY <1>1, <1>4, ElementOfSeq DEF DoorInv, LivesInv, Known
<1> HIDE DEF r
<1>7. rows' = rows \cup {r}
  BY DEF r
<1>8. LivesInv'
  <2> SUFFICES ASSUME NEW t \in Signature, NEW i \in DOMAIN served'[t]
               PROVE  \/ \E q \in rows' : q.sig = t /\ served'[t][i] + MaxAge < q.ttl + PerSecond
                      \/ served'[t][i] + MaxAge + 1 < clock + PerSecond
    BY DEF LivesInv
  <2>1. CASE t # s
    BY <1>5, <1>7, <2>1 DEF DoorInv, LivesInv
  <2>2. CASE t = s /\ i \in 1..n
    BY <1>4, <1>5, <1>6, <2>2
  <2>3. CASE t = s /\ i = n + 1
    BY <1>2, <1>3, <1>4, <1>5, <1>7, <2>3
  <2>4. 1..(n + 1) = (1..n) \cup {n + 1}
    BY <1>4, SMT
  <2> QED
    BY <1>4, <1>5, <2>1, <2>2, <2>3, <2>4
<1>9. ServedApart'
  <2> SUFFICES ASSUME NEW t \in Signature, NEW i \in DOMAIN served'[t], NEW j \in DOMAIN served'[t],
                      i < j
               PROVE  served'[t][i] + MaxAge + 1 < served'[t][j] + PerSecond
    BY DEF ServedApart
  <2>1. CASE t # s
    BY <1>5, <2>1 DEF DoorInv, ServedApart
  <2>2. CASE t = s
    <3>1. i \in 1..(n + 1) /\ j \in 1..(n + 1)
      BY <1>4, <1>5, <2>2
    <3>2. i \in 1..n
      BY <1>4, <3>1, SMT
    <3>3. CASE j \in 1..n
      BY <1>4, <1>5, <2>2, <3>2, <3>3 DEF DoorInv, ServedApart
    <3>4. CASE j = n + 1
      BY <1>4, <1>5, <1>6, <2>2, <3>2, <3>4
    <3> QED
      BY <1>4, <3>1, <3>3, <3>4, SMT
  <2> QED
    BY <2>1, <2>2
<1> QED
  BY <1>2, <1>5, <1>7, <1>8, <1>9 DEF RequestTypeOK

\* A row is written, or found.
LEMMA StepReserveRow == ASSUME RequestInv, NEW x \in Lambdas, ReserveSignature(x) PROVE RequestInv'
<1> USE DEF RequestInv
<1> DEFINE s == call[x].sig
<1>1. /\ call[x].pc = "reserve" /\ call[x] # Idle
      /\ UNCHANGED <<clock, pending, wire, queued, logged, alerted, form, rfaults>>
  BY NotIdle DEF ReserveSignature, Doing, sinks
<1>2. CASE Known(s) /\ Reply(x, 409) /\ UNCHANGED <<rows, served>>
  <2>1. /\ pending' \subseteq Changes /\ alerted' \subseteq Changes
        /\ rfaults' \in 0..MaxRequestFaults
    BY <1>1 DEF RequestTypeOK
  <2> QED
    BY <1>1, <1>2, <2>1, StepReply
<1>3. CASE ~Known(s) /\ rows' = rows \cup {Row(s)} /\ Admit(x) /\ UNCHANGED deliveries
  <2> DEFINE step == IF Of(x).card THEN "check" ELSE "submit"
  <2>1. s \in Signature
    BY <1>1, CallTyped
  <2>2. served' = [served EXCEPT ![s] = Append(@, clock)] /\ Next_(x, step)
    BY <1>3 DEF Admit
  <2>3. step \in RequestSteps /\ step \in {"check", "submit"}
    BY DEF RequestSteps
  <2>4. Only(x) /\ call'[x].pc = step /\ call'[x].sig = s
    BY <1>1, <2>2, <2>3, NextEffect
  <2>5. SameDeliveries
    BY <1>3, UnchangedDeliveries
  <2>6. /\ rows' \subseteq [sig : Signature, ttl : 0..(MaxClock + MaxAge)]
        /\ served' \in [Signature -> Seq(0..MaxClock)]
        /\ LivesInv' /\ ServedApart'
    <3>1. RequestTypeOK /\ DoorInv /\ ~Known(s) /\ rows' = rows \cup {Row(s)} /\ UNCHANGED clock
      BY <1>1, <1>3
    <3> HIDE DEF RequestInv, s
    <3> QED
      BY <2>1, <2>2, <3>1, RowIsPut
  <2>7. RequestTypeOK'
    <3>1. /\ queued' \in [Queues -> SUBSET Changes] /\ logged' \subseteq Changes
          /\ pending' \subseteq Changes /\ alerted' \subseteq Changes /\ form' \subseteq Ids
          /\ rfaults' \in 0..MaxRequestFaults
      BY <1>1 DEF RequestTypeOK
    <3> QED
      BY <1>1, <2>4, <2>5, <2>6, <3>1, ContainerTyped
  <2>8. PostedInv'
    <3>1. \A y \in Lambdas : y # x => call'[y] = call[y]
      BY <2>4 DEF Only
    <3> QED
      BY <1>1, <1>3, <2>4, <3>1 DEF DoorInv, PostedInv
  <2>9. BehindInv'
    <3>1. PostedInv
      BY DEF DoorInv
    <3>2. call'[x].pc = "check" => deliveries[call[x].sig.id].card
      BY <2>4 DEF Of
    <3>3. /\ \A q \in Queues : queued[q] \subseteq queued'[q]
          /\ logged \subseteq logged' /\ form \subseteq form'
          /\ "stage" \in pending' => "stage" \in pending \/ form' # {}
      BY <1>1
    <3>4. BehindInv /\ Only(x)
      BY <2>4
    <3>5. call'[x].pc \in {"check", "submit"} /\ call'[x].sig = call[x].sig
      BY <2>3, <2>4
    <3>6. /\ call'[x].sig = call[x].sig
          /\ call'[x].pc \in {"check", "patch", "flip"} => deliveries[call[x].sig.id].card
          /\ call'[x].pc \in {"update", "audit"} => call[x].sig.id \in Handed("submit")'
          /\ call'[x].pc = "audit" => call[x].sig.id \in Handed("update")'
          /\ call'[x].pc = "flip" => form' # {}
      BY <3>2, <3>5
    <3>7. \A d \in DOMAIN deliveries : deliveries'[d].state = "done" =>
             deliveries[d].state = "done" \/ \A q \in Queues : d \in Handed(q)'
      BY <1>3
    <3> HIDE DEF RequestInv, step, s
    <3> QED
      BY <1>1, <2>5, <3>1, <3>3, <3>4, <3>6, <3>7, BehindTheDoor DEF SameDeliveries
  <2> QED
    BY <2>6, <2>7, <2>8, <2>9 DEF DoorInv
<1> QED
  BY <1>2, <1>3 DEF ReserveSignature

\* What is routed to a queue is there, or logged.
LEMMA StepEnqueue ==
    ASSUME RequestInv, NEW x \in Lambdas, NEW q \in Queues, NEW next, Enqueue(x, q, next),
           (q = "submit" /\ next = "update") \/ (q = "update" /\ next = "audit")
    PROVE  RequestInv'
<1> USE DEF RequestInv
<1> DEFINE id == call[x].sig.id
<1>1. /\ call[x].pc = q /\ call[x] # Idle /\ Next_(x, next)
      /\ UNCHANGED <<clock, pending, deliveries, wire, rows, served, alerted, form>>
  BY NotIdle DEF Enqueue, Doing, sends, Queues
<1>2. id \in DOMAIN deliveries /\ Routed(x, q) \subseteq Changes
  BY <1>1, DeliveriesTyped DEF DoorInv, PostedInv, Routed, Of
<1>3. /\ queued \in [Queues -> SUBSET Changes] /\ logged \subseteq Changes
      /\ form \subseteq Ids /\ rfaults \in 0..MaxRequestFaults
  BY DEF RequestTypeOK
<1>4. /\ queued' \in [Queues -> SUBSET Changes] /\ \A p \in Queues : queued[p] \subseteq queued'[p]
      /\ logged \subseteq logged' /\ logged' \subseteq Changes /\ rfaults' \in 0..MaxRequestFaults
      /\ Routed(x, q) \subseteq queued'[q] \cup logged'
  <2>1. CASE queued' = [queued EXCEPT ![q] = @ \cup Routed(x, q)] /\ UNCHANGED <<logged, rfaults>>
    BY <1>2, <1>3, <2>1
  <2>2. CASE RFault("no_sqs") /\ logged' = logged \cup Routed(x, q) /\ UNCHANGED queued
    BY <1>2, <1>3, <2>2, RequestFaultTyped
  <2> QED
    BY <2>1, <2>2 DEF Enqueue
<1>5. id \in Handed(q)'
  BY <1>1, <1>2, <1>4 DEF Handed, Routed, Of
<1>6. next = "audit" => id \in Handed("submit")'
  <2> SUFFICES ASSUME next = "audit" PROVE id \in Handed("submit")'
    OBVIOUS
  <2>1. id \in Handed("submit") /\ "submit" \in Queues
    BY <1>1 DEF BehindInv, StepInv, Queues
  <2>2. SameContents
    BY <1>1, UnchangedDeliveries DEF SameDeliveries
  <2> HIDE DEF RequestInv, id
  <2> QED
    BY <1>2, <1>4, <2>1, <2>2, HandedStays
<1>7. /\ next \in {"check", "patch", "flip"} => deliveries[call[x].sig.id].card
      /\ next \in {"update", "audit"} => call[x].sig.id \in Handed("submit")'
      /\ next = "audit" => call[x].sig.id \in Handed("update")'
      /\ next = "flip" => form' # {}
      /\ next \in RequestSteps \ {"reserve"}
  BY <1>5, <1>6 DEF RequestSteps
<1>8. form \subseteq form' /\ form' \subseteq Ids
  BY <1>1, <1>3
<1> HIDE DEF RequestInv
<1> QED
  BY <1>1, <1>4, <1>7, <1>8, StepNext

\* The receiver answers when both queues have been served.
LEMMA StepAudit == ASSUME RequestInv, NEW x \in Lambdas, Audit(x) PROVE RequestInv'
<1> USE DEF RequestInv
<1>1. /\ call[x].pc = "audit" /\ call[x] # Idle /\ Reply(x, 200)
      /\ alerted' = alerted \cup Routed(x, "audit")
      /\ UNCHANGED <<clock, pending, wire, rows, served, queued, logged, form, rfaults>>
  BY NotIdle DEF Audit, Doing
<1>2. call[x].sig.id \in DOMAIN deliveries
  BY <1>1 DEF DoorInv, PostedInv
<1>3. Routed(x, "audit") \subseteq Changes
  BY <1>2, DeliveriesTyped DEF Routed, Of
<1>4. /\ pending' \subseteq Changes /\ alerted' \subseteq Changes
      /\ rfaults' \in 0..MaxRequestFaults
  BY <1>1, <1>3 DEF RequestTypeOK
<1>5. SameContents
  BY <1>1, ReplyEffect DEF SameDeliveries, DoorInv
<1>6. \A q \in Queues : call[x].sig.id \in Handed(q)
  BY <1>1 DEF BehindInv, StepInv, Queues
<1>7. \A q \in Queues : call[x].sig.id \in Handed(q)'
  BY <1>1, <1>2, <1>5, <1>6 DEF Handed, SameContents
<1>8. "stage" \in pending' => "stage" \in pending \/ form # {}
  BY <1>1
<1> HIDE DEF RequestInv
<1> QED
  BY <1>1, <1>4, <1>7, <1>8, StepReply

\* A submitted deal is refused, another goes on.
LEMMA StepCheck == ASSUME RequestInv, NEW x \in Lambdas, CheckSubmitted(x) PROVE RequestInv'
<1> USE DEF RequestInv
<1>1. /\ call[x].pc = "check" /\ call[x] # Idle
      /\ UNCHANGED <<clock, pending, wire, rows, served, queued, logged, alerted, form, rfaults>>
  BY NotIdle DEF CheckSubmitted, Doing, sinks
<1>2. /\ pending' \subseteq Changes /\ alerted' \subseteq Changes
      /\ rfaults' \in 0..MaxRequestFaults /\ queued' \in [Queues -> SUBSET Changes]
      /\ logged' \subseteq Changes /\ form' \subseteq Ids
  BY <1>1 DEF RequestTypeOK
<1>3. CASE Reply(x, 409)
  BY <1>1, <1>2, <1>3, StepReply
<1>4. CASE Next_(x, "patch") /\ UNCHANGED deliveries
  <2>1. deliveries[call[x].sig.id].card /\ "patch" \in RequestSteps \ {"reserve"}
    BY <1>1 DEF BehindInv, StepInv, RequestSteps
  <2>2. /\ \A q \in Queues : queued[q] \subseteq queued'[q]
        /\ logged \subseteq logged' /\ form \subseteq form'
    BY <1>1
  <2> HIDE DEF RequestInv
  <2> QED
    BY <1>1, <1>2, <1>4, <2>1, <2>2, StepNext
<1> QED
  BY <1>3, <1>4 DEF CheckSubmitted

\* HubSpot takes the form, or not.
LEMMA StepPatchForm == ASSUME RequestInv, NEW x \in Lambdas, PatchForm(x) PROVE RequestInv'
<1> USE DEF RequestInv
<1>1. /\ call[x].pc = "patch" /\ call[x] # Idle
      /\ UNCHANGED <<clock, pending, wire, rows, served, queued, logged, alerted>>
  BY NotIdle DEF PatchForm, Doing
<1>2. /\ pending' \subseteq Changes /\ alerted' \subseteq Changes
      /\ queued' \in [Queues -> SUBSET Changes] /\ logged' \subseteq Changes
      /\ form \subseteq Ids /\ rfaults \in 0..MaxRequestFaults
  BY <1>1 DEF RequestTypeOK
<1>3. CASE /\ form' = form \cup {call[x].sig.id} /\ Next_(x, "flip")
           /\ UNCHANGED <<deliveries, rfaults>>
  <2>1. /\ deliveries[call[x].sig.id].card /\ "flip" \in RequestSteps \ {"reserve"}
    BY <1>1 DEF BehindInv, StepInv, RequestSteps
  <2>2. /\ \A q \in Queues : queued[q] \subseteq queued'[q]
        /\ logged \subseteq logged' /\ form \subseteq form' /\ form' # {}
    BY <1>1, <1>3
  <2>3. form' \subseteq Ids /\ rfaults' \in 0..MaxRequestFaults
    BY <1>1, <1>2, <1>3, CallTyped
  <2> HIDE DEF RequestInv
  <2> QED
    BY <1>1, <1>2, <1>3, <2>1, <2>2, <2>3, StepNext
<1>4. CASE RFault("no_hubspot") /\ Reply(x, 502) /\ UNCHANGED form
  <2>1. rfaults' \in 0..MaxRequestFaults
    BY <1>4, RequestFaultTyped
  <2> QED
    BY <1>1, <1>2, <1>4, <2>1, StepReply
<1> QED
  BY <1>3, <1>4 DEF PatchForm

\* The stage moves, after the form.
LEMMA StepFlip == ASSUME RequestInv, NEW x \in Lambdas, FlipStage(x) PROVE RequestInv'
<1> USE DEF RequestInv
<1>1. /\ call[x].pc = "flip" /\ call[x] # Idle
      /\ UNCHANGED <<clock, wire, rows, served, queued, logged, alerted, form>>
  BY NotIdle DEF FlipStage, Doing, sinks
<1>2. /\ pending \subseteq Changes /\ alerted' \subseteq Changes /\ rfaults \in 0..MaxRequestFaults
  BY <1>1 DEF RequestTypeOK
<1>3. CASE /\ pending' = IF \E d \in DOMAIN deliveries : "stage" \in deliveries[d].changes
                         THEN pending ELSE pending \cup {"stage"}
           /\ Reply(x, 202) /\ UNCHANGED rfaults
  <2>1. pending' \subseteq Changes /\ rfaults' \in 0..MaxRequestFaults
    BY <1>2, <1>3 DEF Changes
  <2>2. call[x].sig.id \in DOMAIN deliveries /\ deliveries[call[x].sig.id].changes = {}
    BY <1>1 DEF DoorInv, PostedInv, BehindInv, StepInv, CardInv
  <2>3. SameContents
    BY <1>1, <1>3, ReplyEffect DEF SameDeliveries, DoorInv
  <2>4. \A q \in Queues : call[x].sig.id \in Handed(q)'
    BY <2>2, <2>3 DEF Handed, SameContents
  <2>5. form # {}
    BY <1>1 DEF BehindInv, StepInv
  <2> HIDE DEF RequestInv
  <2> QED
    BY <1>1, <1>2, <1>3, <2>1, <2>4, <2>5, StepReply
<1>4. CASE RFault("no_hubspot") /\ Reply(x, 502) /\ UNCHANGED pending
  <2>1. rfaults' \in 0..MaxRequestFaults /\ pending' \subseteq Changes
    BY <1>2, <1>4, RequestFaultTyped
  <2> QED
    BY <1>1, <1>2, <1>4, <2>1, StepReply
<1> QED
  BY <1>3, <1>4 DEF FlipStage

-----------------------------------------------------------------------------
(* Steps of the environment, and those that start and break a call.        *)

\* Nothing behind the door changes when no call goes on past it.
LEMMA BehindStays ==
    ASSUME PostedInv, BehindInv, SameContents, UNCHANGED <<queued, logged, form>>,
           \A y \in Lambdas : call'[y] = call[y] \/ call'[y].pc \in {"idle", "reserve"},
           \A d \in DOMAIN deliveries :
              deliveries'[d].state = "done" => deliveries[d].state = "done",
           "stage" \in pending' => "stage" \in pending
    PROVE  BehindInv'
<1>1. \A d \in DOMAIN deliveries, q \in Queues : d \in Handed(q) => d \in Handed(q)'
  BY DEF Handed, SameContents
<1>2. \A y \in Lambdas : call[y].pc # "idle" => call[y].sig.id \in DOMAIN deliveries
  BY NotIdle DEF PostedInv
<1>3. "submit" \in Queues /\ "update" \in Queues
  BY DEF Queues
<1>4. StepInv'
  <2> SUFFICES ASSUME NEW y \in Lambdas
               PROVE  /\ call'[y].pc \in {"check", "patch", "flip"} =>
                            deliveries'[call'[y].sig.id].card
                      /\ call'[y].pc \in {"update", "audit"} =>
                            call'[y].sig.id \in Handed("submit")'
                      /\ call'[y].pc = "audit" => call'[y].sig.id \in Handed("update")'
                      /\ call'[y].pc = "flip" => form' # {}
    BY DEF StepInv
  <2>1. CASE call'[y].pc \in {"idle", "reserve"}
    BY <2>1
  <2>2. CASE call'[y] = call[y] /\ call[y].pc # "idle"
    <3>1. call[y].sig.id \in DOMAIN deliveries
      BY <1>2, <2>2
    <3>2. deliveries'[call[y].sig.id].card = deliveries[call[y].sig.id].card
      BY <3>1 DEF SameContents
    <3>3. \A q \in Queues : call[y].sig.id \in Handed(q) => call[y].sig.id \in Handed(q)'
      BY <1>1, <3>1
    <3> QED
      BY <1>3, <2>2, <3>2, <3>3 DEF BehindInv, StepInv
  <2> QED
    BY <2>1, <2>2
<1>5. CardInv'
  BY DEF BehindInv, CardInv, SameContents
<1>6. ChangesAreQueued'
  BY DEF BehindInv, ChangesAreQueued, SameContents
<1>7. SubmitHasForm'
  BY DEF BehindInv, SubmitHasForm, SameContents
<1> QED
  BY <1>4, <1>5, <1>6, <1>7 DEF BehindInv

\* A container dies.
LEMMA StepAbort == ASSUME RequestInv, NEW x \in Lambdas, Abort(x) PROVE RequestInv'
<1> USE DEF RequestInv
<1>1. /\ call[x] # Idle /\ RFault("crash") /\ call' = [call EXCEPT ![x] = Idle]
      /\ UNCHANGED <<clock, pending, deliveries, wire, rows, served, queued, logged, alerted, form>>
  BY DEF Abort, sends, sinks
<1>2. SameDeliveries /\ PostedInv /\ Only(x) /\ call'[x] = Idle
  BY <1>1, OneCall, UnchangedDeliveries DEF DoorInv
<1>3. RequestTypeOK'
  <2>1. /\ rows' \subseteq [sig : Signature, ttl : 0..(MaxClock + MaxAge)]
        /\ served' \in [Signature -> Seq(0..MaxClock)] /\ queued' \in [Queues -> SUBSET Changes]
        /\ logged' \subseteq Changes /\ form' \subseteq Ids /\ pending' \subseteq Changes
        /\ alerted' \subseteq Changes
    BY <1>1 DEF RequestTypeOK
  <2>2. rfaults' \in 0..MaxRequestFaults
    BY <1>1, RequestFaultTyped
  <2> QED
    BY <1>1, <1>2, <2>1, <2>2, ContainerTyped
<1>4. DoorInv'
  BY <1>1, <1>2, PastTheDoor
<1>5. BehindInv'
  <2>1. \A y \in Lambdas : call'[y] = call[y] \/ call'[y].pc \in {"idle", "reserve"}
    BY <1>1 DEF RequestTypeOK, Idle
  <2> QED
    BY <1>1, <1>2, <2>1, BehindStays DEF SameDeliveries
<1> QED
  BY <1>3, <1>4, <1>5

\* A fresh request comes to the door.
LEMMA StepAccept ==
    ASSUME RequestInv, NEW x \in Lambdas, NEW w \in wire, Accept(x, w) PROVE RequestInv'
<1> USE DEF RequestInv
<1> DEFINE n == [pc |-> "reserve", sig |-> w.sig]
<1>1. /\ call[x] = Idle /\ call' = [call EXCEPT ![x] = n]
      /\ UNCHANGED <<clock, pending, deliveries, wire, rows, served, queued, logged, alerted, form,
                     rfaults>>
  BY DEF Accept, sends, sinks
<1>2. SameDeliveries /\ PostedInv
  BY <1>1, UnchangedDeliveries DEF DoorInv
<1>3. w.sig \in Signature /\ w.sig.id \in DOMAIN deliveries
  BY DEF RequestTypeOK, Request
<1>4. n \in Call /\ n.pc = "reserve" /\ n.sig = w.sig
  BY <1>3 DEF Call, RequestSteps
<1> HIDE DEF n
<1>5. /\ Only(x) /\ call'[x] = n
      /\ \A y \in Lambdas : call'[y] = IF y = x THEN n ELSE call[y]
  BY <1>1, <1>4, OneCall DEF Only
<1>6. RequestTypeOK'
  <2>1. /\ rows' \subseteq [sig : Signature, ttl : 0..(MaxClock + MaxAge)]
        /\ served' \in [Signature -> Seq(0..MaxClock)] /\ queued' \in [Queues -> SUBSET Changes]
        /\ logged' \subseteq Changes /\ form' \subseteq Ids /\ pending' \subseteq Changes
        /\ alerted' \subseteq Changes /\ rfaults' \in 0..MaxRequestFaults
    BY <1>1 DEF RequestTypeOK
  <2> QED
    BY <1>1, <1>2, <1>5, <2>1, ContainerTyped
<1>7. DoorInv'
  <2>1. PostedInv'
    BY <1>1, <1>2, <1>3, <1>4, <1>5 DEF PostedInv
  <2> QED
    BY <1>1, <2>1 DEF DoorInv, LivesInv, ServedApart
<1>8. BehindInv'
  <2>1. \A y \in Lambdas : call'[y] = call[y] \/ call'[y].pc \in {"idle", "reserve"}
    BY <1>4, <1>5
  <2> QED
    BY <1>1, <1>2, <2>1, BehindStays DEF SameDeliveries
<1> QED
  BY <1>6, <1>7, <1>8

\* Time passes.
LEMMA StepTick == ASSUME RequestInv, Tick PROVE RequestInv'
<1> USE DEF RequestInv
<1>1. /\ clock < MaxClock /\ clock' = clock + 1
      /\ UNCHANGED <<pending, deliveries, wire, rows, served, call, queued, logged, alerted, form,
                     rfaults>>
  BY DEF Tick, sends, sinks
<1>2. clock \in 0..MaxClock /\ clock' \in 0..MaxClock
  BY <1>1, RequestConstants, SMT DEF RequestTypeOK
<1>3. RequestTypeOK'
  BY <1>1, <1>2 DEF RequestTypeOK
<1>4. LivesInv'
  <2> SUFFICES ASSUME NEW s \in Signature, NEW i \in DOMAIN served[s],
                      served[s][i] + MaxAge + 1 < clock + PerSecond
               PROVE  served[s][i] + MaxAge + 1 < clock' + PerSecond
    BY <1>1 DEF DoorInv, LivesInv
  <2>1. served[s][i] \in 0..MaxClock
    BY ElementOfSeq, LenProperties DEF RequestTypeOK
  <2> QED
    BY <1>1, <1>2, <2>1, RequestConstants, SMT
<1>5. DoorInv'
  BY <1>1, <1>4 DEF DoorInv, PostedInv, ServedApart
<1>6. BehindInv'
  <2>1. SameDeliveries /\ PostedInv
    BY <1>1, UnchangedDeliveries DEF DoorInv
  <2> QED
    BY <1>1, <2>1, BehindStays DEF SameDeliveries
<1> QED
  BY <1>3, <1>5, <1>6

\* A row goes when its time is over.
LEMMA StepExpire == ASSUME RequestInv, Expire PROVE RequestInv'
<1> USE DEF RequestInv
<1>1. PICK r \in rows : r.ttl < clock /\ rows' = rows \ {r}
  BY DEF Expire
<1>2. UNCHANGED <<clock, pending, deliveries, wire, served, call, queued, logged, alerted, form,
                  rfaults>>
  BY DEF Expire, sends, sinks
<1>3. RequestTypeOK'
  BY <1>1, <1>2 DEF RequestTypeOK
<1>4. clock \in Nat /\ r.ttl \in Nat
  BY RequestConstants, SMT DEF RequestTypeOK
<1>5. LivesInv'
  <2> SUFFICES ASSUME NEW s \in Signature, NEW i \in DOMAIN served[s],
                      served[s][i] + MaxAge < r.ttl + PerSecond
               PROVE  served[s][i] + MaxAge + 1 < clock + PerSecond
    BY <1>1, <1>2 DEF DoorInv, LivesInv
  <2>1. served[s][i] \in 0..MaxClock
    BY ElementOfSeq, LenProperties DEF RequestTypeOK
  <2> QED
    BY <1>1, <1>4, <2>1, RequestConstants, SMT
<1>6. DoorInv'
  BY <1>2, <1>5 DEF DoorInv, PostedInv, ServedApart
<1>7. BehindInv'
  <2>1. SameDeliveries /\ PostedInv
    BY <1>2, UnchangedDeliveries DEF DoorInv
  <2> QED
    BY <1>2, <2>1, BehindStays DEF SameDeliveries
<1> QED
  BY <1>3, <1>6, <1>7

\* Somebody changes the deal.
LEMMA StepChange == ASSUME RequestInv, NEW c \in Changes, Change(c) PROVE RequestInv'
<1> USE DEF RequestInv
<1>1. /\ c \in Made /\ pending' = pending \cup {c}
      /\ UNCHANGED <<clock, deliveries, wire, rows, served, call, queued, logged, alerted, form,
                     rfaults>>
  BY DEF Change, sinks
<1>2. c # "stage"
  BY <1>1, RequestAssumption
<1>3. RequestTypeOK'
  BY <1>1 DEF RequestTypeOK
<1>4. DoorInv'
  BY <1>1 DEF DoorInv, PostedInv, LivesInv, ServedApart
<1>5. BehindInv'
  <2>1. SameDeliveries /\ PostedInv
    BY <1>1, UnchangedDeliveries DEF DoorInv
  <2> QED
    BY <1>1, <1>2, <2>1, BehindStays DEF SameDeliveries
<1> QED
  BY <1>3, <1>4, <1>5

\* A request on its way changes nothing at the door.
LEMMA NewRequest ==
    ASSUME DoorInv, DOMAIN deliveries \subseteq DOMAIN deliveries',
           UNCHANGED <<clock, rows, served, call>>
    PROVE  DoorInv'
  BY DEF DoorInv, PostedInv, LivesInv, ServedApart

\* The types when HubSpot posts a request.
LEMMA PostTyped ==
    ASSUME RequestTypeOK, NEW id, NEW try, id \in DOMAIN deliveries', id \in Ids,
           try \in 1..MaxTries, Post(id, try), DOMAIN deliveries \subseteq DOMAIN deliveries',
           deliveries' \in Seq(Delivery), Len(deliveries') <= MaxDeliveries,
           pending' \subseteq Changes,
           UNCHANGED <<clock, rows, served, call, queued, logged, alerted, form, rfaults>>
    PROVE  RequestTypeOK'
<1> PICK early \in 0..Ahead :
       wire' = wire \cup {[sig |-> [id |-> id, try |-> try], stamp |-> clock + early]}
  BY DEF Post
<1> DEFINE w == [sig |-> [id |-> id, try |-> try], stamp |-> clock + early]
<1>1. [id |-> id, try |-> try] \in Signature
  BY DEF Signature
<1>2. clock + early \in 0..(MaxClock + Ahead)
  BY RequestConstants, SMT DEF RequestTypeOK
<1>3. w \in Request /\ w.sig.id = id
  BY <1>1, <1>2 DEF Request
<1> HIDE DEF w
<1>4. wire' = wire \cup {w}
  BY DEF w
<1>5. wire' \subseteq Request /\ \A v \in wire' : v.sig.id \in DOMAIN deliveries'
  BY <1>3, <1>4 DEF RequestTypeOK
<1> QED
  BY <1>5 DEF RequestTypeOK

\* HubSpot makes another attempt at a delivery.
LEMMA StepTryAgain ==
    ASSUME RequestInv, NEW id \in DOMAIN deliveries, TryAgain(id) PROVE RequestInv'
<1> USE DEF RequestInv
<1> PICK k : k = deliveries[id].tries + 1
  OBVIOUS
<1> DEFINE n == [deliveries[id] EXCEPT !.tries = k, !.state = "sent"]
<1>1. /\ deliveries[id].tries < MaxTries /\ Post(id, k)
      /\ UNCHANGED <<clock, pending, rows, served, call, queued, logged, alerted, form, rfaults>>
  BY DEF TryAgain, sinks
<1>2. /\ deliveries[id] \in Delivery /\ deliveries[id].tries \in 1..MaxTries /\ id \in Ids
  BY DeliveriesTyped
<1>3. k \in 1..MaxTries /\ deliveries[id].tries < k /\ k \in Int
  BY <1>1, <1>2, RequestConstants, SMT
<1>4. /\ n \in Delivery /\ n.card = deliveries[id].card /\ n.changes = deliveries[id].changes
      /\ n.tries = k /\ n.state = "sent"
  BY <1>2, <1>3 DEF Delivery
<1>5. deliveries' = [deliveries EXCEPT ![id] = n]
  BY <1>2 DEF TryAgain, Delivery
<1> HIDE DEF n
<1>6. /\ deliveries' \in Seq(Delivery) /\ Len(deliveries') = Len(deliveries)
      /\ DOMAIN deliveries' = DOMAIN deliveries
      /\ \A d \in DOMAIN deliveries : deliveries'[d] = IF d = id THEN n ELSE deliveries[d]
  BY <1>4, <1>5, OutcomeTyped
<1>7. SameContents
  BY <1>4, <1>6 DEF SameContents
<1>8. RequestTypeOK'
  <2>1. Len(deliveries') <= MaxDeliveries /\ pending' \subseteq Changes
    BY <1>1, <1>6 DEF RequestTypeOK
  <2> QED
    BY <1>1, <1>2, <1>3, <1>6, <2>1, PostTyped
<1>9. DoorInv'
  BY <1>1, <1>6, NewRequest
<1>10. BehindInv'
  <2>1. \A d \in DOMAIN deliveries :
           deliveries'[d].state = "done" => deliveries[d].state = "done"
    BY <1>4, <1>6
  <2>2. PostedInv
    BY DEF DoorInv
  <2> QED
    BY <1>1, <1>7, <2>1, <2>2, BehindStays
<1> QED
  BY <1>8, <1>9, <1>10

\* HubSpot makes a first attempt at a new delivery.
LEMMA NewDelivery ==
    ASSUME RequestInv, NEW d \in Delivery, d.tries = 1, d.state = "sent",
           d.card => d.changes = {}, "stage" \in d.changes => "stage" \in pending,
           Len(deliveries) + 1 \in Ids, deliveries' = Append(deliveries, d),
           Post(Len(deliveries) + 1, 1), pending' \subseteq pending,
           UNCHANGED <<clock, rows, served, call, queued, logged, alerted, form, rfaults>>
    PROVE  RequestInv'
<1> USE DEF RequestInv
<1> PICK id : id = Len(deliveries) + 1
  OBVIOUS
<1>1. /\ deliveries' \in Seq(Delivery) /\ Len(deliveries') = id /\ id \in Ids
      /\ deliveries'[id] = d /\ \A i \in DOMAIN deliveries : deliveries'[i] = deliveries[i]
      /\ DOMAIN deliveries' = DOMAIN deliveries \cup {id} /\ id \notin DOMAIN deliveries
  <2>1. deliveries \in Seq(Delivery) /\ Len(deliveries) \in Nat
    BY DeliveriesTyped DEF RequestTypeOK
  <2>2. /\ deliveries' \in Seq(Delivery) /\ Len(deliveries') = id
        /\ \A i \in 1..Len(deliveries) : deliveries'[i] = deliveries[i]
        /\ deliveries'[id] = d
    BY <2>1, AppendProperties
  <2>3. DOMAIN deliveries = 1..Len(deliveries) /\ DOMAIN deliveries' = 1..id
    BY <2>1, <2>2, LenProperties
  <2>4. 1..id = (1..Len(deliveries)) \cup {id} /\ id \notin 1..Len(deliveries)
    BY <2>1, SMT
  <2> QED
    BY <2>2, <2>3, <2>4
<1>2. 1 \in 1..MaxTries /\ Len(deliveries') <= MaxDeliveries
  BY <1>1, RequestConstants, SMT DEF Ids
<1>3. Post(id, 1)
  OBVIOUS
<1>4. RequestTypeOK'
  <2>1. pending' \subseteq Changes
    BY DEF RequestTypeOK
  <2> QED
    BY <1>1, <1>2, <1>3, <2>1, PostTyped
<1>5. DoorInv'
  BY <1>1, NewRequest
<1>6. PostedInv
  BY DEF DoorInv
<1>7. \A i \in DOMAIN deliveries, q \in Queues : i \in Handed(q) => i \in Handed(q)'
  BY <1>1 DEF Handed
<1>8. StepInv'
  <2>1. \A y \in Lambdas : call[y].pc # "idle" => call[y].sig.id \in DOMAIN deliveries
    BY <1>6, NotIdle DEF PostedInv
  <2>2. "submit" \in Queues /\ "update" \in Queues
    BY DEF Queues
  <2> SUFFICES ASSUME NEW y \in Lambdas
               PROVE  /\ call[y].pc \in {"check", "patch", "flip"} =>
                            deliveries'[call[y].sig.id].card
                      /\ call[y].pc \in {"update", "audit"} => call[y].sig.id \in Handed("submit")'
                      /\ call[y].pc = "audit" => call[y].sig.id \in Handed("update")'
                      /\ call[y].pc = "flip" => form # {}
    BY DEF StepInv
  <2>3. CASE call[y].pc = "idle"
    BY <2>3
  <2>4. CASE call[y].pc # "idle"
    <3>1. call[y].sig.id \in DOMAIN deliveries
      BY <2>1, <2>4
    <3> QED
      BY <1>1, <1>7, <2>2, <3>1 DEF BehindInv, StepInv
  <2> QED
    BY <2>3, <2>4
<1>9. CardInv'
  BY <1>1 DEF BehindInv, CardInv
<1>10. ChangesAreQueued'
  BY <1>1 DEF BehindInv, ChangesAreQueued
<1>11. SubmitHasForm'
  BY <1>1 DEF BehindInv, SubmitHasForm
<1> QED
  BY <1>4, <1>5, <1>8, <1>9, <1>10, <1>11 DEF BehindInv

\* HubSpot sends what is pending.
LEMMA StepDeliver == ASSUME RequestInv, Deliver PROVE RequestInv'
<1> DEFINE d == [card |-> FALSE, changes |-> pending, tries |-> 1, state |-> "sent"]
<1>1. 1 \in 1..MaxTries /\ pending \subseteq Changes
  BY RequestConstants, SMT DEF RequestInv, RequestTypeOK
<1>2. /\ d \in Delivery /\ d.tries = 1 /\ d.state = "sent" /\ d.card = FALSE
      /\ d.changes = pending
  BY <1>1 DEF Delivery
<1>3. deliveries' = Append(deliveries, d) /\ Len(deliveries) + 1 \in Ids
  BY DEF Deliver
<1> HIDE DEF d
<1> QED
  BY <1>2, <1>3, NewDelivery DEF Deliver, sinks

\* BD presses Submit.
LEMMA StepPress == ASSUME RequestInv, Press PROVE RequestInv'
<1> DEFINE d == [card |-> TRUE, changes |-> {}, tries |-> 1, state |-> "sent"]
<1>1. 1 \in 1..MaxTries
  BY RequestConstants, SMT
<1>2. d \in Delivery /\ d.tries = 1 /\ d.state = "sent" /\ d.changes = {}
  BY <1>1 DEF Delivery
<1>3. deliveries' = Append(deliveries, d) /\ Len(deliveries) + 1 \in Ids
  BY DEF Press
<1> HIDE DEF d
<1> QED
  BY <1>2, <1>3, NewDelivery DEF Press, sinks

-----------------------------------------------------------------------------
(* The theorems.                                                           *)

\* Every step keeps the invariant.
LEMMA NextRequestInv == ASSUME RequestInv, [RequestNext]_rvars PROVE RequestInv'
<1>1. CASE Tick
  BY <1>1, StepTick
<1>2. CASE Expire
  BY <1>2, StepExpire
<1>3. CASE Deliver
  BY <1>3, StepDeliver
<1>4. CASE Press
  BY <1>4, StepPress
<1>5. CASE \E c \in Changes : Change(c)
  BY <1>5, StepChange
<1>6. CASE \E id \in DOMAIN deliveries : TryAgain(id)
  BY <1>6, StepTryAgain
<1>7. ASSUME NEW x \in Lambdas, Serve(x) PROVE RequestInv'
  <2>1. CASE Enqueue(x, "submit", "update")
    BY <2>1, StepEnqueue DEF Queues
  <2>2. CASE Enqueue(x, "update", "audit")
    BY <2>2, StepEnqueue DEF Queues
  <2> QED
    BY <1>7, <2>1, <2>2, StepReserveRow, StepAudit, StepCheck, StepPatchForm, StepFlip DEF Serve
<1>8. ASSUME NEW x \in Lambdas, Abort(x) PROVE RequestInv'
  BY <1>8, StepAbort
<1>9. ASSUME NEW x \in Lambdas, NEW r \in wire, Accept(x, r) PROVE RequestInv'
  BY <1>9, StepAccept
<1>10. CASE UNCHANGED rvars
  <2>1. UNCHANGED <<clock, pending, deliveries, wire, rows, served, call, queued, logged, alerted,
                    form, rfaults>>
    BY <1>10 DEF rvars, sends, sinks
  <2>2. RequestTypeOK'
    BY <2>1 DEF RequestInv, RequestTypeOK
  <2>3. DoorInv'
    BY <2>1 DEF RequestInv, DoorInv, PostedInv, LivesInv, ServedApart
  <2>4. BehindInv'
    BY <2>1 DEF RequestInv, BehindInv, StepInv, CardInv, ChangesAreQueued, SubmitHasForm, Handed
  <2> QED
    BY <2>2, <2>3, <2>4 DEF RequestInv
<1> QED
  BY <1>1, <1>2, <1>3, <1>4, <1>5, <1>6, <1>7, <1>8, <1>9, <1>10 DEF RequestNext

\* What is known at the doors and behind them, in every reachable state.
THEOREM RequestInvariant == RequestSpec => []RequestInv
<1> QED
  BY InitRequestInv, NextRequestInv, PTL DEF RequestSpec

\* A signed request that is delivered again gets past the door again only when
\* the time of its row is over, whatever its stamp and whenever rows expire.
THEOREM ServingsAreApart == RequestSpec => []ServedApart
<1>1. ASSUME RequestInv PROVE ServedApart
  BY <1>1 DEF RequestInv, DoorInv
<1> QED
  BY <1>1, RequestInvariant, PTL

\* A change HubSpot takes for delivered is on its queue, or logged.
THEOREM ChangesQueued == RequestSpec => []ChangesAreQueued
<1>1. ASSUME RequestInv PROVE ChangesAreQueued
  BY <1>1 DEF RequestInv, BehindInv
<1> QED
  BY <1>1, RequestInvariant, PTL

\* The card moves the stage only after it wrote a form.
THEOREM FormFirst == RequestSpec => []SubmitHasForm
<1>1. ASSUME RequestInv PROVE SubmitHasForm
  BY <1>1 DEF RequestInv, BehindInv
<1> QED
  BY <1>1, RequestInvariant, PTL
=============================================================================
