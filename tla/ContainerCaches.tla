-------------------------- MODULE ContainerCaches ---------------------------
(***************************************************************************)
(* What a warm Lambda container keeps between requests: the secret HubSpot *)
(* signs with (src/hubspot/signature.py, get_signing_secret), which the    *)
(* receiver and the card's functions check every request against, and the  *)
(* catalog of solutions the card shows (src/lambdas/ui_extension_reads.py, *)
(* _load_solutions).  Both are read again once they are TTL seconds old.   *)
(*                                                                         *)
(* Values are versions: the operator rotates the secret and registers      *)
(* solutions, which gives the source its next version.  Version 0 is an    *)
(* unusable secret, and the catalog without solutions.                     *)
(***************************************************************************)
EXTENDS Naturals, FiniteSets

CONSTANTS
    Containers,
    Ttl,           \* SECRET_CACHE_TTL_SECONDS, _SOLUTIONS_TTL_SECONDS
    Delay,         \* a call to the source takes at most this long
    MaxTime,       \* bound: the clock
    MaxVersions,   \* bound: versions of a source
    MaxOutages     \* bound: reads of a source that fail

Sources  == {"secret", "solutions"}
Versions == 0..MaxVersions

ASSUME CacheAssumption ==
    /\ \A n \in {Ttl, Delay, MaxTime, MaxVersions, MaxOutages} : n \in Nat
    /\ Delay <= Ttl /\ MaxVersions > 0

VARIABLES
    time,
    source,    \* the source the behaviour is about
    current,   \* its version
    replaced,  \* per version: when the next one took its place
    kept,      \* per container: the version kept, and since when
    reading,   \* per container: the request that reads the source
    answer,    \* per container: what its last request was answered with
    outages

cvars == <<time, source, current, replaced, kept, reading, answer, outages>>

Never   == MaxTime + 1
Nothing == [version |-> 0, at |-> 0]
Resting == [since |-> Never, got |-> 0]

CacheInit ==
    /\ time = 0 /\ source \in Sources /\ current \in {0, 1}
    /\ replaced = [v \in Versions |-> Never]
    /\ kept = [x \in Containers |-> Nothing] /\ reading = [x \in Containers |-> Resting]
    /\ answer = [x \in Containers |-> Nothing] /\ outages = 0

-----------------------------------------------------------------------------

TimePasses ==
    /\ time < MaxTime
    /\ \A x \in Containers : reading[x] # Resting => time < reading[x].since + Delay
    /\ time' = time + 1
    /\ UNCHANGED <<source, current, replaced, kept, reading, answer, outages>>

\* The operator rotates the secret, or registers a solution.
Replace ==
    /\ current < MaxVersions
    /\ current' = current + 1 /\ replaced' = [replaced EXCEPT ![current] = time]
    /\ UNCHANGED <<time, source, kept, reading, answer, outages>>

Answer(x, version) == answer' = [answer EXCEPT ![x] = [version |-> version, at |-> time]]

\* The read of the source; when it fails the card shows no solutions, and a
\* request cannot be checked.
Read_(x) ==
    \/ /\ reading' = [reading EXCEPT ![x] = [since |-> time, got |-> current]]
       /\ UNCHANGED <<answer, outages>>
    \/ /\ outages < MaxOutages /\ outages' = outages + 1
       /\ IF source = "solutions" THEN Answer(x, 0) ELSE UNCHANGED answer
       /\ UNCHANGED reading

\* Mutant: what is kept is kept for another while whenever it is used.
Ask_Sliding(x) ==
    /\ reading[x] = Resting
    /\ IF kept[x].version # 0 /\ time < kept[x].at + Ttl
         THEN /\ Answer(x, kept[x].version)
              /\ kept' = [kept EXCEPT ![x].at = time]
              /\ UNCHANGED <<reading, outages>>
         ELSE Read_(x) /\ UNCHANGED kept
    /\ UNCHANGED <<time, source, current, replaced>>

\* A request finds what it needs, or reads it; its age counts from now.
Ask(x) ==
    /\ reading[x] = Resting
    /\ IF kept[x].version # 0 /\ time < kept[x].at + Ttl
         THEN Answer(x, kept[x].version) /\ UNCHANGED <<reading, outages>>
         ELSE Read_(x)
    /\ UNCHANGED <<time, source, current, replaced, kept>>

\* A secret that cannot be used is an error, and no solutions are shown as
\* such; neither is kept.
Keep(x) ==
    LET r == reading[x] IN
    /\ r # Resting
    /\ kept' = IF r.got = 0 THEN kept
               ELSE [kept EXCEPT ![x] = [version |-> r.got, at |-> r.since]]
    /\ IF r.got = 0 /\ source = "secret" THEN UNCHANGED answer ELSE Answer(x, r.got)
    /\ reading' = [reading EXCEPT ![x] = Resting]
    /\ UNCHANGED <<time, source, current, replaced, outages>>

CacheNext ==
    \/ TimePasses \/ Replace
    \/ \E x \in Containers : Ask(x) \/ Keep(x)

CacheSpec == CacheInit /\ [][CacheNext]_cvars

-----------------------------------------------------------------------------
(* Properties.                                                             *)

\* Types of the source and of what the containers keep of it.
CacheTypeOK ==
    /\ time \in 0..MaxTime /\ source \in Sources /\ current \in Versions
    /\ replaced \in [Versions -> 0..Never]
    /\ kept \in [Containers -> [version : Versions, at : 0..MaxTime]]
    /\ reading \in [Containers -> [since : 0..Never, got : Versions]]
    /\ answer \in [Containers -> [version : Versions, at : 0..MaxTime]]
    /\ outages \in 0..MaxOutages

\* A rotated secret is in use everywhere, and a new solution is on offer, TTL
\* after the change at the latest, however busy the container is and however
\* long a read takes.
StaleForTtlAtMost ==
    \A x \in Containers :
        answer[x].version # 0 => answer[x].at <= replaced[answer[x].version] + Ttl
=============================================================================
