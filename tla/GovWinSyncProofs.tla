-------------------------- MODULE GovWinSyncProofs --------------------------
(***************************************************************************)
(* Theorems about GovWinSync, for any opportunities, messages, batch size, *)
(* deliveries and failures.                                                *)
(*                                                                         *)
(* They hold for any number of concurrent workers.  Those that compare     *)
(* versions speak of the opportunities that no two invocations hold at the *)
(* same time (Apart), and those about watermarks of the ones that HubSpot  *)
(* answers for when it answers for anything after them (Answered); both    *)
(* are conditions on the behaviour and not on the configuration.           *)
(***************************************************************************)
EXTENDS GovWinSync, FiniteSetTheorems, SequenceTheorems, TLAPS

\* A subsequence, by its elements.
LEMMA SubSeqFacts ==
    ASSUME NEW S, NEW s \in Seq(S), NEW a \in Nat \ {0}, NEW b \in Nat, b <= Len(s)
    PROVE  /\ SubSeq(s, a, b) \in Seq(S)
           /\ Len(SubSeq(s, a, b)) = IF a <= b THEN b - a + 1 ELSE 0
           /\ \A i \in 1..(b - a + 1) : SubSeq(s, a, b)[i] = s[a + i - 1]
<1>1. \A i \in a..b : s[i] \in S
  BY ElementOfSeq
<1> QED BY <1>1, SubSeqProperties

\* An order of a finite set of opportunities is a sequence of them.
LEMMA OrdersAreSeqs ==
    ASSUME NEW S \in SUBSET Opps, NEW s \in Orders(S)
    PROVE  s \in Seq(Opps) /\ Len(s) = Cardinality(S) /\ Distinct(s)
           /\ \A i \in DOMAIN s : s[i] \in S
<1>1. IsFiniteSet(S) /\ Cardinality(S) \in Nat
  BY SyncAssumption, FS_Subset, FS_CardinalityType DEF SyncAssumption
<1> QED BY <1>1 DEF Orders

\* What the locals of an invocation are made of.
LEMMA LocalTypes ==
    ASSUME TypeOK, NEW m \in Messages
    PROVE  /\ work[m].done \in Nat /\ work[m].bundles \in Seq(Bundle)
           /\ work[m].results \in Seq(Opps) /\ work[m].errors \in BOOLEAN
           /\ \A i \in DOMAIN work[m].bundles :
                 /\ work[m].bundles[i] \in Bundle
                 /\ work[m].bundles[i].opp \in Opps
                 /\ work[m].bundles[i].version \in Version
           /\ Fetched(m) \subseteq Bundle
           /\ \A kind \in Kinds : RelatedTo(kind, m) \subseteq Objects
<1>1. work[m] \in Work
  BY DEF TypeOK
<1>2. /\ work[m].done \in Nat /\ work[m].bundles \in Seq(Bundle)
      /\ work[m].results \in Seq(Opps) /\ work[m].errors \in BOOLEAN
  BY <1>1 DEF Work
<1>3. \A i \in DOMAIN work[m].bundles :
         /\ work[m].bundles[i] \in Bundle
         /\ work[m].bundles[i].opp \in Opps
         /\ work[m].bundles[i].version \in Version
  <2>1. \A i \in DOMAIN work[m].bundles : work[m].bundles[i] \in Bundle
    BY <1>2, ElementOfSeq, LenProperties
  <2> QED BY <2>1 DEF Bundle
<1>4. Fetched(m) \subseteq Bundle
  BY <1>3 DEF Fetched
<1>5. \A kind \in Kinds : RelatedTo(kind, m) \subseteq Objects
  <2> SUFFICES ASSUME NEW kind \in Kinds, NEW x \in RelatedTo(kind, m) PROVE x \in Objects
    OBVIOUS
  <2>1. PICK b \in Fetched(m) : x \in Related[kind][b.opp]
    BY DEF RelatedTo
  <2>2. b.opp \in Opps
    BY <1>4, <2>1 DEF Bundle
  <2> QED BY <2>1, <2>2, SyncAssumption DEF SyncAssumption
<1> QED BY <1>2, <1>3, <1>4, <1>5

\* The empty locals are locals.
LEMMA NoWorkType == NoWork \in Work
BY DEF NoWork, Work

\* The bundle that Written takes for an opportunity is one of it.
LEMMA ChosenBundle ==
    ASSUME NEW m \in Messages, NEW b \in Fetched(m)
    PROVE  LET c == CHOOSE d \in Fetched(m) : d.opp = b.opp
           IN  c \in Fetched(m) /\ c.opp = b.opp
OBVIOUS

\* The opportunities of an upsert are those that were fetched.
LEMMA SentFacts ==
    ASSUME TypeOK, NEW m \in Messages
    PROVE  /\ Sent(m) \in Seq(Opps) /\ Len(Sent(m)) = Len(work[m].bundles)
           /\ \A i \in DOMAIN Sent(m) : \E b \in Fetched(m) : b.opp = Sent(m)[i]
<1>1. /\ work[m].bundles \in Seq(Bundle)
      /\ \A i \in DOMAIN work[m].bundles : work[m].bundles[i].opp \in Opps
  BY LocalTypes
<1>2. DOMAIN work[m].bundles = 1..Len(work[m].bundles) /\ Len(work[m].bundles) \in Nat
  BY <1>1, LenProperties
<1>3. Sent(m) \in [1..Len(work[m].bundles) -> Opps]
  BY <1>1, <1>2 DEF Sent
<1>4. Sent(m) \in Seq(Opps) /\ Len(Sent(m)) = Len(work[m].bundles)
  BY <1>2, <1>3
<1> QED BY <1>4 DEF Sent, Fetched

\* HubSpot writes versions that were fetched.
LEMMA WrittenType ==
    ASSUME TypeOK, NEW m \in Messages, NEW answer,
           \A i \in DOMAIN answer : \E b \in Fetched(m) : b.opp = answer[i]
    PROVE  Written(m, answer) \in [Opps -> Version]
<1>1. ASSUME NEW o \in Opps, NEW i \in DOMAIN answer, answer[i] = o
      PROVE  (CHOOSE b \in Fetched(m) : b.opp = o).version \in Version
  <2>1. PICK b \in Fetched(m) : b.opp = o
    BY <1>1
  <2>2. (CHOOSE d \in Fetched(m) : d.opp = o) \in Fetched(m)
    BY <2>1, ChosenBundle
  <2> QED BY <2>2, LocalTypes DEF Bundle
<1> QED BY <1>1 DEF Written, TypeOK

\* The initial state is typed.
LEMMA TypeInit == Init => TypeOK
<1> SUFFICES ASSUME Init PROVE TypeOK
  OBVIOUS
<1>1. 0 \in Version /\ 1 \in Version /\ 0 \in 0..MaxReceive /\ 0 \in 0..MaxFaults
  BY SyncAssumption DEF SyncAssumption, Version
<1>2. /\ govwin \in [Opps -> Version] /\ listing \in [Opps -> Version]
      /\ deal \in [Opps -> Version] /\ watermark \in [Opps -> Version]
  BY <1>1, SyncAssumption DEF Init, Unknown, SyncAssumption, Version
<1>3. plan \in Seq(Opps) /\ body \in [Messages -> Seq(Opps)]
  BY DEF Init
<1>4. receives \in [Messages -> 0..MaxReceive] /\ work \in [Messages -> Work]
  BY <1>1, NoWorkType DEF Init
<1> QED BY <1>1, <1>2, <1>3, <1>4 DEF Init, TypeOK

\* A batch and what is left of the plan are parts of it.
LEMMA BatchFacts ==
    ASSUME TypeOK
    PROVE  /\ Batch \in Seq(Opps) /\ Rest \in Seq(Opps)
           /\ \A i \in DOMAIN Batch : i \in DOMAIN plan /\ Batch[i] = plan[i]
           /\ \A i \in DOMAIN Rest : /\ i + Len(Batch) \in DOMAIN plan
                                     /\ Rest[i] = plan[i + Len(Batch)]
<1> DEFINE n == IF Len(plan) < BatchSize THEN Len(plan) ELSE BatchSize
<1>1. plan \in Seq(Opps) /\ Len(plan) \in Nat /\ n \in Nat /\ n <= Len(plan)
  BY SyncAssumption, LenProperties DEF TypeOK, SyncAssumption
<1>2. Batch = SubSeq(plan, 1, n)
  BY DEF Batch
<1> HIDE DEF n
<1>3. Batch \in Seq(Opps) /\ Len(Batch) = n /\ \A i \in 1..n : Batch[i] = plan[i]
  <2>1. /\ SubSeq(plan, 1, n) \in Seq(Opps)
        /\ Len(SubSeq(plan, 1, n)) = IF 1 <= n THEN n - 1 + 1 ELSE 0
        /\ \A i \in 1..(n - 1 + 1) : SubSeq(plan, 1, n)[i] = plan[1 + i - 1]
    BY <1>1, SubSeqFacts
  <2> QED BY <1>1, <1>2, <2>1
<1>4. /\ Rest \in Seq(Opps) /\ Len(Rest) = Len(plan) - n
      /\ \A i \in 1..(Len(plan) - n) : Rest[i] = plan[i + n]
  <2>1. /\ SubSeq(plan, n + 1, Len(plan)) \in Seq(Opps)
        /\ Len(SubSeq(plan, n + 1, Len(plan)))
             = IF n + 1 <= Len(plan) THEN Len(plan) - (n + 1) + 1 ELSE 0
        /\ \A i \in 1..(Len(plan) - (n + 1) + 1) :
              SubSeq(plan, n + 1, Len(plan))[i] = plan[n + 1 + i - 1]
    BY <1>1, SubSeqFacts
  <2> QED BY <1>1, <1>3, <2>1 DEF Rest
<1>5. DOMAIN Batch = 1..n /\ DOMAIN Rest = 1..(Len(plan) - n) /\ DOMAIN plan = 1..Len(plan)
  BY <1>1, <1>3, <1>4, LenProperties
<1> QED BY <1>1, <1>3, <1>4, <1>5

\* The pairs of an invocation, from its locals.
Zip(w) ==
    LET n == IF Len(w.results) < Len(w.bundles) THEN Len(w.results) ELSE Len(w.bundles)
    IN [i \in 1..n |-> [bundle |-> w.bundles[i], deal |-> w.results[i]]]

\* A pair is a bundle and an opportunity of the answer, in the same place.
LEMMA ZipFacts ==
    ASSUME NEW w \in Work
    PROVE  /\ Len(Zip(w)) \in Nat /\ DOMAIN Zip(w) = 1..Len(Zip(w))
           /\ Len(Zip(w)) = IF Len(w.results) < Len(w.bundles)
                            THEN Len(w.results) ELSE Len(w.bundles)
           /\ \A i \in DOMAIN Zip(w) :
                 /\ i \in DOMAIN w.bundles /\ Zip(w)[i].bundle = w.bundles[i]
                 /\ i \in DOMAIN w.results /\ Zip(w)[i].deal = w.results[i]
                 /\ Zip(w)[i].bundle \in Bundle /\ Zip(w)[i].deal \in Opps
<1> DEFINE n == IF Len(w.results) < Len(w.bundles) THEN Len(w.results) ELSE Len(w.bundles)
<1>1. w.bundles \in Seq(Bundle) /\ w.results \in Seq(Opps)
  BY DEF Work
<1>2. /\ Len(w.bundles) \in Nat /\ DOMAIN w.bundles = 1..Len(w.bundles)
      /\ Len(w.results) \in Nat /\ DOMAIN w.results = 1..Len(w.results)
  BY <1>1, LenProperties
<1>3. n \in Nat /\ 1..n \subseteq DOMAIN w.bundles /\ 1..n \subseteq DOMAIN w.results
  BY <1>2
<1>4. Zip(w) = [i \in 1..n |-> [bundle |-> w.bundles[i], deal |-> w.results[i]]]
  BY DEF Zip
<1> HIDE DEF n
<1>5. \A i \in 1..n : /\ Zip(w)[i].bundle = w.bundles[i] /\ Zip(w)[i].deal = w.results[i]
                      /\ w.bundles[i] \in Bundle /\ w.results[i] \in Opps
  BY <1>1, <1>2, <1>3, <1>4, ElementOfSeq
<1>6. Len(Zip(w)) = n /\ DOMAIN Zip(w) = 1..n
  BY <1>3, <1>4
<1> QED BY <1>3, <1>5, <1>6 DEF n

\* The same of an invocation.
LEMMA PairsFacts ==
    ASSUME TypeOK, NEW m \in Messages
    PROVE  /\ Len(Pairs(m)) \in Nat /\ DOMAIN Pairs(m) = 1..Len(Pairs(m))
           /\ Len(Pairs(m)) = IF Len(work[m].results) < Len(work[m].bundles)
                              THEN Len(work[m].results) ELSE Len(work[m].bundles)
           /\ \A i \in DOMAIN Pairs(m) :
                 /\ i \in DOMAIN work[m].bundles /\ Pairs(m)[i].bundle = work[m].bundles[i]
                 /\ i \in DOMAIN work[m].results /\ Pairs(m)[i].deal = work[m].results[i]
                 /\ Pairs(m)[i].bundle \in Bundle /\ Pairs(m)[i].deal \in Opps
<1>1. work[m] \in Work
  BY DEF TypeOK
<1>2. Pairs(m) = Zip(work[m])
  BY DEF Pairs, Zip
<1> QED BY <1>1, <1>2, ZipFacts

\* A failure is counted within its bound.
LEMMA FaultType ==
    ASSUME TypeOK, NEW kind, Fault(kind)
    PROVE  faults' \in 0..MaxFaults
BY SyncAssumption DEF TypeOK, Fault, SyncAssumption

\* The steps of GovWin and of the orchestrator keep the types.
LEMMA TypeOrchestrator ==
    ASSUME TypeOK, List \/ Filter \/ Send \/ \E o \in Opps : Change(o)
    PROVE  TypeOK'
<1> USE DEF orchestrator, sqs, hubspot, state
<1>1. ASSUME NEW o \in Opps, Change(o) PROVE TypeOK'
  <2>1. govwin' \in [Opps -> Version]
    BY <1>1, SyncAssumption DEF Change, TypeOK, Version, SyncAssumption
  <2> QED BY <1>1, <2>1 DEF Change, TypeOK
<1>2. CASE List
  BY <1>2 DEF List, TypeOK
<1>3. CASE Filter
  <2>1. PICK known \in {watermark, Unknown} :
          /\ IF known = watermark THEN UNCHANGED faults ELSE Fault("no_rows")
          /\ plan' \in Orders(Changed(known))
    BY <1>3 DEF Filter
  <2>2. plan' \in Seq(Opps)
    BY <2>1, OrdersAreSeqs DEF Changed
  <2>3. faults' \in 0..MaxFaults
    BY <2>1, FaultType DEF TypeOK
  <2>4. Unknown \in [Opps -> Version]
    BY SyncAssumption DEF Unknown, Version, SyncAssumption
  <2> QED BY <1>3, <2>2, <2>3, <2>4 DEF Filter, TypeOK
<1>4. CASE Send
  <2>1. Batch \in Seq(Opps) /\ Rest \in Seq(Opps)
    BY BatchFacts
  <2>2. /\ plan' = Rest
        /\ UNCHANGED <<govwin, listing, work, hubspot, state>>
        /\ \/ Fault("send") /\ UNCHANGED sqs
           \/ \E m \in Messages :
                 /\ pc' = [pc EXCEPT ![m] = "queued"]
                 /\ body' = [body EXCEPT ![m] = Batch]
                 /\ receives' = [receives EXCEPT ![m] = 0]
                 /\ UNCHANGED faults
    <3>1. Free # {} => (CHOOSE n \in Free : TRUE) \in Messages
      BY DEF Free
    <3> QED BY <1>4, <3>1 DEF Send, Goto
  <2>3. CASE Fault("send") /\ UNCHANGED sqs
    BY <2>1, <2>2, <2>3, FaultType DEF TypeOK
  <2>4. ASSUME NEW m \in Messages, pc' = [pc EXCEPT ![m] = "queued"],
               body' = [body EXCEPT ![m] = Batch],
               receives' = [receives EXCEPT ![m] = 0], UNCHANGED faults
        PROVE  TypeOK'
    <3>1. 0 \in 0..MaxReceive
      BY SyncAssumption DEF SyncAssumption
    <3> QED BY <2>1, <2>2, <2>4, <3>1 DEF TypeOK
  <2> QED BY <2>2, <2>3, <2>4
<1> QED BY <1>1, <1>2, <1>3, <1>4

\* Where a step of the worker leads: only the message it holds moves.
LEMMA WorkerMoves ==
    ASSUME TypeOK, NEW m \in Messages, Step(m) \/ UpsertUnanswered(m) \/ Crash(m)
    PROVE  \E step \in Running \cup {"free", "queued"} :
              pc' = pc \/ pc' = [pc EXCEPT ![m] = step]
<1> USE DEF sqs, Goto, Running
<1>1. CASE Receive(m) \/ Fetch(m) \/ FetchedAll(m)
  BY <1>1 DEF Receive, Fetch, FetchedAll, Ack
<1>2. CASE \E kind \in Kinds : UpsertRelated(kind, m)
  BY <1>2 DEF UpsertRelated
<1>3. CASE UpsertDeals(m) \/ Link(m) \/ Watermark(m)
  BY <1>3 DEF UpsertDeals, Link, Watermark
<1>4. CASE Finish(m) \/ DeadLetter(m)
  BY <1>4 DEF Finish, Ack, Retry, DeadLetter
<1>5. CASE UpsertUnanswered(m) \/ Crash(m)
  BY <1>5 DEF UpsertUnanswered, Crash, Retry
<1> QED BY <1>1, <1>2, <1>3, <1>4, <1>5 DEF Step

\* A step of the worker changes the locals of its own invocation only, and
\* keeps them typed.
LEMMA WorkerLocals ==
    ASSUME TypeOK, NEW m \in Messages, Step(m) \/ UpsertUnanswered(m) \/ Crash(m)
    PROVE  work' \in [Messages -> Work] /\ \A n \in Messages \ {m} : work'[n] = work[n]
<1>0. /\ work \in [Messages -> Work] /\ work[m] \in Work /\ NoWork \in Work
      /\ work[m].done \in Nat /\ work[m].bundles \in Seq(Bundle)
  BY NoWorkType, LocalTypes DEF TypeOK
<1>1. CASE Fetch(m)
  <2> DEFINE fetched == Append(work[m].bundles,
                 [opp |-> body[m][work[m].done + 1], version |-> govwin[body[m][work[m].done + 1]]])
  <2>1. body[m][work[m].done + 1] \in Opps
    BY <1>1, <1>0, ElementOfSeq DEF Fetch, TypeOK
  <2>2. fetched \in Seq(Bundle)
    BY <1>0, <2>1, AppendProperties DEF Bundle, TypeOK
  <2>3. PICK d \in Nat : \/ work' = [work EXCEPT ![m].done = d, ![m].bundles = fetched]
                         \/ work' = [work EXCEPT ![m].done = d]
    <3>1. work[m].done + 1 \in Nat
      BY <1>0
    <3> QED BY <1>1, <3>1 DEF Fetch
  <2> HIDE DEF fetched
  <2>4. CASE work' = [work EXCEPT ![m].done = d, ![m].bundles = fetched]
    <3>1. work' \in [Messages -> Work]
      BY <1>0, <2>2, <2>4 DEF Work
    <3> QED BY <1>0, <2>4, <3>1
  <2>5. CASE work' = [work EXCEPT ![m].done = d]
    <3>1. work' \in [Messages -> Work]
      BY <1>0, <2>5 DEF Work
    <3> QED BY <1>0, <2>5, <3>1
  <2> QED BY <2>3, <2>4, <2>5
<1>2. CASE \E kind \in Kinds : UpsertRelated(kind, m)
  <2>1. work' = work \/ work' = [work EXCEPT ![m].errors = TRUE]
    BY <1>2 DEF UpsertRelated
  <2>2. work' \in [Messages -> Work]
    BY <1>0, <2>1 DEF Work
  <2> QED BY <1>0, <2>1, <2>2
<1>3. CASE UpsertDeals(m)
  <2>1. PICK S \in SUBSET {b.opp : b \in Fetched(m)} : \E answer \in Orders(S) :
           work' = [work EXCEPT ![m].results = answer, ![m].done = 0,
                         ![m].errors = @ \/ Len(answer) < Len(Sent(m))]
    BY <1>3 DEF UpsertDeals
  <2>2. PICK answer \in Orders(S) :
           work' = [work EXCEPT ![m].results = answer, ![m].done = 0,
                         ![m].errors = @ \/ Len(answer) < Len(Sent(m))]
    BY <2>1
  <2>3. S \in SUBSET Opps
    BY LocalTypes DEF Bundle
  <2>4. answer \in Seq(Opps)
    BY <2>2, <2>3, OrdersAreSeqs
  <2>5. PICK e \in BOOLEAN :
           work' = [work EXCEPT ![m].results = answer, ![m].done = 0, ![m].errors = e]
    BY <2>2
  <2>6. work' \in [Messages -> Work]
    BY <1>0, <2>4, <2>5 DEF Work
  <2> QED BY <1>0, <2>5, <2>6
<1>4. CASE Watermark(m)
  <2>1. PICK d \in Nat : work' = [work EXCEPT ![m].done = d]
    <3>1. work[m].done + 1 \in Nat
      BY <1>0
    <3> QED BY <1>4, <3>1 DEF Watermark
  <2>2. work' \in [Messages -> Work]
    BY <1>0, <2>1 DEF Work
  <2> QED BY <1>0, <2>1, <2>2
<1>5. CASE Receive(m) \/ FetchedAll(m) \/ Finish(m) \/ UpsertUnanswered(m) \/ Crash(m)
  BY <1>5, <1>0 DEF Receive, FetchedAll, Finish, UpsertUnanswered, Crash, Ack, Retry
<1>6. CASE Link(m) \/ DeadLetter(m)
  BY <1>6, <1>0 DEF Link, DeadLetter
<1> QED BY <1>1, <1>2, <1>3, <1>4, <1>5, <1>6 DEF Step

\* What a step of the worker leaves at HubSpot and in DynamoDB is typed.
LEMMA TypeStores ==
    ASSUME TypeOK, NEW m \in Messages, Step(m) \/ UpsertUnanswered(m) \/ Crash(m)
    PROVE  /\ deal' \in [Opps -> Version] /\ watermark' \in [Opps -> Version]
           /\ links' \subseteq Opps \X Objects /\ mapped' \subseteq Objects
           /\ faults' \in 0..MaxFaults
<1>0. /\ deal \in [Opps -> Version] /\ watermark \in [Opps -> Version]
      /\ links \subseteq Opps \X Objects /\ mapped \subseteq Objects
      /\ faults \in 0..MaxFaults
  BY DEF TypeOK
<1> USE DEF hubspot, state, Goto
<1>1. CASE \E kind \in Kinds : UpsertRelated(kind, m)
  BY <1>0, <1>1, LocalTypes, FaultType DEF UpsertRelated
<1>2. CASE UpsertDeals(m)
  <2>1. PICK S \in SUBSET {b.opp : b \in Fetched(m)} : \E answer \in Orders(S) :
          /\ IF answer = Sent(m) THEN UNCHANGED faults ELSE Fault(Deviation(m, answer))
          /\ deal' = Written(m, answer)
    BY <1>2 DEF UpsertDeals
  <2>2. PICK answer \in Orders(S) :
          /\ IF answer = Sent(m) THEN UNCHANGED faults ELSE Fault(Deviation(m, answer))
          /\ deal' = Written(m, answer)
    BY <2>1
  <2>3. S \in SUBSET Opps
    BY LocalTypes DEF Bundle
  <2>4. \A i \in DOMAIN answer : \E b \in Fetched(m) : b.opp = answer[i]
    BY <2>3, OrdersAreSeqs
  <2>5. deal' \in [Opps -> Version] /\ faults' \in 0..MaxFaults
    BY <1>0, <2>2, <2>4, WrittenType, FaultType
  <2> QED BY <1>0, <1>2, <2>5 DEF UpsertDeals
<1>3. CASE UpsertUnanswered(m)
  <2>1. deal' \in [Opps -> Version] /\ faults' \in 0..MaxFaults
    BY <1>3, SentFacts, WrittenType, FaultType DEF UpsertUnanswered
  <2> QED BY <1>0, <1>3, <2>1 DEF UpsertUnanswered
<1>4. CASE Link(m)
  <2>1. links' \subseteq Opps \X Objects
    <3>1. PICK failed \in SUBSET Kinds :
            links' = links \cup
                UNION {{<<Pairs(m)[i].deal, x>> :
                           x \in mapped \cap UNION {Related[kind][Pairs(m)[i].bundle.opp] :
                                                       kind \in Kinds \ failed}} :
                       i \in DOMAIN Pairs(m)}
      BY <1>4 DEF Link
    <3>2. \A i \in DOMAIN Pairs(m) : Pairs(m)[i].deal \in Opps
      BY PairsFacts
    <3> QED BY <1>0, <3>1, <3>2
  <2>2. faults' \in 0..MaxFaults
    BY <1>0, <1>4, FaultType DEF Link
  <2> QED BY <1>0, <1>4, <2>1, <2>2 DEF Link
<1>5. CASE Watermark(m)
  <2>1. PICK o \in Opps, v \in Version : watermark' = [watermark EXCEPT ![o] = v]
    <3>1. work[m].done + 1 \in DOMAIN Pairs(m)
      BY <1>5, LocalTypes, PairsFacts DEF Watermark
    <3>2. /\ Pairs(m)[work[m].done + 1].bundle.opp \in Opps
          /\ Pairs(m)[work[m].done + 1].bundle.version \in Version
      BY <3>1, PairsFacts DEF Bundle
    <3> QED BY <1>5, <3>2 DEF Watermark
  <2> QED BY <1>0, <1>5, <2>1 DEF Watermark
<1>6. CASE Fetch(m) \/ FetchedAll(m) \/ Finish(m) \/ Crash(m)
  BY <1>0, <1>6, FaultType DEF Fetch, FetchedAll, Finish, Crash, Ack, Retry
<1>7. CASE Receive(m) \/ DeadLetter(m)
  BY <1>0, <1>7 DEF Receive, DeadLetter
<1> QED BY <1>1, <1>2, <1>3, <1>4, <1>5, <1>6, <1>7 DEF Step

\* A step of the worker keeps the types.
LEMMA TypeWorker ==
    ASSUME TypeOK, NEW m \in Messages, Step(m) \/ UpsertUnanswered(m) \/ Crash(m)
    PROVE  TypeOK'
<1> USE DEF orchestrator, sqs
<1>1. UNCHANGED <<govwin, orchestrator, body>>
  BY DEF Step, Receive, Fetch, FetchedAll, UpsertRelated, UpsertDeals, UpsertUnanswered,
     Link, Watermark, Finish, Crash, DeadLetter
<1>2. receives' \in [Messages -> 0..MaxReceive]
  <2>1. CASE Receive(m)
    <3>1. receives[m] + 1 \in 0..MaxReceive
      BY <2>1, SyncAssumption DEF Receive, TypeOK, SyncAssumption
    <3> QED BY <2>1, <3>1 DEF Receive, TypeOK
  <2>2. CASE ~Receive(m)
    BY <2>2 DEF Step, Fetch, FetchedAll, UpsertRelated, UpsertDeals, UpsertUnanswered,
       Link, Watermark, Finish, Crash, DeadLetter, TypeOK
  <2> QED BY <2>1, <2>2
<1>3. pc' \in [Messages -> Running \cup {"free", "queued"}]
  BY WorkerMoves DEF TypeOK
<1>4. work' \in [Messages -> Work]
  BY WorkerLocals
<1> QED BY <1>1, <1>2, <1>3, <1>4, TypeStores DEF TypeOK

\* Every step keeps the types.
LEMMA TypeNext == TypeOK /\ [Next]_vars => TypeOK'
<1>1. TypeOK /\ UNCHANGED vars => TypeOK'
  BY DEF TypeOK, vars, orchestrator, sqs, hubspot, state
<1> QED BY <1>1, TypeOrchestrator, TypeWorker DEF Next

\* Type correctness (TypeOK), under every kind of failure.
THEOREM TypeCorrect == Spec => []TypeOK
<1> QED BY TypeInit, TypeNext, PTL DEF Spec

-----------------------------------------------------------------------------
(* What a step leaves alone.                                                *)

\* A step of the worker for one message leaves the other messages alone.
LEMMA OthersStay ==
    ASSUME TypeOK, NEW m \in Messages, Step(m) \/ UpsertUnanswered(m) \/ Crash(m),
           NEW n \in Messages, n # m
    PROVE  /\ pc'[n] = pc[n] /\ work'[n] = work[n] /\ body'[n] = body[n]
           /\ Sent(n)' = Sent(n) /\ Fetched(n)' = Fetched(n)
           /\ \A kind \in Kinds : RelatedTo(kind, n)' = RelatedTo(kind, n)
<1>1. work'[n] = work[n]
  BY WorkerLocals
<1>2. pc'[n] = pc[n]
  BY WorkerMoves DEF TypeOK
<1>3. body' = body
  BY DEF Step, Receive, Fetch, FetchedAll, UpsertRelated, UpsertDeals, UpsertUnanswered,
     Link, Watermark, Finish, Crash, DeadLetter, orchestrator, sqs
<1>4. Sent(n)' = Sent(n) /\ Fetched(n)' = Fetched(n)
  BY <1>1 DEF Sent, Fetched
<1>5. ASSUME NEW kind \in Kinds PROVE RelatedTo(kind, n)' = RelatedTo(kind, n)
  BY <1>4 DEF RelatedTo
<1> QED BY <1>1, <1>2, <1>3, <1>4, <1>5

\* The orchestrator and GovWin leave every invocation alone.
LEMMA WorkersStay ==
    ASSUME TypeOK, List \/ Filter \/ Send \/ (\E o \in Opps : Change(o)) \/ UNCHANGED vars
    PROVE  /\ work' = work /\ UNCHANGED <<hubspot, state>>
           /\ \A n \in Messages : \/ pc'[n] = pc[n] /\ body'[n] = body[n]
                                  \/ pc[n] = "free" /\ pc'[n] = "queued"
           /\ \A n \in Messages : /\ Sent(n)' = Sent(n) /\ Fetched(n)' = Fetched(n)
                                  /\ \A kind \in Kinds : RelatedTo(kind, n)' = RelatedTo(kind, n)
<1>1. work' = work /\ UNCHANGED <<hubspot, state>>
  BY DEF List, Filter, Send, Change, vars
<1>2. ASSUME NEW n \in Messages
      PROVE  \/ pc'[n] = pc[n] /\ body'[n] = body[n]
             \/ pc[n] = "free" /\ pc'[n] = "queued"
  <2>1. CASE UNCHANGED sqs
    BY <2>1 DEF sqs
  <2>2. CASE Send /\ ~UNCHANGED sqs
    <3> DEFINE f == CHOOSE x \in Free : TRUE
    <3>1. /\ Free # {} /\ pc' = [pc EXCEPT ![f] = "queued"] /\ body' = [body EXCEPT ![f] = Batch]
      BY <2>2 DEF Send, Goto
    <3>2. f \in Free
      BY <3>1
    <3> HIDE DEF f
    <3> QED BY <3>1, <3>2 DEF Free, TypeOK
  <2> QED BY <2>1, <2>2 DEF List, Filter, Send, Change, vars
<1>3. ASSUME NEW n \in Messages PROVE Sent(n)' = Sent(n) /\ Fetched(n)' = Fetched(n)
  BY <1>1 DEF Sent, Fetched
<1>4. ASSUME NEW n \in Messages, NEW kind \in Kinds PROVE RelatedTo(kind, n)' = RelatedTo(kind, n)
  BY <1>3 DEF RelatedTo
<1> QED BY <1>1, <1>2, <1>3, <1>4

\* From the upsert on, an invocation keeps what it fetched and was answered.
LEMMA AfterTheAnswer ==
    ASSUME TypeOK, NEW m \in Messages, Step(m) \/ UpsertUnanswered(m) \/ Crash(m),
           pc'[m] \in {"link", "watermark"}, ~UpsertDeals(m)
    PROVE  /\ pc[m] \in {"link", "watermark"}
           /\ work'[m].bundles = work[m].bundles /\ work'[m].results = work[m].results
           /\ work'[m].errors = work[m].errors
           /\ Sent(m)' = Sent(m) /\ Fetched(m)' = Fetched(m)
           /\ deal' = deal /\ mapped' = mapped
           /\ \A kind \in Kinds : RelatedTo(kind, m)' = RelatedTo(kind, m)
           /\ Link(m) \/ Watermark(m)
<1>0. pc \in [Messages -> Running \cup {"free", "queued"}] /\ work \in [Messages -> Work]
      /\ work[m] \in Work
  BY DEF TypeOK
<1>1. Link(m) \/ Watermark(m)
  BY <1>0 DEF Step, Receive, Fetch, FetchedAll, UpsertRelated, UpsertUnanswered, Finish, Crash,
     DeadLetter, Ack, Retry, Goto, sqs, Kinds
<1>2. /\ work'[m].bundles = work[m].bundles /\ work'[m].results = work[m].results
      /\ work'[m].errors = work[m].errors
  BY <1>0, <1>1 DEF Link, Watermark, Work
<1>3. Sent(m)' = Sent(m) /\ Fetched(m)' = Fetched(m)
  BY <1>2 DEF Sent, Fetched
<1>4. ASSUME NEW kind \in Kinds PROVE RelatedTo(kind, m)' = RelatedTo(kind, m)
  BY <1>3 DEF RelatedTo
<1>5. deal' = deal /\ mapped' = mapped /\ pc[m] \in {"link", "watermark"}
  BY <1>1 DEF Link, Watermark, hubspot, state
<1> QED BY <1>1, <1>2, <1>3, <1>4, <1>5

\* A dead letter is a message that no invocation has; nothing else changes.
LEMMA DeadLetterFacts ==
    ASSUME TypeOK, NEW m \in Messages, DeadLetter(m)
    PROVE  /\ pc[m] = "queued" /\ pc' = [pc EXCEPT ![m] = "free"]
           /\ UNCHANGED <<govwin, orchestrator, body, receives, work, hubspot, state, faults>>
BY DEF DeadLetter, Goto

\* What is fetched of an opportunity is fetched once.
LEMMA FetchedOnce ==
    ASSUME EachOnce, NEW m \in Messages, NEW b \in Fetched(m), NEW c \in Fetched(m), b.opp = c.opp
    PROVE  b = c
BY DEF EachOnce, Fetched

\* What an upsert of deals does to the locals, and what HubSpot answers.
LEMMA TheAnswer ==
    ASSUME TypeOK, NEW m \in Messages, UpsertDeals(m)
    PROVE  /\ pc'[m] = "link" /\ work'[m].bundles = work[m].bundles /\ work'[m].done = 0
           /\ Fetched(m)' = Fetched(m) /\ mapped' = mapped
           /\ \A kind \in Kinds : RelatedTo(kind, m)' = RelatedTo(kind, m)
           /\ work[m].errors => work'[m].errors
           /\ \E answer \in Seq(Opps) :
                 /\ work'[m].results = answer /\ deal' = Written(m, answer)
                 /\ work'[m].errors \/ Len(answer) >= Len(work[m].bundles)
                 /\ \A i \in DOMAIN answer : \E b \in Fetched(m) : b.opp = answer[i]
<1>0. pc \in [Messages -> Running \cup {"free", "queued"}] /\ work \in [Messages -> Work]
      /\ work[m] \in Work /\ Sent(m) \in Seq(Opps) /\ Len(Sent(m)) = Len(work[m].bundles)
      /\ Len(Sent(m)) \in Nat
  BY SentFacts, LenProperties DEF TypeOK
<1>1. PICK S \in SUBSET {b.opp : b \in Fetched(m)} : \E answer \in Orders(S) :
          /\ deal' = Written(m, answer)
          /\ work' = [work EXCEPT ![m].results = answer, ![m].done = 0,
                         ![m].errors = @ \/ Len(answer) < Len(Sent(m))]
  BY DEF UpsertDeals
<1>2. PICK answer \in Orders(S) :
          /\ deal' = Written(m, answer)
          /\ work' = [work EXCEPT ![m].results = answer, ![m].done = 0,
                         ![m].errors = @ \/ Len(answer) < Len(Sent(m))]
  BY <1>1
<1>3. /\ answer \in Seq(Opps) /\ Len(answer) \in Nat
      /\ \A i \in DOMAIN answer : \E b \in Fetched(m) : b.opp = answer[i]
  <2>1. S \in SUBSET Opps
    BY LocalTypes DEF Bundle
  <2>2. answer \in Seq(Opps) /\ \A i \in DOMAIN answer : answer[i] \in S
    BY <2>1, OrdersAreSeqs
  <2> QED BY <2>2, LenProperties
<1>4. /\ work'[m].results = answer /\ work'[m].done = 0
      /\ work'[m].bundles = work[m].bundles
      /\ work'[m].errors = (work[m].errors \/ Len(answer) < Len(Sent(m)))
  BY <1>0, <1>2 DEF Work
<1>5. Fetched(m)' = Fetched(m)
  BY <1>4 DEF Fetched
<1>6. ASSUME NEW kind \in Kinds PROVE RelatedTo(kind, m)' = RelatedTo(kind, m)
  BY <1>5 DEF RelatedTo
<1>7. pc'[m] = "link" /\ mapped' = mapped
  BY <1>0 DEF UpsertDeals, Goto, state
<1>8. work'[m].errors \/ Len(answer) >= Len(work[m].bundles)
  <2>1. Len(answer) < Len(Sent(m)) \/ Len(answer) >= Len(work[m].bundles)
    BY <1>0, <1>3
  <2>2. Len(answer) < Len(Sent(m)) => work'[m].errors
    BY <1>4, Zenon
  <2> QED BY <2>1, <2>2, Zenon
<1>9. \E a \in Seq(Opps) :
         /\ work'[m].results = a /\ deal' = Written(m, a)
         /\ work'[m].errors \/ Len(a) >= Len(work[m].bundles)
         /\ \A i \in DOMAIN a : \E b \in Fetched(m) : b.opp = a[i]
  BY <1>2, <1>3, <1>4, <1>8
<1>10. work[m].errors => work'[m].errors
  BY <1>4, Zenon
<1> QED BY <1>4, <1>5, <1>6, <1>7, <1>9, <1>10

\* HubSpot writes the one version that was fetched of an opportunity it answers
\* for, and nothing of the others.
LEMMA WrittenVersion ==
    ASSUME TypeOK, EachOnce, NEW m \in Messages, NEW answer, NEW o \in Opps,
           \A i \in DOMAIN answer : \E b \in Fetched(m) : b.opp = answer[i]
    PROVE  /\ (\E i \in DOMAIN answer : answer[i] = o) =>
                 /\ \E b \in Fetched(m) : b.opp = o
                 /\ \A b \in Fetched(m) : b.opp = o => Written(m, answer)[o] = b.version
           /\ (\A i \in DOMAIN answer : answer[i] # o) => Written(m, answer)[o] = deal[o]
<1>1. ASSUME NEW i \in DOMAIN answer, answer[i] = o, NEW b \in Fetched(m), b.opp = o
      PROVE  Written(m, answer)[o] = b.version
  <2>1. (CHOOSE d \in Fetched(m) : d.opp = b.opp) = b
    BY ChosenBundle, FetchedOnce
  <2> QED BY <1>1, <2>1 DEF Written
<1> QED BY <1>1 DEF Written

\* A deal changes in an upsert only, to what the invocation holds of it.
LEMMA DealsWritten ==
    ASSUME TypeOK, EachOnce, NEW o \in Opps,
           NEW m \in Messages, Step(m) \/ UpsertUnanswered(m) \/ Crash(m), deal'[o] # deal[o]
    PROVE  pc[m] = "deals" /\ \E b \in Fetched(m) : b.opp = o /\ deal'[o] = b.version
<1>1. UpsertDeals(m) \/ UpsertUnanswered(m)
  BY DEF Step, Receive, Fetch, FetchedAll, UpsertRelated, Link, Watermark, Finish, Crash,
     DeadLetter, hubspot
<1>2. PICK answer \in Seq(Opps) :
        /\ deal' = Written(m, answer)
        /\ \A i \in DOMAIN answer : \E b \in Fetched(m) : b.opp = answer[i]
  <2>1. CASE UpsertDeals(m)
    BY <2>1, TheAnswer
  <2>2. CASE UpsertUnanswered(m)
    BY <2>2, SentFacts DEF UpsertUnanswered
  <2> QED BY <1>1, <2>1, <2>2
<1>3. \E i \in DOMAIN answer : answer[i] = o
  BY <1>2, WrittenVersion
<1>4. PICK b \in Fetched(m) : b.opp = o /\ Written(m, answer)[o] = b.version
  BY <1>2, <1>3, WrittenVersion
<1> QED BY <1>1, <1>2, <1>4 DEF UpsertDeals, UpsertUnanswered

\* A watermark is the version of a bundle of the invocation that puts it.
LEMMA WatermarkedPair ==
    ASSUME TypeOK, NEW m \in Messages, Watermark(m)
    PROVE  /\ work[m].done + 1 \in DOMAIN work[m].bundles
           /\ work[m].done + 1 \in DOMAIN Pairs(m)
           /\ LET b == work[m].bundles[work[m].done + 1] IN
                 /\ b \in Fetched(m) /\ b \in Bundle
                 /\ Pairs(m)[work[m].done + 1].bundle = b
                 /\ watermark' = [watermark EXCEPT ![b.opp] = b.version]
<1>1. work[m].done + 1 \in DOMAIN Pairs(m)
  BY LocalTypes, PairsFacts DEF Watermark
<1>2. /\ work[m].done + 1 \in DOMAIN work[m].bundles
      /\ Pairs(m)[work[m].done + 1].bundle = work[m].bundles[work[m].done + 1]
  BY <1>1, PairsFacts
<1>3. work[m].bundles[work[m].done + 1] \in Fetched(m)
  BY <1>2 DEF Fetched
<1> QED BY <1>1, <1>2, <1>3, LocalTypes DEF Watermark

\* A watermark changes in Watermark only.
LEMMA MarksWritten ==
    ASSUME TypeOK, NEW o \in Opps, NEW m \in Messages,
           Step(m) \/ UpsertUnanswered(m) \/ Crash(m), watermark'[o] # watermark[o]
    PROVE  Watermark(m) /\ work[m].bundles[work[m].done + 1].opp = o
<1>1. Watermark(m)
  BY DEF Step, Receive, Fetch, FetchedAll, UpsertRelated, UpsertDeals, UpsertUnanswered, Link,
     Finish, Crash, DeadLetter, state
<1>2. PICK b \in Bundle : /\ b = work[m].bundles[work[m].done + 1]
                          /\ watermark' = [watermark EXCEPT ![b.opp] = b.version]
  BY <1>1, WatermarkedPair
<1>3. b.opp = o
  BY <1>2 DEF TypeOK
<1> QED BY <1>1, <1>2, <1>3

\* While an invocation holds an opportunity, the steps of the others leave its
\* deal and its watermark alone.
LEMMA HeldStays ==
    ASSUME TypeOK, EachOnce, NEW o \in Opps, Apart(o),
           NEW m \in Messages, Step(m) \/ UpsertUnanswered(m) \/ Crash(m),
           NEW n \in Messages, n # m, Holds(n, o)
    PROVE  deal'[o] = deal[o] /\ watermark'[o] = watermark[o]
<1>1. ~Holds(m, o)
  BY DEF Apart
<1>2. CASE deal'[o] # deal[o]
  BY <1>1, <1>2, DealsWritten DEF Holds, Running
<1>3. CASE watermark'[o] # watermark[o]
  <2>1. Watermark(m) /\ work[m].bundles[work[m].done + 1].opp = o
    BY <1>3, MarksWritten
  <2>2. work[m].bundles[work[m].done + 1] \in Fetched(m)
    BY <2>1, WatermarkedPair
  <2> QED BY <1>1, <2>1, <2>2 DEF Holds, Running, Watermark
<1> QED BY <1>2, <1>3

\* The parts of a plan name an opportunity once, if the plan does.
LEMMA PartsDistinct ==
    ASSUME TypeOK, Distinct(plan)
    PROVE  Distinct(Batch) /\ Distinct(Rest)
<1>1. \A i, j \in DOMAIN Batch : Batch[i] = Batch[j] => i = j
  BY BatchFacts DEF Distinct
<1>2. \A i \in DOMAIN Rest : i \in Nat
  BY BatchFacts, LenProperties
<1>3. Len(Batch) \in Nat
  BY BatchFacts, LenProperties
<1>4. ASSUME NEW i \in DOMAIN Rest, NEW j \in DOMAIN Rest, Rest[i] = Rest[j] PROVE i = j
  <2>1. i + Len(Batch) = j + Len(Batch)
    BY <1>4, BatchFacts DEF Distinct
  <2> QED BY <1>2, <1>3, <2>1
<1> QED BY <1>1, <1>4 DEF Distinct

\* EachOnce, for one message.
Once(b, w, step) ==
    /\ Distinct(b)
    /\ \A i, j \in DOMAIN w.bundles : w.bundles[i].opp = w.bundles[j].opp => i = j
    /\ step = "fetch" => \A i \in DOMAIN w.bundles :
          \E k \in 1..w.done : k \in DOMAIN b /\ b[k] = w.bundles[i].opp

\* A fetch appends an opportunity that was not fetched before.
LEMMA FetchOnce ==
    ASSUME TypeOK, NEW m \in Messages, Once(body[m], work[m], "fetch"), Fetch(m)
    PROVE  Once(body[m], work'[m], "fetch")
<1> DEFINE o == body[m][work[m].done + 1]
           fetched == Append(work[m].bundles, [opp |-> o, version |-> govwin[o]])
<1>0. /\ work[m] \in Work /\ work \in [Messages -> Work] /\ work[m].done \in Nat
      /\ work[m].bundles \in Seq(Bundle) /\ body[m] \in Seq(Opps)
      /\ DOMAIN body[m] = 1..Len(body[m]) /\ Len(body[m]) \in Nat
      /\ Len(work[m].bundles) \in Nat /\ DOMAIN work[m].bundles = 1..Len(work[m].bundles)
  BY LocalTypes, LenProperties DEF TypeOK
<1>1. work[m].done + 1 \in DOMAIN body[m] /\ o \in Opps
  BY <1>0, ElementOfSeq DEF Fetch
<1>2. [opp |-> o, version |-> govwin[o]] \in Bundle
  BY <1>1 DEF Bundle, TypeOK
<1>3. /\ fetched \in Seq(Bundle) /\ Len(fetched) = Len(work[m].bundles) + 1
      /\ \A i \in 1..Len(work[m].bundles) : fetched[i] = work[m].bundles[i]
      /\ fetched[Len(work[m].bundles) + 1] = [opp |-> o, version |-> govwin[o]]
  BY <1>0, <1>2, AppendProperties
<1>4. /\ work'[m].done = work[m].done + 1
      /\ work'[m].bundles = fetched \/ work'[m].bundles = work[m].bundles
  <2>1. \/ work' = [work EXCEPT ![m].done = work[m].done + 1, ![m].bundles = fetched]
        \/ work' = [work EXCEPT ![m].done = work[m].done + 1]
    BY DEF Fetch
  <2> HIDE DEF fetched
  <2>2. CASE work' = [work EXCEPT ![m].done = work[m].done + 1, ![m].bundles = fetched]
    BY <1>0, <2>2 DEF Work
  <2>3. CASE work' = [work EXCEPT ![m].done = work[m].done + 1]
    BY <1>0, <2>3 DEF Work
  <2> QED BY <2>1, <2>2, <2>3
<1>5. CASE work'[m].bundles = work[m].bundles
  <2>1. 1..work[m].done \subseteq 1..work'[m].done
    BY <1>0, <1>4
  <2> QED BY <1>5, <2>1 DEF Once
<1>6. CASE work'[m].bundles = fetched
  <2>1. DOMAIN fetched = 1..(Len(work[m].bundles) + 1)
    BY <1>3, LenProperties
  <2>2. fetched[Len(work[m].bundles) + 1].opp = o
    BY <1>3
  <2> HIDE DEF fetched
  <2>3. ASSUME NEW i \in 1..Len(work[m].bundles)
        PROVE  \E k \in 1..work[m].done : k \in DOMAIN body[m] /\ body[m][k] = fetched[i].opp
    BY <1>0, <1>3, <2>3 DEF Once
  <2>4. ASSUME NEW i \in 1..Len(work[m].bundles) PROVE fetched[i].opp # o
    <3>1. PICK k \in 1..work[m].done : k \in DOMAIN body[m] /\ body[m][k] = fetched[i].opp
      BY <2>3
    <3>2. k # work[m].done + 1
      BY <1>0, <3>1
    <3> QED BY <1>1, <3>1, <3>2 DEF Once, Distinct
  <2>5. ASSUME NEW i \in 1..Len(work[m].bundles), NEW j \in 1..Len(work[m].bundles),
               fetched[i].opp = fetched[j].opp
        PROVE  i = j
    BY <1>0, <1>3, <2>5 DEF Once
  <2>6. \A i, j \in DOMAIN fetched : fetched[i].opp = fetched[j].opp => i = j
    <3>1. \A i \in DOMAIN fetched : i \in 1..Len(work[m].bundles) \/ i = Len(work[m].bundles) + 1
      BY <1>0, <2>1
    <3> QED BY <2>2, <2>4, <2>5, <3>1
  <2>7. ASSUME NEW i \in DOMAIN fetched
        PROVE  \E k \in 1..(work[m].done + 1) : k \in DOMAIN body[m] /\ body[m][k] = fetched[i].opp
    <3>1. CASE i = Len(work[m].bundles) + 1
      <4>1. work[m].done + 1 \in 1..(work[m].done + 1)
        BY <1>0
      <4> QED BY <1>1, <2>2, <3>1, <4>1
    <3>2. CASE i \in 1..Len(work[m].bundles)
      <4>1. 1..work[m].done \subseteq 1..(work[m].done + 1)
        BY <1>0
      <4> QED BY <2>3, <3>2, <4>1
    <3> QED BY <1>0, <2>1, <3>1, <3>2
  <2> QED BY <1>4, <1>6, <2>6, <2>7 DEF Once
<1> QED BY <1>4, <1>5, <1>6

\* Plans, batches and what is fetched name an opportunity once.
LEMMA EachOnceNext ==
    ASSUME TypeOK, EachOnce, [Next]_vars
    PROVE  EachOnce'
<1>0. Distinct(plan) /\ \A n \in Messages : Once(body[n], work[n], pc[n])
  BY DEF EachOnce, Once
<1> SUFFICES Distinct(plan') /\ \A n \in Messages : Once(body'[n], work'[n], pc'[n])
  BY DEF EachOnce, Once, Distinct
<1>1. CASE Filter
  <2>1. PICK known \in {watermark, Unknown} : plan' \in Orders(Changed(known))
    BY <1>1 DEF Filter
  <2>2. Distinct(plan')
    BY <2>1, OrdersAreSeqs DEF Changed
  <2> QED BY <1>0, <1>1, <2>2 DEF Filter, sqs
<1>2. CASE Send
  <2>1. Distinct(plan')
    BY <1>0, <1>2, PartsDistinct DEF Send
  <2>2. UNCHANGED work /\ (UNCHANGED sqs \/ \E f \in Messages :
            pc' = [pc EXCEPT ![f] = "queued"] /\ body' = [body EXCEPT ![f] = Batch])
    <3>1. Free # {} => (CHOOSE x \in Free : TRUE) \in Messages
      BY DEF Free
    <3> QED BY <1>2, <3>1 DEF Send, Goto
  <2>3. CASE UNCHANGED sqs
    BY <1>0, <2>1, <2>2, <2>3 DEF sqs
  <2>4. ASSUME NEW f \in Messages, pc' = [pc EXCEPT ![f] = "queued"],
               body' = [body EXCEPT ![f] = Batch], UNCHANGED work, NEW n \in Messages
        PROVE  Once(body'[n], work'[n], pc'[n])
    <3>1. CASE n = f
      <4>1. body'[n] = Batch /\ pc'[n] = "queued" /\ work'[n] = work[n]
        BY <2>4, <3>1 DEF TypeOK
      <4> QED BY <1>0, <4>1, PartsDistinct DEF Once
    <3>2. CASE n # f
      <4>1. body'[n] = body[n] /\ pc'[n] = pc[n] /\ work'[n] = work[n]
        BY <2>4, <3>2 DEF TypeOK
      <4> QED BY <1>0, <4>1
    <3> QED BY <3>1, <3>2
  <2> QED BY <2>1, <2>2, <2>3, <2>4
<1>3. CASE List \/ (\E o \in Opps : Change(o)) \/ UNCHANGED vars
  BY <1>0, <1>3 DEF List, Change, vars, orchestrator, sqs
<1>4. ASSUME NEW m \in Messages, Step(m) \/ UpsertUnanswered(m) \/ Crash(m)
      PROVE  Distinct(plan') /\ \A n \in Messages : Once(body'[n], work'[n], pc'[n])
  <2>0. /\ pc \in [Messages -> Running \cup {"free", "queued"}]
        /\ work \in [Messages -> Work] /\ work[m] \in Work
    BY DEF TypeOK
  <2>1. plan' = plan /\ body' = body
    BY <1>4 DEF Step, Receive, Fetch, FetchedAll, UpsertRelated, UpsertDeals, UpsertUnanswered,
       Link, Watermark, Finish, Crash, DeadLetter, orchestrator, sqs
  <2>2. Once(body'[m], work'[m], pc'[m])
    <3>1. CASE Fetch(m)
      <4>1. pc[m] = "fetch" /\ pc'[m] = "fetch"
        BY <3>1 DEF Fetch, sqs
      <4> QED BY <1>0, <2>1, <3>1, <4>1, FetchOnce
    <3>2. CASE ~Fetch(m)
      <4>1. \/ work'[m] = NoWork
            \/ work'[m].bundles = work[m].bundles /\ pc'[m] # "fetch"
        <5>1. CASE Receive(m) \/ FetchedAll(m) \/ Finish(m) \/ UpsertUnanswered(m) \/ Crash(m)
          BY <2>0, <5>1 DEF Receive, FetchedAll, Finish, UpsertUnanswered, Crash, Ack, Retry, Goto
        <5>2. CASE \E kind \in Kinds : UpsertRelated(kind, m)
          BY <2>0, <5>2 DEF UpsertRelated, Goto, Work
        <5>3. CASE UpsertDeals(m)
          BY <2>0, <5>3 DEF UpsertDeals, Goto, Work
        <5>4. CASE Link(m) \/ DeadLetter(m) \/ Watermark(m)
          BY <2>0, <5>4 DEF Link, DeadLetter, Watermark, Goto, Work, sqs
        <5> QED BY <1>4, <3>2, <5>1, <5>2, <5>3, <5>4 DEF Step
      <4>2. Once(body[m], NoWork, pc'[m])
        BY <1>0 DEF Once, NoWork
      <4> QED BY <1>0, <2>1, <4>1, <4>2 DEF Once
    <3> QED BY <3>1, <3>2
  <2>3. \A n \in Messages \ {m} : Once(body'[n], work'[n], pc'[n])
    BY <1>0, <1>4, OthersStay
  <2> QED BY <1>0, <2>1, <2>2, <2>3
<1> QED BY <1>1, <1>2, <1>3, <1>4 DEF Next

\* GovWin and the orchestrator do not lower a version.
LEMMA GovWinGrows ==
    ASSUME TypeOK, [Next]_vars
    PROVE  \A o \in Opps : govwin[o] <= govwin'[o]
<1>0. \A o \in Opps : govwin[o] \in Nat
  BY SyncAssumption DEF TypeOK, Version, SyncAssumption
<1>1. ASSUME NEW o \in Opps, Change(o) PROVE \A p \in Opps : govwin[p] <= govwin'[p]
  BY <1>0, <1>1 DEF Change, TypeOK
<1>2. CASE govwin' = govwin
  BY <1>0, <1>2
<1> QED BY <1>1, <1>2 DEF Next, Step, List, Filter, Send, Receive, Fetch, FetchedAll, UpsertRelated,
   UpsertDeals, UpsertUnanswered, Link, Watermark, Finish, Crash, DeadLetter, vars

\* Before the deals are written, an invocation only adds what GovWin has now.
LEMMA BeforeTheUpsert ==
    ASSUME TypeOK, NEW m \in Messages, Step(m) \/ UpsertUnanswered(m) \/ Crash(m),
           pc'[m] \in {"fetch", "companies", "contacts", "deals"}
    PROVE  /\ deal' = deal /\ govwin' = govwin
           /\ \/ Fetched(m)' = {}
              \/ pc[m] \in {"fetch", "companies", "contacts", "deals"}
                 /\ \A b \in Fetched(m)' : b \in Fetched(m)
                       \/ (b.opp \in Opps /\ b.version = govwin[b.opp])
<1>0. /\ pc \in [Messages -> Running \cup {"free", "queued"}]
      /\ work \in [Messages -> Work] /\ work[m] \in Work
  BY DEF TypeOK
<1>1. CASE Receive(m)
  <2>1. work'[m] = NoWork
    BY <1>0, <1>1 DEF Receive
  <2>2. Fetched(m)' = {}
    BY <2>1 DEF Fetched, NoWork
  <2> QED BY <1>1, <2>2 DEF Receive, hubspot
<1>2. CASE Fetch(m)
  <2> DEFINE o == body[m][work[m].done + 1]
             fetched == Append(work[m].bundles, [opp |-> o, version |-> govwin[o]])
  <2>1. /\ work[m].done \in Nat /\ work[m].bundles \in Seq(Bundle) /\ body[m] \in Seq(Opps)
        /\ DOMAIN work[m].bundles = 1..Len(work[m].bundles) /\ Len(work[m].bundles) \in Nat
    BY LocalTypes, LenProperties DEF TypeOK
  <2>2. o \in Opps
    BY <1>2, <2>1, ElementOfSeq DEF Fetch
  <2>3. [opp |-> o, version |-> govwin[o]] \in Bundle
    BY <2>2 DEF Bundle, TypeOK
  <2>4. /\ fetched \in Seq(Bundle) /\ Len(fetched) = Len(work[m].bundles) + 1
        /\ \A i \in 1..Len(work[m].bundles) : fetched[i] = work[m].bundles[i]
        /\ fetched[Len(work[m].bundles) + 1] = [opp |-> o, version |-> govwin[o]]
    BY <2>1, <2>3, AppendProperties
  <2>5. DOMAIN fetched = 1..(Len(work[m].bundles) + 1)
    BY <2>4, LenProperties
  <2>6. \A i \in DOMAIN fetched : fetched[i] \in Fetched(m)
            \/ (fetched[i].opp = o /\ fetched[i].version = govwin[o])
    <3>1. \A i \in DOMAIN fetched : i \in 1..Len(work[m].bundles) \/ i = Len(work[m].bundles) + 1
      BY <2>1, <2>5
    <3>2. \A i \in 1..Len(work[m].bundles) : fetched[i] \in Fetched(m)
      BY <2>1, <2>4 DEF Fetched
    <3>3. fetched[Len(work[m].bundles) + 1].opp = o
          /\ fetched[Len(work[m].bundles) + 1].version = govwin[o]
      BY <2>4
    <3> HIDE DEF fetched
    <3> QED BY <3>1, <3>2, <3>3
  <2>7. work'[m].bundles = fetched \/ work'[m].bundles = work[m].bundles
    <3>1. \/ work' = [work EXCEPT ![m].done = work[m].done + 1, ![m].bundles = fetched]
          \/ work' = [work EXCEPT ![m].done = work[m].done + 1]
      BY <1>2 DEF Fetch
    <3> HIDE DEF fetched
    <3>2. CASE work' = [work EXCEPT ![m].done = work[m].done + 1, ![m].bundles = fetched]
      BY <1>0, <3>2 DEF Work
    <3>3. CASE work' = [work EXCEPT ![m].done = work[m].done + 1]
      BY <1>0, <3>3 DEF Work
    <3> QED BY <3>1, <3>2, <3>3
  <2>8. \A b \in Fetched(m)' : b \in Fetched(m) \/ (b.opp \in Opps /\ b.version = govwin[b.opp])
    <3> HIDE DEF fetched, o
    <3>1. CASE work'[m].bundles = fetched
      BY <2>2, <2>6, <3>1 DEF Fetched
    <3>2. CASE work'[m].bundles = work[m].bundles
      BY <3>2 DEF Fetched
    <3> QED BY <2>7, <3>1, <3>2
  <2>9. pc[m] = "fetch" /\ deal' = deal /\ govwin' = govwin
    BY <1>2 DEF Fetch, hubspot
  <2> QED BY <2>8, <2>9
<1>3. CASE FetchedAll(m) \/ \E kind \in Kinds : UpsertRelated(kind, m)
  <2>1. pc[m] \in {"fetch", "companies", "contacts"} /\ deal' = deal /\ govwin' = govwin
    BY <1>3 DEF FetchedAll, UpsertRelated, Kinds, hubspot
  <2>2. work'[m].bundles = work[m].bundles
    <3>1. CASE FetchedAll(m)
      BY <1>0, <3>1 DEF FetchedAll, Ack, Goto
    <3>2. CASE \E kind \in Kinds : UpsertRelated(kind, m)
      BY <1>0, <3>2 DEF UpsertRelated, Work
    <3> QED BY <1>3, <3>1, <3>2
  <2>3. Fetched(m)' = Fetched(m)
    BY <2>2 DEF Fetched
  <2> QED BY <2>1, <2>3
<1>4. ~(UpsertDeals(m) \/ Link(m) \/ UpsertUnanswered(m) \/ Crash(m))
  BY <1>0 DEF UpsertDeals, Link, UpsertUnanswered, Crash, Retry, Goto
<1>5. ~(Finish(m) \/ DeadLetter(m) \/ Watermark(m))
  BY <1>0 DEF Finish, DeadLetter, Watermark, Ack, Retry, Goto, sqs
<1> QED BY <1>1, <1>2, <1>3, <1>4, <1>5 DEF Step

-----------------------------------------------------------------------------
(* What needs no condition at all.                                         *)

Base == TypeOK /\ EachOnce /\ AnswerCounted /\ MappedOrError

\* An answer that is too short stays an error.
LEMMA AnswerCountedNext ==
    ASSUME TypeOK, AnswerCounted, [Next]_vars
    PROVE  AnswerCounted'
<1> SUFFICES ASSUME NEW n \in Messages, pc'[n] \in {"link", "watermark"}
             PROVE  work'[n].errors \/ Len(work'[n].results) >= Len(work'[n].bundles)
  BY DEF AnswerCounted
<1>1. CASE List \/ Filter \/ Send \/ (\E o \in Opps : Change(o)) \/ UNCHANGED vars
  BY <1>1, WorkersStay DEF AnswerCounted
<1>2. ASSUME NEW m \in Messages, Step(m) \/ UpsertUnanswered(m) \/ Crash(m)
      PROVE  work'[n].errors \/ Len(work'[n].results) >= Len(work'[n].bundles)
  <2>1. CASE n # m
    BY <1>2, <2>1, OthersStay DEF AnswerCounted
  <2>2. CASE n = m /\ UpsertDeals(m)
    BY <2>2, TheAnswer
  <2>3. CASE n = m /\ ~UpsertDeals(m)
    BY <1>2, <2>3, AfterTheAnswer DEF AnswerCounted
  <2> QED BY <2>1, <2>2, <2>3
<1> QED BY <1>1, <1>2 DEF Next

\* The objects of what is fetched have their mappings, or there is an error.
LEMMA MappedOrErrorNext ==
    ASSUME TypeOK, MappedOrError, [Next]_vars
    PROVE  MappedOrError'
<1> DEFINE Mapped(n) == "unmapped" \in Faults \/ work'[n].errors \/
      /\ pc'[n] \in {"contacts", "deals", "link", "watermark"} =>
            RelatedTo("companies", n)' \subseteq mapped'
      /\ pc'[n] \in {"deals", "link", "watermark"} =>
            RelatedTo("contacts", n)' \subseteq mapped'
<1> SUFFICES ASSUME NEW n \in Messages PROVE Mapped(n)
  BY DEF MappedOrError
<1> SUFFICES ASSUME "unmapped" \notin Faults PROVE Mapped(n)
  OBVIOUS
<1>0. "companies" \in Kinds /\ "contacts" \in Kinds
  BY DEF Kinds
<1>1. ASSUME pc'[n] = pc[n], work'[n].errors = work[n].errors, mapped \subseteq mapped',
             \A kind \in Kinds : RelatedTo(kind, n)' = RelatedTo(kind, n)
      PROVE  Mapped(n)
  BY <1>0, <1>1 DEF MappedOrError
<1>2. CASE List \/ Filter \/ Send \/ (\E o \in Opps : Change(o)) \/ UNCHANGED vars
  BY <1>1, <1>2, WorkersStay DEF state
<1>3. ASSUME NEW m \in Messages, Step(m) \/ UpsertUnanswered(m) \/ Crash(m)
      PROVE  Mapped(n)
  <2>0. /\ pc \in [Messages -> Running \cup {"free", "queued"}]
        /\ work \in [Messages -> Work] /\ work[m] \in Work
    BY DEF TypeOK
  <2>1. CASE n # m
    <3>1. mapped \subseteq mapped'
      BY <1>3 DEF Step, Receive, Fetch, FetchedAll, UpsertRelated, UpsertDeals, UpsertUnanswered,
         Link, Watermark, Finish, Crash, DeadLetter, state
    <3> QED BY <1>1, <1>3, <2>1, <3>1, OthersStay
  <2>2. CASE n = m /\ UpsertDeals(m)
    BY <1>0, <2>2, TheAnswer DEF MappedOrError, UpsertDeals
  <2>3. CASE n = m /\ pc'[m] \in {"link", "watermark"} /\ ~UpsertDeals(m)
    <3>1. /\ pc[m] \in {"link", "watermark"} /\ work'[m].errors = work[m].errors
          /\ mapped' = mapped /\ \A kind \in Kinds : RelatedTo(kind, m)' = RelatedTo(kind, m)
      BY <1>3, <2>3, AfterTheAnswer
    <3> QED BY <1>0, <2>3, <3>1 DEF MappedOrError
  <2>4. CASE n = m /\ pc'[m] \in {"contacts", "deals"}
    <3>1. PICK kind \in Kinds : UpsertRelated(kind, m)
      BY <1>3, <2>0, <2>4 DEF Step, Receive, Fetch, FetchedAll, UpsertDeals, UpsertUnanswered,
         Link, Watermark, Finish, Crash, DeadLetter, Ack, Retry, Goto, sqs
    <3>2. \/ mapped' = mapped \cup RelatedTo(kind, m) /\ work' = work
          \/ work' = [work EXCEPT ![m].errors = TRUE]
      BY <3>1 DEF UpsertRelated, Fault
    <3>3. CASE mapped' = mapped \cup RelatedTo(kind, m) /\ work' = work
      <4>1. \A k \in Kinds : RelatedTo(k, m)' = RelatedTo(k, m)
        BY <3>3 DEF RelatedTo, Fetched
      <4>2. /\ pc[m] = kind
            /\ pc'[m] = IF kind = "companies" THEN "contacts" ELSE "deals"
        BY <2>0, <3>1 DEF UpsertRelated, Goto
      <4> QED BY <1>0, <2>4, <3>3, <4>1, <4>2 DEF MappedOrError, Kinds
    <3>4. CASE work' = [work EXCEPT ![m].errors = TRUE]
      <4>1. work'[m].errors
        BY <2>0, <3>4 DEF Work
      <4> QED BY <2>4, <4>1
    <3> QED BY <3>2, <3>3, <3>4
  <2>5. CASE n = m /\ pc'[m] \notin {"contacts", "deals", "link", "watermark"}
    BY <2>5
  <2> QED BY <2>1, <2>2, <2>3, <2>4, <2>5
<1> QED BY <1>2, <1>3 DEF Next

\* These parts of the invariant hold at every step of every behaviour.
LEMMA BaseAlways == Spec => []Base
<1>1. ASSUME Init PROVE Base
  <2>1. \A m \in Messages : pc[m] = "free" /\ work[m] = NoWork /\ body[m] = << >>
    BY <1>1 DEF Init
  <2>2. EachOnce
    BY <1>1, <2>1 DEF Init, EachOnce, Distinct, NoWork
  <2> QED BY <1>1, <2>1, <2>2, TypeInit DEF Base, AnswerCounted, MappedOrError
<1>2. Base /\ [Next]_vars => Base'
  BY TypeNext, EachOnceNext, AnswerCountedNext, MappedOrErrorNext DEF Base
<1> QED BY <1>1, <1>2, PTL DEF Spec

-----------------------------------------------------------------------------
(* The deal of an opportunity that no two invocations hold.                *)

\* Its deal moves forward, and not beyond GovWin.
LEMMA DealBetween ==
    ASSUME Base, NEW o \in Opps, DealInv(o), [Next]_vars
    PROVE  /\ deal[o] \in Nat /\ deal'[o] \in Nat /\ govwin[o] \in Nat /\ govwin'[o] \in Nat
           /\ watermark[o] \in Nat /\ watermark'[o] \in Nat
           /\ deal[o] <= deal'[o] /\ deal'[o] <= govwin'[o] /\ govwin[o] <= govwin'[o]
<1>0. TypeOK /\ TypeOK' /\ EachOnce
  BY TypeNext DEF Base
<1>1. /\ deal[o] \in Nat /\ deal'[o] \in Nat /\ govwin[o] \in Nat /\ govwin'[o] \in Nat
      /\ watermark[o] \in Nat /\ watermark'[o] \in Nat
  BY <1>0, SyncAssumption DEF TypeOK, Version, SyncAssumption
<1>2. govwin[o] <= govwin'[o]
  BY <1>0, GovWinGrows
<1>3. deal[o] <= deal'[o] /\ deal'[o] <= govwin[o]
  <2>1. CASE deal'[o] = deal[o]
    BY <1>1, <2>1 DEF DealInv
  <2>2. CASE deal'[o] # deal[o]
    <3>1. ~(List \/ Filter \/ Send \/ (\E p \in Opps : Change(p)) \/ UNCHANGED vars)
      BY <1>0, <2>2, WorkersStay DEF hubspot
    <3>2. PICK m \in Messages : Step(m) \/ UpsertUnanswered(m) \/ Crash(m)
      BY <3>1 DEF Next
    <3>3. PICK b \in Fetched(m) : pc[m] = "deals" /\ b.opp = o /\ deal'[o] = b.version
      BY <1>0, <2>2, <3>2, DealsWritten
    <3> QED BY <3>3 DEF DealInv, FetchedIsRecent
  <2> QED BY <2>1, <2>2
<1> QED BY <1>1, <1>2, <1>3

\* What is fetched of it and not written stays at least as recent as the deal.
LEMMA FetchedIsRecentNext ==
    ASSUME Base, NEW o \in Opps, Apart(o), DealInv(o), [Next]_vars
    PROVE  FetchedIsRecent(o)'
<1>0. TypeOK /\ EachOnce /\ FetchedIsRecent(o)
  BY DEF Base, DealInv
<1>1. /\ deal[o] \in Nat /\ govwin[o] \in Nat /\ govwin'[o] \in Nat
      /\ govwin[o] <= govwin'[o] /\ deal[o] <= govwin[o]
  BY DealBetween DEF DealInv
<1>2. \A n \in Messages : \A b \in Fetched(n) : b.opp \in Opps /\ b.version \in Nat
  BY <1>0, LocalTypes, SyncAssumption DEF Bundle, Version, SyncAssumption
<1> SUFFICES ASSUME NEW n \in Messages, pc'[n] \in {"fetch", "companies", "contacts", "deals"},
                    NEW b \in Fetched(n)', b.opp = o
             PROVE  deal'[o] <= b.version /\ b.version <= govwin'[o]
  BY DEF FetchedIsRecent
<1>3. ASSUME pc[n] = pc'[n], b \in Fetched(n), deal'[o] = deal[o]
      PROVE  deal'[o] <= b.version /\ b.version <= govwin'[o]
  <2>1. deal[o] <= b.version /\ b.version <= govwin[o]
    BY <1>0, <1>3 DEF FetchedIsRecent
  <2> QED BY <1>1, <1>2, <1>3, <2>1
<1>4. CASE List \/ Filter \/ Send \/ (\E p \in Opps : Change(p)) \/ UNCHANGED vars
  <2>1. pc[n] = pc'[n] /\ b \in Fetched(n) /\ deal' = deal
    BY <1>0, <1>4, WorkersStay DEF hubspot
  <2> QED BY <1>3, <2>1
<1>5. ASSUME NEW m \in Messages, Step(m) \/ UpsertUnanswered(m) \/ Crash(m)
      PROVE  deal'[o] <= b.version /\ b.version <= govwin'[o]
  <2>1. CASE n # m
    <3>1. pc'[n] = pc[n] /\ b \in Fetched(n)
      BY <1>0, <1>5, <2>1, OthersStay
    <3>2. Holds(n, o)
      BY <3>1 DEF Holds, Running
    <3> QED BY <1>0, <1>3, <1>5, <2>1, <3>1, <3>2, HeldStays
  <2>2. CASE n = m
    <3>1. /\ deal' = deal /\ govwin' = govwin
          /\ \/ Fetched(m)' = {}
             \/ pc[m] \in {"fetch", "companies", "contacts", "deals"}
                /\ \A c \in Fetched(m)' : c \in Fetched(m)
                      \/ (c.opp \in Opps /\ c.version = govwin[c.opp])
      BY <1>0, <1>5, <2>2, BeforeTheUpsert
    <3>2. CASE pc[m] \in {"fetch", "companies", "contacts", "deals"} /\ b \in Fetched(m)
      BY <1>0, <2>2, <3>1, <3>2 DEF FetchedIsRecent
    <3>3. CASE b.version = govwin[o]
      BY <1>1, <3>1, <3>3
    <3> QED BY <2>2, <3>1, <3>2, <3>3
  <2> QED BY <2>1, <2>2
<1> QED BY <1>4, <1>5 DEF Next

\* The watermarks that are written stay, while an invocation writes others.
LEMMA WatermarkStep ==
    ASSUME TypeOK, EachOnce, NEW o \in Opps, WatermarksSoFar(o), NEW m \in Messages, Watermark(m),
           NEW i \in 1..work'[m].done, i \in DOMAIN work'[m].bundles,
           work'[m].bundles[i].opp = o
    PROVE  watermark'[o] >= work'[m].bundles[i].version
<1>0. /\ work \in [Messages -> Work] /\ work[m] \in Work /\ work[m].done \in Nat
      /\ watermark \in [Opps -> Version]
      /\ \A j \in DOMAIN work[m].bundles : /\ work[m].bundles[j].opp \in Opps
                                           /\ work[m].bundles[j].version \in Version
  BY LocalTypes DEF TypeOK
<1>1. Version \subseteq Nat
  BY SyncAssumption DEF Version, SyncAssumption
<1>2. work'[m].done = work[m].done + 1 /\ work'[m].bundles = work[m].bundles
  <2>1. work' = [work EXCEPT ![m].done = work[m].done + 1]
    BY DEF Watermark
  <2> QED BY <1>0, <2>1 DEF Work
<1> DEFINE k == work[m].done + 1
<1>3. /\ k \in DOMAIN work[m].bundles
      /\ watermark' = [watermark EXCEPT ![work[m].bundles[k].opp] = work[m].bundles[k].version]
  BY WatermarkedPair
<1>4. CASE i = k
  <2>1. watermark'[work[m].bundles[k].opp] = work[m].bundles[k].version
        /\ work[m].bundles[k].version \in Nat
    BY <1>0, <1>1, <1>3
  <2> HIDE DEF k
  <2> QED BY <1>2, <1>4, <2>1
<1>5. CASE i # k
  <2>1. i \in 1..work[m].done
    BY <1>0, <1>2, <1>5
  <2>2. watermark[o] >= work[m].bundles[i].version
    BY <1>2, <2>1 DEF WatermarksSoFar, Watermark
  <2>3. work[m].bundles[i].opp # work[m].bundles[k].opp
    BY <1>2, <1>3, <1>5 DEF EachOnce
  <2> QED BY <1>0, <1>2, <1>3, <2>2, <2>3
<1> QED BY <1>4, <1>5

\* The watermark of a pair that is done stays written.
LEMMA WatermarksSoFarNext ==
    ASSUME Base, NEW o \in Opps, Apart(o), WatermarksSoFar(o), [Next]_vars
    PROVE  WatermarksSoFar(o)'
<1>0. TypeOK /\ EachOnce
  BY DEF Base
<1> DEFINE SoFar(n) ==
      /\ pc'[n] = "link" => work'[n].done = 0
      /\ pc'[n] = "watermark" =>
            \A i \in 1..work'[n].done :
               i \in DOMAIN work'[n].bundles /\ work'[n].bundles[i].opp = o =>
                  watermark'[o] >= work'[n].bundles[i].version
<1> SUFFICES ASSUME NEW n \in Messages PROVE SoFar(n)
  BY DEF WatermarksSoFar
<1>1. CASE List \/ Filter \/ Send \/ (\E p \in Opps : Change(p)) \/ UNCHANGED vars
  <2>1. work' = work /\ watermark' = watermark /\ (pc'[n] = pc[n] \/ pc'[n] = "queued")
    BY <1>0, <1>1, WorkersStay DEF state
  <2> QED BY <2>1 DEF WatermarksSoFar
<1>2. ASSUME NEW m \in Messages, Step(m) \/ UpsertUnanswered(m) \/ Crash(m)
      PROVE  SoFar(n)
  <2>1. CASE n # m
    <3>1. pc'[n] = pc[n] /\ work'[n] = work[n]
      BY <1>0, <1>2, <2>1, OthersStay
    <3>2. ASSUME pc[n] = "watermark", NEW i \in DOMAIN work[n].bundles, work[n].bundles[i].opp = o
          PROVE  watermark'[o] = watermark[o]
      <4>1. Holds(n, o)
        BY <3>2 DEF Holds, Running, Fetched
      <4> QED BY <1>0, <1>2, <2>1, <4>1, HeldStays
    <3> QED BY <3>1, <3>2 DEF WatermarksSoFar
  <2>2. CASE n = m /\ UpsertDeals(m)
    BY <1>0, <2>2, TheAnswer
  <2>3. CASE n = m /\ pc'[m] \notin {"link", "watermark"}
    BY <2>3
  <2>4. CASE n = m /\ pc'[m] \in {"link", "watermark"} /\ ~UpsertDeals(m)
    <3>1. Link(m) \/ Watermark(m)
      BY <1>0, <1>2, <2>4, AfterTheAnswer
    <3>2. CASE Link(m)
      <4>1. work[m].done = 0
        BY <3>2 DEF Link, WatermarksSoFar
      <4>2. work'[m].done = 0 /\ pc'[m] = "watermark"
        BY <1>0, <3>2, <4>1 DEF Link, Goto, TypeOK
      <4> QED BY <2>4, <4>2
    <3>3. CASE Watermark(m)
      <4>1. pc'[m] = "watermark"
        BY <3>3 DEF Watermark, sqs
      <4> QED BY <1>0, <2>4, <3>3, <4>1, WatermarkStep
    <3> QED BY <3>1, <3>2, <3>3
  <2> QED BY <2>1, <2>2, <2>3, <2>4
<1> QED BY <1>1, <1>2 DEF Next

\* A step keeps what is said of the deal.
LEMMA DealNext ==
    ASSUME Base, NEW o \in Opps, Apart(o), DealInv(o), [Next]_vars
    PROVE  DealInv(o)'
BY DealBetween, FetchedIsRecentNext, WatermarksSoFarNext DEF DealInv

\* It holds at the start.
LEMMA DealInit ==
    ASSUME Init, NEW o \in Opps
    PROVE  DealInv(o) /\ MarkInv(o)
<1>1. \A m \in Messages : pc[m] = "free"
  BY DEF Init
<1> QED BY <1>1 DEF Init, Unknown, DealInv, FetchedIsRecent, WatermarksSoFar, MarkInv,
   AnswerIsWritten

\* What is said of the deal holds at every step, whatever happens to the other
\* opportunities.
LEMMA DealAlways ==
    ASSUME NEW o \in Opps
    PROVE  Spec /\ []Apart(o) => []DealInv(o)
<1>1. Init => DealInv(o)
  BY DealInit
<1>2. Base /\ Apart(o) /\ DealInv(o) /\ [Next]_vars => DealInv(o)'
  BY DealNext
<1> QED BY <1>1, <1>2, BaseAlways, PTL DEF Spec

\* The same of all opportunities.
AllDeals == \A o \in Opps : DealInv(o)

LEMMA DealsAlways == Spec /\ []AllApart => []AllDeals
<1>1. Init => AllDeals
  BY DealInit DEF AllDeals
<1>2. Base /\ AllApart /\ AllDeals /\ [Next]_vars => AllDeals'
  BY DealNext DEF AllDeals, AllApart
<1> QED BY <1>1, <1>2, BaseAlways, PTL DEF Spec

\* No step writes an older version over a newer one (DealNeverGoesBack), however
\* many workers run and whatever HubSpot answers, if no two of them hold the
\* same opportunity.
THEOREM DealsGrow == Spec /\ []AllApart => DealNeverGoesBack
<1>1. ASSUME Base, AllDeals, [Next]_vars PROVE [\A o \in Opps : deal'[o] >= deal[o]]_vars
  <2>1. ASSUME NEW o \in Opps PROVE deal'[o] >= deal[o]
    BY <1>1, DealBetween DEF AllDeals
  <2> QED BY <2>1
<1> QED BY <1>1, BaseAlways, DealsAlways, PTL DEF Spec, DealNeverGoesBack

-----------------------------------------------------------------------------
(* Its watermark, when HubSpot answers for it.                             *)

\* After the upsert the deal is as fetched, for a pair of it.
LEMMA AnswerIsWrittenNext ==
    ASSUME Base, NEW o \in Opps, Apart(o), AnswerIsWritten(o), Answered(o)', [Next]_vars
    PROVE  AnswerIsWritten(o)'
<1>0. TypeOK /\ EachOnce /\ TypeOK'
  BY TypeNext DEF Base
<1> SUFFICES ASSUME NEW n \in Messages, pc'[n] \in {"link", "watermark"},
                    NEW i \in DOMAIN Pairs(n)', Pairs(n)'[i].bundle.opp = o
             PROVE  deal'[o] = Pairs(n)'[i].bundle.version
  BY DEF AnswerIsWritten
<1>1. ASSUME pc'[n] \in {"link", "watermark"} => pc[n] \in {"link", "watermark"},
             work'[n].bundles = work[n].bundles, work'[n].results = work[n].results,
             deal'[o] = deal[o]
      PROVE  deal'[o] = Pairs(n)'[i].bundle.version
  <2>1. Pairs(n)' = Pairs(n)
    BY <1>1 DEF Pairs
  <2> QED BY <1>1, <2>1 DEF AnswerIsWritten
<1>2. CASE List \/ Filter \/ Send \/ (\E p \in Opps : Change(p)) \/ UNCHANGED vars
  BY <1>0, <1>1, <1>2, WorkersStay DEF hubspot
<1>3. ASSUME NEW m \in Messages, Step(m) \/ UpsertUnanswered(m) \/ Crash(m)
      PROVE  deal'[o] = Pairs(n)'[i].bundle.version
  <2>1. CASE n # m
    <3>1. pc'[n] = pc[n] /\ work'[n] = work[n]
      BY <1>0, <1>3, <2>1, OthersStay
    <3>2. Pairs(n)' = Pairs(n)
      BY <3>1 DEF Pairs
    <3>3. Pairs(n)[i].bundle \in Fetched(n)
      BY <1>0, <3>2, PairsFacts DEF Fetched
    <3>4. Holds(n, o)
      BY <3>1, <3>2, <3>3 DEF Holds, Running
    <3>5. deal'[o] = deal[o]
      BY <1>0, <1>3, <2>1, <3>4, HeldStays
    <3> QED BY <1>1, <3>1, <3>5
  <2>2. CASE n = m /\ UpsertDeals(m)
    <3>1. PICK answer \in Seq(Opps) :
            /\ work'[m].results = answer /\ deal' = Written(m, answer)
            /\ \A j \in DOMAIN answer : \E b \in Fetched(m) : b.opp = answer[j]
      BY <1>0, <2>2, TheAnswer
    <3>2. Pairs(m)' = Zip(work'[m]) /\ work'[m] \in Work
      BY <1>0 DEF Pairs, Zip, TypeOK
    <3>3. i \in DOMAIN work'[m].bundles /\ Pairs(m)'[i].bundle = work'[m].bundles[i]
      BY <2>2, <3>2, ZipFacts
    <3>4. work'[m].bundles[i] \in Fetched(m)
      BY <1>0, <2>2, <3>3, TheAnswer DEF Fetched
    <3>5. \E j \in DOMAIN answer : answer[j] = o
      BY <2>2, <3>1 DEF Answered
    <3>6. Written(m, answer)[o] = work'[m].bundles[i].version
      BY <1>0, <2>2, <3>1, <3>3, <3>4, <3>5, WrittenVersion
    <3> QED BY <2>2, <3>1, <3>3, <3>6
  <2>3. CASE n = m /\ ~UpsertDeals(m)
    BY <1>0, <1>1, <1>3, <2>3, AfterTheAnswer
  <2> QED BY <2>1, <2>2, <2>3
<1> QED BY <1>2, <1>3 DEF Next

\* What is put as a watermark is the version of the deal.
LEMMA MarkIsTheDeal ==
    ASSUME TypeOK, NEW o \in Opps, AnswerIsWritten(o), NEW m \in Messages,
           Step(m) \/ UpsertUnanswered(m) \/ Crash(m), watermark'[o] # watermark[o]
    PROVE  watermark'[o] = deal[o]
<1>1. Watermark(m) /\ work[m].bundles[work[m].done + 1].opp = o
  BY MarksWritten
<1>2. PICK b \in Bundle : /\ b.opp = o /\ watermark' = [watermark EXCEPT ![b.opp] = b.version]
                          /\ work[m].done + 1 \in DOMAIN Pairs(m)
                          /\ Pairs(m)[work[m].done + 1].bundle = b
  BY <1>1, WatermarkedPair
<1>3. deal[o] = b.version
  BY <1>1, <1>2 DEF AnswerIsWritten, Watermark
<1> QED BY <1>2, <1>3 DEF TypeOK

\* A step keeps what is said of the watermark.
LEMMA MarkNext ==
    ASSUME Base, NEW o \in Opps, Apart(o), DealInv(o), MarkInv(o), Answered(o)', [Next]_vars
    PROVE  MarkInv(o)'
<1>0. TypeOK /\ AnswerIsWritten(o) /\ watermark[o] <= deal[o]
  BY DEF Base, MarkInv
<1>1. /\ deal[o] \in Nat /\ deal'[o] \in Nat /\ deal[o] <= deal'[o]
      /\ watermark[o] \in Nat /\ watermark'[o] \in Nat
  BY DealBetween
<1>2. watermark'[o] = watermark[o] \/ watermark'[o] = deal[o]
  <2>1. CASE List \/ Filter \/ Send \/ (\E p \in Opps : Change(p)) \/ UNCHANGED vars
    BY <1>0, <2>1, WorkersStay DEF state
  <2>2. CASE \E m \in Messages : Step(m) \/ UpsertUnanswered(m) \/ Crash(m)
    BY <1>0, <2>2, MarkIsTheDeal
  <2> QED BY <2>1, <2>2 DEF Next
<1>3. watermark'[o] <= deal'[o]
  BY <1>0, <1>1, <1>2
<1> QED BY <1>0, <1>3, AnswerIsWrittenNext DEF MarkInv

\* An opportunity that no two invocations hold, and that HubSpot answers for, has
\* a deal as recent as its watermark, however many workers run and whatever
\* happens to the other opportunities: what the filter of the orchestrator
\* leaves out is in HubSpot.
THEOREM WatermarkIsTrue ==
    ASSUME NEW o \in Opps
    PROVE  Spec /\ []Apart(o) /\ []Answered(o) => [](watermark[o] <= deal[o])
<1>1. Init => MarkInv(o)
  BY DealInit
<1>2. Base /\ Apart(o) /\ DealInv(o) /\ MarkInv(o) /\ Answered(o)' /\ [Next]_vars => MarkInv(o)'
  BY MarkNext
<1>3. MarkInv(o) => watermark[o] <= deal[o]
  BY DEF MarkInv
<1> QED BY <1>1, <1>2, <1>3, BaseAlways, DealAlways, PTL DEF Spec

\* The same of all opportunities.
AllMarks == \A o \in Opps : MarkInv(o)

LEMMA MarksAlways == Spec /\ []AllApart /\ []AllAnswered => []AllMarks
<1>1. Init => AllMarks
  BY DealInit DEF AllMarks
<1>2. Base /\ AllApart /\ AllDeals /\ AllMarks /\ AllAnswered' /\ [Next]_vars => AllMarks'
  BY MarkNext DEF AllDeals, AllMarks, AllApart, AllAnswered
<1> QED BY <1>1, <1>2, BaseAlways, DealsAlways, PTL DEF Spec

\* What the locals of the workers say of HubSpot and DynamoDB (SyncInv), at
\* every step, if no two invocations hold the same opportunity and answers
\* leave out the last deals only.
THEOREM SyncInvariant == Spec /\ []AllApart /\ []AllAnswered => []SyncInv
<1>1. Base /\ AllDeals /\ AllMarks => SyncInv
  BY DEF Base, AllDeals, AllMarks, SyncInv
<1> QED BY <1>1, BaseAlways, DealsAlways, MarksAlways, PTL

\* No watermark is newer than its deal (WatermarkMeansSynced), under the same
\* conditions.
THEOREM WatermarksAreTrue == Spec /\ []AllApart /\ []AllAnswered => []WatermarkMeansSynced
<1>1. AllMarks => WatermarkMeansSynced
  BY DEF AllMarks, MarkInv, WatermarkMeansSynced
<1> QED BY <1>1, MarksAlways, PTL

\* A message is acknowledged after its last watermark by Finish only, without
\* errors, with every watermark and mapping written.
LEMMA AckIsWhole ==
    ASSUME "unmapped" \notin Faults, Base, AllDeals, NEW m \in Messages, Finish(m),
           pc'[m] = "free", NEW b \in Fetched(m)
    PROVE  watermark[b.opp] >= b.version /\ Objs(b.opp) \subseteq mapped
<1>0. TypeOK /\ AnswerCounted /\ MappedOrError /\ pc[m] = "watermark"
  BY DEF Base, Finish
<1>1. ~work[m].errors
  BY <1>0 DEF Finish, Retry, Goto, TypeOK
<1>2. /\ work[m].bundles \in Seq(Bundle) /\ DOMAIN work[m].bundles = 1..Len(work[m].bundles)
      /\ Len(work[m].bundles) \in Nat /\ Len(work[m].results) \in Nat
  BY <1>0, LocalTypes, LenProperties
<1>3. work[m].done = Len(work[m].bundles)
  <2>1. Len(work[m].results) >= Len(work[m].bundles)
    BY <1>0, <1>1 DEF AnswerCounted
  <2> QED BY <1>0, <1>2, <2>1, PairsFacts DEF Finish
<1>4. PICK i \in DOMAIN work[m].bundles : b = work[m].bundles[i]
  BY DEF Fetched
<1>5. watermark[b.opp] >= b.version
  <2>1. b.opp \in Opps /\ i \in 1..work[m].done
    BY <1>0, <1>2, <1>3, <1>4, LocalTypes
  <2>2. WatermarksSoFar(b.opp)
    BY <2>1 DEF AllDeals, DealInv
  <2> QED BY <1>0, <1>4, <2>1, <2>2 DEF WatermarksSoFar
<1>6. \A kind \in Kinds : RelatedTo(kind, m) \subseteq mapped
  BY <1>0, <1>1 DEF MappedOrError, Kinds
<1>7. Objs(b.opp) \subseteq mapped
  BY <1>6 DEF Objs, RelatedTo
<1> QED BY <1>5, <1>7

\* What a worker acknowledges is synced (AckMeansSynced), however many workers
\* run and whatever HubSpot answers for the deals, if no two invocations hold
\* the same opportunity and HubSpot answers for all the companies and contacts
\* of an upsert.
THEOREM AckedIsSynced ==
    "unmapped" \notin Faults => (Spec /\ []AllApart => AckMeansSynced)
<1> SUFFICES ASSUME "unmapped" \notin Faults PROVE Spec /\ []AllApart => AckMeansSynced
  OBVIOUS
<1> DEFINE Acked == \A m \in Messages : pc[m] = "watermark" /\ pc'[m] = "free" =>
          \A b \in Fetched(m) :
             watermark[b.opp] >= b.version /\ Objs(b.opp) \subseteq mapped
<1>1. ASSUME Base, AllDeals, [Next]_vars PROVE [Acked]_vars
  <2>0. TypeOK /\ pc \in [Messages -> Running \cup {"free", "queued"}]
    BY <1>1 DEF Base, TypeOK
  <2> SUFFICES ASSUME NEW m \in Messages, pc[m] = "watermark", pc'[m] = "free",
                      NEW b \in Fetched(m)
               PROVE  watermark[b.opp] >= b.version /\ Objs(b.opp) \subseteq mapped
    OBVIOUS
  <2>1. CASE List \/ Filter \/ Send \/ (\E o \in Opps : Change(o)) \/ UNCHANGED vars
    BY <2>0, <2>1, WorkersStay
  <2>2. ASSUME NEW n \in Messages, Step(n) \/ UpsertUnanswered(n) \/ Crash(n)
        PROVE  Finish(m)
    <3>1. n = m
      BY <2>0, <2>2, OthersStay
    <3> QED BY <2>0, <2>2, <3>1 DEF Step, Receive, Fetch, FetchedAll, UpsertRelated, UpsertDeals,
       UpsertUnanswered, Link, Watermark, Crash, DeadLetter, Retry, Goto, Kinds, sqs
  <2> QED BY <1>1, <2>1, <2>2, AckIsWhole DEF Next
<1> QED BY <1>1, BaseAlways, DealsAlways, PTL DEF Spec, AckMeansSynced

-----------------------------------------------------------------------------
(* The refinement of Replica.                                              *)

\* A step moves versions as one of Replica does: GovWin publishes, an upsert is
\* a refresh, a watermark vouches for what has been refreshed, and nothing else
\* is to be seen from outside.
LEMMA StepOfReplica ==
    ASSUME Base, AllDeals, AllMarks, [Next]_vars
    PROVE  [Promise!Next]_Promise!vars
<1>0. TypeOK /\ TypeOK' /\ EachOnce
  BY TypeNext DEF Base
<1>1. ASSUME NEW o \in Opps, Change(o) PROVE Promise!Publish(o)
  BY <1>1 DEF Change, Promise!Publish, hubspot, state
<1>2. CASE List \/ Filter \/ Send \/ UNCHANGED vars
  BY <1>2 DEF List, Filter, Send, vars, hubspot, state, Promise!vars
<1>3. ASSUME NEW m \in Messages, Step(m) \/ UpsertUnanswered(m) \/ Crash(m)
      PROVE  Promise!Refresh \/ (\E o \in Opps : Promise!Vouch(o)) \/ UNCHANGED Promise!vars
  <2>1. govwin' = govwin
    BY <1>3 DEF Step, Receive, Fetch, FetchedAll, UpsertRelated, UpsertDeals, UpsertUnanswered,
       Link, Watermark, Finish, Crash, DeadLetter
  <2>2. CASE Watermark(m)
    <3>1. PICK b \in Bundle : watermark' = [watermark EXCEPT ![b.opp] = b.version]
      BY <1>0, <2>2, WatermarkedPair
    <3>2. b.opp \in Opps /\ watermark'[b.opp] = b.version
      BY <1>0, <3>1 DEF Bundle, TypeOK
    <3>3. watermark[b.opp] <= deal[b.opp] /\ AnswerIsWritten(b.opp)
      BY <3>2 DEF AllMarks, MarkInv
    <3>4. watermark'[b.opp] = watermark[b.opp] \/ watermark'[b.opp] = deal[b.opp]
      BY <1>0, <1>3, <3>2, <3>3, MarkIsTheDeal
    <3>5. deal[b.opp] \in Nat /\ watermark[b.opp] \in Nat
      BY <1>0, <3>2, SyncAssumption DEF TypeOK, Version, SyncAssumption
    <3>6. b.version \in watermark[b.opp]..deal[b.opp]
      BY <3>2, <3>3, <3>4, <3>5
    <3> QED BY <2>1, <2>2, <3>1, <3>2, <3>6 DEF Promise!Vouch, Watermark, hubspot
  <2>3. CASE ~Watermark(m)
    <3>1. watermark' = watermark
      BY <1>3, <2>3 DEF Step, Receive, Fetch, FetchedAll, UpsertRelated, UpsertDeals,
         UpsertUnanswered, Link, Finish, Crash, DeadLetter, state
    <3>2. deal' \in [Opps -> 0..MaxVersion]
      BY <1>0 DEF TypeOK, Version
    <3>3. ASSUME NEW o \in Opps PROVE deal[o] <= deal'[o] /\ deal'[o] <= govwin[o]
      BY <2>1, DealBetween DEF AllDeals
    <3> QED BY <2>1, <3>1, <3>2, <3>3 DEF Promise!Refresh
  <2> QED BY <2>2, <2>3
<1> QED BY <1>1, <1>2, <1>3 DEF Next, Promise!Next

\* The sync implements the replica (ImplementsReplica), however many workers run,
\* if no two invocations hold the same opportunity and answers leave out the
\* last deals only: the queue, retries, crashes and dead letters are not to be
\* seen from outside.
THEOREM ReplicaKept == Spec /\ []AllApart /\ []AllAnswered => ImplementsReplica
<1>1. Init => Promise!Init
  BY DEF Init, Promise!Init, Unknown
<1>2. Base /\ AllDeals /\ AllMarks /\ [Next]_vars => [Promise!Next]_Promise!vars
  BY StepOfReplica
<1> QED BY <1>1, <1>2, BaseAlways, DealsAlways, MarksAlways, PTL
        DEF Spec, ImplementsReplica, Promise!Spec

-----------------------------------------------------------------------------
(* When the first condition holds.                                         *)

\* With one worker at a time, no two invocations hold the same opportunity: the
\* conditions above are met by a reserved concurrency of one.
THEOREM OneWorkerIsApart == MaxConcurrent <= 1 => (Spec => []AllApart)
<1> SUFFICES ASSUME MaxConcurrent <= 1 PROVE Spec => []AllApart
  OBVIOUS
<1> DEFINE One == \A m, n \in Messages : pc[m] \in Running /\ pc[n] \in Running => m = n
<1>1. Init => One
  BY DEF Init, Running
<1>2. ASSUME TypeOK, One, [Next]_vars PROVE One'
  <2>1. ASSUME \A n \in Messages : pc'[n] \in Running => pc[n] \in Running PROVE One'
    BY <1>2, <2>1
  <2>2. CASE List \/ Filter \/ Send \/ (\E o \in Opps : Change(o)) \/ UNCHANGED vars
    <3>1. \A n \in Messages : pc'[n] \in Running => pc[n] \in Running
      BY <1>2, <2>2, WorkersStay DEF Running
    <3> QED BY <2>1, <3>1
  <2>3. ASSUME NEW m \in Messages, Step(m) \/ UpsertUnanswered(m) \/ Crash(m) PROVE One'
    <3>1. \A n \in Messages \ {m} : pc'[n] = pc[n]
      BY <1>2, <2>3, OthersStay
    <3>2. CASE Receive(m)
      <4> DEFINE R == {x \in Messages : pc[x] \in Running}
      <4>1. IsFiniteSet(R) /\ Cardinality(R) \in Nat
        BY SyncAssumption, FS_Subset, FS_CardinalityType DEF SyncAssumption
      <4>2. Cardinality(R) < MaxConcurrent
        BY <3>2 DEF Receive
      <4>3. R = {}
        <5> HIDE DEF R
        <5>1. MaxConcurrent \in Nat
          BY SyncAssumption DEF SyncAssumption
        <5>2. Cardinality(R) = 0
          BY <4>1, <4>2, <5>1
        <5> QED BY <4>1, <5>2, FS_EmptySet
      <4> QED BY <3>1, <4>3
    <3>3. CASE ~Receive(m)
      <4>1. pc[m] \in Running \/ (pc[m] = "queued" /\ pc'[m] = "free")
        BY <1>2, <2>3, <3>3 DEF Step, Fetch, FetchedAll, UpsertRelated, UpsertDeals,
           UpsertUnanswered, Link, Watermark, Finish, Crash, DeadLetter, Goto, Running, Kinds, TypeOK
      <4>2. \A n \in Messages : pc'[n] \in Running => pc[n] \in Running
        BY <3>1, <4>1 DEF Running
      <4> QED BY <2>1, <4>2
    <3> QED BY <3>2, <3>3
  <2> QED BY <1>2, <2>2, <2>3 DEF Next
<1>3. One => AllApart
  BY DEF AllApart, Apart, Holds
<1> HIDE DEF One
<1> QED BY <1>1, <1>2, <1>3, TypeCorrect, PTL DEF Spec
=============================================================================
