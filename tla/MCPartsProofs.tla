--------------------------- MODULE MCPartsProofs ----------------------------
(***************************************************************************)
(* Proofs about MCParts.  A behaviour of PartsSpec stays with the part it  *)
(* picks and, seen by the variables of that part, is a behaviour of its    *)
(* specification; so what is proved of a part for every value of its       *)
(* constants holds of it here.  The two instances of AceUpdate take their  *)
(* theorems from the same instances of AceUpdateProofs; that the pair is   *)
(* without the Update card and that mirror has few writers are facts about *)
(* the values the instances are given.                                     *)
(***************************************************************************)
EXTENDS MCParts, PartsProofs, AceEventsProofs, OpportunityProofs

\* The theorems of AceUpdateProofs for the instance Pair.
P == INSTANCE AceUpdateProofs WITH
    Props <- {description, dealname}, Refetched <- {description, dealname},
    NextSteps <- nextSteps, Stage <- dealstage, Handlers <- {}, Sweeps <- {}, Cards <- FALSE,
    Reviews <- {}, FirstReview <- "Approved", Created <- TRUE,
    MaxEdits <- 3, MaxEvents <- 0, MaxReceive <- 2, MaxConcurrent <- 2,
    Faults <- {"crash", "transient", "reject", "duplicate", "no_write"}, MaxFaults <- 1,
    deal <- uDeal, edits <- uEdits, queue <- uQueue, receives <- uReceives, job <- uJob,
    pending <- uPending, submission <- uSubmission, aws <- uAws, fresh <- uFresh,
    review <- uReview, events <- uEvents, faults <- uFaults

\* The theorems of AceUpdateProofs for the instance Mirror.
M == INSTANCE AceUpdateProofs WITH
    Props <- {dealstage}, Refetched <- {},
    NextSteps <- nextSteps, Stage <- dealstage, Handlers <- {h1}, Sweeps <- {}, Cards <- FALSE,
    Reviews <- {<<"Pending Submission", "In review">>, <<"In review", "Approved">>,
                <<"In review", "Action Required">>, <<"Action Required", "In review">>},
    FirstReview <- "In review", Created <- TRUE,
    MaxEdits <- 2, MaxEvents <- 2, MaxReceive <- 1, MaxConcurrent <- 2,
    Faults <- {"reject", "no_read"}, MaxFaults <- 1,
    deal <- uDeal, edits <- uEdits, queue <- uQueue, receives <- uReceives, job <- uJob,
    pending <- uPending, submission <- uSubmission, aws <- uAws, fresh <- uFresh,
    review <- uReview, events <- uEvents, faults <- uFaults


-----------------------------------------------------------------------------
(* The parts that MCParts extends.                                         *)

\* A behaviour stays with its part.
LEMMA PartStays == [PartsNext]_pvars => part' = part
  BY DEF PartsNext, pvars

\* The events and the rows they touch are of their types when this part runs.
LEMMA EventPart == PartsSpec => [](part = "events" => EventTypeOK)
<1>1. PartsInit /\ part = "events" => EventInit
  BY DEF PartsInit
<1>2. [PartsNext]_pvars /\ part = "events" => [EventNext]_evars
  BY DEF PartsNext, pvars
<1>3. [PartsNext]_pvars => ((part = "events")' <=> part = "events")
  BY PartStays
<1> QED
  BY <1>1, <1>2, <1>3, EventsTyped, PTL DEF PartsSpec, EventSpec

\* The association lists, when this part runs.
LEMMA AssociationPart == PartsSpec => [](part = "associations" => AssociationTypeOK)
<1>1. PartsInit /\ part = "associations" => AssociationInit
  BY DEF PartsInit
<1>2. [PartsNext]_pvars /\ part = "associations" => [AssociationNext]_avars
  BY DEF PartsNext, pvars
<1>3. [PartsNext]_pvars => ((part = "associations")' <=> part = "associations")
  BY PartStays
<1> QED
  BY <1>1, <1>2, <1>3, ListsTyped, PTL DEF PartsSpec, AssociationSpec

\* The forms of the Update card, when this part runs.
LEMMA FormPart == PartsSpec => [](part = "forms" => FormTypeOK)
<1>1. PartsInit /\ part = "forms" => FormInit
  BY DEF PartsInit
<1>2. [PartsNext]_pvars /\ part = "forms" => [FormNext]_fvars
  BY DEF PartsNext, pvars
<1>3. [PartsNext]_pvars => ((part = "forms")' <=> part = "forms")
  BY PartStays
<1> QED
  BY <1>1, <1>2, <1>3, FormsTyped, PTL DEF PartsSpec, FormSpec

\* The signed requests, when this part runs.
LEMMA RequestPart == PartsSpec => [](part = "requests" => RequestTypeOK)
<1>1. PartsInit /\ part = "requests" => RequestInit
  BY DEF PartsInit
<1>2. [PartsNext]_pvars /\ part = "requests" => [RequestNext]_rvars
  BY DEF PartsNext, pvars
<1>3. [PartsNext]_pvars => ((part = "requests")' <=> part = "requests")
  BY PartStays
<1>4. RequestInv => RequestTypeOK
  BY DEF RequestInv
<1> QED
  BY <1>1, <1>2, <1>3, <1>4, RequestInvariant, PTL DEF PartsSpec, RequestSpec

\* The token of GovWin, when this part runs.
LEMMA TokenPart == PartsSpec => [](part = "tokens" => TokenTypeOK)
<1>1. PartsInit /\ part = "tokens" => TokenInit
  BY DEF PartsInit
<1>2. [PartsNext]_pvars /\ part = "tokens" => [TokenNext]_tvars
  BY DEF PartsNext, pvars
<1>3. [PartsNext]_pvars => ((part = "tokens")' <=> part = "tokens")
  BY PartStays
<1> QED
  BY <1>1, <1>2, <1>3, TokensTyped, PTL DEF PartsSpec, TokenSpec

\* The rate limiters, when this part runs.
LEMMA LimitPart == PartsSpec => [](part = "limits" => LimitTypeOK)
<1>1. PartsInit /\ part = "limits" => LimitInit
  BY DEF PartsInit
<1>2. [PartsNext]_pvars /\ part = "limits" => [LimitNext]_lvars
  BY DEF PartsNext, pvars
<1>3. [PartsNext]_pvars => ((part = "limits")' <=> part = "limits")
  BY PartStays
<1> QED
  BY <1>1, <1>2, <1>3, LimitsTyped, PTL DEF PartsSpec, LimitSpec

\* The caches of the containers, when this part runs.
LEMMA CachePart == PartsSpec => [](part = "caches" => CacheTypeOK)
<1>1. PartsInit /\ part = "caches" => CacheInit
  BY DEF PartsInit
<1>2. [PartsNext]_pvars /\ part = "caches" => [CacheNext]_cvars
  BY DEF PartsNext, pvars
<1>3. [PartsNext]_pvars => ((part = "caches")' <=> part = "caches")
  BY PartStays
<1>4. CacheInv => CacheTypeOK
  BY DEF CacheInv
<1> QED
  BY <1>1, <1>2, <1>3, <1>4, CacheInvariant, PTL DEF PartsSpec, CacheSpec

-----------------------------------------------------------------------------
(* The instances of AceUpdate.  An instance of AceUpdateProofs has         *)
(* definitions of its own, and those of AceUpdate in it are the same ones. *)

\* What the theorems about Pair are about is what MCParts says of it.
LEMMA PairSame ==
    /\ Pair!Init <=> P!Init
    /\ Pair!Next <=> P!Next
    /\ Pair!TypeOK <=> P!TypeOK
    /\ Pair!FirstTriesOnly <=> P!FirstTriesOnly
    /\ Pair!OtherFieldsStay <=> P!OtherFieldsStay
    /\ \A p \in {description, dealname} : Pair!DoneIsAtAws(p) <=> P!DoneIsAtAws(p)
    /\ uvars' = uvars <=> P!vars' = P!vars
<1> USE DEF Pair!Cardinality, Pair!IsFiniteSet, P!Cardinality, P!IsFiniteSet, Pair!FaultKinds,
      Pair!MaxAttempts, Pair!ReviewStatus, Pair!Blocked, Pair!Reconcilable, Pair!Edits, Pair!Jobs,
      Pair!Value, Pair!hubspot, Pair!sqs, Pair!ace, Pair!vars, Pair!NoFields, Pair!NoJob,
      Pair!Steps, Pair!Job, Pair!Init, Pair!At, Pair!Goto, Pair!End, Pair!Prop, Pair!Working,
      Pair!Fault, Pair!Finish, Pair!Emit, Pair!WriteNote, Pair!Delta, Pair!Edit, Pair!Submit,
      Pair!Review, Pair!LoseEvent, Pair!Fetch, Pair!Conflict, Pair!CallUpdate, Pair!Refetch,
      Pair!Receive, Pair!Resolve, Pair!SetValue, Pair!GetCurrent, Pair!RefetchValue, Pair!Updated,
      Pair!Park, Pair!ParkNote, Pair!Dropped, Pair!Requeue, Pair!DeadLetter, Pair!Duplicate,
      Pair!Worker, Pair!DeliverEvent, Pair!ReadPending, Pair!StartSweep, Pair!SweepGet, Pair!Leave,
      Pair!Apply, Pair!ReplayFails, Pair!ReplayRejected, Pair!ClearPending, Pair!SuccessNote,
      Pair!Compare, Pair!Mirror, Pair!Reconciler, Pair!Handler, Pair!Sweep, Pair!SubmitForm,
      Pair!FormGet, Pair!FormApplied, Pair!FormRefused, Pair!Card, Pair!Crash, Pair!Work,
      Pair!Quiet, Pair!Rest, Pair!Next, Pair!TypeOK, Pair!OtherFieldsStay, P!FaultKinds,
      P!MaxAttempts, P!ReviewStatus, P!Blocked, P!Reconcilable, P!Edits, P!Jobs, P!Value, P!hubspot,
      P!sqs, P!ace, P!vars, P!NoFields, P!NoJob, P!Steps, P!Job, P!Init, P!At, P!Goto, P!End,
      P!Prop, P!Working, P!Fault, P!Finish, P!Emit, P!WriteNote, P!Delta, P!Edit, P!Submit,
      P!Review, P!LoseEvent, P!Fetch, P!Conflict, P!CallUpdate, P!Refetch, P!Receive, P!Resolve,
      P!SetValue, P!GetCurrent, P!RefetchValue, P!Updated, P!Park, P!ParkNote, P!Dropped, P!Requeue,
      P!DeadLetter, P!Duplicate, P!Worker, P!DeliverEvent, P!ReadPending, P!StartSweep, P!SweepGet,
      P!Leave, P!Apply, P!ReplayFails, P!ReplayRejected, P!ClearPending, P!SuccessNote, P!Compare,
      P!Mirror, P!Reconciler, P!Handler, P!Sweep, P!SubmitForm, P!FormGet, P!FormApplied,
      P!FormRefused, P!Card, P!Crash, P!Work, P!Quiet, P!Rest, P!Next, P!TypeOK, P!OtherFieldsStay,
      Pair!FirstTriesOnly, Pair!Newest, Pair!DoneIsAtAws, P!FirstTriesOnly, P!Newest, P!DoneIsAtAws
<1>1. Pair!Init <=> P!Init
  OBVIOUS
<1>2. Pair!Next <=> P!Next
  OBVIOUS
<1>3. Pair!TypeOK <=> P!TypeOK
  OBVIOUS
<1>4. Pair!FirstTriesOnly <=> P!FirstTriesOnly
  OBVIOUS
<1>5. Pair!OtherFieldsStay <=> P!OtherFieldsStay
  OBVIOUS
<1>6. uvars' = uvars <=> P!vars' = P!vars
  BY DEF uvars
<1>7. \A p \in {description, dealname} : Pair!DoneIsAtAws(p) <=> P!DoneIsAtAws(p)
  OBVIOUS
<1> QED
  BY ONLY <1>1, <1>2, <1>3, <1>4, <1>5, <1>6, <1>7

\* The same for Mirror.
LEMMA MirrorSame ==
    /\ Mirror!Init <=> M!Init
    /\ Mirror!Next <=> M!Next
    /\ Mirror!TypeOK <=> M!TypeOK
    /\ Mirror!ContentionIsAbsorbed <=> M!ContentionIsAbsorbed
    /\ uvars' = uvars => M!vars' = M!vars
<1> USE DEF Mirror!Cardinality, Mirror!IsFiniteSet, M!Cardinality, M!IsFiniteSet,
      Mirror!FaultKinds, Mirror!MaxAttempts, Mirror!ReviewStatus, Mirror!Blocked,
      Mirror!Reconcilable, Mirror!Edits, Mirror!Jobs, Mirror!Value, Mirror!hubspot, Mirror!sqs,
      Mirror!ace, Mirror!vars, Mirror!NoFields, Mirror!NoJob, Mirror!Steps, Mirror!Job,
      Mirror!Init, Mirror!At, Mirror!Goto, Mirror!End, Mirror!Prop, Mirror!Working, Mirror!Fault,
      Mirror!Finish, Mirror!Emit, Mirror!WriteNote, Mirror!Delta, Mirror!Edit, Mirror!Submit,
      Mirror!Review, Mirror!LoseEvent, Mirror!Fetch, Mirror!Conflict, Mirror!CallUpdate,
      Mirror!Refetch, Mirror!Receive, Mirror!Resolve, Mirror!SetValue, Mirror!GetCurrent,
      Mirror!RefetchValue, Mirror!Updated, Mirror!Park, Mirror!ParkNote, Mirror!Dropped,
      Mirror!Requeue, Mirror!DeadLetter, Mirror!Duplicate, Mirror!Worker, Mirror!DeliverEvent,
      Mirror!ReadPending, Mirror!StartSweep, Mirror!SweepGet, Mirror!Leave, Mirror!Apply,
      Mirror!ReplayFails, Mirror!ReplayRejected, Mirror!ClearPending, Mirror!SuccessNote,
      Mirror!Compare, Mirror!Mirror, Mirror!Reconciler, Mirror!Handler, Mirror!Sweep,
      Mirror!SubmitForm, Mirror!FormGet, Mirror!FormApplied, Mirror!FormRefused, Mirror!Card,
      Mirror!Crash, Mirror!Work, Mirror!Quiet, Mirror!Rest, Mirror!Next, Mirror!TypeOK,
      Mirror!ContentionIsAbsorbed, M!FaultKinds,
      M!MaxAttempts, M!ReviewStatus, M!Blocked, M!Reconcilable, M!Edits, M!Jobs, M!Value,
      M!hubspot, M!sqs, M!ace, M!vars, M!NoFields, M!NoJob, M!Steps, M!Job, M!Init, M!At, M!Goto,
      M!End, M!Prop, M!Working, M!Fault, M!Finish, M!Emit, M!WriteNote, M!Delta, M!Edit, M!Submit,
      M!Review, M!LoseEvent, M!Fetch, M!Conflict, M!CallUpdate, M!Refetch, M!Receive, M!Resolve,
      M!SetValue, M!GetCurrent, M!RefetchValue, M!Updated, M!Park, M!ParkNote, M!Dropped,
      M!Requeue, M!DeadLetter, M!Duplicate, M!Worker, M!DeliverEvent, M!ReadPending, M!StartSweep,
      M!SweepGet, M!Leave, M!Apply, M!ReplayFails, M!ReplayRejected, M!ClearPending, M!SuccessNote,
      M!Compare, M!Mirror, M!Reconciler, M!Handler, M!Sweep, M!SubmitForm, M!FormGet,
      M!FormApplied, M!FormRefused, M!Card, M!Crash, M!Work, M!Quiet, M!Rest, M!Next, M!TypeOK,
      M!ContentionIsAbsorbed
<1>1. Mirror!Init <=> M!Init
  OBVIOUS
<1>2. Mirror!Next <=> M!Next
  OBVIOUS
<1>3. Mirror!TypeOK <=> M!TypeOK
  OBVIOUS
<1>4. Mirror!ContentionIsAbsorbed <=> M!ContentionIsAbsorbed
  OBVIOUS
<1>5. uvars' = uvars => M!vars' = M!vars
  BY DEF uvars
<1> QED
  BY ONLY <1>1, <1>2, <1>3, <1>4, <1>5

\* Each instance gives the constants of AceUpdate values they may have.
LEMMA PairAssumption == P!UpdateAssumption
  BY PartsAssumption DEF P!UpdateAssumption, P!Edits, P!ReviewStatus, P!FaultKinds


\* Two statuses make a step of the review.
LEMMA PairOf == \A A : \A a, b \in A : <<a, b>> \in A \X A
  OBVIOUS

\* The same for Mirror, whose reviewers ask for changes and take them up.
LEMMA MirrorAssumption == M!UpdateAssumption
<1> DEFINE steps == {<<"Pending Submission", "In review">>, <<"In review", "Approved">>,
                     <<"In review", "Action Required">>, <<"Action Required", "In review">>}
<1>1. /\ "Pending Submission" \in M!ReviewStatus /\ "In review" \in M!ReviewStatus
      /\ "Approved" \in M!ReviewStatus /\ "Action Required" \in M!ReviewStatus
  BY Zenon DEF M!ReviewStatus
<1>2. steps \subseteq M!ReviewStatus \X M!ReviewStatus
  BY <1>1, PairOf, Zenon
<1>3. /\ M!Edits \cap ({h1} \cup {}) = {} /\ {h1} \cap {} = {}
      /\ Empty \notin M!Edits \cup {0} /\ Note \notin M!Edits \cup {0, Empty}
  BY PartsAssumption, SMT DEF M!Edits
<1>4. \A n \in {2, 1} : n \in Nat
  BY SMT
<1>5. {"reject", "no_read"} \subseteq M!FaultKinds
  BY SMT DEF M!FaultKinds
<1>6. TRUE \in BOOLEAN /\ FALSE \in BOOLEAN
  OBVIOUS
<1> QED
  BY <1>1, <1>2, <1>3, <1>4, <1>5, <1>6, Zenon DEF M!UpdateAssumption

\* A behaviour of this part is one of the instance.
LEMMA PairRuns == PartsSpec => P!Spec \/ []~(part = "pair")
<1>1. PartsInit /\ part = "pair" => P!Init
  BY PairSame DEF PartsInit
<1>2. [PartsNext]_pvars /\ part = "pair" => [P!Next]_P!vars
  BY PairSame DEF PartsNext, pvars
<1>3. [PartsNext]_pvars => ((part = "pair")' <=> part = "pair")
  BY PartStays
<1> QED
  BY <1>1, <1>2, <1>3, PTL DEF PartsSpec, P!Spec

-----------------------------------------------------------------------------
(* The properties of MCParts.                                              *)

\* An update that goes through at its first try changes the field of the edited
\* property and no other.
THEOREM PairEditsOneField == PartsSpec => FirstTriesEditOneField
<1>1. P!Spec => [][P!FirstTriesOnly => P!OtherFieldsStay]_P!vars
  BY PairAssumption, P!OthersStayWithoutRetry
<1>2. [PartsNext]_pvars /\ [P!FirstTriesOnly => P!OtherFieldsStay]_P!vars
        => [part = "pair" /\ Pair!FirstTriesOnly => Pair!OtherFieldsStay]_<<part, uvars>>
  BY PairSame, PartStays
<1>3. ~(part = "pair")
        => [part = "pair" /\ Pair!FirstTriesOnly => Pair!OtherFieldsStay]_<<part, uvars>>
  OBVIOUS
<1> QED
  BY <1>1, <1>2, <1>3, PairRuns, PTL DEF FirstTriesEditOneField, PartsSpec

\* Until a retry goes through, edits that are done are at AWS.
PairInv ==
    part = "pair" /\ ~retried
      => \A p \in {description, dealname} : P!DoneInv(p) /\ P!FromDeal(p)

\* Two invocations of update_in_ace and any order of their steps: an edit that
\* is done is at AWS until the next edit of its property or a retry that goes
\* through, whatever dies, fails for a moment, is refused or is delivered twice.
THEOREM PairKeepsDone == PartsSpec => []DoneStaysAtAws
<1> USE PairAssumption
<1>1. \A p \in {description, dealname} : P!PlainProp(p)
  <2>1. \A p \in {description, dealname} :
          p \in {description, dealname} \ {nextSteps, dealstage}
    BY PartsAssumption
  <2>2. "no_read" \notin {"crash", "transient", "reject", "duplicate", "no_write"}
    BY SMT
  <2> QED
    BY <2>1, <2>2, Zenon DEF P!PlainProp
<1>2. PartsInit => PairInv
  <2> SUFFICES ASSUME PartsInit, part = "pair", NEW p \in {description, dealname}
               PROVE  P!DoneInv(p) /\ P!FromDeal(p)
    BY DEF PairInv
  <2>1. P!Init
    BY PairSame DEF PartsInit
  <2> QED
    BY <1>1, <2>1, P!DoneInit DEF P!FromDeal, P!Init
<1>3. PairInv /\ [PartsNext]_pvars => PairInv'
  <2> SUFFICES ASSUME PairInv, [PartsNext]_pvars, part' = "pair", ~retried',
                      NEW p \in {description, dealname}
               PROVE  P!DoneInv(p)' /\ P!FromDeal(p)'
    BY DEF PairInv
  <2>1. part = "pair"
    BY PartStays
  <2>2. ASSUME UNCHANGED pvars
        PROVE  ~retried /\ [P!Next]_P!vars /\ [P!FirstTriesOnly]_P!vars
    <3>1. UNCHANGED <<part, retried, uvars>>
      BY <2>2 DEF pvars
    <3> QED
      BY <3>1, PairSame
  <2>3. ASSUME Pair!Next, retried' = (retried \/ ~Pair!FirstTriesOnly)
        PROVE  ~retried /\ [P!Next]_P!vars /\ [P!FirstTriesOnly]_P!vars
    <3>1. ~retried /\ Pair!FirstTriesOnly
      BY <2>3, Zenon
    <3> QED
      BY <2>1, <2>3, <3>1, PairSame
  <2>4. part = "pair" /\ ~retried /\ [P!Next]_P!vars /\ [P!FirstTriesOnly]_P!vars
    BY <2>1, <2>2, <2>3 DEF PartsNext
  <2>5. P!PlainProp(p) /\ P!DoneInv(p) /\ P!FromDeal(p) /\ P!TypeInv
    BY <1>1, <2>4 DEF PairInv, P!DoneInv, P!LockInv
  <2>6. P!FromDeal(p)'
    BY <2>4, <2>5, P!DealOnly
  <2> QED
    BY <2>4, <2>5, <2>6, P!DoneNext
<1>4. PairInv => DoneStaysAtAws
  <2> SUFFICES ASSUME PairInv, part = "pair", ~retried, NEW p \in {description, dealname}
               PROVE  Pair!DoneIsAtAws(p)
    BY DEF DoneStaysAtAws
  <2>1. P!DoneInv(p)
    BY DEF PairInv
  <2>2. P!DoneIsAtAws(p)
    BY <2>1 DEF P!DoneInv, P!LastInv, P!DoneIsAtAws
  <2> QED
    BY <2>2, PairSame
<1> QED
  BY <1>2, <1>3, <1>4, PTL DEF PartsSpec

\* A behaviour of this part is one of the instance.
LEMMA MirrorRuns == PartsSpec => M!Spec \/ []~(part = "mirror")
<1>1. PartsInit /\ part = "mirror" => M!Init
  BY MirrorSame DEF PartsInit
<1>2. [PartsNext]_pvars /\ part = "mirror" => [M!Next]_M!vars
  BY MirrorSame DEF PartsNext, pvars
<1>3. [PartsNext]_pvars => ((part = "mirror")' <=> part = "mirror")
  BY PartStays
<1> QED
  BY <1>1, <1>2, <1>3, PTL DEF PartsSpec, M!Spec

\* One handler that replays and one other edit are fewer writers than
\* update_with_retry has attempts: contention alone dead-letters nothing.
THEOREM MirrorAbsorbs == PartsSpec => []MirrorAbsorbsContention
<1>1. M!IsFiniteSet({h1} \cup {}) /\ M!Cardinality({h1} \cup {}) = 1
  <2>1. {h1} \cup {} = {h1}
    OBVIOUS
  <2>2. IsFiniteSet({h1}) /\ Cardinality({h1}) = 1
    BY FS_Singleton
  <2>3. \A A : M!IsFiniteSet(A) <=> IsFiniteSet(A)
    BY DEF M!IsFiniteSet, IsFiniteSet
  <2>4. \A A : M!Cardinality(A) = Cardinality(A)
    BY DEF M!Cardinality, Cardinality
  <2> QED
    BY <2>1, <2>2, <2>3, <2>4
<1>2. M!FewWriters
  BY <1>1 DEF M!FewWriters, M!MaxAttempts
<1>3. M!Spec => []M!ContentionIsAbsorbed
  <2>1. 1 > 0
    OBVIOUS
  <2> QED
    BY <1>1, <1>2, <2>1, MirrorAssumption, M!ContentionAbsorbed
<1>4. M!ContentionIsAbsorbed => Mirror!ContentionIsAbsorbed
  BY MirrorSame
<1> QED
  BY <1>3, <1>4, MirrorRuns, PTL DEF MirrorAbsorbsContention

\* Types of all variables of the part that runs, each from the theorem about the
\* part.
THEOREM PartsTyped == PartsSpec => []PartsTypeOK
<1>1. PartsSpec => [](part = "pair" => Pair!TypeOK)
  <2>1. P!Spec => []P!TypeOK
    BY PairAssumption, P!UpdatesTyped
  <2>2. P!TypeOK => Pair!TypeOK
    BY PairSame
  <2> QED
    BY <2>1, <2>2, PairRuns, PTL
<1>2. PartsSpec => [](part = "mirror" => Mirror!TypeOK)
  <2>1. M!Spec => []M!TypeOK
    BY MirrorAssumption, M!UpdatesTyped
  <2>2. M!TypeOK => Mirror!TypeOK
    BY MirrorSame
  <2> QED
    BY <2>1, <2>2, MirrorRuns, PTL
<1> QED
  BY <1>1, <1>2, EventPart, AssociationPart, FormPart, RequestPart, TokenPart, LimitPart,
     CachePart, PTL DEF PartsTypeOK
=============================================================================
