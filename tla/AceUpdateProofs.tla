-------------------------- MODULE AceUpdateProofs ---------------------------
(***************************************************************************)
(* Theorems about AceUpdate, for any number of edits and of deliveries.    *)
(*                                                                         *)
(*   UpdatesTyped           the types of all variables                     *)
(*   FirstTriesEditTheirOwn LastModifiedDate as an optimistic lock: up to  *)
(*                          the first conflict an update changes nothing   *)
(*                          but the properties it is about, whoever runs   *)
(*   OthersStayWithoutRetry an update that goes through at its first try   *)
(*                          changes no other field                         *)
(*   DoneEditsAreAtAws      unless a retry after a conflict goes through,  *)
(*                          an edit that is done is at AWS until the next  *)
(*                          edit of its property                           *)
(*   AnEditReachesAws       a single edit is at AWS or parked, whatever    *)
(*                          handlers, sweeps and the card do               *)
(*   StageComesBack         at rest the deal has the stage of AWS, unless  *)
(*                          two handlers have overlapped                   *)
(*   GivesUpOnlyWhenOutnumbered                                            *)
(*                          an edit is lost to contention only against as  *)
(*                          many writes of others as it has attempts       *)
(*   ContentionAbsorbed     with fewer writers none is                     *)
(*                                                                         *)
(* Each actor has an "effect" lemma, which says what its steps read and    *)
(* write, and each invariant one step lemma per actor, which cites it.     *)
(***************************************************************************)
EXTENDS AceUpdate, SequenceTheorems, FiniteSetTheorems, TLAPS

EditRecord == [prop : Props, value : Value, via : {"deal", "card"}]
EditsOK == edits \in Seq(EditRecord) /\ Len(edits) <= MaxEdits
QueueOK == queue \in [Edits -> {"none", "visible", "form", "done", "skipped", "parked", "dropped",
                                "refused", "dlq"}]
HubSpotOK == deal \in [Props -> Value] /\ EditsOK
SqsOK     == QueueOK /\ receives \in [Edits -> 0..MaxReceive]
JobOK     == job \in [Jobs -> Job]
AceOK     == /\ aws \in [Props -> Value] /\ fresh \subseteq Jobs
             /\ review \in ReviewStatus /\ events \in 0..MaxEvents
RestOK    == /\ pending \subseteq Props /\ faults \in 0..MaxFaults
             /\ submission \in {"none", "loaded", "created", "recorded"}
TypeInv   == HubSpotOK /\ SqsOK /\ JobOK /\ AceOK /\ RestOK

-----------------------------------------------------------------------------
(* Types.                                                                  *)

\* What the constants are.
LEMMA Constants ==
    /\ MaxEdits \in Nat /\ MaxEvents \in Nat /\ MaxReceive \in Nat /\ MaxConcurrent \in Nat
    /\ MaxFaults \in Nat /\ Edits \subseteq Jobs /\ Handlers \subseteq Jobs /\ Sweeps \subseteq Jobs
    /\ Edits \cap Handlers = {} /\ Edits \cap Sweeps = {} /\ Handlers \cap Sweeps = {}
    /\ Refetched \subseteq Props
    /\ 0 \in Value /\ Empty \in Value /\ Note \in Value /\ Edits \subseteq Value
    /\ 0 \notin Edits /\ Empty \notin Edits \cup {0}
<1>1. 0 \notin Edits
  BY DEF Edits
<1> QED
  BY <1>1, UpdateAssumption DEF UpdateAssumption, Jobs, Value

\* An edit has a number, a property and a value.
LEMMA EditTyped ==
    ASSUME EditsOK
    PROVE  /\ DOMAIN edits = 1..Len(edits) /\ Len(edits) \in Nat /\ DOMAIN edits \subseteq Edits
           /\ \A k \in DOMAIN edits :
                /\ edits[k] \in EditRecord
                /\ Prop(k) \in Props /\ edits[k].value \in Value
                /\ edits[k].via \in {"deal", "card"}
<1>1. DOMAIN edits = 1..Len(edits) /\ Len(edits) \in Nat /\ Len(edits) <= MaxEdits
  BY DEF EditsOK
<1>2. DOMAIN edits \subseteq Edits
  BY <1>1, Constants, SMT DEF Edits
<1>3. \A k \in DOMAIN edits : edits[k] \in EditRecord
  BY <1>1 DEF EditsOK
<1> QED
  BY <1>1, <1>2, <1>3 DEF Prop, EditRecord

\* A new edit gets the next number; the others keep theirs.
LEMMA EditAdded ==
    ASSUME EditsOK, NEW p \in Props, NEW v \in Value, NEW via \in {"deal", "card"},
           Len(edits) + 1 \in Edits,
           edits' = Append(edits, [prop |-> p, value |-> v, via |-> via])
    PROVE  /\ EditsOK' /\ DOMAIN edits' = DOMAIN edits \cup {Len(edits) + 1}
           /\ Len(edits) + 1 \notin DOMAIN edits
           /\ \A k \in DOMAIN edits : edits'[k] = edits[k] /\ k < Len(edits) + 1
           /\ edits'[Len(edits) + 1].prop = p /\ edits'[Len(edits) + 1].value = v
           /\ edits'[Len(edits) + 1].via = via
<1> DEFINE e == [prop |-> p, value |-> v, via |-> via]
<1>1. e \in EditRecord /\ e.prop = p /\ e.value = v /\ e.via = via
  BY DEF EditRecord
<1> HIDE DEF e
<1>2. edits \in Seq(EditRecord) /\ Len(edits) \in Nat /\ DOMAIN edits = 1..Len(edits)
  BY EditTyped DEF EditsOK
<1>3. edits' = Append(edits, e)
  BY DEF e
<1>4. /\ edits' \in Seq(EditRecord) /\ Len(edits') = Len(edits) + 1
      /\ \A i \in 1..Len(edits) : edits'[i] = edits[i]
      /\ edits'[Len(edits) + 1] = e
  BY <1>1, <1>2, <1>3, AppendProperties
<1>5. DOMAIN edits' = 1..(Len(edits) + 1)
  BY <1>4
<1>6. Len(edits) + 1 <= MaxEdits
  BY <1>2, Constants, SMT DEF Edits
<1>7. 1..(Len(edits) + 1) = 1..Len(edits) \cup {Len(edits) + 1}
      /\ Len(edits) + 1 \notin 1..Len(edits)
  BY <1>2, SMT
<1>8. \A k \in 1..Len(edits) : k < Len(edits) + 1
  BY <1>2, SMT
<1> QED
  BY <1>1, <1>2, <1>4, <1>5, <1>6, <1>7, <1>8 DEF EditsOK

\* The empty records are of their types.
LEMMA EmptyTyped == NoJob \in Job /\ NoFields \in [Props -> Value]
<1>1. 0 \in 0..(MaxAttempts - 1)
  BY SMT DEF MaxAttempts
<1>2. NoFields \in [Props -> Value]
  BY Constants DEF NoFields
<1> QED
  BY <1>1, <1>2, Constants DEF NoJob, Job

\* An invocation goes on, or ends.
LEMMA Moves ==
    ASSUME JobOK, NEW x \in Jobs
    PROVE  /\ \A s \in Steps \cup {"idle"} : Goto(x, s) =>
                /\ JobOK' /\ \A y \in Jobs \ {x} : job'[y] = job[y]
                /\ job'[x].pc = s /\ job'[x].payload = job[x].payload
                /\ job'[x].tries = job[x].tries
                /\ job'[x].props = job[x].props /\ job'[x].stage = job[x].stage
           /\ End(x) => JobOK' /\ job'[x] = NoJob /\ \A y \in Jobs \ {x} : job'[y] = job[y]
<1>1. ASSUME NEW s \in Steps \cup {"idle"}, Goto(x, s)
      PROVE  /\ JobOK' /\ \A y \in Jobs \ {x} : job'[y] = job[y]
             /\ job'[x].pc = s /\ job'[x].payload = job[x].payload /\ job'[x].tries = job[x].tries
             /\ job'[x].props = job[x].props /\ job'[x].stage = job[x].stage
  BY <1>1 DEF Goto, JobOK, Job
<1>2. End(x) => JobOK' /\ job'[x] = NoJob /\ \A y \in Jobs \ {x} : job'[y] = job[y]
  BY EmptyTyped DEF End, JobOK
<1> QED
  BY <1>1, <1>2

\* The five parts are the type invariant.
LEMMA TypeParts == TypeInv <=> TypeOK
  BY DEF TypeInv, TypeOK, HubSpotOK, EditsOK, EditRecord, SqsOK, QueueOK, JobOK, AceOK, RestOK

\* A failure is counted, and so is an event, up to its bound.
LEMMA CountsTyped ==
    /\ RestOK => \A kind : Fault(kind) => faults' \in 0..MaxFaults
    /\ AceOK /\ Emit => events' \in 0..MaxEvents
<1>1. ASSUME RestOK, NEW kind, Fault(kind) PROVE faults' \in 0..MaxFaults
  BY <1>1, Constants, SMT DEF RestOK, Fault
<1>2. ASSUME AceOK, Emit PROVE events' \in 0..MaxEvents
  BY <1>2, Constants, SMT DEF AceOK, Emit
<1> QED
  BY <1>1, <1>2

\* A note is a value of the deal.
LEMMA NoteTyped ==
    ASSUME HubSpotOK, RestOK, WriteNote
    PROVE  deal' \in [Props -> Value] /\ faults' \in 0..MaxFaults
<1>1. CASE deal' = [p \in Props |-> IF p = NextSteps THEN Note ELSE deal[p]] /\ UNCHANGED faults
  BY <1>1, Constants DEF HubSpotOK, RestOK
<1>2. CASE Fault("no_write") /\ UNCHANGED deal
  BY <1>2, CountsTyped DEF HubSpotOK
<1> QED
  BY <1>1, <1>2 DEF WriteNote

\* A message leaves the queue.
LEMMA FinishTyped ==
    ASSUME JobOK, QueueOK, NEW k \in Edits,
           NEW how \in {"done", "skipped", "parked", "dropped", "refused"}, Finish(k, how)
    PROVE  JobOK' /\ QueueOK' /\ End(k) /\ queue' = [queue EXCEPT ![k] = how]
<1>1. k \in Jobs /\ End(k) /\ queue' = [queue EXCEPT ![k] = how]
  BY Constants DEF Finish
<1>2. JobOK'
  BY <1>1, Moves
<1> QED
  BY <1>1, <1>2 DEF QueueOK

\* What an update carries: the fields of the opportunity, one of them changed.
LEMMA DeltaTyped ==
    ASSUME NEW f \in [Props -> Value], NEW p \in Props, NEW v \in Value
    PROVE  Delta(f, p, v) \in [Props -> Value] /\ \A q \in Props \ {p} : Delta(f, p, v)[q] = f[q]
  BY DEF Delta

\* GetOpportunity gives an invocation the fields and the stage AWS has.
LEMMA FetchTyped ==
    ASSUME JobOK, AceOK, NEW x \in Jobs, NEW s \in Steps, Fetch(x, s)
    PROVE  /\ JobOK' /\ fresh' = fresh \cup {x} /\ fresh' \subseteq Jobs
           /\ \A y \in Jobs \ {x} : job'[y] = job[y]
           /\ job'[x].pc = s /\ job'[x].payload = aws /\ job'[x].tries = job[x].tries
           /\ job'[x].props = job[x].props
           /\ job'[x].stage = IF Stage \in Props THEN aws[Stage] ELSE 0
<1> DEFINE st == IF Stage \in Props THEN aws[Stage] ELSE 0
<1>1. st \in Value /\ aws \in [Props -> Value]
  BY Constants DEF AceOK
<1>2. job' = [job EXCEPT ![x].pc = s, ![x].payload = aws, ![x].stage = st]
  BY DEF Fetch
<1> HIDE DEF st
<1>3. /\ JobOK' /\ \A y \in Jobs \ {x} : job'[y] = job[y]
      /\ job'[x].pc = s /\ job'[x].payload = aws /\ job'[x].tries = job[x].tries
      /\ job'[x].props = job[x].props /\ job'[x].stage = st
  BY <1>1, <1>2 DEF JobOK, Job
<1> QED
  BY <1>3 DEF Fetch, AceOK, st

\* A value goes into the payload, or there is none and the message is skipped.
LEMMA SetTyped ==
    ASSUME JobOK, QueueOK, NEW k \in Edits, Prop(k) \in Props, NEW f \in [Props -> Value],
           NEW v \in Value, SetValue(k, f, v)
    PROVE  /\ JobOK' /\ QueueOK'
           /\ \/ v = Empty /\ End(k) /\ queue' = [queue EXCEPT ![k] = "skipped"]
              \/ /\ v # Empty /\ queue' = queue /\ \A y \in Jobs \ {k} : job'[y] = job[y]
                 /\ job'[k].pc = "send" /\ job'[k].tries = job[k].tries
                 /\ job'[k].props = job[k].props /\ job'[k].payload = [f EXCEPT ![Prop(k)] = v]
<1>1. CASE v = Empty
  BY <1>1, FinishTyped DEF SetValue
<1>2. CASE v # Empty
  <2>1. /\ job' = [job EXCEPT ![k].payload = [f EXCEPT ![Prop(k)] = v], ![k].pc = "send"]
        /\ queue' = queue
    BY <1>2 DEF SetValue, Delta
  <2>2. [f EXCEPT ![Prop(k)] = v] \in [Props -> Value] /\ k \in Jobs
    BY Constants
  <2>3. /\ JobOK' /\ \A y \in Jobs \ {k} : job'[y] = job[y]
        /\ job'[k].pc = "send" /\ job'[k].tries = job[k].tries
        /\ job'[k].props = job[k].props /\ job'[k].payload = [f EXCEPT ![Prop(k)] = v]
    BY <2>1, <2>2 DEF JobOK, Job, Steps
  <2> QED
    BY <1>2, <2>1, <2>3 DEF QueueOK
<1> QED
  BY <1>1, <1>2

-----------------------------------------------------------------------------
(* What the steps do, the ones outside of the invocations first.           *)

\* A step of BD, submit_to_ace, the reviewers, EventBridge or SQS.
LEMMA OutsideTyped ==
    ASSUME TypeInv,
           \/ \E p \in Props, cleared \in BOOLEAN : Edit(p, cleared)
           \/ \E p \in Props : SubmitForm(p)
           \/ Submit \/ (\E status \in ReviewStatus : Review(status)) \/ LoseEvent
           \/ \E k \in Edits : Duplicate(k)
    PROVE  TypeInv'
<1> USE DEF TypeInv
<1>1. ASSUME NEW p \in Props, NEW cleared \in BOOLEAN, Edit(p, cleared) PROVE TypeInv'
  <2> DEFINE k == Len(edits) + 1
             v == IF cleared THEN Empty ELSE k
  <2>1. k \in Edits /\ v \in Value
    BY <1>1, Constants DEF Edit
  <2>2. /\ edits' = Append(edits, [prop |-> p, value |-> v, via |-> "deal"])
        /\ deal' = [deal EXCEPT ![p] = v] /\ queue' = [queue EXCEPT ![k] = "visible"]
        /\ UNCHANGED <<receives, job, pending, submission, ace, faults>>
    BY <1>1 DEF Edit
  <2> HIDE DEF v
  <2>3. EditsOK'
    BY <2>1, <2>2, EditAdded DEF HubSpotOK
  <2>4. deal' \in [Props -> Value] /\ SqsOK'
    BY <2>1, <2>2 DEF HubSpotOK, SqsOK, QueueOK
  <2> QED
    BY <2>2, <2>3, <2>4 DEF HubSpotOK, JobOK, AceOK, RestOK, ace
<1>2. ASSUME NEW p \in Props, SubmitForm(p) PROVE TypeInv'
  <2> DEFINE k == Len(edits) + 1
  <2>1. k \in Edits /\ k \in Value /\ k \in Jobs
    BY <1>2, Constants DEF SubmitForm
  <2>2. /\ edits' = Append(edits, [prop |-> p, value |-> k, via |-> "card"])
        /\ queue' = [queue EXCEPT ![k] = "form"] /\ Goto(k, "form")
        /\ UNCHANGED <<deal, receives, pending, submission, ace, faults>>
    BY <1>2 DEF SubmitForm
  <2>3. EditsOK'
    BY <2>1, <2>2, EditAdded DEF HubSpotOK
  <2>4. SqsOK'
    BY <2>1, <2>2 DEF SqsOK, QueueOK
  <2>5. JobOK'
    BY <2>1, <2>2, Moves DEF Steps
  <2> QED
    BY <2>2, <2>3, <2>4, <2>5 DEF HubSpotOK, AceOK, RestOK, ace
<1>3. CASE Submit
  BY <1>3 DEF Submit, HubSpotOK, EditsOK, SqsOK, QueueOK, JobOK, AceOK, RestOK, hubspot, sqs
<1>4. ASSUME NEW status \in ReviewStatus, Review(status) PROVE TypeInv'
  <2>1. events' \in 0..MaxEvents
    BY <1>4, CountsTyped DEF Review
  <2> QED
    BY <1>4, <2>1 DEF Review, HubSpotOK, EditsOK, SqsOK, QueueOK, JobOK, AceOK, RestOK, hubspot, sqs
<1>5. CASE LoseEvent
  <2>1. events' \in 0..MaxEvents
    BY <1>5, Constants, SMT DEF LoseEvent, AceOK
  <2> QED
    BY <1>5, <2>1 DEF LoseEvent, HubSpotOK, EditsOK, SqsOK, QueueOK, JobOK, AceOK, RestOK, hubspot,
       sqs
<1>6. ASSUME NEW k \in Edits, Duplicate(k) PROVE TypeInv'
  <2>1. faults' \in 0..MaxFaults
    BY <1>6, CountsTyped DEF Duplicate
  <2>2. QueueOK'
    BY <1>6 DEF Duplicate, SqsOK, QueueOK
  <2> QED
    BY <1>6, <2>1, <2>2 DEF Duplicate, HubSpotOK, EditsOK, SqsOK, JobOK, AceOK, RestOK, hubspot, ace
<1> QED
  BY <1>1, <1>2, <1>3, <1>4, <1>5, <1>6

\* What the steps of one invocation leave alone.
Others(x) == \A y \in Jobs \ {x} : job'[y] = job[y]

\* UpdateOpportunity, and the read of LastModifiedDate before another try.
LEMMA CallEffect ==
    ASSUME TypeInv, NEW x \in Jobs, CallUpdate(x)
    PROVE  /\ TypeInv' /\ Others(x) /\ At(x, "send")
           /\ UNCHANGED <<hubspot, sqs, pending, submission, review>>
           /\ job'[x].payload = job[x].payload /\ job'[x].props = job[x].props
           /\ job'[x].stage = job[x].stage
           /\ \/ /\ review \in Blocked /\ job'[x].pc = "locked"
                 /\ UNCHANGED <<aws, fresh, events>> /\ job'[x].tries = job[x].tries
              \/ /\ x \notin fresh /\ job'[x].pc = "refetch" /\ job'[x].tries # 0
                 /\ UNCHANGED <<aws, fresh, events>>
              \/ /\ x \notin fresh /\ job'[x].pc = "failed" /\ job'[x].tries = job[x].tries
                 /\ UNCHANGED <<aws, fresh, events>>
              \/ /\ review \notin Blocked /\ x \in fresh /\ job'[x].pc = "sent"
                 /\ aws' = job[x].payload
                 /\ fresh' = {} /\ Emit /\ job'[x].tries = job[x].tries
              \/ /\ Fault("reject") /\ job'[x].pc = "rejected" /\ UNCHANGED <<aws, fresh, events>>
                 /\ job'[x].tries = job[x].tries
              \/ /\ Fault("transient") /\ job'[x].pc = "failed" /\ UNCHANGED <<aws, fresh, events>>
                 /\ job'[x].tries = job[x].tries
<1> USE DEF TypeInv
<1>1. /\ UNCHANGED <<deal, edits, queue, receives, pending, submission>> /\ At(x, "send")
      /\ UNCHANGED <<hubspot, sqs>>
  BY DEF CallUpdate, hubspot, sqs
<1>2. HubSpotOK' /\ SqsOK'
  BY <1>1 DEF HubSpotOK, EditsOK, SqsOK, QueueOK
<1>3. \A s \in {"locked", "sent", "rejected", "failed"} : s \in Steps \cup {"idle"}
  BY DEF Steps
<1>4. CASE review \in Blocked /\ Goto(x, "locked") /\ UNCHANGED <<ace, faults>>
  BY <1>1, <1>2, <1>3, <1>4, Moves DEF AceOK, RestOK, ace, Others
<1>5. CASE x \notin fresh /\ Conflict(x) /\ UNCHANGED <<ace, faults>>
  <2>1. CASE job[x].tries + 1 < MaxAttempts
    <3>1. job' = [job EXCEPT ![x].pc = "refetch", ![x].tries = job[x].tries + 1]
      BY <1>5, <2>1 DEF Conflict
    <3>2. job[x] \in Job /\ job[x].tries \in 0..(MaxAttempts - 1)
      BY DEF JobOK, Job
    <3>3. job[x].tries + 1 \in 0..(MaxAttempts - 1) /\ job[x].tries + 1 # 0
      BY <3>2, <2>1, SMT DEF MaxAttempts
    <3>4. /\ JobOK' /\ Others(x) /\ job'[x].pc = "refetch" /\ job'[x].tries = job[x].tries + 1
          /\ job'[x].payload = job[x].payload /\ job'[x].props = job[x].props
          /\ job'[x].stage = job[x].stage
      BY <3>1, <3>3 DEF JobOK, Job, Steps, Others
    <3> QED
      BY <1>1, <1>2, <1>5, <3>3, <3>4 DEF AceOK, RestOK, ace
  <2>2. CASE Goto(x, "failed")
    BY <1>1, <1>2, <1>3, <1>5, <2>2, Moves DEF AceOK, RestOK, ace, Others
  <2> QED
    BY <1>5, <2>1, <2>2 DEF Conflict
<1>6. CASE /\ review \notin Blocked /\ x \in fresh /\ aws' = job[x].payload /\ fresh' = {} /\ Emit
           /\ Goto(x, "sent") /\ UNCHANGED <<review, faults>>
  <2>1. job[x].payload \in [Props -> Value]
    BY DEF JobOK, Job
  <2>2. AceOK'
    BY <1>6, <2>1, CountsTyped DEF AceOK
  <2> QED
    BY <1>1, <1>2, <1>3, <1>6, <2>2, Moves DEF RestOK, Others
<1>7. CASE Fault("reject") /\ Goto(x, "rejected") /\ UNCHANGED ace
  BY <1>1, <1>2, <1>3, <1>7, Moves, CountsTyped DEF AceOK, RestOK, ace, Others
<1>8. CASE Fault("transient") /\ Goto(x, "failed") /\ UNCHANGED ace
  BY <1>1, <1>2, <1>3, <1>8, Moves, CountsTyped DEF AceOK, RestOK, ace, Others
<1> QED
  BY <1>4, <1>5, <1>6, <1>7, <1>8 DEF CallUpdate

\* The resend after a conflict takes the newer date and keeps the payload.
LEMMA RefetchEffect ==
    ASSUME TypeInv, NEW x \in Jobs, Refetch(x)
    PROVE  /\ TypeInv' /\ Others(x) /\ At(x, "refetch") /\ job'[x].pc = "send"
           /\ fresh' = fresh \cup {x}
           /\ UNCHANGED <<hubspot, sqs, pending, submission, aws, review, events, faults>>
           /\ job'[x].payload = job[x].payload /\ job'[x].props = job[x].props
           /\ job'[x].stage = job[x].stage /\ job'[x].tries = job[x].tries
<1>1. /\ Goto(x, "send") /\ At(x, "refetch") /\ fresh' = fresh \cup {x} /\ "send" \in Steps
      /\ UNCHANGED <<deal, edits, queue, receives, pending, submission, aws, review, events,
         faults>>
  BY DEF Refetch, hubspot, sqs, Steps
<1>2. /\ JobOK' /\ Others(x) /\ job'[x].pc = "send"
      /\ job'[x].payload = job[x].payload /\ job'[x].props = job[x].props
      /\ job'[x].stage = job[x].stage /\ job'[x].tries = job[x].tries
  BY <1>1, Moves DEF TypeInv, Others
<1> QED
  BY <1>1, <1>2 DEF TypeInv, HubSpotOK, EditsOK, SqsOK, QueueOK, AceOK, RestOK, hubspot, sqs

-----------------------------------------------------------------------------
(* What the steps of update_in_ace do, as seen from the message.           *)

\* The locals stay, or are gone with the invocation.
Locals(x)      == /\ job'[x].payload = job[x].payload /\ job'[x].tries = job[x].tries
                  /\ job'[x].props = job[x].props /\ job'[x].stage = job[x].stage
Ended(k, how)  == job'[k] = NoJob /\ queue'[k] = how
Goes(x, s)     == job'[x].pc = s /\ Locals(x)
OtherMails(k)  == \A l \in Edits \ {k} : queue'[l] = queue[l]
\* A note for BD may have replaced the Next Steps of the deal.
NotedOnly      == \A p \in Props \ {NextSteps} : deal'[p] = deal[p]

Receives(k) == /\ At(k, "idle") /\ queue[k] = "visible" /\ Cardinality(Working) < MaxConcurrent
               /\ Goes(k, "resolve") /\ UNCHANGED <<deal, queue, pending, fresh, faults>>
Buries(k)   == /\ At(k, "idle") /\ queue[k] = "visible" /\ queue'[k] = "dlq"
               /\ UNCHANGED <<deal, job, pending, fresh, faults>>
Resolves(k) == /\ At(k, "resolve") /\ UNCHANGED <<deal, pending, fresh, faults>>
               /\ \/ submission = "recorded" /\ Goes(k, "get") /\ UNCHANGED queue
                  \/ submission # "recorded" /\ Ended(k, "skipped")
Puts(k, f, v) == /\ v # Empty /\ job'[k].pc = "send" /\ job'[k].tries = job[k].tries
                 /\ job'[k].props = job[k].props /\ job'[k].payload = [f EXCEPT ![Prop(k)] = v]
                 /\ UNCHANGED queue
Gets(k)     == /\ At(k, "get") /\ fresh' = fresh \cup {k} /\ UNCHANGED <<deal, pending, faults>>
               /\ \/ /\ Prop(k) \in Refetched /\ job'[k].pc = "value" /\ job'[k].payload = aws
                     /\ job'[k].tries = job[k].tries /\ job'[k].props = job[k].props
                     /\ UNCHANGED queue
                  \/ Prop(k) \notin Refetched /\ Puts(k, aws, edits[k].value)
                  \/ edits[k].value = Empty /\ Ended(k, "skipped")
Current(k)  == IF deal[Prop(k)] # Empty THEN deal[Prop(k)] ELSE edits[k].value
Values(k)   == /\ At(k, "value") /\ UNCHANGED <<deal, pending, fresh>>
               /\ \/ Puts(k, job[k].payload, Current(k))
                  \/ Current(k) = Empty /\ Ended(k, "skipped")
                  \/ /\ Fault("no_read") /\ edits[k].value = Empty /\ Ended(k, "skipped")
                  \/ Fault("no_read") /\ Puts(k, job[k].payload, edits[k].value)
Succeeds(k) == At(k, "sent") /\ Ended(k, "done") /\ UNCHANGED <<deal, pending, fresh, faults>>
Parks(k)    == /\ At(k, "locked") /\ Goes(k, "park_note") /\ UNCHANGED <<deal, queue, fresh>>
               /\ \/ pending' = pending \cup {Prop(k)}
                  \/ Fault("no_write") /\ UNCHANGED pending
Refuses(k)  == /\ \/ At(k, "get") /\ Fault("reject")
                  \/ At(k, "locked") /\ Fault("no_read")
               /\ Goes(k, "rejected") /\ UNCHANGED <<deal, queue, pending, fresh>>
Notes(k)    == /\ NotedOnly /\ UNCHANGED <<pending, fresh>>
               /\ \/ At(k, "park_note") /\ Ended(k, "parked")
                  \/ At(k, "rejected") /\ Ended(k, "dropped")
Requeues(k) == /\ At(k, "failed") /\ job'[k] = NoJob
               /\ UNCHANGED <<deal, queue, pending, fresh, faults>>

\* A worker's step is one of these, and it keeps the types.
LEMMA WorkerEffect ==
    ASSUME TypeInv, NEW k \in DOMAIN edits, Worker(k)
    PROVE  /\ TypeInv' /\ Others(k) /\ OtherMails(k)
           /\ UNCHANGED <<edits, submission, aws, review, events>>
           /\ \/ Receives(k) \/ Buries(k) \/ Resolves(k) \/ Gets(k) \/ Values(k) \/ Succeeds(k)
              \/ Parks(k) \/ Refuses(k) \/ Notes(k) \/ Requeues(k)
<1>0. /\ k \in Edits /\ k \in Jobs /\ Prop(k) \in Props /\ edits[k].value \in Value
      /\ JobOK /\ QueueOK /\ job[k] \in Job
  BY EditTyped, Constants DEF TypeInv, HubSpotOK, SqsOK, JobOK
<1>1. ASSUME UNCHANGED <<edits, submission, aws, review, events>>, JobOK', SqsOK',
             fresh' \subseteq Jobs,
             deal' \in [Props -> Value], pending' \subseteq Props, faults' \in 0..MaxFaults
      PROVE  TypeInv'
  BY <1>1 DEF TypeInv, HubSpotOK, EditsOK, AceOK, RestOK
<1>2. /\ deal \in [Props -> Value] /\ SqsOK /\ fresh \subseteq Jobs /\ pending \subseteq Props
      /\ faults \in 0..MaxFaults /\ aws \in [Props -> Value]
  BY DEF TypeInv, HubSpotOK, AceOK, RestOK
<1>3. \A how : queue' = [queue EXCEPT ![k] = how] => queue'[k] = how /\ OtherMails(k)
  BY <1>0 DEF QueueOK, OtherMails
<1>4. UNCHANGED queue => OtherMails(k)
  BY DEF OtherMails
<1>5. End(k) => JobOK' /\ job'[k] = NoJob /\ Others(k)
  BY <1>0, Moves DEF Others
<1>6. \A s \in Steps : Goto(k, s) => JobOK' /\ Goes(k, s) /\ Others(k)
  BY <1>0, Moves DEF Others, Goes, Locals
<1>7. CASE Receive(k)
  <2>1. /\ At(k, "idle") /\ queue[k] = "visible" /\ Cardinality(Working) < MaxConcurrent
        /\ receives[k] < MaxReceive /\ receives' = [receives EXCEPT ![k] = receives[k] + 1]
        /\ Goto(k, "resolve")
        /\ UNCHANGED <<deal, edits, queue, pending, submission, aws, fresh, review, events, faults>>
    BY <1>7 DEF Receive, At, hubspot, ace
  <2>2. receives[k] \in 0..MaxReceive /\ receives \in [Edits -> 0..MaxReceive]
    BY <1>0, <1>2 DEF SqsOK
  <2>3. receives[k] + 1 \in 0..MaxReceive
    BY <2>1, <2>2, Constants, SMT
  <2>4. SqsOK'
    BY <1>0, <2>1, <2>2, <2>3 DEF SqsOK, QueueOK
  <2>5. JobOK' /\ Goes(k, "resolve") /\ Others(k)
    BY <1>6, <2>1 DEF Steps
  <2> QED
    BY <1>1, <1>2, <1>4, <2>1, <2>4, <2>5 DEF Receives
<1>8. CASE DeadLetter(k)
  <2>1. /\ At(k, "idle") /\ queue[k] = "visible" /\ queue' = [queue EXCEPT ![k] = "dlq"]
        /\ UNCHANGED <<deal, edits, receives, job, pending, submission, aws, fresh, review,
           events, faults>>
    BY <1>8 DEF DeadLetter, At, hubspot, ace
  <2>2. SqsOK' /\ JobOK' /\ Others(k)
    BY <1>0, <1>2, <2>1 DEF SqsOK, QueueOK, JobOK, Others
  <2> QED
    BY <1>1, <1>2, <1>3, <2>1, <2>2 DEF Buries
<1>9. ASSUME NEW how \in {"done", "skipped", "parked", "dropped"}, Finish(k, how),
             UNCHANGED receives
      PROVE  JobOK' /\ SqsOK' /\ Ended(k, how) /\ Others(k) /\ OtherMails(k)
  <2>1. JobOK' /\ QueueOK' /\ End(k) /\ queue' = [queue EXCEPT ![k] = how]
    BY <1>0, <1>9, FinishTyped
  <2> QED
    BY <1>2, <1>3, <1>5, <1>9, <2>1 DEF SqsOK, Ended
<1>10. CASE Resolve(k)
  <2>1. /\ At(k, "resolve")
        /\ UNCHANGED <<deal, edits, receives, pending, submission, aws, fresh, review, events,
           faults>>
    BY <1>10 DEF Resolve, hubspot, ace
  <2>2. CASE submission = "recorded"
    <3>1. Goto(k, "get") /\ queue' = queue
      BY <1>10, <2>2 DEF Resolve
    <3>2. JobOK' /\ Goes(k, "get") /\ Others(k)
      BY <1>6, <3>1 DEF Steps
    <3>3. SqsOK'
      BY <1>2, <2>1, <3>1 DEF SqsOK, QueueOK
    <3> QED
      BY <1>1, <1>2, <1>4, <2>1, <2>2, <3>1, <3>2, <3>3 DEF Resolves
  <2>3. CASE submission # "recorded"
    <3>1. Finish(k, "skipped")
      BY <1>10, <2>3 DEF Resolve
    <3>2. JobOK' /\ SqsOK' /\ Ended(k, "skipped") /\ Others(k) /\ OtherMails(k)
      BY <1>9, <2>1, <3>1
    <3> QED
      BY <1>1, <1>2, <2>1, <2>3, <3>2 DEF Resolves
  <2> QED
    BY <2>2, <2>3
<1>11. ASSUME NEW f \in [Props -> Value], NEW v \in Value, SetValue(k, f, v), UNCHANGED receives
       PROVE  /\ JobOK' /\ SqsOK' /\ Others(k) /\ OtherMails(k)
              /\ Puts(k, f, v) \/ (v = Empty /\ Ended(k, "skipped"))
  <2>1. /\ JobOK' /\ QueueOK'
        /\ \/ v = Empty /\ End(k) /\ queue' = [queue EXCEPT ![k] = "skipped"]
           \/ /\ v # Empty /\ queue' = queue /\ \A y \in Jobs \ {k} : job'[y] = job[y]
              /\ job'[k].pc = "send" /\ job'[k].tries = job[k].tries
              /\ job'[k].props = job[k].props /\ job'[k].payload = [f EXCEPT ![Prop(k)] = v]
    BY <1>0, <1>11, SetTyped
  <2>2. SqsOK'
    BY <1>2, <1>11, <2>1 DEF SqsOK
  <2>3. CASE v = Empty /\ End(k) /\ queue' = [queue EXCEPT ![k] = "skipped"]
    BY <1>3, <1>5, <2>1, <2>2, <2>3 DEF Ended
  <2>4. CASE /\ v # Empty /\ queue' = queue /\ \A y \in Jobs \ {k} : job'[y] = job[y]
             /\ job'[k].pc = "send" /\ job'[k].tries = job[k].tries
             /\ job'[k].props = job[k].props /\ job'[k].payload = [f EXCEPT ![Prop(k)] = v]
    BY <1>4, <2>1, <2>2, <2>4 DEF Puts, Others
  <2> QED
    BY <2>1, <2>3, <2>4
<1>23. ASSUME \/ At(k, "get") /\ Fault("reject")
              \/ At(k, "locked") /\ Fault("no_read"),
              Goto(k, "rejected"),
              UNCHANGED <<hubspot, sqs, pending, submission, aws, fresh, review, events>>
       PROVE  TypeInv' /\ Others(k) /\ OtherMails(k) /\ Refuses(k)
  <2>1. UNCHANGED <<deal, edits, queue, receives, pending, submission, aws, fresh, review, events>>
    BY <1>23 DEF hubspot, sqs
  <2>2. JobOK' /\ Goes(k, "rejected") /\ Others(k) /\ SqsOK'
    BY <1>2, <1>6, <1>23, <2>1 DEF Steps, SqsOK, QueueOK
  <2>3. faults' \in 0..MaxFaults
    BY <1>23, CountsTyped DEF TypeInv
  <2> QED
    BY <1>1, <1>2, <1>4, <1>23, <2>1, <2>2, <2>3 DEF Refuses
<1>24. CASE GetCurrent(k) /\ ~UNCHANGED faults
  <2>1. /\ At(k, "get") /\ Fault("reject") /\ Goto(k, "rejected")
        /\ UNCHANGED <<hubspot, sqs, pending, submission, aws, fresh, review, events>>
    BY <1>24 DEF GetCurrent, sqs
  <2> QED
    BY <1>23, <2>1 DEF hubspot
<1>12. CASE GetCurrent(k) /\ UNCHANGED faults
  <2>0. ~Fault("reject")
    BY <1>2, <1>12, Constants, SMT DEF Fault
  <2>1. /\ At(k, "get") /\ fresh' = fresh \cup {k} /\ fresh' \subseteq Jobs
        /\ UNCHANGED <<deal, edits, receives, pending, submission, aws, review, events, faults>>
    BY <1>0, <1>2, <1>12, <2>0 DEF GetCurrent, hubspot
  <2>2. CASE Prop(k) \in Refetched
    <3>1. job' = [job EXCEPT ![k].pc = "value", ![k].payload = aws] /\ queue' = queue
      BY <1>12, <2>0, <2>2 DEF GetCurrent
    <3>2. /\ JobOK' /\ Others(k) /\ job'[k].pc = "value" /\ job'[k].payload = aws
          /\ job'[k].tries = job[k].tries /\ job'[k].props = job[k].props
      BY <1>0, <1>2, <3>1 DEF JobOK, Job, Others, Steps
    <3>3. SqsOK'
      BY <1>2, <2>1, <3>1 DEF SqsOK, QueueOK
    <3> QED
      BY <1>1, <1>2, <1>4, <2>1, <2>2, <3>1, <3>2, <3>3 DEF Gets
  <2>3. CASE Prop(k) \notin Refetched
    <3>1. SetValue(k, aws, edits[k].value)
      BY <1>12, <2>0, <2>3 DEF GetCurrent
    <3>2. /\ JobOK' /\ SqsOK' /\ Others(k) /\ OtherMails(k)
          /\ Puts(k, aws, edits[k].value) \/ (edits[k].value = Empty /\ Ended(k, "skipped"))
      BY <1>0, <1>2, <1>11, <2>1, <3>1
    <3> QED
      BY <1>1, <1>2, <2>1, <2>3, <3>2 DEF Gets
  <2> QED
    BY <2>2, <2>3
<1>13. CASE RefetchValue(k)
  <2>1. /\ At(k, "value")
        /\ UNCHANGED <<deal, edits, receives, pending, submission, aws, fresh, review, events>>
        /\ job[k].payload \in [Props -> Value] /\ Current(k) \in Value
    BY <1>0, <1>2, <1>13 DEF RefetchValue, hubspot, ace, Job, Current
  <2>2. CASE SetValue(k, job[k].payload, Current(k)) /\ UNCHANGED faults
    <3>1. /\ JobOK' /\ SqsOK' /\ Others(k) /\ OtherMails(k)
          /\ Puts(k, job[k].payload, Current(k)) \/ (Current(k) = Empty /\ Ended(k, "skipped"))
      BY <1>11, <2>1, <2>2
    <3> QED
      BY <1>1, <1>2, <2>1, <2>2, <3>1 DEF Values
  <2>3. CASE Fault("no_read") /\ SetValue(k, job[k].payload, edits[k].value)
    <3>1. /\ JobOK' /\ SqsOK' /\ Others(k) /\ OtherMails(k)
          /\ \/ Puts(k, job[k].payload, edits[k].value)
             \/ edits[k].value = Empty /\ Ended(k, "skipped")
      BY <1>0, <1>11, <2>1, <2>3
    <3>2. faults' \in 0..MaxFaults
      BY <2>3, CountsTyped DEF TypeInv
    <3> QED
      BY <1>1, <1>2, <2>1, <2>3, <3>1, <3>2 DEF Values
  <2> QED
    BY <1>13, <2>2, <2>3 DEF RefetchValue, Current
<1>14. CASE Updated(k)
  <2>1. /\ At(k, "sent") /\ Finish(k, "done")
        /\ UNCHANGED <<deal, edits, receives, pending, submission, aws, fresh, review, events,
           faults>>
    BY <1>14 DEF Updated, hubspot, ace
  <2>2. JobOK' /\ SqsOK' /\ Ended(k, "done") /\ Others(k) /\ OtherMails(k)
    BY <1>9, <2>1
  <2> QED
    BY <1>1, <1>2, <2>1, <2>2 DEF Succeeds
<1>25. CASE Park(k) /\ Goto(k, "rejected") /\ Fault("no_read") /\ UNCHANGED pending
  <2>1. At(k, "locked") /\ UNCHANGED <<hubspot, sqs, submission, aws, fresh, review, events>>
    BY <1>25 DEF Park, ace
  <2> QED
    BY <1>23, <1>25, <2>1 DEF hubspot
<1>26. ASSUME Park(k)
       PROVE  \/ Goto(k, "rejected") /\ Fault("no_read") /\ UNCHANGED pending
              \/ Goto(k, "park_note") /\ ~(Goto(k, "rejected") /\ Fault("no_read"))
  <2>1. Goto(k, "rejected") => ~Goto(k, "park_note")
    BY <1>0 DEF Goto, JobOK, Job
  <2> QED
    BY <1>26, <2>1 DEF Park
<1>15. CASE Park(k) /\ Goto(k, "park_note") /\ ~(Goto(k, "rejected") /\ Fault("no_read"))
  <2>1. /\ At(k, "locked") /\ Goto(k, "park_note")
        /\ UNCHANGED <<deal, edits, queue, receives, submission, aws, fresh, review, events>>
    BY <1>15 DEF Park, hubspot, sqs, ace
  <2>2. JobOK' /\ Goes(k, "park_note") /\ Others(k) /\ SqsOK'
    BY <1>2, <1>6, <2>1 DEF Steps, SqsOK, QueueOK
  <2>3. \/ pending' = pending \cup {Prop(k)} /\ faults' = faults
        \/ Fault("no_write") /\ pending' = pending
    BY <1>15 DEF Park
  <2>4. pending' \subseteq Props /\ faults' \in 0..MaxFaults
    BY <1>0, <1>2, <2>3, CountsTyped DEF TypeInv
  <2> QED
    BY <1>1, <1>2, <1>4, <2>1, <2>2, <2>3, <2>4 DEF Parks
<1>16. WriteNote => NotedOnly /\ deal' \in [Props -> Value] /\ faults' \in 0..MaxFaults
  BY NoteTyped DEF WriteNote, NotedOnly, TypeInv
<1>17. CASE ParkNote(k)
  <2>1. /\ At(k, "park_note") /\ WriteNote /\ Finish(k, "parked")
        /\ UNCHANGED <<edits, receives, pending, submission, aws, fresh, review, events>>
    BY <1>17 DEF ParkNote, ace
  <2>2. JobOK' /\ SqsOK' /\ Ended(k, "parked") /\ Others(k) /\ OtherMails(k)
    BY <1>9, <2>1
  <2> QED
    BY <1>1, <1>2, <1>16, <2>1, <2>2 DEF Notes
<1>18. CASE Dropped(k)
  <2>1. /\ At(k, "rejected") /\ WriteNote /\ Finish(k, "dropped")
        /\ UNCHANGED <<edits, receives, pending, submission, aws, fresh, review, events>>
    BY <1>18 DEF Dropped, ace
  <2>2. JobOK' /\ SqsOK' /\ Ended(k, "dropped") /\ Others(k) /\ OtherMails(k)
    BY <1>9, <2>1
  <2> QED
    BY <1>1, <1>2, <1>16, <2>1, <2>2 DEF Notes
<1>19. CASE Requeue(k)
  <2>1. /\ At(k, "failed") /\ End(k)
        /\ UNCHANGED <<deal, edits, queue, receives, pending, submission, aws, fresh, review,
           events, faults>>
    BY <1>19 DEF Requeue, hubspot, sqs, ace
  <2>2. SqsOK'
    BY <1>2, <2>1 DEF SqsOK, QueueOK
  <2> QED
    BY <1>1, <1>2, <1>4, <1>5, <2>1, <2>2 DEF Requeues
<1> QED
  BY <1>7, <1>8, <1>10, <1>12, <1>13, <1>14, <1>15, <1>17, <1>18, <1>19, <1>24, <1>25, <1>26
     DEF Worker

-----------------------------------------------------------------------------
(* What the other invocations do.                                          *)

Leaves(r)  == IF r \in Handlers THEN Goes(r, "compare") ELSE job'[r] = NoJob
Fetched(x) == /\ fresh' = fresh \cup {x} /\ job'[x].payload = aws /\ job'[x].tries = job[x].tries
              /\ job'[x].props = job[x].props
              /\ job'[x].stage = IF Stage \in Props THEN aws[Stage] ELSE 0

Delivers(h) == /\ At(h, "idle") /\ events > 0 /\ events' = events - 1 /\ Fetched(h)
               /\ job'[h].pc \in {"read", "compare"} /\ UNCHANGED <<deal, pending, faults>>
Given(r)    == {p \in job[r].props : deal[p] # Empty}
Takes(r, s) == /\ job'[r].pc = s /\ job'[r].props = pending /\ job'[r].payload = job[r].payload
               /\ job'[r].tries = job[r].tries /\ job'[r].stage = job[r].stage
Reads(h)    == /\ At(h, "read")
               /\ Goes(h, "compare") \/ (pending # {} /\ Takes(h, "apply"))
               /\ UNCHANGED <<deal, pending, fresh, events, faults>>
Starts(s)   == /\ At(s, "idle") /\ pending # {} /\ Takes(s, "get")
               /\ UNCHANGED <<deal, pending, fresh, events, faults>>
Looks(s)    == /\ At(s, "get") /\ UNCHANGED <<deal, pending, events, faults>>
               /\ \/ job'[s].pc = "apply" /\ Fetched(s)
                  \/ job'[s] = NoJob /\ UNCHANGED fresh
Applies(r)  == /\ At(r, "apply") /\ UNCHANGED <<deal, pending, fresh, events>>
               /\ \/ Given(r) = {} /\ Goes(r, "drop")
                  \/ /\ Given(r) # {} /\ job'[r].pc = "send" /\ job'[r].tries = job[r].tries
                     /\ job'[r].props = job[r].props /\ job'[r].stage = job[r].stage
                     /\ job'[r].payload = [p \in Props |-> IF p \in Given(r) THEN deal[p]
                                                           ELSE job[r].payload[p]]
                  \/ Fault("no_read") /\ Goes(r, "failed")
Fails(r)    == /\ At(r, "locked") \/ At(r, "failed")
               /\ Leaves(r) /\ UNCHANGED <<deal, pending, fresh, events, faults>>
Rejects(r)  == At(r, "rejected") /\ Goes(r, "drop") /\ NotedOnly
               /\ UNCHANGED <<pending, fresh, events>>
Clears(r)   == /\ pending' = {} /\ UNCHANGED <<deal, fresh, events, faults>>
               /\ \/ At(r, "sent") /\ Goes(r, "note")
                  \/ At(r, "drop") /\ Leaves(r)
Tells(r)    == At(r, "note") /\ Leaves(r) /\ NotedOnly /\ UNCHANGED <<pending, fresh, events>>
Compares(h) == /\ At(h, "compare") /\ UNCHANGED <<deal, pending, fresh, events>>
               /\ \/ Stage \in Props /\ Goes(h, "patch")
                  \/ job'[h] = NoJob /\ (Stage \notin Props \/ deal[Stage] = job[h].stage)
Mirrors(h)  == /\ At(h, "patch") /\ job'[h] = NoJob /\ UNCHANGED <<pending, fresh, events>>
               /\ \/ deal' = [deal EXCEPT ![Stage] = job[h].stage]
                  \/ Fault("no_write") /\ UNCHANGED deal

\* What a reconciler's step leaves alone is typed if the rest is.
LEMMA ReconcilerTyped ==
    ASSUME TypeInv, UNCHANGED <<edits, sqs, submission, aws, review>>, JobOK',
           fresh' \subseteq Jobs,
           deal' \in [Props -> Value], pending' \subseteq Props, faults' \in 0..MaxFaults,
           events' \in 0..MaxEvents
    PROVE  TypeInv'
  BY DEF TypeInv, HubSpotOK, EditsOK, SqsOK, QueueOK, AceOK, RestOK, sqs

\* The steps that handle_ace_event and the sweep share.
LEMMA ReconcilerEffect ==
    ASSUME TypeInv, NEW r \in Handlers \cup Sweeps, Reconciler(r)
    PROVE  /\ TypeInv' /\ Others(r) /\ UNCHANGED <<edits, sqs, submission, aws, review>>
           /\ Applies(r) \/ Fails(r) \/ Rejects(r) \/ Clears(r) \/ Tells(r)
<1>0. /\ r \in Jobs /\ JobOK /\ job[r] \in Job /\ deal \in [Props -> Value] /\ fresh \subseteq Jobs
      /\ pending \subseteq Props /\ faults \in 0..MaxFaults /\ events \in 0..MaxEvents
      /\ job[r].props \subseteq Props /\ job[r].payload \in [Props -> Value]
  BY Constants DEF TypeInv, HubSpotOK, JobOK, Job, AceOK, RestOK
<1>1. End(r) => JobOK' /\ job'[r] = NoJob /\ Others(r)
  BY <1>0, Moves DEF Others
<1>2. \A s \in Steps : Goto(r, s) => JobOK' /\ Goes(r, s) /\ Others(r)
  BY <1>0, Moves DEF Others, Goes, Locals
<1>3. Leave(r) => JobOK' /\ Leaves(r) /\ Others(r)
  BY <1>1, <1>2 DEF Leave, Leaves, Steps
<1>4. WriteNote => NotedOnly /\ deal' \in [Props -> Value] /\ faults' \in 0..MaxFaults
  BY NoteTyped DEF WriteNote, NotedOnly, TypeInv
<1>5. CASE Apply(r)
  <2>1. /\ At(r, "apply") /\ UNCHANGED <<deal, pending, fresh, events>>
        /\ UNCHANGED <<edits, sqs, submission, aws, review>>
    BY <1>5 DEF Apply, hubspot, ace
  <2>2. faults' \in 0..MaxFaults
    BY <1>0, <1>5, CountsTyped DEF Apply, TypeInv
  <2>3. CASE (Given(r) = {} /\ Goto(r, "drop")) \/ (Fault("no_read") /\ Goto(r, "failed"))
    <3>1. /\ JobOK' /\ Others(r)
          /\ (Given(r) = {} /\ Goes(r, "drop")) \/ (Fault("no_read") /\ Goes(r, "failed"))
      BY <1>2, <2>3 DEF Steps
    <3> QED
      BY <1>0, <2>1, <2>2, <3>1, ReconcilerTyped DEF Applies
  <2>4. CASE Given(r) # {} /\ job' = [job EXCEPT ![r].pc = "send", ![r].payload =
               [p \in Props |-> IF p \in Given(r) THEN deal[p] ELSE job[r].payload[p]]]
    <3> DEFINE f == [p \in Props |-> IF p \in Given(r) THEN deal[p] ELSE job[r].payload[p]]
    <3>1. f \in [Props -> Value]
      BY <1>0
    <3>2. job' = [job EXCEPT ![r].pc = "send", ![r].payload = f]
      BY <2>4
    <3> HIDE DEF f
    <3>3. /\ JobOK' /\ Others(r) /\ job'[r].pc = "send" /\ job'[r].tries = job[r].tries
          /\ job'[r].props = job[r].props /\ job'[r].stage = job[r].stage /\ job'[r].payload = f
      BY <1>0, <3>1, <3>2 DEF JobOK, Job, Others, Steps
    <3> QED
      BY <1>0, <2>1, <2>2, <2>4, <3>3, ReconcilerTyped DEF Applies, f
  <2> QED
    BY <1>5, <2>3, <2>4 DEF Apply, Given
<1>6. CASE ReplayFails(r)
  BY <1>0, <1>3, <1>6, ReconcilerTyped DEF ReplayFails, Fails, hubspot, ace
<1>7. CASE ReplayRejected(r)
  <2>1. JobOK' /\ Goes(r, "drop") /\ Others(r)
    BY <1>2, <1>7 DEF ReplayRejected, Steps
  <2> QED
    BY <1>0, <1>4, <1>7, <2>1, ReconcilerTyped DEF ReplayRejected, Rejects, ace
<1>8. CASE ClearPending(r)
  <2>1. /\ pending' = {} /\ UNCHANGED <<deal, fresh, events, faults>>
        /\ UNCHANGED <<edits, sqs, submission, aws, review>>
    BY <1>8 DEF ClearPending, hubspot, ace
  <2>2. CASE At(r, "sent")
    <3>1. JobOK' /\ Goes(r, "note") /\ Others(r)
      BY <1>2, <1>8, <2>2 DEF ClearPending, Steps
    <3> QED
      BY <1>0, <2>1, <2>2, <3>1, ReconcilerTyped DEF Clears
  <2>3. CASE ~At(r, "sent")
    <3>1. At(r, "drop") /\ Leave(r)
      BY <1>8, <2>3 DEF ClearPending
    <3> QED
      BY <1>0, <1>3, <2>1, <3>1, ReconcilerTyped DEF Clears
  <2> QED
    BY <2>2, <2>3
<1>9. CASE SuccessNote(r)
  BY <1>0, <1>3, <1>4, <1>9, ReconcilerTyped DEF SuccessNote, Tells, ace
<1> QED
  BY <1>5, <1>6, <1>7, <1>8, <1>9 DEF Reconciler

\* What a reconciler is about is taken from the row.
LEMMA TakesTyped ==
    ASSUME JobOK, RestOK, NEW r \in Jobs, NEW s \in Steps,
           job' = [job EXCEPT ![r].props = pending, ![r].pc = s]
    PROVE  JobOK' /\ Others(r) /\ Takes(r, s)
  BY DEF JobOK, RestOK, Job, Others, Takes

\* handle_ace_event.
LEMMA HandlerEffect ==
    ASSUME TypeInv, NEW h \in Handlers, DeliverEvent(h) \/ Handler(h)
    PROVE  /\ TypeInv' /\ Others(h) /\ UNCHANGED <<edits, sqs, submission, aws, review>>
           /\ \/ Delivers(h) \/ Reads(h) \/ Compares(h) \/ Mirrors(h)
              \/ Applies(h) \/ Fails(h) \/ Rejects(h) \/ Clears(h) \/ Tells(h)
<1>0. /\ h \in Jobs /\ JobOK /\ job[h] \in Job /\ deal \in [Props -> Value] /\ fresh \subseteq Jobs
      /\ pending \subseteq Props /\ faults \in 0..MaxFaults /\ events \in 0..MaxEvents
      /\ job[h].stage \in Value
  BY Constants DEF TypeInv, HubSpotOK, JobOK, Job, AceOK, RestOK
<1>1. End(h) => JobOK' /\ job'[h] = NoJob /\ Others(h)
  BY <1>0, Moves DEF Others
<1>2. \A s \in Steps : Goto(h, s) => JobOK' /\ Goes(h, s) /\ Others(h)
  BY <1>0, Moves DEF Others, Goes, Locals
<1>3. CASE DeliverEvent(h)
  <2>1. /\ At(h, "idle") /\ events > 0 /\ events' = events - 1
        /\ UNCHANGED <<deal, pending, faults>> /\ UNCHANGED <<edits, sqs, submission, aws, review>>
    BY <1>3 DEF DeliverEvent, hubspot
  <2>2. PICK s \in {"read", "compare"} : Fetch(h, s)
    BY <1>3 DEF DeliverEvent
  <2>3. /\ JobOK' /\ fresh' \subseteq Jobs /\ Others(h) /\ Fetched(h) /\ job'[h].pc = s
    BY <1>0, <2>2, FetchTyped DEF TypeInv, Steps, Fetched, Others
  <2>4. events' \in 0..MaxEvents
    BY <1>0, <2>1, Constants, SMT
  <2> QED
    BY <1>0, <2>1, <2>3, <2>4, ReconcilerTyped DEF Delivers
<1>4. CASE ReadPending(h)
  <2>1. /\ At(h, "read") /\ UNCHANGED <<deal, pending, fresh, events, faults>>
        /\ UNCHANGED <<edits, sqs, submission, aws, review>>
    BY <1>4 DEF ReadPending, hubspot, ace
  <2>2. \/ Goto(h, "compare")
        \/ pending # {} /\ job' = [job EXCEPT ![h].props = pending, ![h].pc = "apply"]
    BY <1>4 DEF ReadPending
  <2>3. JobOK' /\ Others(h) /\ (Goes(h, "compare") \/ (pending # {} /\ Takes(h, "apply")))
    BY <1>0, <1>2, <2>2, TakesTyped DEF TypeInv, Steps
  <2> QED
    BY <1>0, <2>1, <2>3, ReconcilerTyped DEF Reads
<1>5. CASE Compare(h)
  <2>1. /\ At(h, "compare") /\ UNCHANGED <<deal, pending, fresh, events>>
        /\ UNCHANGED <<edits, sqs, submission, aws, review>>
    BY <1>5 DEF Compare, hubspot, ace
  <2>2. faults' \in 0..MaxFaults
    BY <1>0, <1>5, CountsTyped DEF Compare, TypeInv
  <2>3. \/ Stage \in Props /\ Goto(h, "patch")
        \/ (Stage \notin Props \/ deal[Stage] = job[h].stage) /\ End(h)
    BY <1>5 DEF Compare
  <2>4. /\ JobOK' /\ Others(h)
        /\ \/ Stage \in Props /\ Goes(h, "patch")
           \/ (Stage \notin Props \/ deal[Stage] = job[h].stage) /\ job'[h] = NoJob
    BY <1>1, <1>2, <2>3 DEF Steps
  <2> QED
    BY <1>0, <2>1, <2>2, <2>4, ReconcilerTyped DEF Compares
<1>6. CASE Mirror(h)
  <2>1. /\ At(h, "patch") /\ End(h) /\ UNCHANGED <<pending, fresh, events>>
        /\ UNCHANGED <<edits, sqs, submission, aws, review>>
    BY <1>6 DEF Mirror, ace
  <2>2. \/ deal' = [deal EXCEPT ![Stage] = job[h].stage] /\ faults' = faults
        \/ Fault("no_write") /\ UNCHANGED deal
    BY <1>6 DEF Mirror
  <2>3. deal' \in [Props -> Value] /\ faults' \in 0..MaxFaults
    BY <1>0, <2>2, CountsTyped DEF TypeInv
  <2> QED
    BY <1>0, <1>1, <2>1, <2>2, <2>3, ReconcilerTyped DEF Mirrors
<1>7. CASE Reconciler(h)
  BY <1>7, ReconcilerEffect
<1> QED
  BY <1>3, <1>4, <1>5, <1>6, <1>7 DEF Handler

\* The sweep.
LEMMA SweepEffect ==
    ASSUME TypeInv, NEW s \in Sweeps, Sweep(s)
    PROVE  /\ TypeInv' /\ Others(s) /\ UNCHANGED <<edits, sqs, submission, aws, review>>
           /\ \/ Starts(s) \/ Looks(s)
              \/ Applies(s) \/ Fails(s) \/ Rejects(s) \/ Clears(s) \/ Tells(s)
<1>0. /\ s \in Jobs /\ JobOK /\ deal \in [Props -> Value] /\ fresh \subseteq Jobs
      /\ pending \subseteq Props /\ faults \in 0..MaxFaults /\ events \in 0..MaxEvents
  BY Constants DEF TypeInv, HubSpotOK, AceOK, RestOK
<1>1. CASE StartSweep(s)
  <2>1. JobOK' /\ Others(s) /\ Takes(s, "get")
    BY <1>0, <1>1, TakesTyped DEF StartSweep, TypeInv, Steps
  <2> QED
    BY <1>0, <1>1, <2>1, ReconcilerTyped DEF StartSweep, Starts, hubspot, ace
<1>2. CASE SweepGet(s)
  <2>1. /\ At(s, "get") /\ UNCHANGED <<deal, pending, events, faults>>
        /\ UNCHANGED <<edits, sqs, submission, aws, review>>
    BY <1>2 DEF SweepGet, hubspot
  <2>2. Fetch(s, "apply") \/ (End(s) /\ UNCHANGED fresh)
    BY <1>2 DEF SweepGet
  <2>3. CASE Fetch(s, "apply")
    <3>1. JobOK' /\ fresh' \subseteq Jobs /\ Others(s) /\ Fetched(s) /\ job'[s].pc = "apply"
      BY <1>0, <2>3, FetchTyped DEF TypeInv, Steps, Fetched, Others
    <3> QED
      BY <1>0, <2>1, <3>1, ReconcilerTyped DEF Looks
  <2>4. CASE End(s) /\ UNCHANGED fresh
    <3>1. JobOK' /\ Others(s) /\ job'[s] = NoJob
      BY <1>0, <2>4, Moves DEF Others
    <3> QED
      BY <1>0, <2>1, <2>4, <3>1, ReconcilerTyped DEF Looks
  <2> QED
    BY <2>2, <2>3, <2>4
<1>3. CASE Reconciler(s)
  BY <1>3, ReconcilerEffect
<1> QED
  BY <1>1, <1>2, <1>3 DEF Sweep

-----------------------------------------------------------------------------
(* What the Update card does, and any step.                                *)

FormGets(k) == /\ At(k, "form") /\ fresh' = fresh \cup {k} /\ job'[k].pc = "send"
               /\ job'[k].payload = Delta(aws, Prop(k), edits[k].value)
               /\ job'[k].tries = job[k].tries /\ job'[k].props = job[k].props
               /\ UNCHANGED <<deal, queue, faults>>
FormDone(k) == /\ At(k, "sent") /\ Ended(k, "done") /\ UNCHANGED fresh
               /\ \A p \in Props \ {Prop(k)} : deal'[p] = deal[p]
FormEnds(k) == /\ job[k].pc \in {"locked", "rejected", "failed"} /\ Ended(k, "refused")
               /\ UNCHANGED <<deal, fresh, faults>>

\* The Update card.
LEMMA CardEffect ==
    ASSUME TypeInv, NEW k \in DOMAIN edits, Card(k)
    PROVE  /\ TypeInv' /\ Others(k) /\ OtherMails(k)
           /\ UNCHANGED <<edits, receives, pending, submission, aws, review, events>>
           /\ FormGets(k) \/ FormDone(k) \/ FormEnds(k)
<1>0. /\ k \in Edits /\ k \in Jobs /\ Prop(k) \in Props /\ edits[k].value \in Value
      /\ JobOK /\ QueueOK /\ deal \in [Props -> Value] /\ SqsOK /\ fresh \subseteq Jobs
      /\ faults \in 0..MaxFaults /\ aws \in [Props -> Value]
  BY EditTyped, Constants DEF TypeInv, HubSpotOK, SqsOK, AceOK, RestOK
<1>1. ASSUME UNCHANGED <<edits, receives, pending, submission, aws, review, events>>, JobOK',
             QueueOK',
             fresh' \subseteq Jobs, deal' \in [Props -> Value], faults' \in 0..MaxFaults
      PROVE  TypeInv'
  BY <1>1 DEF TypeInv, HubSpotOK, EditsOK, SqsOK, AceOK, RestOK
<1>2. ASSUME NEW how \in {"done", "refused"}, Finish(k, how)
      PROVE  JobOK' /\ QueueOK' /\ Ended(k, how) /\ Others(k) /\ OtherMails(k)
  <2>1. JobOK' /\ QueueOK' /\ End(k) /\ queue' = [queue EXCEPT ![k] = how]
    BY <1>0, <1>2, FinishTyped
  <2>2. job'[k] = NoJob /\ Others(k)
    BY <1>0, <2>1, Moves DEF Others
  <2> QED
    BY <1>0, <2>1, <2>2 DEF Ended, OtherMails, QueueOK
<1>3. CASE FormGet(k)
  <2> DEFINE f == Delta(aws, Prop(k), edits[k].value)
  <2>1. /\ At(k, "form") /\ fresh' = fresh \cup {k} /\ fresh' \subseteq Jobs
        /\ job' = [job EXCEPT ![k].pc = "send", ![k].payload = f]
        /\ UNCHANGED <<deal, edits, queue, receives, pending, submission, aws, review, events,
           faults>>
    BY <1>0, <1>3 DEF FormGet, hubspot, sqs
  <2>2. f \in [Props -> Value]
    BY <1>0, DeltaTyped
  <2> HIDE DEF f
  <2>3. /\ JobOK' /\ Others(k) /\ job'[k].pc = "send" /\ job'[k].payload = f
        /\ job'[k].tries = job[k].tries /\ job'[k].props = job[k].props
    <3>1. PICK g \in [Props -> Value] : g = f
      BY <2>2
    <3>2. job' = [job EXCEPT ![k].pc = "send", ![k].payload = g] /\ k \in Jobs /\ JobOK
      BY <1>0, <2>1, <3>1
    <3>3. job'[k] = [job[k] EXCEPT !.pc = "send", !.payload = g] /\ job[k] \in Job /\ Others(k)
      BY <3>2 DEF JobOK, Others
    <3>4. /\ job'[k].pc = "send" /\ job'[k].payload = g /\ job'[k].tries = job[k].tries
          /\ job'[k].props = job[k].props /\ job'[k] \in Job
      BY <3>1, <3>3 DEF Job, Steps
    <3> QED
      BY <3>1, <3>2, <3>3, <3>4 DEF JobOK, Others
  <2>4. QueueOK' /\ OtherMails(k)
    BY <1>0, <2>1 DEF QueueOK, OtherMails
  <2> QED
    BY <1>0, <1>1, <2>1, <2>3, <2>4 DEF FormGets, f
<1>4. CASE FormApplied(k)
  <2>1. /\ At(k, "sent") /\ Finish(k, "done") /\ UNCHANGED fresh
        /\ UNCHANGED <<edits, receives, pending, submission, aws, review, events>>
    BY <1>4 DEF FormApplied, ace
  <2>2. deal' \in [Props -> Value] /\ faults' \in 0..MaxFaults
    BY <1>0, <1>4, CountsTyped DEF FormApplied, TypeInv
  <2>3. \A p \in Props \ {Prop(k)} : deal'[p] = deal[p]
    BY <1>0, <1>4 DEF FormApplied
  <2> QED
    BY <1>0, <1>1, <1>2, <2>1, <2>2, <2>3 DEF FormDone
<1>5. CASE FormRefused(k)
  <2>1. /\ job[k].pc \in {"locked", "rejected", "failed"} /\ Finish(k, "refused")
        /\ UNCHANGED <<deal, fresh, edits, receives, pending, submission, aws, review, events,
           faults>>
    BY <1>5 DEF FormRefused, hubspot, ace
  <2> QED
    BY <1>0, <1>1, <1>2, <2>1 DEF FormEnds
<1> QED
  BY <1>3, <1>4, <1>5 DEF Card

\* An invocation dies.
LEMMA CrashEffect ==
    ASSUME TypeInv, NEW x \in Jobs, Crash(x)
    PROVE  /\ TypeInv' /\ Others(x) /\ job'[x] = NoJob /\ job[x].pc # "idle" /\ Fault("crash")
           /\ UNCHANGED <<hubspot, receives, pending, submission, ace>>
           /\ \/ UNCHANGED queue
              \/ /\ x \in DOMAIN edits /\ edits[x].via = "card" /\ OtherMails(x)
                 /\ queue'[x] = "refused"
<1>1. /\ End(x) /\ job[x].pc # "idle" /\ Fault("crash")
      /\ UNCHANGED <<deal, edits, receives, pending, submission, aws, fresh, review, events>>
      /\ UNCHANGED <<hubspot, ace>>
  BY DEF Crash, hubspot, ace
<1>2. /\ JobOK' /\ Others(x) /\ job'[x] = NoJob /\ faults' \in 0..MaxFaults
  BY <1>1, Moves, CountsTyped DEF TypeInv, Others
<1>3. \/ queue' = queue
      \/ x \in DOMAIN edits /\ edits[x].via = "card" /\ queue' = [queue EXCEPT ![x] = "refused"]
  BY DEF Crash
<1>4. DOMAIN edits \subseteq Edits /\ QueueOK
  BY EditTyped DEF TypeInv, HubSpotOK, SqsOK
<1>5. /\ QueueOK'
      /\ \/ UNCHANGED queue
         \/ /\ x \in DOMAIN edits /\ edits[x].via = "card" /\ OtherMails(x)
            /\ queue'[x] = "refused"
  BY <1>3, <1>4 DEF QueueOK, OtherMails
<1> QED
  BY <1>1, <1>2, <1>5 DEF TypeInv, HubSpotOK, EditsOK, SqsOK, AceOK, RestOK

\* A step of the code is one of these.
LEMMA WorkEffect ==
    ASSUME TypeInv, NEW x \in Jobs, Work(x)
    PROVE  /\ TypeInv' /\ Others(x)
           /\ \/ CallUpdate(x) \/ Refetch(x)
              \/ x \in DOMAIN edits /\ edits[x].via = "deal" /\ Worker(x)
              \/ x \in DOMAIN edits /\ edits[x].via = "card" /\ Card(x)
              \/ x \in Handlers /\ (DeliverEvent(x) \/ Handler(x))
              \/ x \in Sweeps /\ Sweep(x)
<1>1. x \in DOMAIN edits => edits[x].via \in {"deal", "card"}
  BY EditTyped DEF TypeInv, HubSpotOK
<1> QED
  BY <1>1, CallEffect, RefetchEffect, WorkerEffect, CardEffect, HandlerEffect, SweepEffect DEF Work

\* Nothing happens.
LEMMA RestTyped == ASSUME TypeInv, UNCHANGED vars PROVE TypeInv'
  BY DEF TypeInv, HubSpotOK, EditsOK, SqsOK, QueueOK, JobOK, AceOK, RestOK, vars, hubspot, sqs, ace

\* The types hold initially.
LEMMA TypeInit == Init => TypeInv
<1> SUFFICES ASSUME Init PROVE TypeInv
  OBVIOUS
<1>1. HubSpotOK
  <2>1. edits \in Seq(EditRecord) /\ Len(edits) = 0
    BY DEF Init
  <2> QED
    BY <2>1, Constants, EmptyTyped, SMT DEF Init, HubSpotOK, EditsOK
<1>2. SqsOK
  BY Constants, SMT DEF Init, SqsOK, QueueOK
<1>3. JobOK
  BY EmptyTyped DEF Init, JobOK
<1>4. AceOK
  BY Constants, EmptyTyped, UpdateAssumption, SMT DEF Init, AceOK, UpdateAssumption
<1>5. RestOK
  BY Constants, SMT DEF Init, RestOK
<1> QED
  BY <1>1, <1>2, <1>3, <1>4, <1>5 DEF TypeInv

\* Every step keeps the types.
LEMMA TypeNext == ASSUME TypeInv, [Next]_vars PROVE TypeInv'
<1>1. ASSUME NEW x \in Jobs, Work(x) \/ Crash(x) PROVE TypeInv'
  BY <1>1, WorkEffect, CrashEffect
<1> QED
  BY <1>1, OutsideTyped, RestTyped DEF Next, Rest

\* The types of all variables hold, for any number of edits, handlers and
\* sweeps, whatever fails.
THEOREM UpdatesTyped == Spec => []TypeOK
<1>1. TypeInv => TypeOK
  BY TypeParts
<1> QED
  BY <1>1, TypeInit, TypeNext, PTL DEF Spec

-----------------------------------------------------------------------------
(* What LastModifiedDate is worth: as long as it is current, the payload    *)
(* an invocation has built differs from the opportunity in nothing but the  *)
(* properties the invocation is about.  A conflict renews the date and not  *)
(* the payload, so this holds up to the first conflict.                     *)

Mine(x)   == IF x \in DOMAIN edits THEN {Prop(x)} ELSE job[x].props
Building  == {"value", "read", "apply", "send"}

\* Before the opportunity is recorded nobody has anything to do with it.
UnsentInv ==
    submission # "recorded" =>
        /\ fresh = {} /\ events = 0 /\ pending = {}
        /\ \A x \in Jobs : job[x].pc \in {"idle", "resolve"}
NewInv     == \A k \in Edits \ DOMAIN edits : job[k].pc = "idle" /\ queue[k] = "none"
JobLock(x) ==
    /\ job[x].pc = "refetch" => job[x].tries # 0
    /\ x \in fresh /\ job[x].tries = 0 =>
         /\ job[x].pc \in {"value", "read", "apply"} => job[x].payload = aws
         /\ job[x].pc = "send" => \A p \in Props \ Mine(x) : job[x].payload[p] = aws[p]
LockInv    == TypeInv /\ UnsentInv /\ NewInv /\ \A x \in Jobs : JobLock(x)

\* An update whose payload was built on the fields that AWS still has changes
\* nothing but the properties it is about.
FirstTryEditsItsOwn ==
    \A x \in Jobs : At(x, "send") /\ job[x].tries = 0 /\ job'[x].pc = "sent"
        => \A p \in Props \ Mine(x) : aws'[p] = aws[p]

\* An invocation that ends has nothing of its own any more.
LEMMA NoJobIdle == NoJob.pc = "idle" /\ NoJob.tries = 0 /\ NoJob.props = {} /\ NoJob.stage = 0
  BY DEF NoJob

\* A step of one invocation.
LEMMA LockStep ==
    ASSUME LockInv, TypeInv', NEW x \in Jobs, Others(x), edits' = edits,
           x \in Edits => x \in DOMAIN edits,
           \A k \in Edits \ DOMAIN edits : queue'[k] = queue[k],
           \A y \in Jobs \ {x} : y \in fresh' => y \in fresh,
           aws' = aws \/ fresh' = {},
           submission' = submission,
           submission # "recorded" =>
              fresh' = {} /\ events' = 0 /\ pending' = {} /\ job'[x].pc \in {"idle", "resolve"},
           JobLock(x)'
    PROVE  LockInv'
<1>1. UnsentInv'
  BY DEF LockInv, UnsentInv, Others
<1>2. NewInv'
  BY Constants DEF LockInv, NewInv, Others
<1>3. ASSUME NEW y \in Jobs \ {x} PROVE JobLock(y)'
  <2>1. job'[y] = job[y] /\ Mine(y)' = Mine(y) /\ JobLock(y)
    BY <1>3 DEF Others, Mine, Prop, LockInv
  <2>2. CASE aws' = aws
    BY <1>3, <2>1, <2>2 DEF JobLock
  <2>3. CASE fresh' = {}
    BY <1>3, <2>1, <2>3 DEF JobLock
  <2> QED
    BY <2>2, <2>3
<1> QED
  BY <1>1, <1>2, <1>3 DEF LockInv

\* UpdateOpportunity, and the second read of LastModifiedDate.
LEMMA LockCall == ASSUME LockInv, NEW x \in Jobs, CallUpdate(x) \/ Refetch(x) PROVE LockInv'
<1>0. TypeInv /\ (x \in Edits => x \in DOMAIN edits \/ At(x, "idle")) /\ JobLock(x)
  BY DEF LockInv, NewInv, At
<1>1. CASE CallUpdate(x)
  <2>1. /\ TypeInv' /\ Others(x) /\ At(x, "send") /\ UNCHANGED <<edits, queue, pending, submission>>
        /\ job'[x].pc \notin Building
        /\ job'[x].pc = "refetch" => job'[x].tries # 0
        /\ (UNCHANGED <<aws, fresh>>) \/ fresh' = {}
    BY <1>0, <1>1, CallEffect DEF hubspot, sqs, Building
  <2>2. submission = "recorded"
    BY <2>1 DEF LockInv, UnsentInv, At
  <2>3. JobLock(x)'
    BY <2>1 DEF JobLock, Building
  <2> QED
    BY <1>0, <2>1, <2>2, <2>3, LockStep DEF At
<1>2. CASE Refetch(x)
  <2>1. /\ TypeInv' /\ Others(x) /\ At(x, "refetch") /\ fresh' = fresh \cup {x}
        /\ UNCHANGED <<edits, queue, pending, submission, aws, events>>
        /\ job'[x].pc = "send" /\ job'[x].tries = job[x].tries
    BY <1>0, <1>2, RefetchEffect DEF hubspot, sqs
  <2>2. submission = "recorded"
    BY <2>1 DEF LockInv, UnsentInv, At
  <2>3. JobLock(x)'
    BY <1>0, <2>1 DEF JobLock, At
  <2> QED
    BY <1>0, <2>1, <2>2, <2>3, LockStep DEF At
<1> QED
  BY <1>1, <1>2

\* update_in_ace builds a payload of the fields it read and its own property.
LEMMA LockWorker == ASSUME LockInv, NEW k \in DOMAIN edits, Worker(k) PROVE LockInv'
<1>0. /\ TypeInv /\ JobLock(k) /\ k \in Jobs /\ k \in Edits /\ Mine(k) = {Prop(k)}
      /\ Prop(k) \in Props
      /\ job[k].payload \in [Props -> Value] /\ aws \in [Props -> Value]
  BY EditTyped, Constants DEF LockInv, Mine, TypeInv, HubSpotOK, JobOK, Job, AceOK
<1>1. /\ TypeInv' /\ Others(k) /\ OtherMails(k)
      /\ UNCHANGED <<edits, submission, aws, review, events>>
      /\ \/ Receives(k) \/ Buries(k) \/ Resolves(k) \/ Gets(k) \/ Values(k) \/ Succeeds(k)
         \/ Parks(k) \/ Refuses(k) \/ Notes(k) \/ Requeues(k)
  BY <1>0, WorkerEffect
<1>2. Mine(k)' = {Prop(k)}
  BY <1>0, <1>1 DEF Mine, Prop
<1>3. ASSUME \A y \in Jobs \ {k} : y \in fresh' => y \in fresh, JobLock(k)',
             submission # "recorded" =>
                fresh' = {} /\ pending' = {} /\ job'[k].pc \in {"idle", "resolve"}
      PROVE  LockInv'
  <2>1. \A l \in Edits \ DOMAIN edits : queue'[l] = queue[l]
    BY <1>1 DEF OtherMails
  <2>2. submission # "recorded" => events' = 0
    BY <1>1 DEF LockInv, UnsentInv
  <2> QED
    BY <1>0, <1>1, <1>3, <2>1, <2>2, LockStep
<1>4. submission # "recorded" => /\ fresh = {} /\ pending = {} /\ job[k].pc \in {"idle", "resolve"}
  BY <1>0 DEF LockInv, UnsentInv
<1>5. ASSUME UNCHANGED fresh, job'[k].pc \notin Building \cup {"refetch"},
             submission # "recorded" => pending' = {} /\ job'[k].pc \in {"idle", "resolve"}
      PROVE  LockInv'
  <2>1. JobLock(k)'
    BY <1>5 DEF JobLock, Building
  <2> QED
    BY <1>3, <1>4, <1>5, <2>1
<1>6. CASE Receives(k)
  BY <1>4, <1>5, <1>6 DEF Receives, Goes, Building
<1>7. CASE Buries(k)
  BY <1>4, <1>5, <1>7 DEF Buries, At, Building
<1>8. CASE Resolves(k)
  BY <1>4, <1>5, <1>8, NoJobIdle DEF Resolves, Goes, Ended, Building
<1>9. ASSUME NEW f \in [Props -> Value], NEW v, Puts(k, f, v)
      PROVE  /\ job'[k].pc = "send" /\ job'[k].tries = job[k].tries
             /\ \A p \in Props \ {Prop(k)} : job'[k].payload[p] = f[p]
  BY <1>9 DEF Puts
<1>10. CASE Gets(k)
  <2>1. submission = "recorded"
    BY <1>4, <1>10 DEF Gets, At
  <2>2. CASE job'[k].pc = "value" /\ job'[k].payload = aws
    <3>1. JobLock(k)'
      BY <1>1, <2>2 DEF JobLock
    <3> QED
      BY <1>3, <1>10, <2>1, <3>1 DEF Gets
  <2>3. CASE Puts(k, aws, edits[k].value)
    <3>1. JobLock(k)'
      BY <1>0, <1>1, <1>2, <1>9, <2>3 DEF JobLock
    <3> QED
      BY <1>3, <1>10, <2>1, <3>1 DEF Gets
  <2>4. CASE Ended(k, "skipped")
    <3>1. JobLock(k)'
      BY <2>4, NoJobIdle DEF JobLock, Ended, Building
    <3> QED
      BY <1>3, <1>10, <2>1, <3>1 DEF Gets
  <2> QED
    BY <1>10, <2>2, <2>3, <2>4 DEF Gets
<1>11. CASE Values(k)
  <2>1. submission = "recorded" /\ fresh' = fresh /\ job[k].pc \in Building /\ job[k].pc # "refetch"
    BY <1>4, <1>11 DEF Values, At, Building
  <2>2. ASSUME NEW v, Puts(k, job[k].payload, v) PROVE LockInv'
    <3>1. k \in fresh /\ job[k].tries = 0 => job[k].payload = aws
      BY <1>0, <1>11 DEF JobLock, Values, At
    <3>2. JobLock(k)'
      BY <1>0, <1>1, <1>2, <1>9, <2>1, <2>2, <3>1 DEF JobLock
    <3> QED
      BY <1>3, <2>1, <3>2
  <2>3. CASE Ended(k, "skipped")
    BY <1>5, <2>1, <2>3, NoJobIdle DEF Ended, Building
  <2> QED
    BY <1>11, <2>2, <2>3 DEF Values
<1>12. CASE Succeeds(k)
  BY <1>4, <1>5, <1>12, NoJobIdle DEF Succeeds, Ended, Building
<1>13. CASE Parks(k)
  BY <1>4, <1>5, <1>13 DEF Parks, Goes, At, Building
<1>16. CASE Refuses(k)
  BY <1>4, <1>5, <1>16 DEF Refuses, Goes, At, Building
<1>14. CASE Notes(k)
  BY <1>4, <1>5, <1>14, NoJobIdle DEF Notes, Ended, Building
<1>15. CASE Requeues(k)
  BY <1>4, <1>5, <1>15, NoJobIdle DEF Requeues, Building
<1> QED
  BY <1>1, <1>6, <1>7, <1>8, <1>10, <1>11, <1>12, <1>13, <1>14, <1>15, <1>16

\* handle_ace_event and the sweep.
LEMMA LockReconciler ==
    ASSUME LockInv, NEW r \in Handlers \cup Sweeps,
           \/ r \in Handlers /\ (DeliverEvent(r) \/ Handler(r))
           \/ r \in Sweeps /\ Sweep(r)
    PROVE  LockInv'
<1>0. /\ TypeInv /\ JobLock(r) /\ r \in Jobs /\ r \notin Edits /\ r \notin DOMAIN edits
      /\ Mine(r) = job[r].props
      /\ job[r].payload \in [Props -> Value] /\ aws \in [Props -> Value]
  BY EditTyped, Constants DEF LockInv, Mine, TypeInv, HubSpotOK, JobOK, Job, AceOK
<1>1. /\ TypeInv' /\ Others(r) /\ UNCHANGED <<edits, sqs, submission, aws, review>>
      /\ \/ Delivers(r) \/ Reads(r) \/ Compares(r) \/ Mirrors(r) \/ Starts(r) \/ Looks(r)
         \/ Applies(r) \/ Fails(r) \/ Rejects(r) \/ Clears(r) \/ Tells(r)
  BY <1>0, HandlerEffect, SweepEffect
<1>2. Mine(r)' = job'[r].props
  BY <1>0, <1>1 DEF Mine
<1>3. submission = "recorded"
  <2>1. SUFFICES ASSUME submission # "recorded" PROVE FALSE
    OBVIOUS
  <2>2. events = 0 /\ pending = {} /\ job[r].pc \in {"idle", "resolve"} /\ ~(events > 0)
    BY <1>0, <2>1, SMT DEF LockInv, UnsentInv
  <2> QED
    BY <1>1, <2>2 DEF Delivers, Reads, Compares, Mirrors, Starts, Looks, Applies, Fails, Rejects,
       Clears, Tells, At
<1>4. ASSUME \A y \in Jobs \ {r} : y \in fresh' => y \in fresh, JobLock(r)' PROVE LockInv'
  <2>1. \A l \in Edits \ DOMAIN edits : queue'[l] = queue[l]
    BY <1>1 DEF sqs
  <2> QED
    BY <1>0, <1>1, <1>3, <1>4, <2>1, LockStep
<1>5. ASSUME UNCHANGED fresh, job'[r].pc \notin Building \cup {"refetch"} PROVE LockInv'
  BY <1>4, <1>5 DEF JobLock, Building
<1>6. ASSUME Leaves(r), UNCHANGED fresh PROVE LockInv'
  BY <1>5, <1>6, NoJobIdle DEF Leaves, Goes, Building
<1>7. ASSUME Fetched(r), job'[r].pc # "refetch" PROVE LockInv'
  <2>1. JobLock(r)'
    BY <1>1, <1>7 DEF JobLock, Fetched
  <2> QED
    BY <1>4, <1>7, <2>1 DEF Fetched
<1>8. CASE Delivers(r)
  BY <1>7, <1>8 DEF Delivers
<1>9. CASE Reads(r)
  <2>1. CASE Goes(r, "compare")
    BY <1>5, <1>9, <2>1 DEF Reads, Goes, Building
  <2>2. CASE Takes(r, "apply")
    <3>1. /\ job'[r].payload = job[r].payload /\ job'[r].tries = job[r].tries
          /\ job'[r].pc = "apply" /\ At(r, "read") /\ fresh' = fresh
      BY <1>9, <2>2 DEF Reads, Takes
    <3>2. JobLock(r)'
      BY <1>0, <1>1, <3>1 DEF JobLock, At
    <3> QED
      BY <1>4, <3>1, <3>2
  <2> QED
    BY <1>9, <2>1, <2>2 DEF Reads
<1>10. CASE Starts(r)
  BY <1>5, <1>10 DEF Starts, Takes, Building
<1>11. CASE Looks(r)
  BY <1>5, <1>7, <1>11, NoJobIdle DEF Looks, Building
<1>12. CASE Applies(r)
  <2>1. CASE Goes(r, "drop") \/ Goes(r, "failed")
    BY <1>5, <1>12, <2>1 DEF Applies, Goes, Building
  <2>2. CASE /\ job'[r].pc = "send" /\ job'[r].tries = job[r].tries /\ job'[r].props = job[r].props
             /\ job'[r].payload = [p \in Props |-> IF p \in Given(r) THEN deal[p]
                                                   ELSE job[r].payload[p]]
    <3>1. \A p \in Props \ job[r].props : job'[r].payload[p] = job[r].payload[p]
      BY <2>2 DEF Given
    <3>2. At(r, "apply") /\ fresh' = fresh
      BY <1>12 DEF Applies
    <3>3. r \in fresh /\ job[r].tries = 0 => job[r].payload = aws
      BY <1>0, <3>2 DEF JobLock, At
    <3>4. JobLock(r)'
      BY <1>1, <1>2, <2>2, <3>1, <3>2, <3>3 DEF JobLock
    <3> QED
      BY <1>4, <3>2, <3>4
  <2> QED
    BY <1>12, <2>1, <2>2 DEF Applies
<1>13. CASE Fails(r) \/ Tells(r)
  BY <1>6, <1>13 DEF Fails, Tells
<1>14. CASE Rejects(r)
  BY <1>5, <1>14 DEF Rejects, Goes, Building
<1>15. CASE Clears(r)
  BY <1>5, <1>6, <1>15 DEF Clears, Goes, Building
<1>16. CASE Compares(r)
  BY <1>5, <1>16, NoJobIdle DEF Compares, Goes, Building
<1>17. CASE Mirrors(r)
  BY <1>5, <1>17, NoJobIdle DEF Mirrors, Building
<1> QED
  BY <1>1, <1>8, <1>9, <1>10, <1>11, <1>12, <1>13, <1>14, <1>15, <1>16, <1>17

\* The Update card overlays its form on the fields it read.
LEMMA LockCard == ASSUME LockInv, NEW k \in DOMAIN edits, Card(k) PROVE LockInv'
<1>0. /\ TypeInv /\ JobLock(k) /\ k \in Jobs /\ k \in Edits /\ Mine(k) = {Prop(k)}
      /\ Prop(k) \in Props
      /\ edits[k].value \in Value /\ aws \in [Props -> Value]
  BY EditTyped, Constants DEF LockInv, Mine, TypeInv, HubSpotOK, AceOK
<1>1. /\ TypeInv' /\ Others(k) /\ OtherMails(k)
      /\ UNCHANGED <<edits, receives, pending, submission, aws, review, events>>
      /\ FormGets(k) \/ FormDone(k) \/ FormEnds(k)
  BY <1>0, CardEffect
<1>2. Mine(k)' = {Prop(k)}
  BY <1>0, <1>1 DEF Mine, Prop
<1>3. submission = "recorded"
  BY <1>0, <1>1 DEF LockInv, UnsentInv, FormGets, FormDone, FormEnds, At
<1>4. ASSUME \A y \in Jobs \ {k} : y \in fresh' => y \in fresh, JobLock(k)' PROVE LockInv'
  <2>1. \A l \in Edits \ DOMAIN edits : queue'[l] = queue[l]
    BY <1>1 DEF OtherMails
  <2> QED
    BY <1>0, <1>1, <1>3, <1>4, <2>1, LockStep
<1>5. CASE FormGets(k)
  <2>1. \A p \in Props \ {Prop(k)} : job'[k].payload[p] = aws[p]
    BY <1>0, <1>5, DeltaTyped DEF FormGets
  <2>2. JobLock(k)'
    BY <1>1, <1>2, <1>5, <2>1 DEF JobLock, FormGets
  <2> QED
    BY <1>4, <1>5, <2>2 DEF FormGets
<1>6. CASE FormDone(k) \/ FormEnds(k)
  <2>1. fresh' = fresh /\ job'[k].pc = "idle"
    BY <1>6, NoJobIdle DEF FormDone, FormEnds, Ended
  <2>2. JobLock(k)'
    BY <2>1 DEF JobLock
  <2> QED
    BY <1>4, <2>1, <2>2
<1> QED
  BY <1>1, <1>5, <1>6

\* An invocation dies.
LEMMA LockCrash == ASSUME LockInv, NEW x \in Jobs, Crash(x) PROVE LockInv'
<1>1. /\ TypeInv' /\ Others(x) /\ job'[x] = NoJob /\ job[x].pc # "idle"
      /\ UNCHANGED <<edits, pending, submission, aws, fresh, events>>
      /\ \/ UNCHANGED queue
         \/ x \in DOMAIN edits /\ OtherMails(x)
  BY CrashEffect DEF LockInv, hubspot, ace
<1>2. x \in Edits => x \in DOMAIN edits
  BY <1>1 DEF LockInv, NewInv
<1>3. \A k \in Edits \ DOMAIN edits : queue'[k] = queue[k]
  BY <1>1 DEF OtherMails
<1>4. JobLock(x)' /\ job'[x].pc = "idle"
  BY <1>1, NoJobIdle DEF JobLock
<1>5. submission # "recorded" => fresh' = {} /\ events' = 0 /\ pending' = {}
  BY <1>1 DEF LockInv, UnsentInv
<1> QED
  BY <1>1, <1>2, <1>3, <1>4, <1>5, LockStep

\* A new edit is nobody's yet.
LEMMA LockEdit ==
    ASSUME LockInv, TypeInv', NEW p \in Props, NEW v \in Value, NEW via \in {"deal", "card"},
           Len(edits) + 1 \in Edits,
           edits' = Append(edits, [prop |-> p, value |-> v, via |-> via]),
           \A k \in Edits \ {Len(edits) + 1} : queue'[k] = queue[k],
           \/ job' = job
           \/ /\ \A y \in Jobs \ {Len(edits) + 1} : job'[y] = job[y]
              /\ job'[Len(edits) + 1].pc = "form" /\ submission = "recorded",
           UNCHANGED <<pending, submission, aws, fresh, events>>
    PROVE  LockInv'
<1>0. PICK k : k = Len(edits) + 1
  OBVIOUS
<1>1. /\ DOMAIN edits' = DOMAIN edits \cup {k} /\ k \notin DOMAIN edits
      /\ \A l \in DOMAIN edits : edits'[l] = edits[l]
  BY <1>0, EditAdded DEF LockInv, TypeInv, HubSpotOK
<1>2. k \in Edits /\ k \in Jobs /\ job[k].pc = "idle"
  BY <1>1, Constants DEF LockInv, NewInv
<1>3. \A y \in Jobs \ {k} : job'[y] = job[y]
  BY <1>0
<1>4. job'[k].pc \in {"idle", "form"}
  BY <1>0, <1>2
<1>5. JobLock(k)'
  BY <1>4 DEF JobLock
<1>6. ASSUME NEW y \in Jobs \ {k} PROVE JobLock(y)'
  <2>1. Mine(y)' = Mine(y) /\ JobLock(y)
    BY <1>1, <1>3, <1>6 DEF Mine, Prop, LockInv
  <2> QED
    BY <1>3, <1>6, <2>1 DEF JobLock
<1>7. NewInv'
  BY <1>0, <1>1, <1>3, Constants DEF LockInv, NewInv
<1>8. UnsentInv'
  BY <1>0, <1>2, <1>3 DEF LockInv, UnsentInv
<1>9. ASSUME NEW y \in Jobs PROVE JobLock(y)'
  BY <1>6, <1>5
<1> QED
  BY <1>7, <1>8, <1>9 DEF LockInv

\* BD, submit_to_ace, the reviewers, EventBridge and SQS.
LEMMA LockOutside ==
    ASSUME LockInv,
           \/ \E p \in Props, cleared \in BOOLEAN : Edit(p, cleared)
           \/ \E p \in Props : SubmitForm(p)
           \/ Submit \/ (\E status \in ReviewStatus : Review(status)) \/ LoseEvent
           \/ \E k \in Edits : Duplicate(k)
    PROVE  LockInv'
<1>0. TypeInv /\ TypeInv'
  BY OutsideTyped DEF LockInv
<1>1. ASSUME NEW p \in Props, NEW cleared \in BOOLEAN, Edit(p, cleared) PROVE LockInv'
  <2>1. PICK v \in Value : v = IF cleared THEN Empty ELSE Len(edits) + 1
    BY <1>1, Constants DEF Edit
  <2>2. /\ edits' = Append(edits, [prop |-> p, value |-> v, via |-> "deal"])
        /\ Len(edits) + 1 \in Edits /\ queue' = [queue EXCEPT ![Len(edits) + 1] = "visible"]
        /\ job' = job /\ UNCHANGED <<pending, submission, aws, fresh, events>>
    BY <1>1, <2>1 DEF Edit, ace
  <2>3. \A k \in Edits \ {Len(edits) + 1} : queue'[k] = queue[k]
    BY <1>0, <2>2 DEF TypeInv, SqsOK, QueueOK
  <2> QED
    BY <1>0, <2>2, <2>3, LockEdit
<1>2. ASSUME NEW p \in Props, SubmitForm(p) PROVE LockInv'
  <2>1. PICK k : k = Len(edits) + 1
    OBVIOUS
  <2>2. /\ edits' = Append(edits, [prop |-> p, value |-> k, via |-> "card"])
        /\ k \in Edits /\ queue' = [queue EXCEPT ![k] = "form"] /\ Goto(k, "form")
        /\ submission = "recorded" /\ UNCHANGED <<pending, submission, aws, fresh, events>>
    BY <1>2, <2>1 DEF SubmitForm, ace
  <2>3. \A l \in Edits \ {k} : queue'[l] = queue[l]
    BY <1>0, <2>2 DEF TypeInv, SqsOK, QueueOK
  <2>4. k \in Jobs /\ k \in Value
    BY <2>2, Constants
  <2>5. (\A y \in Jobs \ {k} : job'[y] = job[y]) /\ job'[k].pc = "form"
    BY <1>0, <2>2, <2>4, Moves DEF TypeInv, Steps
  <2> QED
    BY <1>0, <2>1, <2>2, <2>3, <2>4, <2>5, LockEdit
<1>3. CASE Submit
  <2>1. /\ UNCHANGED <<edits, queue, job, pending, fresh, events>> /\ submission # "recorded"
        /\ submission' # "recorded" => submission # "recorded"
    BY <1>3 DEF Submit, hubspot, sqs
  <2>2. fresh = {} /\ \A y \in Jobs : Mine(y)' = Mine(y)
    BY <2>1 DEF LockInv, UnsentInv, Mine, Prop
  <2>3. \A y \in Jobs : JobLock(y)'
    BY <2>1, <2>2 DEF LockInv, JobLock
  <2>4. UnsentInv' /\ NewInv'
    BY <2>1 DEF LockInv, UnsentInv, NewInv
  <2> QED
    BY <1>0, <2>3, <2>4 DEF LockInv
<1>4. ASSUME UNCHANGED <<edits, job, pending, submission, aws, fresh>>,
             \A k \in Edits \ DOMAIN edits : queue'[k] = queue[k],
             submission # "recorded" => events' = 0
      PROVE  LockInv'
  <2>1. \A y \in Jobs : JobLock(y)'
    BY <1>4 DEF LockInv, JobLock, Mine, Prop
  <2>2. UnsentInv' /\ NewInv'
    BY <1>4 DEF LockInv, UnsentInv, NewInv
  <2> QED
    BY <1>0, <2>1, <2>2 DEF LockInv
<1>5. ASSUME NEW status \in ReviewStatus, Review(status) PROVE LockInv'
  BY <1>4, <1>5 DEF Review, hubspot, sqs
<1>6. CASE LoseEvent
  <2>1. events # 0
    BY <1>0, <1>6, SMT DEF LoseEvent, TypeInv, AceOK
  <2>2. submission = "recorded"
    BY <2>1 DEF LockInv, UnsentInv
  <2> QED
    BY <1>4, <1>6, <2>2 DEF LoseEvent, hubspot, sqs
<1>7. ASSUME NEW k \in Edits, Duplicate(k) PROVE LockInv'
  <2>1. k \in DOMAIN edits
    BY <1>7 DEF LockInv, NewInv, Duplicate
  <2>2. \A l \in Edits \ DOMAIN edits : queue'[l] = queue[l]
    BY <1>0, <1>7, <2>1 DEF Duplicate, TypeInv, SqsOK, QueueOK
  <2> QED
    BY <1>4, <1>7, <2>2 DEF Duplicate, hubspot, ace, LockInv, UnsentInv
<1> QED
  BY <1>1, <1>2, <1>3, <1>5, <1>6, <1>7

\* Every step.
LEMMA LockNext == ASSUME LockInv, [Next]_vars PROVE LockInv'
<1>1. ASSUME NEW x \in Jobs, Work(x) PROVE LockInv'
  BY <1>1, WorkEffect, LockCall, LockWorker, LockCard, LockReconciler DEF LockInv
<1>2. CASE UNCHANGED vars
  <2>1. TypeInv'
    BY <1>2, RestTyped DEF LockInv
  <2>2. UNCHANGED <<edits, queue, job, pending, submission, aws, fresh, events>>
    BY <1>2 DEF vars, hubspot, sqs, ace
  <2>3. \A y \in Jobs : JobLock(y)'
    BY <2>2 DEF LockInv, JobLock, Mine, Prop
  <2>4. UnsentInv' /\ NewInv'
    BY <2>2 DEF LockInv, UnsentInv, NewInv
  <2> QED
    BY <2>1, <2>3, <2>4 DEF LockInv
<1> QED
  BY <1>1, <1>2, LockCrash, LockOutside DEF Next, Rest

\* Initially nobody is at work.
LEMMA LockInit == Init => LockInv
<1> SUFFICES ASSUME Init PROVE LockInv
  OBVIOUS
<1>1. TypeInv /\ fresh = {} /\ events = 0 /\ pending = {} /\ DOMAIN edits = {}
  BY TypeInit DEF Init
<1>2. \A x \in Jobs : job[x] = NoJob
  BY DEF Init
<1>3. \A x \in Jobs : job[x].pc = "idle"
  BY <1>2, NoJobIdle
<1>4. \A k \in Edits : queue[k] = "none"
  BY DEF Init
<1>5. UnsentInv /\ NewInv
  BY <1>1, <1>3, <1>4, Constants DEF UnsentInv, NewInv
<1>6. \A x \in Jobs : JobLock(x)
  BY <1>1, <1>3 DEF JobLock
<1> QED
  BY <1>1, <1>5, <1>6 DEF LockInv

\* Only UpdateOpportunity succeeds.
LEMMA OnlyCallSends ==
    ASSUME LockInv, [Next]_vars, NEW x \in Jobs, At(x, "send"), job'[x].pc = "sent"
    PROVE  CallUpdate(x) /\ x \in fresh /\ aws' = job[x].payload
<1>0. TypeInv
  BY DEF LockInv
<1>1. ASSUME NEW y \in Jobs, Work(y) \/ Crash(y), y # x PROVE FALSE
  BY <1>0, <1>1, WorkEffect, CrashEffect DEF Others, At
<1>2. ~Crash(x)
  BY <1>0, CrashEffect, NoJobIdle
<1>3. job' # job
  BY DEF At
<1>4. \A p \in Props : ~SubmitForm(p)
  <2>1. SUFFICES ASSUME NEW p \in Props, SubmitForm(p) PROVE FALSE
    OBVIOUS
  <2>2. PICK k : k = Len(edits) + 1
    OBVIOUS
  <2>3. k \in Edits /\ k \in Jobs /\ Goto(k, "form")
    BY <2>1, <2>2, Constants DEF SubmitForm
  <2> QED
    BY <1>0, <2>3, Moves DEF TypeInv, Steps, At
<1>5. Work(x)
  BY <1>1, <1>2, <1>3, <1>4 DEF Next, Rest, vars, Edit, Submit, Review, LoseEvent, Duplicate
<1>6. ~Refetch(x)
  BY <1>0, RefetchEffect
<1>7. ASSUME x \in DOMAIN edits, Worker(x) PROVE FALSE
  BY <1>0, <1>7, WorkerEffect, NoJobIdle DEF Receives, Buries, Resolves, Gets, Values, Succeeds,
     Parks, Refuses, Notes, Requeues, At
<1>8. ASSUME x \in DOMAIN edits, Card(x) PROVE FALSE
  BY <1>0, <1>8, CardEffect DEF FormGets, FormDone, FormEnds, At
<1>9. ASSUME NEW r \in Handlers \cup Sweeps, r = x,
             Delivers(r) \/ Reads(r) \/ Compares(r) \/ Mirrors(r) \/ Starts(r) \/ Looks(r)
             \/ Applies(r) \/ Fails(r) \/ Rejects(r) \/ Clears(r) \/ Tells(r)
      PROVE  FALSE
  BY <1>9 DEF Delivers, Reads, Compares, Mirrors, Starts, Looks, Applies, Fails, Rejects,
     Clears, Tells, At
<1>10. CallUpdate(x)
  BY <1>0, <1>5, <1>6, <1>7, <1>8, <1>9, WorkEffect, HandlerEffect, SweepEffect
<1> QED
  BY <1>0, <1>10, CallEffect

\* As long as it has met no conflict, an update changes at AWS what it is about
\* and nothing else, however many others write: UpdateOpportunity is a PUT of
\* every field, and LastModifiedDate stands for all of them.
THEOREM FirstTriesEditTheirOwn == Spec => [][FirstTryEditsItsOwn]_vars
<1>1. LockInv /\ [Next]_vars => [FirstTryEditsItsOwn]_vars
  <2> SUFFICES ASSUME LockInv, [Next]_vars, NEW x \in Jobs, At(x, "send"), job[x].tries = 0,
                      job'[x].pc = "sent", NEW p \in Props \ Mine(x)
               PROVE  aws'[p] = aws[p]
    BY DEF FirstTryEditsItsOwn
  <2>1. x \in fresh /\ aws' = job[x].payload
    BY OnlyCallSends
  <2>2. JobLock(x)
    BY DEF LockInv
  <2> QED
    BY <2>1, <2>2 DEF JobLock, At
<1> QED
  BY <1>1, LockInit, LockNext, PTL DEF Spec

-----------------------------------------------------------------------------
(* As long as no retry goes through: any number of invocations, handlers,   *)
(* sweeps and forms write, and none disturbs another.                       *)

\* An update that goes through at its first try changes the field of the edited
\* property and no other ("apply only the property-change delta on top"),
\* however many invocations run: what breaks it is the payload of a retry.
THEOREM OthersStayWithoutRetry == Spec => [][FirstTriesOnly => OtherFieldsStay]_vars
<1>1. LockInv /\ [Next]_vars => [FirstTriesOnly => OtherFieldsStay]_vars
  <2> SUFFICES ASSUME LockInv, [Next]_vars, FirstTriesOnly, NEW k \in Edits, At(k, "send"),
                      job'[k].pc = "sent", NEW p \in Props \ {Prop(k)}
               PROVE  aws'[p] = aws[p]
    BY DEF OtherFieldsStay
  <2>1. k \in Jobs /\ JobLock(k) /\ job[k].tries = 0
    BY Constants DEF LockInv, FirstTriesOnly
  <2>2. k \in fresh /\ aws' = job[k].payload
    BY <2>1, OnlyCallSends
  <2>3. k \in DOMAIN edits
    BY DEF LockInv, NewInv, At
  <2> QED
    BY <2>1, <2>2, <2>3 DEF JobLock, At, Mine
<1> QED
  BY <1>1, LockInit, LockNext, PTL DEF Spec

\* A property that is read from the deal, where nothing but its edits writes.
PlainProp(p) == p \in Refetched \ {NextSteps, Stage} /\ "no_read" \notin Faults

\* Whether an invocation can still write what it has: no update has succeeded
\* since it read the opportunity.
CanWrite(x) == x \in fresh /\ job[x].tries = 0 /\ job[x].pc = "send"
\* Its own update carries the last edit, and once that has succeeded so does
\* every other that can still succeed.
LastInv(p, k) ==
    /\ deal[p] = edits[k].value
    /\ At(k, "send") /\ job[k].tries = 0
         => edits[k].value # Empty /\ job[k].payload[p] = edits[k].value
    /\ queue[k] = "done" \/ At(k, "sent") =>
         /\ edits[k].value # Empty /\ aws[p] = edits[k].value
         /\ \A x \in Jobs : CanWrite(x) => job[x].payload[p] = edits[k].value
DoneInv(p) == LockInv /\ \A k \in Edits : Newest(k) /\ Prop(k) = p => LastInv(p, k)

\* What the proofs need of types and constants.
LEMMA DoneFacts ==
    ASSUME NEW p, PlainProp(p), LockInv
    PROVE  /\ TypeInv /\ p \in Props /\ p \in Refetched /\ p # NextSteps /\ p # Stage
           /\ ~Fault("no_read") /\ DOMAIN edits \subseteq Edits /\ Edits \subseteq Jobs
           /\ \A k \in DOMAIN edits : Prop(k) \in Props
           /\ aws \in [Props -> Value] /\ deal \in [Props -> Value]
           /\ \A x \in Jobs : job[x].payload \in [Props -> Value]
<1>1. TypeInv /\ DOMAIN edits \subseteq Edits /\ \A k \in DOMAIN edits : Prop(k) \in Props
  BY EditTyped DEF LockInv, TypeInv, HubSpotOK
<1>2. \A x \in Jobs : job[x].payload \in [Props -> Value]
  BY <1>1 DEF TypeInv, JobOK, Job
<1> QED
  BY <1>1, <1>2, Constants DEF PlainProp, Fault, TypeInv, HubSpotOK, AceOK

\* A step of one invocation, other than a successful update.
LEMMA DoneStep ==
    ASSUME NEW p, PlainProp(p), DoneInv(p), LockInv', NEW x \in Jobs, edits' = edits, aws' = aws,
           deal'[p] = deal[p], Others(x),
           \A y \in Jobs \ {x} : y \in fresh' => y \in fresh,
           \A k \in Edits \ {x} : queue'[k] = queue[k],
           x \in Edits =>
             (queue'[x] = "done" \/ job'[x].pc = "sent" => queue[x] = "done" \/ job[x].pc = "sent"),
           \A k \in Edits : Newest(k) /\ Prop(k) = p /\ job'[x].pc = "send" /\ job'[x].tries = 0 =>
             /\ x = k => edits[k].value # Empty /\ job'[x].payload[p] = edits[k].value
             /\ (queue[k] = "done" \/ At(k, "sent")) /\ x \in fresh'
                  => job'[x].payload[p] = edits[k].value
    PROVE  DoneInv(p)'
<1>1. SUFFICES ASSUME NEW k \in Edits, Newest(k), Prop(k) = p PROVE LastInv(p, k)'
  BY DEF DoneInv, Newest, Prop
<1>2. LastInv(p, k) /\ k \in Jobs
  BY <1>1, Constants DEF DoneInv
<1>3. ASSUME job'[k].pc = "send", job'[k].tries = 0
      PROVE  edits[k].value # Empty /\ job'[k].payload[p] = edits[k].value
  <2>1. CASE k = x
    BY <1>1, <1>3, <2>1
  <2>2. CASE k # x
    BY <1>2, <1>3, <2>2 DEF Others, LastInv, At
  <2> QED
    BY <2>1, <2>2
<1>4. ASSUME queue'[k] = "done" \/ job'[k].pc = "sent"
      PROVE  /\ edits[k].value # Empty /\ aws[p] = edits[k].value
             /\ \A y \in Jobs : CanWrite(y)' => job'[y].payload[p] = edits[k].value
  <2>1. queue[k] = "done" \/ At(k, "sent")
    <3>1. CASE k = x
      BY <1>4, <3>1 DEF At
    <3>2. CASE k # x
      BY <1>2, <1>4, <3>2 DEF Others, At
    <3> QED
      BY <3>1, <3>2
  <2>2. ASSUME NEW y \in Jobs, CanWrite(y)' PROVE job'[y].payload[p] = edits[k].value
    <3>1. CASE y = x
      BY <1>1, <2>1, <2>2, <3>1 DEF CanWrite
    <3>2. CASE y # x
      BY <1>2, <2>1, <2>2, <3>2 DEF Others, LastInv, CanWrite
    <3> QED
      BY <3>1, <3>2
  <2> QED
    BY <1>2, <2>1, <2>2 DEF LastInv
<1> QED
  BY <1>2, <1>3, <1>4 DEF LastInv, At

\* update_in_ace.
LEMMA DoneWorker ==
    ASSUME NEW p, PlainProp(p), DoneInv(p), LockInv', NEW x \in DOMAIN edits, Worker(x)
    PROVE  DoneInv(p)'
<1>0. /\ TypeInv /\ x \in Edits /\ x \in Jobs /\ Prop(x) \in Props /\ JobLock(x) /\ p \in Props
      /\ p \in Refetched /\ p # NextSteps /\ ~Fault("no_read")
      /\ job[x].payload \in [Props -> Value] /\ aws \in [Props -> Value]
  BY DoneFacts DEF DoneInv, LockInv
<1>1. /\ Others(x) /\ OtherMails(x) /\ UNCHANGED <<edits, aws>>
      /\ \/ Receives(x) \/ Buries(x) \/ Resolves(x) \/ Gets(x) \/ Values(x) \/ Succeeds(x)
         \/ Parks(x) \/ Refuses(x) \/ Notes(x) \/ Requeues(x)
  BY <1>0, WorkerEffect
<1>2. deal'[p] = deal[p] /\ fresh' \subseteq fresh \cup {x}
  BY <1>0, <1>1 DEF Receives, Buries, Resolves, Gets, Values, Succeeds, Parks, Refuses, Notes,
     Requeues, NotedOnly
<1>3. queue'[x] = "done" \/ job'[x].pc = "sent" => queue[x] = "done" \/ job[x].pc = "sent"
  BY <1>1, NoJobIdle DEF Receives, Buries, Resolves, Gets, Puts, Values, Succeeds, Parks, Refuses,
     Notes, Requeues, Ended, Goes, At
<1>4. ASSUME NEW k \in Edits, Newest(k), Prop(k) = p, job'[x].pc = "send", job'[x].tries = 0
      PROVE  /\ x = k => edits[k].value # Empty /\ job'[x].payload[p] = edits[k].value
             /\ (queue[k] = "done" \/ At(k, "sent")) /\ x \in fresh'
                  => job'[x].payload[p] = edits[k].value
  <2>1. LastInv(p, k)
    BY <1>4 DEF DoneInv
  <2>2. Gets(x) \/ Values(x)
    BY <1>1, <1>4, NoJobIdle DEF Receives, Buries, Resolves, Succeeds, Parks, Refuses, Notes,
       Requeues, Ended, Goes, At
  <2>3. CASE Gets(x)
    <3>1. Prop(x) \notin Refetched /\ job'[x].payload = [aws EXCEPT ![Prop(x)] = edits[x].value]
      BY <1>4, <2>3, NoJobIdle DEF Gets, Puts, Ended
    <3>2. job'[x].payload[p] = aws[p]
      BY <1>0, <3>1
    <3> QED
      BY <1>0, <1>4, <2>1, <3>1, <3>2 DEF LastInv
  <2>4. CASE Values(x)
    <3>1. /\ Current(x) # Empty /\ job[x].tries = 0 /\ fresh' = fresh /\ job[x].pc = "value"
          /\ job'[x].payload = [job[x].payload EXCEPT ![Prop(x)] = Current(x)]
      BY <1>0, <1>4, <2>4, NoJobIdle DEF Values, Puts, Ended, At
    <3>2. CASE Prop(x) = p
      <4>1. job'[x].payload[p] = Current(x)
        BY <1>0, <3>1, <3>2
      <4>2. deal[p] = edits[k].value
        BY <2>1 DEF LastInv
      <4> QED
        BY <2>1, <3>1, <3>2, <4>1, <4>2 DEF Current, LastInv
    <3>3. CASE Prop(x) # p
      <4>1. job'[x].payload[p] = job[x].payload[p] /\ x # k
        BY <1>0, <1>4, <3>1, <3>3
      <4>2. x \in fresh => job[x].payload = aws
        BY <1>0, <3>1 DEF JobLock
      <4> QED
        BY <2>1, <3>1, <4>1, <4>2 DEF LastInv
    <3> QED
      BY <3>2, <3>3
  <2> QED
    BY <2>2, <2>3, <2>4
<1>5. \A k \in Edits \ {x} : queue'[k] = queue[k]
  BY <1>1 DEF OtherMails
<1> QED
  BY <1>0, <1>1, <1>2, <1>3, <1>4, <1>5, DoneStep

\* handle_ace_event and the sweep.
LEMMA DoneReconciler ==
    ASSUME NEW p, PlainProp(p), DoneInv(p), LockInv', NEW r \in Handlers \cup Sweeps,
           \/ r \in Handlers /\ (DeliverEvent(r) \/ Handler(r))
           \/ r \in Sweeps /\ Sweep(r)
    PROVE  DoneInv(p)'
<1>0. /\ TypeInv /\ r \in Jobs /\ r \notin Edits /\ JobLock(r) /\ p \in Props
      /\ p # NextSteps /\ p # Stage
      /\ job[r].payload \in [Props -> Value] /\ deal \in [Props -> Value]
  BY DoneFacts, Constants DEF DoneInv, LockInv
<1>1. /\ Others(r) /\ UNCHANGED <<edits, queue, aws>>
      /\ \/ Delivers(r) \/ Reads(r) \/ Compares(r) \/ Mirrors(r) \/ Starts(r) \/ Looks(r)
         \/ Applies(r) \/ Fails(r) \/ Rejects(r) \/ Clears(r) \/ Tells(r)
  BY <1>0, HandlerEffect, SweepEffect DEF sqs
<1>2. deal'[p] = deal[p] /\ fresh' \subseteq fresh \cup {r}
  BY <1>0, <1>1 DEF Delivers, Reads, Compares, Mirrors, Starts, Looks, Applies, Fails, Rejects,
     Clears, Tells, Fetched, NotedOnly
<1>3. ASSUME NEW k \in Edits, Newest(k), Prop(k) = p, job'[r].pc = "send", job'[r].tries = 0,
             queue[k] = "done" \/ At(k, "sent"), r \in fresh'
      PROVE  job'[r].payload[p] = edits[k].value
  <2>1. LastInv(p, k)
    BY <1>3 DEF DoneInv
  <2>2. Applies(r)
    BY <1>1, <1>3, NoJobIdle DEF Delivers, Reads, Compares, Mirrors, Starts, Looks, Fails,
       Rejects, Clears, Tells, Goes, Takes, Leaves
  <2>3. /\ job[r].tries = 0 /\ r \in fresh /\ job[r].pc = "apply"
        /\ job'[r].payload = [q \in Props |-> IF q \in Given(r) THEN deal[q]
                                              ELSE job[r].payload[q]]
    BY <1>3, <2>2 DEF Applies, Goes, At
  <2>4. job[r].payload = aws
    BY <1>0, <2>3 DEF JobLock
  <2>5. job'[r].payload[p] = IF p \in Given(r) THEN deal[p] ELSE job[r].payload[p]
    BY <1>0, <2>3
  <2> QED
    BY <1>3, <2>1, <2>4, <2>5 DEF LastInv
<1>4. \A k \in Edits : k # r
  BY <1>0
<1> QED
  BY <1>0, <1>1, <1>2, <1>3, <1>4, DoneStep

\* The Update card, on another property.
LEMMA DoneCard ==
    ASSUME NEW p, PlainProp(p), DoneInv(p), LockInv', NEW x \in DOMAIN edits, Prop(x) # p, Card(x)
    PROVE  DoneInv(p)'
<1>0. /\ TypeInv /\ x \in Edits /\ x \in Jobs /\ Prop(x) \in Props /\ p \in Props
      /\ aws \in [Props -> Value] /\ edits[x].value \in Value
  BY DoneFacts, EditTyped DEF DoneInv, LockInv, TypeInv, HubSpotOK
<1>1. /\ Others(x) /\ OtherMails(x) /\ UNCHANGED <<edits, aws>>
      /\ FormGets(x) \/ FormDone(x) \/ FormEnds(x)
  BY <1>0, CardEffect
<1>2. deal'[p] = deal[p] /\ fresh' \subseteq fresh \cup {x}
  BY <1>0, <1>1 DEF FormGets, FormDone, FormEnds
<1>3. queue'[x] = "done" \/ job'[x].pc = "sent" => queue[x] = "done" \/ job[x].pc = "sent"
  BY <1>1, NoJobIdle DEF FormGets, FormDone, FormEnds, Ended, At
<1>4. ASSUME NEW k \in Edits, Newest(k), Prop(k) = p, job'[x].pc = "send", job'[x].tries = 0
      PROVE  /\ x # k
             /\ queue[k] = "done" \/ At(k, "sent") => job'[x].payload[p] = edits[k].value
  <2>1. FormGets(x) /\ LastInv(p, k)
    BY <1>1, <1>4, NoJobIdle DEF FormDone, FormEnds, Ended, DoneInv
  <2>2. job'[x].payload[p] = aws[p]
    BY <1>0, <2>1, DeltaTyped DEF FormGets
  <2> QED
    BY <1>4, <2>1, <2>2 DEF LastInv
<1>5. \A k \in Edits \ {x} : queue'[k] = queue[k]
  BY <1>1 DEF OtherMails
<1> QED
  BY <1>0, <1>1, <1>2, <1>3, <1>4, <1>5, DoneStep

\* UpdateOpportunity, at its first try, and the second read of LastModifiedDate.
LEMMA DoneCall ==
    ASSUME NEW p, PlainProp(p), DoneInv(p), LockInv', NEW x \in Jobs,
           CallUpdate(x) \/ Refetch(x), FirstTriesOnly
    PROVE  DoneInv(p)'
<1>0. TypeInv /\ JobLock(x) /\ Edits \subseteq Jobs
  BY Constants DEF DoneInv, LockInv
<1>1. /\ Others(x) /\ UNCHANGED <<deal, edits, queue>>
      /\ job[x].pc \in {"send", "refetch"}
      /\ \/ /\ aws' = aws /\ fresh' \subseteq fresh \cup {x}
            /\ job'[x].pc \in {"locked", "refetch", "failed", "rejected", "send"}
            /\ job'[x].pc = "send" => job'[x].tries # 0
         \/ /\ At(x, "send") /\ job'[x].pc = "sent" /\ x \in fresh /\ aws' = job[x].payload
            /\ fresh' = {}
  BY <1>0, CallEffect, RefetchEffect DEF At, hubspot, sqs, JobLock
<1>2. CASE /\ aws' = aws /\ fresh' \subseteq fresh \cup {x}
           /\ job'[x].pc \in {"locked", "refetch", "failed", "rejected", "send"}
           /\ job'[x].pc = "send" => job'[x].tries # 0
  BY <1>1, <1>2, DoneStep
<1>3. CASE /\ At(x, "send") /\ job'[x].pc = "sent" /\ x \in fresh /\ aws' = job[x].payload
           /\ fresh' = {}
  <2>1. job[x].tries = 0
    BY <1>3 DEF FirstTriesOnly
  <2>2. ASSUME NEW k \in Edits, Newest(k), Prop(k) = p PROVE LastInv(p, k)'
    <3>1. LastInv(p, k) /\ k \in Jobs
      BY <1>0, <2>2 DEF DoneInv
    <3>2. k # x => job'[k] = job[k]
      BY <1>1, <3>1 DEF Others
    <3>3. job'[k].pc = "send" => k # x
      BY <1>3
    <3>4. ASSUME queue'[k] = "done" \/ job'[k].pc = "sent"
          PROVE  edits[k].value # Empty /\ aws'[p] = edits[k].value
      <4>1. CASE x = k
        BY <1>3, <2>1, <3>1, <4>1 DEF LastInv
      <4>2. CASE x # k
        <5>1. queue[k] = "done" \/ At(k, "sent")
          BY <1>1, <3>2, <3>4, <4>2 DEF At
        <5> QED
          BY <1>3, <2>1, <3>1, <5>1 DEF LastInv, CanWrite, At
      <4> QED
        BY <4>1, <4>2
    <3>5. \A y \in Jobs : ~CanWrite(y)'
      BY <1>3 DEF CanWrite
    <3> QED
      BY <1>1, <3>1, <3>2, <3>3, <3>4, <3>5 DEF LastInv, At
  <2> QED
    BY <1>1, <2>2 DEF DoneInv, Newest, Prop
<1> QED
  BY <1>1, <1>2, <1>3

\* BD, submit_to_ace, the reviewers, EventBridge and SQS.
LEMMA DoneOutside ==
    ASSUME NEW p, PlainProp(p), DoneInv(p), LockInv', FromDeal(p)',
           \/ \E q \in Props, cleared \in BOOLEAN : Edit(q, cleared)
           \/ \E q \in Props : SubmitForm(q)
           \/ Submit \/ (\E status \in ReviewStatus : Review(status)) \/ LoseEvent
           \/ \E k \in Edits : Duplicate(k)
    PROVE  DoneInv(p)'
<1>0. /\ TypeInv /\ EditsOK /\ NewInv /\ Edits \subseteq Jobs /\ Edits \subseteq Nat
      /\ DOMAIN edits \subseteq Edits /\ deal \in [Props -> Value] /\ JobOK /\ p \in Props
      /\ queue \in [Edits -> {"none", "visible", "form", "done", "skipped", "parked", "dropped",
                              "refused", "dlq"}]
  BY DoneFacts, SMT DEF DoneInv, LockInv, TypeInv, HubSpotOK, SqsOK, QueueOK, Edits
<1>1. ASSUME NEW q \in Props, NEW v \in Value, NEW via \in {"deal", "card"}, NEW k \in Edits,
             k = Len(edits) + 1,
             edits' = Append(edits, [prop |-> q, value |-> v, via |-> via]),
             queue' \in {[queue EXCEPT ![k] = "visible"], [queue EXCEPT ![k] = "form"]},
             Others(k), job'[k].pc \in {"idle", "form"}, UNCHANGED <<aws, fresh>>,
             via = "deal" => deal' = [deal EXCEPT ![q] = v],
             via = "card" => deal' = deal
      PROVE  DoneInv(p)'
  <2>1. /\ DOMAIN edits' = DOMAIN edits \cup {k} /\ k \notin DOMAIN edits
        /\ \A l \in DOMAIN edits :
              edits'[l] = edits[l] /\ l < k /\ l \in Edits /\ Prop(l)' = Prop(l)
        /\ edits'[k].prop = q /\ edits'[k].value = v /\ edits'[k].via = via
    BY <1>0, <1>1, EditAdded DEF Prop
  <2>2. Prop(k)' = q /\ (q = p => via = "deal")
    BY <2>1 DEF Prop, FromDeal
  <2>3. \A l \in Edits \ {k} : queue'[l] = queue[l] /\ job'[l] = job[l]
    BY <1>0, <1>1 DEF Others
  <2>4. queue'[k] # "done"
    BY <1>0, <1>1
  <2>5. \A y \in Jobs : CanWrite(y)' => CanWrite(y) /\ job'[y] = job[y]
    BY <1>1 DEF CanWrite, Others
  <2>6. ASSUME NEW m \in Edits, Newest(m)', Prop(m)' = p PROVE LastInv(p, m)'
    <3>1. CASE m = k
      <4>1. deal'[p] = edits'[m].value
        BY <1>0, <1>1, <2>1, <2>2, <2>6, <3>1
      <4> QED
        BY <1>1, <2>4, <3>1, <4>1 DEF LastInv, At
    <3>2. CASE m # k
      <4>1. m \in DOMAIN edits /\ Prop(m) = p /\ q # p
        <5>1. m \in DOMAIN edits' /\ \A l \in DOMAIN edits' : Prop(l)' = Prop(m)' => l <= m
          BY <2>6 DEF Newest
        <5>2. m \in DOMAIN edits /\ k \in DOMAIN edits' /\ m < k /\ m \in Nat /\ k \in Nat
          BY <1>0, <2>1, <3>2, <5>1
        <5>3. ~(k <= m)
          BY <5>2, SMT
        <5> QED
          BY <2>1, <2>2, <2>6, <5>1, <5>2, <5>3
      <4>2. Newest(m)
        BY <2>1, <2>6, <4>1 DEF Newest
      <4>3. LastInv(p, m)
        BY <4>1, <4>2 DEF DoneInv
      <4>4. /\ deal'[p] = deal[p] /\ queue'[m] = queue[m] /\ job'[m] = job[m]
            /\ edits'[m] = edits[m]
        BY <1>0, <1>1, <2>1, <2>3, <3>2, <4>1
      <4> QED
        BY <1>1, <2>5, <4>3, <4>4 DEF LastInv, At
    <3> QED
      BY <3>1, <3>2
  <2> QED
    BY <2>6 DEF DoneInv
<1>2. ASSUME NEW q \in Props, NEW cleared \in BOOLEAN, Edit(q, cleared) PROVE DoneInv(p)'
  <2>1. PICK v \in Value : v = IF cleared THEN Empty ELSE Len(edits) + 1
    BY <1>2, Constants DEF Edit
  <2>2. PICK k : k = Len(edits) + 1
    OBVIOUS
  <2>3. /\ edits' = Append(edits, [prop |-> q, value |-> v, via |-> "deal"])
        /\ k \in Edits /\ queue' = [queue EXCEPT ![k] = "visible"]
        /\ deal' = [deal EXCEPT ![q] = v] /\ UNCHANGED <<job, aws, fresh>>
    BY <1>2, <2>1, <2>2 DEF Edit, ace
  <2>4. job'[k].pc = "idle" /\ Others(k)
    <3>1. k \notin DOMAIN edits
      BY <1>0, <2>2, <2>3, EditAdded
    <3> QED
      BY <1>0, <2>3, <3>1 DEF NewInv, Others
  <2> QED
    BY <1>1, <2>2, <2>3, <2>4
<1>3. ASSUME NEW q \in Props, SubmitForm(q) PROVE DoneInv(p)'
  <2>1. PICK k : k = Len(edits) + 1
    OBVIOUS
  <2>2. /\ edits' = Append(edits, [prop |-> q, value |-> k, via |-> "card"])
        /\ k \in Edits /\ k \in Value /\ queue' = [queue EXCEPT ![k] = "form"]
        /\ Goto(k, "form") /\ UNCHANGED <<deal, aws, fresh>>
    BY <1>3, <2>1, Constants DEF SubmitForm, ace
  <2>3. job'[k].pc = "form" /\ Others(k)
    BY <1>0, <2>2, Moves DEF Steps, Others
  <2> QED
    BY <1>1, <2>1, <2>2, <2>3
<1>4. ASSUME UNCHANGED <<edits, deal, job, fresh>>,
             aws' = aws \/ (aws' = deal /\ fresh = {}),
             \A k \in Edits : queue'[k] = queue[k] \/ queue'[k] = "visible"
      PROVE  DoneInv(p)'
  <2>1. ASSUME NEW m \in Edits, Newest(m), Prop(m) = p PROVE LastInv(p, m)'
    <3>1. LastInv(p, m) /\ (queue'[m] = "done" => queue[m] = "done")
      BY <1>4, <2>1 DEF DoneInv
    <3> QED
      BY <1>4, <3>1 DEF LastInv, CanWrite, At
  <2> QED
    BY <1>4, <2>1 DEF DoneInv, Newest, Prop
<1>5. ASSUME NEW k \in Edits, Duplicate(k) PROVE DoneInv(p)'
  BY <1>0, <1>4, <1>5 DEF Duplicate, hubspot, ace
<1>6. CASE Submit
  BY <1>4, <1>6 DEF Submit, hubspot, sqs, DoneInv, LockInv, UnsentInv
<1>7. CASE (\E status \in ReviewStatus : Review(status)) \/ LoseEvent
  BY <1>4, <1>7 DEF Review, LoseEvent, hubspot, sqs
<1> QED
  BY <1>2, <1>3, <1>5, <1>6, <1>7

\* Every step.
LEMMA DoneNext ==
    ASSUME NEW p, PlainProp(p), DoneInv(p), FromDeal(p), FromDeal(p)', [Next]_vars,
           [FirstTriesOnly]_vars
    PROVE  DoneInv(p)'
<1>0. TypeInv /\ LockInv' /\ DOMAIN edits \subseteq Edits
  BY LockNext, DoneFacts DEF DoneInv
<1>1. CASE UNCHANGED vars
  <2>1. UNCHANGED <<deal, edits, queue, job, aws, fresh>>
    BY <1>1 DEF vars, hubspot, sqs, ace
  <2>2. ASSUME NEW m \in Edits, Newest(m), Prop(m) = p PROVE LastInv(p, m)'
    <3>1. LastInv(p, m)
      BY <2>2 DEF DoneInv
    <3> QED
      BY <2>1, <3>1 DEF LastInv, CanWrite, At
  <2> QED
    BY <1>0, <2>1, <2>2 DEF DoneInv, Newest, Prop
<1>2. ASSUME NEW x \in Jobs, Work(x), ~UNCHANGED vars PROVE DoneInv(p)'
  <2>1. \A k \in DOMAIN edits : edits[k].via = "card" => Prop(k) # p
    BY DEF FromDeal
  <2>2. CASE CallUpdate(x) \/ Refetch(x)
    BY <1>0, <1>2, <2>2, DoneCall
  <2>3. CASE x \in DOMAIN edits /\ edits[x].via = "deal" /\ Worker(x)
    BY <1>0, <2>3, DoneWorker
  <2>4. CASE x \in DOMAIN edits /\ edits[x].via = "card" /\ Card(x)
    BY <1>0, <2>1, <2>4, DoneCard
  <2>5. CASE \/ x \in Handlers /\ (DeliverEvent(x) \/ Handler(x))
             \/ x \in Sweeps /\ Sweep(x)
    BY <1>0, <2>5, DoneReconciler
  <2> QED
    BY <1>0, <1>2, <2>2, <2>3, <2>4, <2>5, WorkEffect
<1>3. ASSUME NEW x \in Jobs, Crash(x) PROVE DoneInv(p)'
  <2>1. /\ Others(x) /\ job'[x].pc = "idle" /\ UNCHANGED <<deal, edits, aws, fresh>>
        /\ \A k \in Edits \ {x} : queue'[k] = queue[k]
        /\ x \in Edits => queue'[x] = queue[x] \/ queue'[x] = "refused"
    BY <1>0, <1>3, CrashEffect, NoJobIdle DEF hubspot, ace, OtherMails
  <2> QED
    BY <1>0, <2>1, DoneStep
<1>4. ASSUME Rest PROVE UNCHANGED vars
  BY <1>4 DEF Rest
<1> QED
  BY <1>0, <1>1, <1>2, <1>3, <1>4, DoneOutside DEF Next

\* Without the Update card every edit is one of the deal.
LEMMA DealOnly ==
    ASSUME NEW p, ~Cards, TypeInv, FromDeal(p), [Next]_vars PROVE FromDeal(p)'
<1>1. ASSUME UNCHANGED edits PROVE FromDeal(p)'
  BY <1>1 DEF FromDeal, Prop
<1>2. ASSUME NEW q \in Props, NEW cleared \in BOOLEAN, Edit(q, cleared) PROVE FromDeal(p)'
  <2>1. PICK v \in Value : v = IF cleared THEN Empty ELSE Len(edits) + 1
    BY <1>2, Constants DEF Edit
  <2>2. /\ Len(edits) + 1 \in Edits
        /\ edits' = Append(edits, [prop |-> q, value |-> v, via |-> "deal"])
    BY <1>2, <2>1 DEF Edit
  <2>3. EditsOK
    BY DEF TypeInv, HubSpotOK
  <2> QED
    BY <2>2, <2>3, EditAdded DEF FromDeal, Prop
<1>3. CASE \E x \in Jobs : Work(x)
  BY <1>1, <1>3 DEF Work, hubspot, CallUpdate, Refetch, Worker, Receive, Resolve, GetCurrent,
     RefetchValue, Updated, Park, ParkNote, Dropped, Requeue, DeadLetter, Card, FormGet,
     FormApplied, FormRefused, DeliverEvent, Handler, Reconciler, ReadPending, Apply, ReplayFails,
     ReplayRejected, ClearPending, SuccessNote, Compare, Mirror, Sweep, StartSweep, SweepGet
<1>4. CASE \E x \in Jobs : Crash(x)
  BY <1>1, <1>4 DEF Crash, hubspot
<1>5. CASE \/ Submit \/ (\E status \in ReviewStatus : Review(status)) \/ LoseEvent
           \/ \E k \in Edits : Duplicate(k)
  BY <1>1, <1>5 DEF Submit, Review, LoseEvent, Duplicate, hubspot
<1>6. CASE UNCHANGED vars
  BY <1>1, <1>6 DEF vars, hubspot
<1>7. ASSUME NEW q \in Props, SubmitForm(q) PROVE FALSE
  BY <1>7 DEF SubmitForm
<1>8. Rest => UNCHANGED vars
  BY DEF Rest
<1> QED
  BY <1>2, <1>3, <1>4, <1>5, <1>6, <1>7, <1>8 DEF Next

\* There is no edit at the start.
LEMMA DoneInit == ASSUME NEW p, Init PROVE DoneInv(p)
<1>1. DOMAIN edits = {}
  BY DEF Init
<1> QED
  BY <1>1, LockInit DEF DoneInv, Newest

\* An edit of a property that update_in_ace reads from the deal is at AWS when
\* its message is done, and stays there until the next edit of the property,
\* whoever else runs: older edits delivered late or again, handlers, sweeps and
\* forms of other properties, through crashes and refusals.  What can break it
\* is a retry after a conflict, which sends what was read before.
THEOREM DoneEditsAreAtAws ==
    ASSUME NEW p, PlainProp(p)
    PROVE  Spec /\ []FromDeal(p) /\ [][FirstTriesOnly]_vars => []DoneIsAtAws(p)
<1>1. DoneInv(p) => DoneIsAtAws(p)
  BY DEF DoneInv, LastInv, DoneIsAtAws
<1>2. Init => DoneInv(p)
  BY DoneInit
<1>3. DoneInv(p) /\ FromDeal(p) /\ FromDeal(p)' /\ [Next]_vars /\ [FirstTriesOnly]_vars
        => DoneInv(p)'
  BY DoneNext
<1> QED
  BY <1>1, <1>2, <1>3, PTL DEF Spec

-----------------------------------------------------------------------------
(* One edit, which any number of handlers and sweeps may replay: what is    *)
(* parked stays parked until AWS has it.                                    *)

OneEdit   == MaxEdits = 1
\* The integration itself writes nothing over the edited property, AWS refuses
\* the update for the review alone, and the parked property reaches the row.
OnlyBusy  == /\ NextSteps \notin Props /\ Stage \notin Props
             /\ "reject" \notin Faults /\ "no_write" \notin Faults

Has(k)      == aws[Prop(k)] = edits[k].value
Parkable(k) == edits[k].via = "deal" /\ edits[k].value # Empty
Kept(k)     == Prop(k) \in pending \/ Has(k)
\* Whoever writes, writes the edit; whoever has parked properties in hand has
\* this one.
OneJob(x, k) ==
    /\ job[x].props \subseteq {Prop(k)} /\ (job[x].props # {} => Parkable(k))
    /\ job[x].pc \in {"send", "refetch"} => job[x].payload[Prop(k)] = edits[k].value
    /\ job[x].pc \in {"send", "refetch", "locked"} => edits[k].value # Empty
    /\ job[x].pc = "sent" => Has(k)
    /\ job[x].pc = "park_note" => x = k /\ Kept(k)
    /\ job[x].pc = "apply" \/ (x \in Sweeps /\ job[x].pc = "get") => job[x].props # {}
    /\ (job[x].pc = "rejected" => x = k) /\ job[x].pc # "drop"
OneRow(k) ==
    /\ pending \subseteq {Prop(k)} /\ (pending # {} => Parkable(k))
    /\ edits[k].via = "deal" => deal[Prop(k)] = edits[k].value
    /\ edits[k].via = "card" => edits[k].value # Empty /\ submission = "recorded"
OneMail(k) == (queue[k] = "done" => Has(k)) /\ (queue[k] = "parked" => Kept(k))
NoEdit ==
    DOMAIN edits = {} =>
      /\ pending = {}
      /\ \A x \in Jobs : job[x].props = {} /\ job[x].pc \in {"idle", "read", "compare"}
OneInv == /\ LockInv /\ NoEdit
          /\ \A k \in DOMAIN edits : OneRow(k) /\ OneMail(k) /\ \A x \in Jobs : OneJob(x, k)

\* All edits are one.
LEMMA OnlyOne ==
    ASSUME OneEdit, TypeInv
    PROVE  /\ \A k, l \in Edits : k = l
           /\ DOMAIN edits \subseteq Edits /\ \A k \in DOMAIN edits : Prop(k) \in Props
<1>1. \A k, l \in 1..1 : k = l
  BY SMT
<1> QED
  BY <1>1, EditTyped DEF Edits, OneEdit, TypeInv, HubSpotOK

\* A step of one invocation.
LEMMA OneStep ==
    ASSUME OneInv, OneEdit, LockInv', NEW x \in Jobs, NEW k \in DOMAIN edits, edits' = edits,
           submission' = submission, Others(x),
           Has(k) => Has(k)', Prop(k) \in pending => Prop(k) \in pending' \/ Has(k)',
           pending' = {} \/ pending' = pending \/ (pending' = {Prop(k)} /\ Parkable(k)),
           edits[k].via = "deal" => deal'[Prop(k)] = deal[Prop(k)],
           OneMail(k)', OneJob(x, k)'
    PROVE  OneInv'
<1>1. \A l \in DOMAIN edits : l = k
  BY OnlyOne DEF OneInv, LockInv
<1>2. Prop(k)' = Prop(k) /\ Parkable(k)' = Parkable(k) /\ edits'[k] = edits[k]
  BY DEF Prop, Parkable
<1>3. OneRow(k)'
  BY <1>2 DEF OneInv, OneRow
<1>4. Kept(k) => Kept(k)'
  BY <1>2 DEF Kept
<1>5. ASSUME NEW y \in Jobs \ {x} PROVE OneJob(y, k)'
  <2>1. job'[y] = job[y] /\ OneJob(y, k)
    BY <1>5 DEF OneInv, Others
  <2> QED
    BY <1>2, <1>4, <2>1 DEF OneJob
<1>6. NoEdit'
  BY DEF NoEdit
<1> QED
  BY <1>1, <1>3, <1>5, <1>6 DEF OneInv

\* A step of one invocation that does not concern the queue nor AWS.
LEMMA OneQuietStep ==
    ASSUME OneInv, OneEdit, LockInv', NEW x \in Jobs, NEW k \in DOMAIN edits, edits' = edits,
           submission' = submission, aws' = aws, queue' = queue, Others(x),
           pending' = pending \/ (pending' = {} /\ Has(k)),
           \A p \in Props : deal'[p] = deal[p],
           OneJob(x, k)'
    PROVE  OneInv'
<1>1. Prop(k)' = Prop(k) /\ (Has(k)' <=> Has(k)) /\ Prop(k) \in Props
  BY OnlyOne DEF Prop, Has, OneInv, LockInv
<1>2. OneMail(k)'
  BY <1>1 DEF OneInv, OneMail, Kept
<1> QED
  BY <1>1, <1>2, OneStep

\* A job that has nothing in hand has nothing to go wrong.
LEMMA OneJobFree ==
    ASSUME NEW x \in Jobs, NEW k \in DOMAIN edits, edits' = edits, job'[x].props = {},
           job'[x].pc \in {"idle", "resolve", "value", "failed", "form", "read", "compare", "note",
                           "patch"}
    PROVE  OneJob(x, k)'
  BY DEF OneJob

\* update_in_ace.
LEMMA OneWorker ==
    ASSUME OneInv, OneEdit, OnlyBusy, LockInv', NEW k \in DOMAIN edits, edits[k].via = "deal",
           Worker(k)
    PROVE  OneInv'
<1>0. /\ TypeInv /\ k \in Edits /\ k \in Jobs /\ Prop(k) \in Props /\ OneJob(k, k) /\ OneRow(k)
      /\ OneMail(k) /\ job[k].payload \in [Props -> Value] /\ aws \in [Props -> Value]
      /\ k \notin Sweeps
  BY OnlyOne, Constants DEF OneInv, LockInv, TypeInv, JobOK, Job, AceOK
<1>1. /\ Others(k) /\ UNCHANGED <<edits, submission, aws>>
      /\ \/ Receives(k) \/ Buries(k) \/ Resolves(k) \/ Gets(k) \/ Values(k) \/ Succeeds(k)
         \/ Parks(k) \/ Refuses(k) \/ Notes(k) \/ Requeues(k)
  BY <1>0, WorkerEffect
<1>2. Prop(k)' = Prop(k) /\ (Has(k)' <=> Has(k)) /\ (Parkable(k)' <=> Parkable(k))
      /\ edits'[k] = edits[k]
  BY <1>1 DEF Prop, Has, Parkable
<1>3. ASSUME \A p \in Props : deal'[p] = deal[p], pending' = pending, OneMail(k)', OneJob(k, k)'
      PROVE  OneInv'
  BY <1>0, <1>1, <1>2, <1>3, OneStep
<1>4. ASSUME job'[k] = NoJob PROVE OneJob(k, k)'
  BY <1>0, <1>1, <1>4, NoJobIdle, OneJobFree
<1>5. ASSUME pending' = pending, queue'[k] = queue[k] \/ queue'[k] \notin {"done", "parked"}
      PROVE  OneMail(k)'
  BY <1>0, <1>2, <1>5 DEF OneMail, Kept
<1>6. CASE Receives(k)
  <2>1. OneJob(k, k)'
    BY <1>0, <1>2, <1>6 DEF Receives, Goes, Locals, OneJob, Kept
  <2> QED
    BY <1>3, <1>5, <1>6, <2>1 DEF Receives
<1>7. CASE Buries(k)
  <2>1. OneJob(k, k)'
    BY <1>0, <1>2, <1>7 DEF Buries, OneJob, Kept
  <2> QED
    BY <1>3, <1>5, <1>7, <2>1 DEF Buries
<1>8. CASE Resolves(k)
  <2>1. CASE Goes(k, "get") /\ UNCHANGED queue
    <3>1. OneJob(k, k)'
      BY <1>0, <1>2, <2>1 DEF Goes, Locals, OneJob, Kept
    <3> QED
      BY <1>3, <1>5, <1>8, <2>1, <3>1 DEF Resolves
  <2>2. CASE Ended(k, "skipped")
    BY <1>3, <1>4, <1>5, <1>8, <2>2 DEF Resolves, Ended
  <2> QED
    BY <1>8, <2>1, <2>2 DEF Resolves
<1>9. ASSUME NEW f \in [Props -> Value], Puts(k, f, edits[k].value), UNCHANGED <<deal, pending>>
      PROVE  OneInv'
  <2>1. /\ job'[k].payload[Prop(k)] = edits[k].value /\ edits[k].value # Empty
        /\ job'[k].pc = "send" /\ job'[k].props = job[k].props /\ queue' = queue
    BY <1>0, <1>9 DEF Puts
  <2>2. OneJob(k, k)'
    BY <1>0, <1>2, <2>1 DEF OneJob
  <2> QED
    BY <1>3, <1>5, <1>9, <2>1, <2>2
<1>10. ASSUME Ended(k, "skipped"), UNCHANGED <<deal, pending>> PROVE OneInv'
  BY <1>3, <1>4, <1>5, <1>10 DEF Ended
<1>11. CASE Gets(k)
  <2>1. CASE job'[k].pc = "value" /\ job'[k].props = job[k].props /\ UNCHANGED queue
    <3>1. OneJob(k, k)'
      BY <1>0, <1>2, <2>1 DEF OneJob
    <3> QED
      BY <1>3, <1>5, <1>11, <2>1, <3>1 DEF Gets
  <2> QED
    BY <1>0, <1>9, <1>10, <1>11, <2>1 DEF Gets
<1>12. CASE Values(k)
  <2>1. Current(k) = edits[k].value
    BY <1>0 DEF Current, OneRow
  <2> QED
    BY <1>0, <1>9, <1>10, <1>12, <2>1 DEF Values
<1>13. CASE Succeeds(k)
  <2>1. OneMail(k)'
    BY <1>0, <1>2, <1>13 DEF Succeeds, Ended, At, OneJob, OneMail
  <2> QED
    BY <1>3, <1>4, <1>13, <2>1 DEF Succeeds, Ended
<1>14. CASE Parks(k)
  <2>1. Parkable(k)
    BY <1>0, <1>14 DEF Parks, At, OneJob, Parkable
  <2>2. pending' = pending \cup {Prop(k)}
    BY <1>14 DEF Parks, Fault, OnlyBusy
  <2>3. pending' = {Prop(k)}
    BY <1>0, <2>2 DEF OneRow
  <2>4. Kept(k)'
    BY <1>2, <2>3 DEF Kept
  <2>5. OneJob(k, k)'
    BY <1>0, <1>2, <1>14, <2>4 DEF Parks, Goes, Locals, OneJob
  <2>6. OneMail(k)'
    BY <1>0, <1>2, <1>14, <2>4 DEF Parks, OneMail
  <2> QED
    BY <1>0, <1>1, <1>2, <1>14, <2>1, <2>3, <2>5, <2>6, OneStep DEF Parks
<1>17. CASE Refuses(k)
  <2>1. OneJob(k, k)'
    BY <1>0, <1>2, <1>17 DEF Refuses, Goes, Locals, OneJob, Kept
  <2> QED
    BY <1>3, <1>5, <1>17, <2>1 DEF Refuses
<1>15. CASE Notes(k)
  <2>1. \/ Ended(k, "parked") /\ Kept(k)
        \/ Ended(k, "dropped")
    BY <1>0, <1>15 DEF Notes, At, OneJob
  <2>2. OneMail(k)'
    BY <1>2, <1>15, <2>1 DEF Notes, Ended, OneMail, Kept
  <2>3. \A p \in Props : deal'[p] = deal[p]
    BY <1>15 DEF Notes, NotedOnly, OnlyBusy
  <2> QED
    BY <1>3, <1>4, <1>15, <2>1, <2>2, <2>3 DEF Notes, Ended
<1>16. CASE Requeues(k)
  BY <1>3, <1>4, <1>5, <1>16 DEF Requeues
<1> QED
  BY <1>1, <1>6, <1>7, <1>8, <1>11, <1>12, <1>13, <1>14, <1>15, <1>16, <1>17

\* The Update card.
LEMMA OneCard ==
    ASSUME OneInv, OneEdit, LockInv', NEW k \in DOMAIN edits, edits[k].via = "card", Card(k)
    PROVE  OneInv'
<1>0. /\ TypeInv /\ k \in Edits /\ k \in Jobs /\ Prop(k) \in Props /\ OneJob(k, k) /\ OneRow(k)
      /\ OneMail(k) /\ aws \in [Props -> Value] /\ edits[k].value # Empty
  BY OnlyOne, Constants DEF OneInv, LockInv, TypeInv, AceOK, OneRow
<1>1. /\ Others(k) /\ UNCHANGED <<edits, pending, submission, aws>>
      /\ FormGets(k) \/ FormDone(k) \/ FormEnds(k)
  BY <1>0, CardEffect
<1>2. Prop(k)' = Prop(k) /\ (Has(k)' <=> Has(k)) /\ (Parkable(k)' <=> Parkable(k))
      /\ edits'[k] = edits[k]
  BY <1>1 DEF Prop, Has, Parkable
<1>3. ASSUME OneMail(k)', OneJob(k, k)' PROVE OneInv'
  BY <1>0, <1>1, <1>2, <1>3, OneStep
<1>4. CASE FormGets(k)
  <2>1. /\ job'[k].payload[Prop(k)] = edits[k].value /\ job'[k].pc = "send"
        /\ job'[k].props = job[k].props /\ queue' = queue
    BY <1>0, <1>4 DEF FormGets, Delta
  <2>2. OneJob(k, k)'
    BY <1>0, <1>2, <2>1 DEF OneJob
  <2>3. OneMail(k)'
    BY <1>0, <1>1, <1>2, <2>1 DEF OneMail, Kept
  <2> QED
    BY <1>3, <2>2, <2>3
<1>5. CASE FormDone(k) \/ FormEnds(k)
  <2>1. OneJob(k, k)'
    BY <1>0, <1>1, <1>5, NoJobIdle, OneJobFree DEF FormDone, FormEnds, Ended
  <2>2. OneMail(k)'
    BY <1>0, <1>2, <1>5 DEF FormDone, FormEnds, Ended, At, OneJob, OneMail
  <2> QED
    BY <1>3, <2>1, <2>2
<1> QED
  BY <1>1, <1>4, <1>5

\* UpdateOpportunity, and the second read of LastModifiedDate.
LEMMA OneCall ==
    ASSUME OneInv, OneEdit, OnlyBusy, LockInv', NEW x \in Jobs, NEW k \in DOMAIN edits,
           CallUpdate(x) \/ Refetch(x)
    PROVE  OneInv'
<1>0. TypeInv /\ Prop(k) \in Props /\ OneJob(x, k) /\ OneMail(k)
  BY OnlyOne DEF OneInv, LockInv
<1>1. /\ Others(x) /\ UNCHANGED <<deal, edits, queue, pending, submission>>
      /\ job'[x].payload = job[x].payload /\ job'[x].props = job[x].props
      /\ \/ aws' = aws /\ job'[x].pc \in {"locked", "refetch", "failed", "send"}
         \/ aws' = job[x].payload /\ job'[x].pc = "sent"
      /\ job[x].pc \in {"send", "refetch"}
  BY <1>0, CallEffect, RefetchEffect DEF Fault, OnlyBusy, At, hubspot, sqs
<1>2. Prop(k)' = Prop(k) /\ (Parkable(k)' <=> Parkable(k)) /\ edits'[k] = edits[k]
  BY <1>1 DEF Prop, Parkable
<1>3. (Has(k) => Has(k)') /\ (job'[x].pc = "sent" => Has(k)')
  BY <1>0, <1>1, <1>2 DEF Has, OneJob
<1>4. OneMail(k)'
  BY <1>0, <1>1, <1>2, <1>3 DEF OneMail, Kept
<1>5. OneJob(x, k)'
  BY <1>0, <1>1, <1>2, <1>3 DEF OneJob
<1> QED
  BY <1>0, <1>1, <1>2, <1>3, <1>4, <1>5, OneStep

\* handle_ace_event and the sweep.
LEMMA OneReconciler ==
    ASSUME OneInv, OneEdit, OnlyBusy, LockInv', NEW r \in Handlers \cup Sweeps,
           NEW k \in DOMAIN edits,
           \/ r \in Handlers /\ (DeliverEvent(r) \/ Handler(r))
           \/ r \in Sweeps /\ Sweep(r)
    PROVE  OneInv'
<1>0. /\ TypeInv /\ r \in Jobs /\ Prop(k) \in Props /\ OneJob(r, k) /\ OneRow(k)
      /\ deal \in [Props -> Value] /\ job[r].props \subseteq Props
  BY OnlyOne, Constants DEF OneInv, LockInv, TypeInv, HubSpotOK, JobOK, Job
<1>1. /\ Others(r) /\ UNCHANGED <<edits, queue, submission, aws>>
      /\ \/ Delivers(r) \/ Reads(r) \/ Compares(r) \/ Mirrors(r)
         \/ r \in Sweeps /\ (Starts(r) \/ Looks(r))
         \/ Applies(r) \/ Fails(r) \/ Rejects(r) \/ Clears(r) \/ Tells(r)
  BY <1>0, HandlerEffect, SweepEffect DEF sqs
<1>2. Prop(k)' = Prop(k) /\ (Has(k)' <=> Has(k)) /\ (Parkable(k)' <=> Parkable(k))
      /\ edits'[k] = edits[k]
  BY <1>1 DEF Prop, Has, Parkable
<1>3. ASSUME \A p \in Props : deal'[p] = deal[p], pending' = pending \/ (pending' = {} /\ Has(k)),
             OneJob(r, k)'
      PROVE  OneInv'
  BY <1>0, <1>1, <1>3, OneQuietStep
<1>4. ASSUME job'[r].props = job[r].props,
             job'[r].pc \in {"read", "compare", "note", "patch", "failed"}
      PROVE  OneJob(r, k)'
  BY <1>0, <1>2, <1>4 DEF OneJob
<1>5. ASSUME job'[r] = NoJob PROVE OneJob(r, k)'
  BY <1>0, <1>1, <1>5, NoJobIdle, OneJobFree
<1>6. ASSUME Leaves(r) PROVE OneJob(r, k)'
  BY <1>4, <1>5, <1>6 DEF Leaves, Goes, Locals
<1>7. NotedOnly => \A p \in Props : deal'[p] = deal[p]
  BY DEF NotedOnly, OnlyBusy
<1>8. ASSUME NEW s, Takes(r, s), pending # {}, s \in {"get", "apply"} PROVE OneJob(r, k)'
  BY <1>0, <1>2, <1>8 DEF Takes, OneJob, OneRow
<1>9. CASE Delivers(r)
  BY <1>3, <1>4, <1>9 DEF Delivers, Fetched
<1>10. CASE Reads(r)
  BY <1>3, <1>4, <1>8, <1>10 DEF Reads, Goes, Locals
<1>11. CASE Starts(r)
  BY <1>3, <1>8, <1>11 DEF Starts
<1>12. CASE r \in Sweeps /\ Looks(r)
  <2>1. CASE job'[r].pc = "apply" /\ Fetched(r)
    <3>1. OneJob(r, k)'
      BY <1>0, <1>2, <1>12, <2>1 DEF Looks, At, Fetched, OneJob
    <3> QED
      BY <1>3, <1>12, <3>1 DEF Looks
  <2> QED
    BY <1>3, <1>5, <1>12, <2>1 DEF Looks
<1>13. CASE Applies(r)
  <2>1. deal[Prop(k)] = edits[k].value /\ edits[k].value # Empty /\ Prop(k) \in job[r].props
    BY <1>0, <1>13 DEF Applies, At, OneJob, OneRow, Parkable
  <2>2. Prop(k) \in Given(r)
    BY <2>1 DEF Given
  <2>3. CASE /\ job'[r].pc = "send" /\ job'[r].props = job[r].props
             /\ job'[r].payload = [p \in Props |-> IF p \in Given(r) THEN deal[p]
                                                   ELSE job[r].payload[p]]
    <3>1. job'[r].payload[Prop(k)] = edits[k].value
      BY <1>0, <2>1, <2>2, <2>3
    <3>2. OneJob(r, k)'
      BY <1>0, <1>2, <2>1, <2>3, <3>1 DEF OneJob
    <3> QED
      BY <1>3, <1>13, <3>2 DEF Applies
  <2>4. CASE Goes(r, "failed")
    BY <1>3, <1>4, <1>13, <2>4 DEF Applies, Goes, Locals
  <2> QED
    BY <1>13, <2>2, <2>3, <2>4 DEF Applies
<1>14. CASE Fails(r)
  BY <1>3, <1>6, <1>14 DEF Fails
<1>15. CASE Rejects(r)
  BY <1>0, <1>15, OnlyOne, Constants DEF Rejects, At, OneJob
<1>16. CASE Clears(r)
  <2>1. At(r, "sent") /\ Goes(r, "note") /\ Has(k)
    BY <1>0, <1>16 DEF Clears, At, OneJob
  <2> QED
    BY <1>3, <1>4, <1>16, <2>1 DEF Clears, Goes, Locals
<1>17. CASE Tells(r)
  BY <1>3, <1>6, <1>7, <1>17 DEF Tells
<1>18. CASE Compares(r)
  BY <1>3, <1>4, <1>5, <1>18 DEF Compares, Goes, Locals
<1>19. CASE Mirrors(r)
  <2>1. \A p \in Props : deal'[p] = deal[p]
    BY <1>0, <1>19 DEF Mirrors, OnlyBusy
  <2> QED
    BY <1>3, <1>5, <1>19, <2>1 DEF Mirrors
<1> QED
  BY <1>1, <1>9, <1>10, <1>11, <1>12, <1>13, <1>14, <1>15, <1>16, <1>17, <1>18, <1>19

\* Before there is an edit nothing is written.
LEMMA OneBefore ==
    ASSUME OneInv, OnlyBusy, LockInv', DOMAIN edits = {}, NEW x \in Jobs, Work(x) \/ Crash(x)
    PROVE  OneInv'
<1>0. /\ TypeInv /\ pending = {} /\ job[x].props = {} /\ job[x].pc \in {"idle", "read", "compare"}
      /\ \A y \in Jobs : job[y].props = {} /\ job[y].pc \in {"idle", "read", "compare"}
  BY DEF OneInv, LockInv, NoEdit
<1>1. ASSUME edits' = edits, pending' = {}, Others(x), job'[x].props = {},
             job'[x].pc \in {"idle", "read", "compare"}
      PROVE  OneInv'
  BY <1>0, <1>1 DEF OneInv, NoEdit, Others
<1>2. CASE Crash(x)
  BY <1>0, <1>1, <1>2, CrashEffect, NoJobIdle DEF hubspot
<1>3. ASSUME x \in Handlers \cup Sweeps,
             \/ x \in Handlers /\ (DeliverEvent(x) \/ Handler(x))
             \/ x \in Sweeps /\ Sweep(x)
      PROVE  OneInv'
  <2>1. /\ Others(x) /\ edits' = edits
        /\ \/ Delivers(x) \/ Reads(x) \/ Compares(x) \/ Mirrors(x) \/ Starts(x) \/ Looks(x)
           \/ Applies(x) \/ Fails(x) \/ Rejects(x) \/ Clears(x) \/ Tells(x)
    BY <1>0, <1>3, HandlerEffect, SweepEffect
  <2>2. Delivers(x) \/ Reads(x) \/ Compares(x)
    BY <1>0, <2>1 DEF Mirrors, Starts, Looks, Applies, Fails, Rejects, Clears, Tells, At
  <2>3. CASE Delivers(x)
    BY <1>0, <1>1, <2>1, <2>3 DEF Delivers, Fetched
  <2>4. CASE Reads(x)
    BY <1>0, <1>1, <2>1, <2>4 DEF Reads, Goes, Locals
  <2>5. CASE Compares(x)
    BY <1>0, <1>1, <2>1, <2>5, NoJobIdle DEF Compares, OnlyBusy
  <2> QED
    BY <2>2, <2>3, <2>4, <2>5
<1>4. ~CallUpdate(x) /\ ~Refetch(x)
  BY <1>0 DEF CallUpdate, Refetch, At
<1> QED
  BY <1>0, <1>2, <1>3, <1>4, WorkEffect

\* BD, submit_to_ace, the reviewers, EventBridge and SQS.
LEMMA OneOutside ==
    ASSUME OneInv, OneEdit, LockInv',
           \/ \E p \in Props, cleared \in BOOLEAN : Edit(p, cleared)
           \/ \E p \in Props : SubmitForm(p)
           \/ Submit \/ (\E status \in ReviewStatus : Review(status)) \/ LoseEvent
           \/ \E k \in Edits : Duplicate(k)
    PROVE  OneInv'
<1>0. /\ TypeInv /\ EditsOK /\ deal \in [Props -> Value]
      /\ queue \in [Edits -> {"none", "visible", "form", "done", "skipped", "parked", "dropped",
                              "refused", "dlq"}]
  BY DEF OneInv, LockInv, TypeInv, HubSpotOK, SqsOK, QueueOK
<1>1. ASSUME NEW p \in Props, NEW v \in Value, NEW via \in {"deal", "card"}, NEW k \in Edits,
             k = Len(edits) + 1,
             edits' = Append(edits, [prop |-> p, value |-> v, via |-> via]),
             queue'[k] \in {"visible", "form"}, pending' = pending,
             \A x \in Jobs \ {k} : job'[x] = job[x],
             job'[k] = job[k] \/ (job'[k].pc = "form" /\ job'[k].props = job[k].props),
             via = "deal" => deal'[p] = v,
             via = "card" => v # Empty /\ submission' = "recorded"
      PROVE  OneInv'
  <2>1. /\ DOMAIN edits' = DOMAIN edits \cup {k} /\ k \notin DOMAIN edits
        /\ edits'[k].prop = p /\ edits'[k].value = v /\ edits'[k].via = via
    BY <1>0, <1>1, EditAdded
  <2>2. DOMAIN edits = {} /\ DOMAIN edits' = {k}
    BY <1>0, <1>1, <2>1, OnlyOne
  <2>3. pending' = {} /\ k \in Jobs
        /\ \A x \in Jobs : job[x].props = {} /\ job[x].pc \in {"idle", "read", "compare"}
    BY <1>1, <2>2, Constants DEF OneInv, NoEdit
  <2>4. Prop(k)' = p
    BY <2>1 DEF Prop
  <2>5. OneRow(k)' /\ OneMail(k)'
    BY <1>1, <2>1, <2>3, <2>4 DEF OneRow, OneMail
  <2>6. \A x \in Jobs : job'[x].props = {} /\ job'[x].pc \in {"idle", "read", "compare", "form"}
    BY <1>1, <2>3
  <2>7. ASSUME NEW x \in Jobs PROVE OneJob(x, k)'
    BY <2>6, <2>7 DEF OneJob
  <2> QED
    BY <2>2, <2>5, <2>7 DEF OneInv, NoEdit
<1>2. ASSUME NEW p \in Props, NEW cleared \in BOOLEAN, Edit(p, cleared) PROVE OneInv'
  <2>1. PICK k : k = Len(edits) + 1
    OBVIOUS
  <2>2. PICK v \in Value : v = IF cleared THEN Empty ELSE k
    BY <1>2, <2>1, Constants DEF Edit
  <2>3. /\ edits' = Append(edits, [prop |-> p, value |-> v, via |-> "deal"])
        /\ k \in Edits /\ queue' = [queue EXCEPT ![k] = "visible"]
        /\ deal' = [deal EXCEPT ![p] = v] /\ UNCHANGED <<job, pending>>
    BY <1>2, <2>1, <2>2 DEF Edit
  <2>4. queue'[k] = "visible" /\ deal'[p] = v
    BY <1>0, <2>3
  <2> QED
    BY <1>1, <2>1, <2>3, <2>4
<1>3. ASSUME NEW p \in Props, SubmitForm(p) PROVE OneInv'
  <2>1. PICK k : k = Len(edits) + 1
    OBVIOUS
  <2>2. /\ edits' = Append(edits, [prop |-> p, value |-> k, via |-> "card"])
        /\ k \in Edits /\ queue' = [queue EXCEPT ![k] = "form"] /\ Goto(k, "form")
        /\ submission' = "recorded" /\ pending' = pending
    BY <1>3, <2>1 DEF SubmitForm
  <2>3. queue'[k] = "form" /\ k \in Jobs /\ k \in Value /\ k # Empty
    BY <1>0, <2>2, Constants
  <2>4. /\ \A x \in Jobs \ {k} : job'[x] = job[x]
        /\ job'[k].pc = "form" /\ job'[k].props = job[k].props
    BY <1>0, <2>2, <2>3, Moves DEF TypeInv, Steps
  <2> QED
    BY <1>1, <2>1, <2>2, <2>3, <2>4
<1>4. ASSUME UNCHANGED <<edits, deal, job, pending>>,
             \/ aws' = aws /\ submission' = submission
             \/ submission # "recorded" /\ aws' \in {aws, deal},
             \A k \in Edits : queue'[k] = queue[k] \/ queue'[k] = "visible"
      PROVE  OneInv'
  <2>1. ASSUME NEW k \in DOMAIN edits
        PROVE  OneRow(k)' /\ OneMail(k)' /\ \A x \in Jobs : OneJob(x, k)'
    <3>0. /\ k \in Edits /\ Prop(k) \in Props /\ OneRow(k) /\ OneMail(k)
          /\ edits[k].via \in {"deal", "card"}
      BY <1>0, OnlyOne, EditTyped DEF OneInv
    <3>1. Prop(k)' = Prop(k) /\ (Parkable(k)' <=> Parkable(k)) /\ edits'[k] = edits[k]
      BY <1>4 DEF Prop, Parkable
    <3>2. Has(k) => Has(k)'
      BY <1>4, <3>0, <3>1 DEF Has, OneRow
    <3>3. Kept(k) => Kept(k)'
      BY <1>4, <3>1, <3>2 DEF Kept
    <3>4. OneMail(k)'
      BY <1>4, <3>0, <3>2, <3>3 DEF OneMail
    <3>5. OneRow(k)'
      BY <1>4, <3>0, <3>1 DEF OneRow
    <3>6. ASSUME NEW x \in Jobs PROVE OneJob(x, k)'
      <4>1. OneJob(x, k) /\ job'[x] = job[x]
        BY <1>4 DEF OneInv
      <4> QED
        BY <3>1, <3>2, <3>3, <4>1 DEF OneJob
    <3> QED
      BY <3>4, <3>5, <3>6
  <2>2. NoEdit'
    BY <1>4 DEF OneInv, NoEdit
  <2> QED
    BY <1>4, <2>1, <2>2 DEF OneInv
<1>5. CASE Submit
  BY <1>4, <1>5 DEF Submit, hubspot, sqs
<1>6. CASE (\E status \in ReviewStatus : Review(status)) \/ LoseEvent
  BY <1>4, <1>6 DEF Review, LoseEvent, hubspot, sqs
<1>7. ASSUME NEW k \in Edits, Duplicate(k) PROVE OneInv'
  BY <1>0, <1>4, <1>7 DEF Duplicate, hubspot, ace
<1> QED
  BY <1>2, <1>3, <1>5, <1>6, <1>7

\* Every step.
LEMMA OneNext == ASSUME OneInv, OneEdit, OnlyBusy, [Next]_vars PROVE OneInv'
<1>0. TypeInv /\ LockInv'
  BY LockNext DEF OneInv, LockInv
<1>1. ASSUME NEW x \in Jobs, Work(x), NEW k \in DOMAIN edits PROVE OneInv'
  <2>1. x \in DOMAIN edits => x = k
    BY <1>0, <1>1, OnlyOne
  <2> QED
    BY <1>0, <1>1, <2>1, WorkEffect, OneCall, OneWorker, OneCard, OneReconciler
<1>2. ASSUME NEW x \in Jobs, Crash(x), NEW k \in DOMAIN edits PROVE OneInv'
  <2>1. /\ Others(x) /\ job'[x] = NoJob /\ UNCHANGED <<deal, edits, pending, submission, aws>>
        /\ \A l \in DOMAIN edits : queue'[l] = queue[l] \/ queue'[l] = "refused"
    <3>1. DOMAIN edits \subseteq Edits
      BY <1>0, EditTyped DEF TypeInv, HubSpotOK
    <3> QED
      BY <1>0, <1>2, <3>1, CrashEffect DEF hubspot, ace, OtherMails
  <2>2. OneJob(x, k)'
    BY <2>1, NoJobIdle, OneJobFree
  <2>3. Prop(k)' = Prop(k) /\ (Has(k)' <=> Has(k))
    BY <2>1 DEF Prop, Has
  <2>4. OneMail(k)'
    BY <2>1, <2>3 DEF OneInv, OneMail, Kept
  <2> QED
    BY <1>0, <1>2, <2>1, <2>2, <2>3, <2>4, OneStep
<1>3. ASSUME NEW x \in Jobs, Work(x) \/ Crash(x) PROVE OneInv'
  <2>1. CASE DOMAIN edits = {}
    BY <1>0, <1>3, <2>1, OneBefore
  <2>2. ASSUME NEW k \in DOMAIN edits PROVE OneInv'
    BY <1>1, <1>2, <1>3, <2>2
  <2> QED
    BY <2>1, <2>2
<1>4. CASE UNCHANGED vars
  <2>1. UNCHANGED <<deal, edits, queue, job, pending, submission, aws>>
    BY <1>4 DEF vars, hubspot, sqs, ace
  <2>2. ASSUME NEW k \in DOMAIN edits
        PROVE  OneRow(k)' /\ OneMail(k)' /\ \A x \in Jobs : OneJob(x, k)'
    BY <2>1, <2>2 DEF OneInv, OneRow, OneMail, OneJob, Prop, Parkable, Has, Kept
  <2> QED
    BY <1>0, <2>1, <2>2 DEF OneInv, NoEdit
<1> QED
  BY <1>0, <1>3, <1>4, OneOutside DEF Next, Rest

\* Nothing is parked and nobody works at the start.
LEMMA OneInit == Init => OneInv
<1> SUFFICES ASSUME Init PROVE OneInv
  OBVIOUS
<1>1. (\A x \in Jobs : job[x] = NoJob) /\ DOMAIN edits = {} /\ pending = {}
  BY DEF Init
<1> QED
  BY <1>1, NoJobIdle, LockInit DEF OneInv, NoEdit

\* One edit, made on the deal or on the card, before or after the submission is
\* recorded, through any review: at rest AWS has it, unless it was skipped or
\* refused, whatever number of handlers and sweeps replay it, whoever of them
\* dies, and however often the message is delivered.
THEOREM AnEditReachesAws ==
    ASSUME OneEdit, OnlyBusy
    PROVE  Spec => []EditsLand
<1>1. OneInv => EditsLand
  <2> SUFFICES ASSUME OneInv, AtRest, NEW k \in Edits, queue[k] \in {"done", "parked"}, LastEdit(k)
               PROVE  aws[Prop(k)] = edits[k].value
    BY DEF EditsLand, Lands
  <2>1. k \in DOMAIN edits /\ pending = {}
    BY DEF LastEdit, EditsOf, AtRest
  <2> QED
    BY <2>1 DEF OneInv, OneMail, Kept, Has
<1> QED
  BY <1>1, OneInit, OneNext, PTL DEF Spec

-----------------------------------------------------------------------------
(* The stage of AWS on the deal: every change of the stage is announced, and *)
(* as long as the handler has not ended, either it has read the stage AWS    *)
(* has or an event is waiting for it.                                       *)

\* What is left out: no sweep clears what was parked since it looked, no form
\* writes to the deal late, and no event, with the handler that has taken it,
\* and no write to the deal is lost.
NoneLost ==
    /\ Sweeps = {} /\ ~Cards
    /\ Stage \in Props /\ NextSteps # Stage /\ MaxEvents > 0
    /\ Faults \cap {"no_write", "no_event"} = {}
HandlersLive == \A h \in Handlers : ~Crash(h)
\* No handler reads the stage while another has not mirrored the one it read.
MirrorsApart == \A g, h \in Handlers : job[g].pc # "idle" /\ job[h].pc # "idle" => g = h

NoneGone  == \A k \in Edits : queue[k] \notin {"skipped", "dropped", "dlq"}
Coming(k) == /\ k \in DOMAIN edits /\ Prop(k) = Stage
             /\ queue[k] = "visible" /\ job[k].pc \notin {"sent", "park_note"}
Settled   == deal[Stage] = aws[Stage] \/ events > 0 \/ Stage \in pending
             \/ \E k \in Edits : Coming(k)
StageInv  ==
    /\ LockInv
    /\ \A k \in DOMAIN edits : edits[k].via = "deal"
    /\ \A k \in Edits : job[k].pc # "idle" => queue[k] = "visible"
    /\ \A h \in Handlers : job[h].pc # "idle" => job[h].stage = aws[Stage] \/ events > 0
    /\ \A h \in Handlers : job[h].pc # "resolve"
    /\ (\A h \in Handlers : job[h].pc = "idle") /\ NoneGone => Settled

\* What the proofs need of types and constants.
LEMMA StageFacts ==
    ASSUME StageInv, NoneLost
    PROVE  /\ TypeInv /\ LockInv /\ Jobs = Edits \cup Handlers /\ Edits \cap Handlers = {}
           /\ DOMAIN edits \subseteq Edits /\ deal \in [Props -> Value] /\ events \in Nat
           /\ queue \in [Edits -> {"none", "visible", "form", "done", "skipped", "parked",
                                   "dropped",
                                   "refused", "dlq"}]
           /\ ~Fault("no_write")
<1>1. TypeInv /\ LockInv
  BY DEF StageInv, LockInv
<1>2. DOMAIN edits \subseteq Edits /\ deal \in [Props -> Value]
  BY <1>1, EditTyped DEF TypeInv, HubSpotOK
<1>3. events \in Nat
  BY <1>1, Constants, SMT DEF TypeInv, AceOK
<1> QED
  BY <1>1, <1>2, <1>3, Constants DEF TypeInv, SqsOK, QueueOK, NoneLost, Jobs, Fault

\* An event that AWS emits is there.
LEMMA Announced == ASSUME AceOK, NoneLost, Emit PROVE events' > 0
  BY Constants, SMT DEF AceOK, NoneLost, Emit

\* A step of one invocation of update_in_ace, which leaves AWS alone.
LEMMA StageStep ==
    ASSUME StageInv, NoneLost, LockInv', NEW k \in Edits, edits' = edits, aws' = aws,
           events' = events,
           Others(k), OtherMails(k), deal'[Stage] = deal[Stage], pending \subseteq pending',
           job'[k].pc # "idle" => queue'[k] = "visible",
           queue'[k] \notin {"skipped", "dropped", "dlq"} =>
              /\ queue[k] \notin {"skipped", "dropped", "dlq"}
              /\ Coming(k) => Coming(k)' \/ Stage \in pending'
    PROVE  StageInv'
<1>0. Jobs = Edits \cup Handlers /\ Edits \cap Handlers = {}
  BY StageFacts
<1>1. /\ \A y \in Edits \ {k} : job'[y] = job[y] /\ queue'[y] = queue[y]
      /\ \A h \in Handlers : job'[h] = job[h]
  BY <1>0 DEF Others, OtherMails
<1>2. ASSUME \A h \in Handlers : job'[h].pc = "idle", NoneGone' PROVE Settled'
  <2>1. Settled /\ (Coming(k) => Coming(k)' \/ Stage \in pending')
    BY <1>1, <1>2 DEF StageInv, NoneGone
  <2>2. \A l \in Edits \ {k} : Coming(l) => Coming(l)'
    BY <1>1 DEF Coming, Prop
  <2>3. (\E l \in Edits : Coming(l)) => (\E l \in Edits : Coming(l)') \/ Stage \in pending'
    BY <2>1, <2>2
  <2> QED
    BY <2>1, <2>3 DEF Settled
<1>3. \A l \in Edits : job'[l].pc # "idle" => queue'[l] = "visible"
  BY <1>1 DEF StageInv
<1>4. \A h \in Handlers : job'[h].pc # "idle" => job'[h].stage = aws'[Stage] \/ events' > 0
  BY <1>1 DEF StageInv
<1>5. \A h \in Handlers : job'[h].pc # "resolve"
  BY <1>1 DEF StageInv
<1> QED
  BY <1>2, <1>3, <1>4, <1>5 DEF StageInv

\* update_in_ace.
LEMMA StageWorker ==
    ASSUME StageInv, NoneLost, LockInv', NEW k \in DOMAIN edits, Worker(k)
    PROVE  StageInv'
<1>0. /\ TypeInv /\ k \in Edits /\ ~Fault("no_write")
      /\ job[k].pc # "idle" => queue[k] = "visible"
  BY StageFacts DEF StageInv
<1>1. /\ Others(k) /\ OtherMails(k) /\ UNCHANGED <<edits, aws, events>>
      /\ \/ Receives(k) \/ Buries(k) \/ Resolves(k) \/ Gets(k) \/ Values(k) \/ Succeeds(k)
         \/ Parks(k) \/ Refuses(k) \/ Notes(k) \/ Requeues(k)
  BY <1>0, WorkerEffect
<1>2. Prop(k)' = Prop(k) /\ k \in DOMAIN edits'
  BY <1>1 DEF Prop
<1>3. ASSUME deal'[Stage] = deal[Stage], pending \subseteq pending',
             job'[k].pc # "idle" => queue'[k] = "visible",
             queue'[k] \notin {"skipped", "dropped", "dlq"} =>
                /\ queue[k] \notin {"skipped", "dropped", "dlq"}
                /\ Coming(k) => Coming(k)' \/ Stage \in pending'
      PROVE  StageInv'
  BY <1>0, <1>1, <1>3, StageStep
<1>4. ASSUME deal' = deal, pending' = pending, queue[k] = "visible", queue' = queue,
             job'[k].pc \notin {"sent", "park_note"}
      PROVE  StageInv'
  <2>1. Coming(k) => Coming(k)'
    BY <1>2, <1>4 DEF Coming
  <2> QED
    BY <1>3, <1>4, <2>1
<1>5. ASSUME deal'[Stage] = deal[Stage], pending' = pending, job'[k].pc = "idle",
             queue[k] = "visible",
             queue'[k] \in {"skipped", "dropped", "dlq"} \/ ~Coming(k)
      PROVE  StageInv'
  BY <1>3, <1>5
<1>6. CASE Receives(k)
  BY <1>4, <1>6 DEF Receives, Goes
<1>7. CASE Buries(k)
  BY <1>5, <1>7 DEF Buries, At
<1>8. CASE Resolves(k)
  BY <1>0, <1>4, <1>5, <1>8, NoJobIdle DEF Resolves, Goes, Ended, At
<1>9. CASE Gets(k)
  BY <1>0, <1>4, <1>5, <1>9, NoJobIdle DEF Gets, Puts, Ended, At
<1>10. CASE Values(k)
  BY <1>0, <1>4, <1>5, <1>10, NoJobIdle DEF Values, Puts, Ended, At
<1>11. CASE Succeeds(k)
  BY <1>0, <1>5, <1>11, NoJobIdle DEF Succeeds, Ended, At, Coming
<1>12. CASE Parks(k)
  <2>1. pending' = pending \cup {Prop(k)} /\ queue' = queue /\ deal' = deal /\ queue[k] = "visible"
    BY <1>0, <1>12 DEF Parks, At
  <2>2. Coming(k) => Stage \in pending'
    BY <2>1 DEF Coming
  <2> QED
    BY <1>3, <2>1, <2>2
<1>15. CASE Refuses(k)
  BY <1>0, <1>4, <1>15 DEF Refuses, Goes, At
<1>13. CASE Notes(k)
  <2>1. deal'[Stage] = deal[Stage]
    BY <1>13 DEF Notes, NotedOnly, NoneLost
  <2> QED
    BY <1>0, <1>5, <1>13, <2>1, NoJobIdle DEF Notes, Ended, At, Coming
<1>14. CASE Requeues(k)
  BY <1>0, <1>4, <1>14, NoJobIdle DEF Requeues, At
<1> QED
  BY <1>1, <1>6, <1>7, <1>8, <1>9, <1>10, <1>11, <1>12, <1>13, <1>14, <1>15

\* UpdateOpportunity, of either writer.
LEMMA StageCall ==
    ASSUME StageInv, NoneLost, LockInv', NEW x \in Jobs, CallUpdate(x) \/ Refetch(x)
    PROVE  StageInv'
<1>0. /\ TypeInv /\ AceOK /\ Jobs = Edits \cup Handlers /\ Edits \cap Handlers = {}
  BY StageFacts DEF TypeInv
<1>1. /\ Others(x) /\ UNCHANGED <<deal, edits, queue, pending>>
      /\ job[x].pc \in {"send", "refetch"} /\ job'[x].stage = job[x].stage
      /\ \/ /\ UNCHANGED <<aws, events>>
            /\ job'[x].pc \in {"locked", "refetch", "failed", "rejected", "send"}
         \/ events' > 0 /\ job'[x].pc = "sent"
  BY <1>0, CallEffect, RefetchEffect, Announced DEF At, hubspot, sqs
<1>2. \A k \in Edits : job'[k].pc # "idle" => queue'[k] = "visible"
  BY <1>0, <1>1 DEF StageInv, Others
<1>3. \A h \in Handlers : job'[h].pc # "idle" => job'[h].stage = aws'[Stage] \/ events' > 0
  BY <1>0, <1>1 DEF StageInv, Others
<1>5. \A h \in Handlers : job'[h].pc # "resolve"
  BY <1>0, <1>1 DEF StageInv, Others
<1>4. ASSUME \A h \in Handlers : job'[h].pc = "idle", NoneGone' PROVE Settled'
  <2>1. CASE events' > 0
    BY <2>1 DEF Settled
  <2>2. CASE /\ UNCHANGED <<aws, events>>
             /\ job'[x].pc \in {"locked", "refetch", "failed", "rejected", "send"}
    <3>1. x \in Edits /\ \A h \in Handlers : job'[h] = job[h]
      BY <1>0, <1>1, <1>4, <2>2 DEF Others
    <3>2. Settled
      BY <1>1, <1>4, <3>1 DEF StageInv, NoneGone
    <3>3. \A k \in Edits : Coming(k) => Coming(k)'
      <4>1. ASSUME NEW k \in Edits PROVE job'[k] = job[k] \/ job'[k].pc \notin {"sent", "park_note"}
        BY <1>0, <1>1, <2>2, <4>1 DEF Others
      <4> QED
        BY <1>1, <4>1 DEF Coming, Prop
    <3> QED
      BY <1>1, <2>2, <3>2, <3>3 DEF Settled
  <2> QED
    BY <1>1, <2>1, <2>2
<1> QED
  BY <1>1, <1>2, <1>3, <1>4, <1>5 DEF StageInv

\* handle_ace_event: it does not end without having looked at the deal.
LEMMA StageHandler ==
    ASSUME StageInv, NoneLost, LockInv', MirrorsApart', NEW h \in Handlers,
           DeliverEvent(h) \/ Handler(h)
    PROVE  StageInv'
<1>0. /\ TypeInv /\ h \in Jobs /\ h \notin Edits /\ ~Fault("no_write")
      /\ deal \in [Props -> Value] /\ Handlers \subseteq Jobs
      /\ job[h].pc # "idle" => job[h].stage = aws[Stage] \/ events > 0
      /\ Edits \subseteq Jobs
  BY StageFacts DEF StageInv, NoneLost
<1>1. /\ Others(h) /\ UNCHANGED <<edits, queue, aws>>
      /\ \/ Delivers(h) \/ Reads(h) \/ Compares(h) \/ Mirrors(h)
         \/ Applies(h) \/ Fails(h) \/ Rejects(h) \/ Clears(h) \/ Tells(h)
  BY <1>0, HandlerEffect DEF sqs
<1>2. \A k \in Edits : job'[k].pc # "idle" => queue'[k] = "visible"
  BY <1>0, <1>1 DEF StageInv, Others
<1>3. ASSUME job'[h].pc \notin {"idle", "resolve"}, job'[h].stage = aws'[Stage] \/ events' > 0,
             events' = events \/ \A g \in Handlers \ {h} : job'[g].pc = "idle"
      PROVE  StageInv'
  BY <1>0, <1>1, <1>2, <1>3 DEF StageInv, Others
<1>4. ASSUME job[h].pc # "idle", job'[h].pc \notin {"idle", "resolve"},
             job'[h].stage = job[h].stage, events' = events
      PROVE  StageInv'
  BY <1>0, <1>1, <1>3, <1>4
<1>5. ASSUME job'[h].pc = "idle", deal'[Stage] = aws'[Stage] \/ events' > 0, events' = events
      PROVE  StageInv'
  BY <1>0, <1>1, <1>2, <1>5 DEF StageInv, Settled, Others
<1>6. CASE Delivers(h)
  <2>1. /\ job'[h].pc \in {"read", "compare"} /\ job'[h].stage = aws'[Stage]
    BY <1>1, <1>6 DEF Delivers, Fetched, NoneLost
  <2>2. \A g \in Handlers \ {h} : job'[g].pc = "idle"
    BY <2>1 DEF MirrorsApart
  <2> QED
    BY <1>3, <2>1, <2>2
<1>7. Leaves(h) => job'[h].pc = "compare" /\ job'[h].stage = job[h].stage
  BY DEF Leaves, Goes, Locals
<1>8. CASE Reads(h) \/ Applies(h) \/ Rejects(h)
  BY <1>4, <1>8 DEF Reads, Applies, Rejects, Goes, Locals, Takes, At
<1>9. CASE Fails(h) \/ Tells(h)
  BY <1>4, <1>7, <1>9 DEF Fails, Tells, At
<1>10. CASE Clears(h)
  BY <1>4, <1>7, <1>10 DEF Clears, Goes, Locals, At
<1>11. CASE Compares(h)
  <2>1. CASE Goes(h, "patch")
    BY <1>4, <1>11, <2>1 DEF Compares, Goes, Locals, At
  <2>2. CASE job'[h] = NoJob /\ deal[Stage] = job[h].stage
    BY <1>0, <1>1, <1>5, <1>11, <2>2, NoJobIdle DEF Compares, At
  <2> QED
    BY <1>11, <2>1, <2>2 DEF Compares, NoneLost
<1>12. CASE Mirrors(h)
  <2>1. deal'[Stage] = job[h].stage
    BY <1>0, <1>12 DEF Mirrors, NoneLost
  <2> QED
    BY <1>0, <1>1, <1>5, <1>12, <2>1, NoJobIdle DEF Mirrors, At
<1> QED
  BY <1>1, <1>6, <1>8, <1>9, <1>10, <1>11, <1>12

\* BD, submit_to_ace, the reviewers and SQS.
LEMMA StageOutside ==
    ASSUME StageInv, NoneLost, LockInv',
           \/ \E p \in Props, cleared \in BOOLEAN : Edit(p, cleared)
           \/ \E p \in Props : SubmitForm(p)
           \/ Submit \/ (\E status \in ReviewStatus : Review(status)) \/ LoseEvent
           \/ \E k \in Edits : Duplicate(k)
    PROVE  StageInv'
<1>0. /\ TypeInv /\ AceOK /\ EditsOK /\ Jobs = Edits \cup Handlers /\ deal \in [Props -> Value]
      /\ queue \in [Edits -> {"none", "visible", "form", "done", "skipped", "parked", "dropped",
                              "refused", "dlq"}]
      /\ DOMAIN edits \subseteq Edits /\ NewInv
  BY StageFacts DEF TypeInv, HubSpotOK, LockInv
<1>1. ASSUME NEW p \in Props, NEW cleared \in BOOLEAN, Edit(p, cleared) PROVE StageInv'
  <2>1. PICK v \in Value : v = IF cleared THEN Empty ELSE Len(edits) + 1
    BY <1>1, Constants DEF Edit
  <2>2. PICK k : k = Len(edits) + 1
    OBVIOUS
  <2>3. /\ edits' = Append(edits, [prop |-> p, value |-> v, via |-> "deal"])
        /\ k \in Edits /\ queue' = [queue EXCEPT ![k] = "visible"]
        /\ deal' = [deal EXCEPT ![p] = v] /\ UNCHANGED <<job, aws, pending, events>>
    BY <1>1, <2>1, <2>2 DEF Edit, ace
  <2>4. /\ DOMAIN edits' = DOMAIN edits \cup {k} /\ k \notin DOMAIN edits
        /\ \A l \in DOMAIN edits : edits'[l] = edits[l]
        /\ edits'[k].prop = p /\ edits'[k].via = "deal"
    BY <1>0, <2>2, <2>3, EditAdded
  <2>5. /\ job[k].pc = "idle" /\ queue[k] = "none" /\ queue'[k] = "visible"
        /\ \A l \in Edits \ {k} : queue'[l] = queue[l]
    BY <1>0, <2>3, <2>4 DEF NewInv
  <2>6. ASSUME \A h \in Handlers : job'[h].pc = "idle", NoneGone' PROVE Settled'
    <3>1. CASE p = Stage
      <4>1. Coming(k)'
        BY <2>3, <2>4, <2>5, <3>1 DEF Coming, Prop
      <4> QED
        BY <2>3, <4>1 DEF Settled
    <3>2. CASE p # Stage
      <4>1. Settled
        BY <2>3, <2>5, <2>6 DEF StageInv, NoneGone
      <4>2. deal'[Stage] = deal[Stage]
        BY <1>0, <2>3, <3>2 DEF NoneLost
      <4>3. \A l \in Edits : Coming(l) => Coming(l)'
        BY <2>3, <2>4, <2>5 DEF Coming, Prop
      <4> QED
        BY <2>3, <4>1, <4>2, <4>3 DEF Settled
    <3> QED
      BY <3>1, <3>2
  <2>7. \A l \in Edits : job'[l].pc # "idle" => queue'[l] = "visible"
    BY <2>3, <2>5 DEF StageInv
  <2>8. \A l \in DOMAIN edits' : edits'[l].via = "deal"
    BY <2>4 DEF StageInv
  <2>9. \A h \in Handlers : /\ job'[h].pc # "idle" => job'[h].stage = aws'[Stage] \/ events' > 0
                           /\ job'[h].pc # "resolve"
    BY <2>3 DEF StageInv
  <2> QED
    BY <2>6, <2>7, <2>8, <2>9 DEF StageInv
<1>2. ~(\E p \in Props : SubmitForm(p)) /\ ~LoseEvent
  BY DEF SubmitForm, LoseEvent, NoneLost
<1>3. ASSUME UNCHANGED <<edits, job>>,
             \A k \in Edits : queue[k] = "visible" => queue'[k] = "visible",
             events' > 0 \/ (deal' = aws' /\ \A h \in Handlers : job[h].pc = "idle")
      PROVE  StageInv'
  BY <1>3 DEF StageInv, Settled
<1>4. ASSUME UNCHANGED <<edits, job, deal, aws, pending, events>>,
             \A k \in Edits : queue[k] = "visible" => queue'[k] = "visible",
             NoneGone' => NoneGone
      PROVE  StageInv'
  <2>1. \A k \in Edits : Coming(k) => Coming(k)'
    BY <1>4 DEF Coming, Prop
  <2> QED
    BY <1>4, <2>1 DEF StageInv, Settled
<1>5. CASE Submit
  <2>1. CASE aws' = deal /\ submission = "none"
    <3>1. \A h \in Handlers : job[h].pc = "idle"
      BY <1>0, <2>1 DEF StageInv, LockInv, UnsentInv
    <3> QED
      BY <1>3, <1>5, <2>1, <3>1 DEF Submit, hubspot, sqs
  <2>2. CASE aws' = aws
    BY <1>4, <1>5, <2>2 DEF Submit, hubspot, sqs, NoneGone
  <2> QED
    BY <1>5, <2>1, <2>2 DEF Submit
<1>6. ASSUME NEW status \in ReviewStatus, Review(status) PROVE StageInv'
  <2>1. events' > 0
    BY <1>0, <1>6, Announced DEF Review
  <2> QED
    BY <1>3, <1>6, <2>1 DEF Review, hubspot, sqs
<1>7. ASSUME NEW k \in Edits, Duplicate(k) PROVE StageInv'
  BY <1>0, <1>4, <1>7 DEF Duplicate, hubspot, ace, NoneGone
<1> QED
  BY <1>1, <1>2, <1>5, <1>6, <1>7

\* Every step.
LEMMA StageNext ==
    ASSUME StageInv, NoneLost, MirrorsApart', [Next]_vars, [HandlersLive]_vars
    PROVE  StageInv'
<1>0. /\ TypeInv /\ LockInv' /\ Jobs = Edits \cup Handlers /\ Sweeps = {}
      /\ \A k \in DOMAIN edits : edits[k].via # "card"
  BY StageFacts, LockNext DEF StageInv, NoneLost
<1>1. ASSUME NEW x \in Jobs, Work(x) PROVE StageInv'
  BY <1>0, <1>1, WorkEffect, StageCall, StageWorker, StageHandler
<1>2. CASE UNCHANGED vars
  <2>1. UNCHANGED <<deal, edits, queue, job, pending, aws, events>>
    BY <1>2 DEF vars, hubspot, sqs, ace
  <2> QED
    BY <1>0, <2>1 DEF StageInv, Settled, NoneGone, Coming, Prop
<1>3. ASSUME NEW x \in Jobs, Crash(x), ~UNCHANGED vars PROVE StageInv'
  <2>1. x \in Edits
    BY <1>0, <1>3 DEF HandlersLive
  <2>2. /\ Others(x) /\ job'[x] = NoJob /\ queue[x] = "visible" /\ queue' = queue
        /\ UNCHANGED <<deal, edits, pending, aws, events>>
    BY <1>0, <1>3, <2>1, CrashEffect DEF hubspot, ace, StageInv
  <2>3. OtherMails(x) /\ (Coming(x) => Coming(x)')
    BY <2>2, NoJobIdle DEF OtherMails, Coming, Prop
  <2> QED
    BY <1>0, <2>1, <2>2, <2>3, NoJobIdle, StageStep
<1> QED
  BY <1>0, <1>1, <1>2, <1>3, StageOutside DEF Next, Rest

\* The deal and AWS agree at the start.
LEMMA StageInit == ASSUME NoneLost, Init PROVE StageInv
<1>1. (\A x \in Jobs : job[x] = NoJob) /\ DOMAIN edits = {} /\ deal = aws
  BY DEF Init
<1>2. \A x \in Jobs : job[x].pc = "idle"
  BY <1>1, NoJobIdle
<1> QED
  BY <1>1, <1>2, Constants, LockInit DEF StageInv, Settled

\* At rest the deal has the stage AWS has, for any number of edits, handlers and
\* changes of the review, as long as no two handlers overlap and none dies: only
\* a handler that read the stage before another may mirror it last.
THEOREM StageComesBack ==
    ASSUME NoneLost
    PROVE  Spec /\ []MirrorsApart /\ [][HandlersLive]_vars => []StageIsMirrored
<1>1. StageInv => StageIsMirrored
  <2> SUFFICES ASSUME StageInv, AtRest,
                      \A k \in Edits : queue[k] \notin {"skipped", "dropped", "dlq"}
               PROVE  deal[Stage] = aws[Stage]
    BY DEF StageIsMirrored
  <2>1. /\ \A h \in Handlers : job[h].pc = "idle"
        /\ NoneGone /\ pending = {} /\ ~(events > 0) /\ \A k \in Edits : ~Coming(k)
    BY Constants, SMT DEF AtRest, Quiet, NoneGone, Coming
  <2> QED
    BY <2>1 DEF StageInv, Settled
<1> QED
  BY <1>1, StageInit, StageNext, PTL DEF Spec

-----------------------------------------------------------------------------
(* Contention.  An update conflicts when somebody has written since it read *)
(* LastModifiedDate, so its conflicts are counted against the writes.  No   *)
(* variable counts those; what is left of them in the queue and in the      *)
(* parked properties does: an edit that succeeds writes once, and each      *)
(* replayer writes at most once for every edit that has parked.             *)

Replayers == Handlers \cup Sweeps
Wrote     == {k \in Edits : queue[k] = "done" \/ At(k, "sent")}
Parked    == {k \in Edits : queue[k] = "parked" \/ At(k, "park_note")}
Replays(r) == job[r].pc \in {"get", "apply", "send", "refetch"}
\* The replayers whose write for the last edit parked may be still to come.
MayWrite  == {r \in Replayers : (pending # {} /\ ~At(r, "sent")) \/ Replays(r)}
Written   == Cardinality(Wrote) + Cardinality(Replayers) * Cardinality(Parked)
               - Cardinality(MayWrite)
Stale(k)  == k \notin fresh /\ job[k].pc \in {"value", "send"}
\* The update of the edit has failed, now or at an earlier delivery.
GaveUp(k) == \/ At(k, "failed") \/ queue[k] = "dlq" \/ receives[k] > 1
             \/ queue[k] = "visible" /\ At(k, "idle") /\ receives[k] > 0
CountRow(k) ==
    /\ job[k].pc # "idle" => queue[k] \in {"visible", "form"}
    /\ job[k].tries <= Written
    /\ Stale(k) => job[k].tries + 1 <= Written
    /\ GaveUp(k) => MaxAttempts <= Written
    /\ k \notin DOMAIN edits => receives[k] = 0
CountInv == LockInv /\ (faults = 0 => \A k \in Edits : CountRow(k))

\* n times more is not less.
LEMMA TimesGrows ==
    ASSUME NEW n \in Nat, NEW i \in Nat, NEW j \in Nat, i <= j
    PROVE  n * i \in Nat /\ n * j \in Nat /\ n * i <= n * j
<1>1. PICK d \in Nat : j = i + d
  <2>1. j - i \in Nat /\ j = i + (j - i)
    BY SMT
  <2> QED
    BY <2>1
<1>2. n * j = n * i + n * d
  BY <1>1, SMT
<1>3. n * i \in Nat /\ n * d \in Nat
  BY <1>1, SMT
<1> QED
  BY <1>2, <1>3, SMT

\* How the sum of the three numbers grows with the sets.
LEMMA SumGrows ==
    ASSUME NEW n \in Nat,
           NEW w, NEW w2, NEW p, NEW p2, NEW b, NEW b2, IsFiniteSet(w2), IsFiniteSet(p2),
           IsFiniteSet(b), w \subseteq w2, p \subseteq p2, b2 \subseteq b
    PROVE  /\ Cardinality(w) + n * Cardinality(p) - Cardinality(b)
                <= Cardinality(w2) + n * Cardinality(p2) - Cardinality(b2)
           /\ w # w2 \/ b # b2 =>
                Cardinality(w) + n * Cardinality(p) - Cardinality(b) + 1
                  <= Cardinality(w2) + n * Cardinality(p2) - Cardinality(b2)
<1>1. /\ Cardinality(w) \in Nat /\ Cardinality(w2) \in Nat /\ Cardinality(w) <= Cardinality(w2)
      /\ Cardinality(w) = Cardinality(w2) => w = w2
  BY FS_Subset, FS_CardinalityType
<1>2. /\ Cardinality(b2) \in Nat /\ Cardinality(b) \in Nat /\ Cardinality(b2) <= Cardinality(b)
      /\ Cardinality(b) = Cardinality(b2) => b = b2
  BY FS_Subset, FS_CardinalityType
<1>3. Cardinality(p) \in Nat /\ Cardinality(p2) \in Nat /\ Cardinality(p) <= Cardinality(p2)
  BY FS_Subset, FS_CardinalityType
<1>4. /\ n * Cardinality(p) \in Nat /\ n * Cardinality(p2) \in Nat
      /\ n * Cardinality(p) <= n * Cardinality(p2)
  BY <1>3, TimesGrows
<1> QED
  BY ONLY <1>1, <1>2, <1>4, SMT

\* One more edit that has parked outweighs all the writes it may lead to.
LEMMA SumParks ==
    ASSUME NEW R, IsFiniteSet(R), NEW w, NEW w2, NEW p, NEW e, NEW b, NEW b2,
           IsFiniteSet(w2), IsFiniteSet(p), w \subseteq w2, e \notin p,
           b \subseteq R, b2 \subseteq R
    PROVE  Cardinality(w) + Cardinality(R) * Cardinality(p) - Cardinality(b)
             <= Cardinality(w2) + Cardinality(R) * Cardinality(p \cup {e}) - Cardinality(b2)
<1>1. Cardinality(w) \in Nat /\ Cardinality(w2) \in Nat /\ Cardinality(w) <= Cardinality(w2)
  BY FS_Subset, FS_CardinalityType
<1>2. /\ Cardinality(R) \in Nat /\ Cardinality(b) \in Nat /\ Cardinality(b2) \in Nat
      /\ Cardinality(b2) <= Cardinality(R)
  BY FS_Subset, FS_CardinalityType
<1>3. Cardinality(p) \in Nat /\ Cardinality(p \cup {e}) = Cardinality(p) + 1
  BY FS_AddElement, FS_CardinalityType
<1>4. /\ Cardinality(R) * Cardinality(p) \in Nat
      /\ Cardinality(R) * (Cardinality(p) + 1) = Cardinality(R) * Cardinality(p) + Cardinality(R)
  BY <1>2, <1>3, SMT
<1> QED
  BY ONLY <1>1, <1>2, <1>3, <1>4, SMT

\* What is counted are numbers.
LEMMA CountTyped ==
    ASSUME IsFiniteSet(Replayers)
    PROVE  /\ IsFiniteSet(Wrote) /\ IsFiniteSet(Parked) /\ IsFiniteSet(MayWrite)
           /\ Cardinality(Replayers) \in Nat /\ Written \in Int
           /\ IsFiniteSet(Edits)
<1>1. IsFiniteSet(Edits)
  BY Constants, FS_Interval, 1 \in Int, MaxEdits \in Int DEF Edits
<1>2. IsFiniteSet(Wrote) /\ IsFiniteSet(Parked) /\ IsFiniteSet(MayWrite)
  BY <1>1, FS_Subset DEF Wrote, Parked, MayWrite
<1>3. /\ Cardinality(Replayers) \in Nat /\ Cardinality(Wrote) \in Nat
      /\ Cardinality(Parked) \in Nat /\ Cardinality(MayWrite) \in Nat
  BY <1>2, FS_CardinalityType
<1>4. Cardinality(Replayers) * Cardinality(Parked) \in Nat
  BY <1>3, SMT
<1> QED
  BY <1>1, <1>2, <1>3, <1>4, SMT DEF Written

\* The same of the next state.
LEMMA CountTypedNext ==
    ASSUME IsFiniteSet(Replayers)
    PROVE  /\ IsFiniteSet(Wrote') /\ IsFiniteSet(Parked') /\ IsFiniteSet(MayWrite')
           /\ Written' \in Int
<1>1. IsFiniteSet(Wrote') /\ IsFiniteSet(Parked') /\ IsFiniteSet(MayWrite')
  BY CountTyped, FS_Subset DEF Wrote, Parked, MayWrite
<1>2. /\ Cardinality(Wrote') \in Nat /\ Cardinality(Parked') \in Nat
      /\ Cardinality(MayWrite') \in Nat /\ Cardinality(Replayers) \in Nat
  BY <1>1, FS_CardinalityType
<1>3. Cardinality(Replayers) * Cardinality(Parked') \in Nat
  BY <1>2, SMT
<1> QED
  BY <1>1, <1>2, <1>3, SMT DEF Written

\* Failures are counted, so a behaviour without failures has had none.
LEMMA NoFault ==
    ASSUME TypeInv, faults = 0
    PROVE  \A kind : Fault(kind) => faults' # 0
  BY DEF Fault

\* What the steps of update_in_ace do to the receive count, and when SQS
\* moves a message to the dead-letter queue.
LEMMA WorkerReceives ==
    ASSUME TypeInv, NEW k \in DOMAIN edits, Worker(k)
    PROVE  /\ \/ receives' = receives
              \/ /\ At(k, "idle") /\ job'[k].pc = "resolve"
                 /\ receives' = [receives EXCEPT ![k] = receives[k] + 1]
           /\ At(k, "idle") /\ queue[k] = "visible" /\ queue'[k] = "dlq"
                => receives[k] = MaxReceive
<1>0. k \in Edits /\ k \in Jobs /\ JobOK /\ QueueOK
  BY EditTyped, Constants DEF TypeInv, HubSpotOK, SqsOK
<1>1. CASE Receive(k)
  <2>1. job'[k].pc = "resolve"
    BY <1>0, <1>1, Moves DEF Receive, Steps
  <2> QED
    BY <1>1, <2>1 DEF Receive, At
<1>2. CASE DeadLetter(k)
  BY <1>2 DEF DeadLetter
<1>3. CASE /\ ~Receive(k) /\ ~DeadLetter(k)
  <2>1. receives' = receives
    BY <1>3 DEF Worker, Receive, Resolve, GetCurrent, RefetchValue, Updated, Park, ParkNote,
       Dropped, Requeue, sqs
  <2>2. ~At(k, "idle")
    BY <1>3 DEF Worker, Receive, Resolve, GetCurrent, RefetchValue, Updated, Park, ParkNote,
       Dropped, Requeue, At
  <2> QED
    BY <2>1, <2>2
<1> QED
  BY <1>1, <1>2, <1>3

\* A conflict is counted; the third one is a failure.
LEMMA CallCounts ==
    ASSUME TypeInv, NEW x \in Jobs, CallUpdate(x), faults = 0, faults' = 0
    PROVE  \/ review \in Blocked /\ job'[x].pc = "locked" /\ job'[x].tries = job[x].tries
              /\ fresh' = fresh
           \/ x \notin fresh /\ job'[x].pc = "refetch" /\ job'[x].tries = job[x].tries + 1
              /\ fresh' = fresh
           \/ /\ x \notin fresh /\ job'[x].pc = "failed" /\ job'[x].tries = job[x].tries
              /\ MaxAttempts <= job[x].tries + 1 /\ fresh' = fresh
           \/ x \in fresh /\ job'[x].pc = "sent" /\ job'[x].tries = job[x].tries /\ fresh' = {}
<1>0. JobOK /\ job[x] \in Job /\ job[x].tries \in 0..(MaxAttempts - 1)
  BY DEF TypeInv, JobOK, Job
<1>1. \A s \in Steps : Goto(x, s) => job'[x].pc = s /\ job'[x].tries = job[x].tries
  BY <1>0, Moves
<1>2. CASE review \in Blocked /\ Goto(x, "locked") /\ UNCHANGED <<ace, faults>>
  BY <1>1, <1>2 DEF Steps, ace
<1>3. CASE x \notin fresh /\ Conflict(x) /\ UNCHANGED <<ace, faults>>
  <2>1. CASE job[x].tries + 1 < MaxAttempts
    BY <1>0, <1>3, <2>1 DEF Conflict, JobOK, Job, ace
  <2>2. CASE ~(job[x].tries + 1 < MaxAttempts)
    <3>1. MaxAttempts <= job[x].tries + 1
      BY <1>0, <2>2, SMT DEF MaxAttempts
    <3>2. Goto(x, "failed") /\ fresh' = fresh
      BY <1>3, <2>2 DEF Conflict, ace
    <3> QED
      BY <1>1, <1>3, <3>1, <3>2 DEF Steps
  <2> QED
    BY <2>1, <2>2
<1>4. CASE x \in fresh /\ fresh' = {} /\ Goto(x, "sent")
  BY <1>1, <1>4 DEF Steps
<1>5. ~Fault("reject") /\ ~Fault("transient")
  BY NoFault
<1> QED
  BY <1>2, <1>3, <1>4, <1>5 DEF CallUpdate

\* An edit whose invocation and message rest stays as it is.
LEMMA RowKept ==
    ASSUME CountInv, faults = 0, IsFiniteSet(Replayers), NEW k \in Edits, CountRow(k),
           Written <= Written', Written' \in Int, job'[k] = job[k], queue'[k] = queue[k],
           receives'[k] = receives[k], k \notin DOMAIN edits' => k \notin DOMAIN edits,
           k \in fresh => k \in fresh' \/ Written + 1 <= Written'
    PROVE  CountRow(k)'
<1>1. job[k].tries \in Nat /\ Written \in Int /\ job'[k].tries = job[k].tries
  BY Constants, CountTyped DEF CountInv, LockInv, TypeInv, JobOK, Job
<1>2. Stale(k)' => job[k].tries + 1 <= Written'
  <2>1. CASE k \in fresh
    BY <1>1, <2>1, SMT DEF Stale, CountRow
  <2>2. CASE k \notin fresh
    <3>1. Stale(k)' => Stale(k)
      BY <2>2 DEF Stale
    <3> QED
      BY <1>1, <3>1, SMT DEF CountRow
  <2> QED
    BY <2>1, <2>2
<1>3. job[k].tries <= Written'
  BY <1>1, SMT DEF CountRow
<1>4. GaveUp(k)' = GaveUp(k)
  BY DEF GaveUp, At
<1>5. GaveUp(k)' => MaxAttempts <= Written'
  BY <1>1, <1>4, SMT DEF CountRow, MaxAttempts
<1> QED
  BY <1>1, <1>2, <1>3, <1>5 DEF CountRow

\* Once it runs or has ended, an edit's row has to be looked at again in full.
LEMMA RowMade ==
    ASSUME CountInv, faults = 0, IsFiniteSet(Replayers), NEW k \in DOMAIN edits, k \in Edits,
           CountRow(k),
           Written <= Written', Written' \in Int, edits' = edits,
           job'[k].pc # "idle" => queue'[k] \in {"visible", "form"},
           \/ job'[k].tries = job[k].tries
           \/ job'[k].tries = 0
           \/ Stale(k) /\ job'[k].tries = job[k].tries + 1,
           Stale(k)' => Stale(k) /\ job'[k].tries = job[k].tries,
           GaveUp(k)' => GaveUp(k) \/ (Stale(k) /\ MaxAttempts <= job[k].tries + 1)
    PROVE  CountRow(k)'
<1>1. job[k].tries \in Nat /\ Written \in Int /\ MaxAttempts = 3
  BY Constants, CountTyped DEF CountInv, LockInv, TypeInv, JobOK, Job, MaxAttempts
<1>2. job'[k].tries <= Written'
  BY <1>1, SMT DEF CountRow
<1>3. Stale(k)' => job'[k].tries + 1 <= Written'
  BY <1>1, SMT DEF CountRow
<1>4. GaveUp(k)' => MaxAttempts <= Written'
  BY <1>1, SMT DEF CountRow
<1> QED
  BY <1>2, <1>3, <1>4 DEF CountRow

\* A step about one edit that leaves the parked properties alone.
LEMMA CountEdit ==
    ASSUME CountInv, LockInv', faults = 0, IsFiniteSet(Replayers), NEW k \in DOMAIN edits,
           Others(k), OtherMails(k), UNCHANGED <<edits, pending>>,
           \A l \in Edits \ {k} : receives'[l] = receives[l] /\ (l \in fresh => l \in fresh'),
           k \in Wrote => k \in Wrote', k \in Parked => k \in Parked',
           Written <= Written' => CountRow(k)'
    PROVE  CountInv'
<1>0. k \in Edits /\ k \notin Replayers /\ Edits \subseteq Jobs /\ Replayers \subseteq Jobs
  BY EditTyped, Constants DEF CountInv, LockInv, TypeInv, HubSpotOK, Replayers
<1>1. Wrote \subseteq Wrote' /\ Parked \subseteq Parked'
  BY <1>0 DEF Wrote, Parked, At, Others, OtherMails
<1>2. MayWrite' \subseteq MayWrite
  BY <1>0 DEF MayWrite, Replays, At, Others
<1>3. /\ IsFiniteSet(Wrote') /\ IsFiniteSet(Parked') /\ IsFiniteSet(MayWrite)
      /\ Cardinality(Replayers) \in Nat /\ Written' \in Int
  BY CountTyped, CountTypedNext
<1>4. Written <= Written'
  BY <1>1, <1>2, <1>3, SumGrows DEF Written
<1>5. ASSUME faults' = 0, NEW l \in Edits \ {k} PROVE CountRow(l)'
  <2>1. job'[l] = job[l] /\ queue'[l] = queue[l] /\ CountRow(l)
    BY <1>0 DEF CountInv, Others, OtherMails
  <2> QED
    BY <1>3, <1>4, <2>1, RowKept
<1> QED
  BY <1>4, <1>5 DEF CountInv

\* The property of an edit is parked.
LEMMA CountPark ==
    ASSUME CountInv, LockInv', faults = 0, IsFiniteSet(Replayers),
           NEW k \in DOMAIN edits, Others(k), UNCHANGED <<edits, queue, receives, fresh>>,
           At(k, "locked"), job'[k].pc = "park_note", job'[k].tries = job[k].tries
    PROVE  CountInv'
<1>0. k \in Edits /\ CountRow(k)
  BY EditTyped DEF CountInv, LockInv, TypeInv, HubSpotOK
<1>1. queue[k] \in {"visible", "form"}
  BY <1>0 DEF CountRow, At
<1>2. Wrote \subseteq Wrote' /\ k \notin Parked /\ Parked' = Parked \cup {k}
  BY <1>0, <1>1, Constants DEF Wrote, Parked, At, Others
<1>3. /\ IsFiniteSet(Wrote') /\ IsFiniteSet(Parked) /\ Written' \in Int
      /\ MayWrite \subseteq Replayers /\ MayWrite' \subseteq Replayers
  BY CountTyped, CountTypedNext DEF MayWrite
<1>4. Written <= Written'
  BY <1>2, <1>3, SumParks DEF Written
<1>5. ASSUME NEW l \in Edits \ {k} PROVE CountRow(l)'
  <2>1. job'[l] = job[l] /\ CountRow(l)
    BY Constants DEF CountInv, Others
  <2> QED
    BY <1>3, <1>4, <2>1, RowKept
<1>6. CountRow(k)'
  <2>1. /\ ~Stale(k)' /\ (GaveUp(k)' => GaveUp(k))
    BY DEF Stale, GaveUp, At
  <2> QED
    BY <1>0, <1>1, <1>3, <1>4, <2>1, RowMade
<1> QED
  BY <1>5, <1>6 DEF CountInv

\* A write of the opportunity: an edit's, which has not written before, or a
\* replayer's, which was entitled to it.
LEMMA CountWrite ==
    ASSUME CountInv, LockInv', faults = 0, IsFiniteSet(Replayers), NEW x \in Jobs,
           Others(x), UNCHANGED <<edits, queue, receives, pending>>,
           At(x, "send"), job'[x].pc = "sent", job'[x].tries = job[x].tries
    PROVE  CountInv'
<1>0. Jobs = Edits \cup Replayers /\ Edits \cap Replayers = {}
  BY Constants DEF Jobs, Replayers
<1>1. Wrote \subseteq Wrote' /\ Parked \subseteq Parked' /\ MayWrite' \subseteq MayWrite
  BY <1>0 DEF Wrote, Parked, MayWrite, Replays, At, Others
<1>2. Wrote # Wrote' \/ MayWrite # MayWrite'
  <2>1. CASE x \in Edits
    <3>1. queue[x] # "done"
      BY <2>1 DEF CountInv, CountRow, At
    <3> QED
      BY <2>1, <3>1 DEF Wrote, At
  <2>2. CASE x \in Replayers
    <3>1. x \in MayWrite /\ x \notin MayWrite'
      BY <2>2 DEF MayWrite, Replays, At
    <3> QED
      BY <3>1
  <2> QED
    BY <1>0, <2>1, <2>2
<1>3. /\ IsFiniteSet(Wrote') /\ IsFiniteSet(Parked') /\ IsFiniteSet(MayWrite)
      /\ Cardinality(Replayers) \in Nat /\ Written \in Int /\ Written' \in Int
  BY CountTyped, CountTypedNext
<1>4. Written + 1 <= Written'
  BY <1>1, <1>2, <1>3, SumGrows DEF Written
<1>5. Written <= Written'
  BY <1>3, <1>4, SMT
<1>6. ASSUME faults' = 0, NEW l \in Edits PROVE CountRow(l)'
  <2>1. CountRow(l)
    BY DEF CountInv
  <2>2. CASE l # x
    BY <1>0, <1>3, <1>4, <1>5, <2>1, <2>2, RowKept DEF Others
  <2>3. CASE l = x
    <3>1. x \in DOMAIN edits
      BY <2>3 DEF CountInv, LockInv, NewInv, At
    <3>2. queue[x] \in {"visible", "form"}
      BY <2>1, <2>3 DEF CountRow, At
    <3>3. ~Stale(x)' /\ (GaveUp(x)' => GaveUp(x))
      BY DEF Stale, GaveUp, At
    <3> QED
      BY <1>3, <1>5, <2>1, <2>3, <3>1, <3>2, <3>3, RowMade
  <2> QED
    BY <2>2, <2>3
<1> QED
  BY <1>6 DEF CountInv

\* A step of a replayer that does not write.
LEMMA CountReplay ==
    ASSUME CountInv, LockInv', faults = 0, IsFiniteSet(Replayers), NEW r \in Replayers,
           Others(r), UNCHANGED <<edits, queue, receives>>, fresh \subseteq fresh',
           pending' = pending \/ pending' = {}, r \in MayWrite' => r \in MayWrite
    PROVE  CountInv'
<1>0. Edits \subseteq Jobs \ {r} /\ Replayers \subseteq Jobs
  BY Constants DEF Replayers
<1>1. Wrote' = Wrote /\ Parked' = Parked
  BY <1>0 DEF Wrote, Parked, At, Others
<1>2. MayWrite' \subseteq MayWrite
  <2>1. ASSUME NEW q \in Replayers \ {r}, q \in MayWrite' PROVE q \in MayWrite
    <3>1. job'[q] = job[q]
      BY <1>0, <2>1 DEF Others
    <3> QED
      BY <2>1, <3>1 DEF MayWrite, Replays, At
  <2> QED
    BY <2>1 DEF MayWrite
<1>3. /\ IsFiniteSet(Wrote') /\ IsFiniteSet(Parked') /\ IsFiniteSet(MayWrite)
      /\ Cardinality(Replayers) \in Nat /\ Written' \in Int
  BY CountTyped, CountTypedNext
<1>4. Written <= Written'
  BY <1>1, <1>2, <1>3, SumGrows DEF Written
<1>5. ASSUME faults' = 0, NEW l \in Edits PROVE CountRow(l)'
  <2>1. CountRow(l) /\ job'[l] = job[l] /\ (l \in fresh => l \in fresh')
    BY <1>0 DEF CountInv, Others
  <2> QED
    BY <1>3, <1>4, <2>1, RowKept
<1> QED
  BY <1>5 DEF CountInv

\* update_in_ace.
LEMMA CountWorker ==
    ASSUME CountInv, LockInv', faults = 0, IsFiniteSet(Replayers), MaxReceive > 0,
           NEW k \in DOMAIN edits, Worker(k)
    PROVE  CountInv'
<1>0. /\ TypeInv /\ k \in Edits /\ CountRow(k) /\ receives \in [Edits -> 0..MaxReceive]
      /\ MaxReceive \in Nat /\ Written' \in Int
  BY EditTyped, Constants, CountTypedNext DEF CountInv, LockInv, TypeInv, HubSpotOK, SqsOK
<1>1. /\ Others(k) /\ OtherMails(k) /\ edits' = edits
      /\ \/ Receives(k) \/ Buries(k) \/ Resolves(k) \/ Gets(k) \/ Values(k) \/ Succeeds(k)
         \/ Parks(k) \/ Refuses(k) \/ Notes(k) \/ Requeues(k)
  BY <1>0, WorkerEffect
<1>2. /\ \/ receives' = receives
         \/ /\ At(k, "idle") /\ job'[k].pc = "resolve"
            /\ receives' = [receives EXCEPT ![k] = receives[k] + 1]
      /\ At(k, "idle") /\ queue[k] = "visible" /\ queue'[k] = "dlq" => receives[k] = MaxReceive
  BY <1>0, WorkerReceives
<1>3. \A l \in Edits \ {k} : receives'[l] = receives[l]
  BY <1>0, <1>2
<1>4. receives[k] \in Nat /\ (receives'[k] = receives[k] \/ receives'[k] = receives[k] + 1)
  BY <1>0, <1>2
<1>5. ~At(k, "idle") \/ job'[k].pc # "resolve" => receives' = receives
  BY <1>2
<1>6. At(k, "idle") /\ queue[k] = "visible" /\ receives[k] > 0 => GaveUp(k)
  BY DEF GaveUp
<1>7. ~At(k, "idle") => queue[k] \in {"visible", "form"}
  BY <1>0 DEF CountRow, At
<1>8. CASE Receives(k)
  <2>1. /\ queue[k] = "visible" /\ queue' = queue /\ fresh' = fresh /\ pending' = pending
        /\ At(k, "idle") /\ job'[k].pc = "resolve" /\ job'[k].tries = job[k].tries
    BY <1>8 DEF Receives, Goes, Locals
  <2>2. ~Stale(k)'
    BY <2>1 DEF Stale
  <2>3. GaveUp(k)' => GaveUp(k)
    <3>1. GaveUp(k)' => receives'[k] > 1
      BY <2>1 DEF GaveUp, At
    <3>2. receives'[k] > 1 => receives[k] > 0
      BY <1>4, SMT
    <3> QED
      BY <1>6, <2>1, <3>1, <3>2
  <2>4. Written <= Written' => CountRow(k)'
    BY <1>0, <1>1, <2>1, <2>2, <2>3, RowMade
  <2> QED
    BY <1>1, <1>3, <2>1, <2>4, CountEdit DEF Wrote, Parked, At
<1>9. CASE Buries(k)
  <2>1. /\ queue[k] = "visible" /\ queue'[k] = "dlq" /\ fresh' = fresh /\ pending' = pending
        /\ At(k, "idle") /\ job' = job
    BY <1>9 DEF Buries
  <2>2. ~Stale(k)'
    BY <2>1 DEF Stale, At
  <2>3. GaveUp(k)
    BY <1>2, <1>4, <1>6, <2>1
  <2>4. Written <= Written' => CountRow(k)'
    BY <1>0, <1>1, <2>1, <2>2, <2>3, RowMade DEF At
  <2> QED
    BY <1>1, <1>3, <2>1, <2>4, CountEdit DEF Wrote, Parked, At
<1>10. ASSUME ~At(k, "idle"), pending' = pending, \A l \in fresh : l \in fresh',
              ~At(k, "sent"), ~At(k, "park_note"),
              \/ job'[k].pc # "idle" /\ job'[k].tries = job[k].tries /\ queue' = queue
              \/ job'[k] = NoJob /\ queue'[k] \in {"done", "skipped", "parked", "dropped"},
              job'[k].pc # "failed", Stale(k)' => Stale(k), Stale(k)' => job'[k].pc # "idle",
              job'[k].pc # "resolve"
       PROVE  CountInv'
  <2>1. receives' = receives
    BY <1>5, <1>10
  <2>2. job'[k].pc # "idle" => queue'[k] \in {"visible", "form"}
    BY <1>7, <1>10, NoJobIdle
  <2>3. job'[k].tries = job[k].tries \/ job'[k].tries = 0
    BY <1>10, NoJobIdle
  <2>4. Stale(k)' => Stale(k) /\ job'[k].tries = job[k].tries
    BY <1>10, NoJobIdle DEF Stale
  <2>5. GaveUp(k)' => GaveUp(k)
    <3>1. queue'[k] # "dlq" /\ (queue'[k] = "visible" => job'[k].pc # "idle")
      BY <1>7, <1>10
    <3> QED
      BY <1>10, <2>1, <3>1 DEF GaveUp, At
  <2>6. Written <= Written' => CountRow(k)'
    BY <1>0, <1>1, <2>2, <2>3, <2>4, <2>5, RowMade
  <2>7. k \notin Wrote /\ k \notin Parked
    BY <1>7, <1>10 DEF Wrote, Parked
  <2> QED
    BY <1>1, <1>3, <1>10, <2>6, <2>7, CountEdit
<1>11. CASE Resolves(k) \/ Gets(k) \/ Values(k)
  <2>1. /\ ~At(k, "idle") /\ pending' = pending /\ ~At(k, "sent") /\ ~At(k, "park_note")
        /\ \A l \in fresh : l \in fresh'
    BY <1>11 DEF Resolves, Gets, Values, At
  <2>2. \/ /\ job'[k].pc \in {"get", "value", "send"} /\ job'[k].tries = job[k].tries
           /\ queue' = queue
        \/ job'[k] = NoJob /\ queue'[k] = "skipped"
    BY <1>11 DEF Resolves, Gets, Values, Puts, Goes, Locals, Ended
  <2>3. Stale(k)' => Stale(k)
    <3>1. CASE Resolves(k)
      BY <3>1, NoJobIdle DEF Resolves, Goes, Ended, Stale
    <3>2. CASE Gets(k)
      BY <3>2 DEF Gets, Stale
    <3>3. CASE Values(k)
      BY <3>3 DEF Values, Stale, At
    <3> QED
      BY <1>11, <3>1, <3>2, <3>3
  <2>4. Stale(k)' => job'[k].pc # "idle"
    BY DEF Stale
  <2>5. /\ job'[k].pc \notin {"failed", "resolve"}
        /\ job'[k].pc # "idle" \/ job'[k] = NoJob
    BY <2>2, NoJobIdle
  <2>6. \/ job'[k].pc # "idle" /\ job'[k].tries = job[k].tries /\ queue' = queue
        \/ job'[k] = NoJob /\ queue'[k] \in {"done", "skipped", "parked", "dropped"}
    BY <2>2
  <2> QED
    BY <1>10, <2>1, <2>3, <2>4, <2>5, <2>6
<1>12. CASE Succeeds(k) \/ Notes(k)
  <2>1. /\ ~At(k, "idle") /\ pending' = pending /\ fresh' = fresh /\ job'[k] = NoJob
        /\ \/ At(k, "sent") /\ queue'[k] = "done"
           \/ At(k, "park_note") /\ queue'[k] = "parked"
           \/ At(k, "rejected") /\ queue'[k] = "dropped"
    BY <1>12 DEF Succeeds, Notes, Ended, At
  <2>2. job'[k].pc = "idle" /\ job'[k].tries = 0 /\ receives' = receives
    BY <1>5, <2>1, NoJobIdle
  <2>3. ~Stale(k)'
    BY <2>2 DEF Stale
  <2>4. GaveUp(k)' => GaveUp(k)
    BY <2>1, <2>2 DEF GaveUp, At
  <2>5. Written <= Written' => CountRow(k)'
    BY <1>0, <1>1, <2>2, <2>3, <2>4, RowMade
  <2>6. (k \in Wrote => k \in Wrote') /\ (k \in Parked => k \in Parked')
    BY <1>7, <2>1, <2>2 DEF Wrote, Parked, At
  <2> QED
    BY <1>1, <1>3, <2>1, <2>5, <2>6, CountEdit
<1>13. CASE Parks(k)
  <2>1. /\ At(k, "locked") /\ job'[k].pc = "park_note" /\ job'[k].tries = job[k].tries
        /\ UNCHANGED <<queue, fresh>>
    BY <1>13 DEF Parks, Goes, Locals
  <2>2. receives' = receives
    BY <1>5, <2>1
  <2> QED
    BY <1>1, <2>1, <2>2, CountPark
<1>14. CASE Requeues(k)
  <2>1. /\ At(k, "failed") /\ ~At(k, "idle") /\ job'[k] = NoJob
        /\ UNCHANGED <<queue, pending, fresh>>
    BY <1>14 DEF Requeues, At
  <2>2. job'[k].pc = "idle" /\ job'[k].tries = 0 /\ receives' = receives
    BY <1>5, <2>1, NoJobIdle
  <2>3. ~Stale(k)' /\ GaveUp(k)
    BY <2>1, <2>2 DEF Stale, GaveUp
  <2>4. Written <= Written' => CountRow(k)'
    BY <1>0, <1>1, <2>2, <2>3, RowMade
  <2>5. k \notin Wrote /\ k \notin Parked
    BY <1>7, <2>1 DEF Wrote, Parked, At
  <2> QED
    BY <1>1, <1>3, <2>1, <2>4, <2>5, CountEdit
<1>15. CASE Refuses(k)
  <2>1. faults' # 0
    BY <1>15, SMT DEF Refuses, Fault
  <2> QED
    BY <2>1 DEF CountInv
<1> QED
  BY <1>1, <1>8, <1>9, <1>11, <1>12, <1>13, <1>14, <1>15

\* The Update card.
LEMMA CountCard ==
    ASSUME CountInv, LockInv', faults = 0, IsFiniteSet(Replayers), NEW k \in DOMAIN edits, Card(k)
    PROVE  CountInv'
<1>0. TypeInv /\ k \in Edits /\ CountRow(k) /\ Written' \in Int
  BY EditTyped, CountTypedNext DEF CountInv, LockInv, TypeInv, HubSpotOK
<1>1. /\ Others(k) /\ OtherMails(k) /\ UNCHANGED <<edits, receives, pending>>
      /\ FormGets(k) \/ FormDone(k) \/ FormEnds(k)
  BY <1>0, CardEffect
<1>2. /\ ~At(k, "idle") /\ ~At(k, "park_note") /\ \A l \in fresh : l \in fresh'
      /\ \/ /\ At(k, "form") /\ k \in fresh' /\ job'[k].pc = "send" /\ queue' = queue
            /\ job'[k].tries = job[k].tries
         \/ At(k, "sent") /\ job'[k] = NoJob /\ queue'[k] = "done"
         \/ ~At(k, "sent") /\ job'[k] = NoJob /\ queue'[k] = "refused"
  BY <1>1 DEF FormGets, FormDone, FormEnds, Ended, At
<1>3. queue[k] \in {"visible", "form"}
  BY <1>0, <1>2 DEF CountRow, At
<1>4. ~Stale(k)'
  BY <1>2, NoJobIdle DEF Stale
<1>5. GaveUp(k)' => GaveUp(k)
  BY <1>1, <1>2, NoJobIdle DEF GaveUp, At
<1>6. Written <= Written' => CountRow(k)'
  <2>1. job'[k].pc # "idle" => queue'[k] \in {"visible", "form"}
    BY <1>2, <1>3, NoJobIdle
  <2>2. job'[k].tries = job[k].tries \/ job'[k].tries = 0
    BY <1>2, NoJobIdle
  <2> QED
    BY <1>0, <1>1, <1>4, <1>5, <2>1, <2>2, RowMade
<1>7. (k \in Wrote => k \in Wrote') /\ (k \in Parked => k \in Parked')
  BY <1>2, <1>3, NoJobIdle DEF Wrote, Parked, At
<1> QED
  BY <1>1, <1>2, <1>6, <1>7, CountEdit

\* UpdateOpportunity, and the second read of LastModifiedDate.
LEMMA CountCall ==
    ASSUME CountInv, LockInv', faults = 0, faults' = 0, IsFiniteSet(Replayers), NEW x \in Jobs,
           CallUpdate(x) \/ Refetch(x)
    PROVE  CountInv'
<1>0. /\ TypeInv /\ Jobs = Edits \cup Replayers /\ Written' \in Int
      /\ x \in Edits => CountRow(x)
  BY CountTypedNext DEF CountInv, LockInv, Jobs, Replayers
<1>1. /\ Others(x) /\ UNCHANGED <<edits, queue, receives, pending>>
      /\ At(x, "send") \/ At(x, "refetch")
  <2>1. CASE CallUpdate(x)
    BY <1>0, <2>1, CallEffect DEF hubspot, sqs
  <2>2. CASE Refetch(x)
    BY <1>0, <2>2, RefetchEffect DEF hubspot, sqs
  <2> QED
    BY <2>1, <2>2
<1>2. \/ At(x, "send") /\ job'[x].pc = "locked" /\ job'[x].tries = job[x].tries /\ fresh' = fresh
      \/ /\ At(x, "send") /\ x \notin fresh /\ job'[x].pc = "refetch"
         /\ job'[x].tries = job[x].tries + 1 /\ fresh' = fresh
      \/ /\ At(x, "send") /\ x \notin fresh /\ job'[x].pc = "failed"
         /\ job'[x].tries = job[x].tries /\ MaxAttempts <= job[x].tries + 1 /\ fresh' = fresh
      \/ At(x, "send") /\ job'[x].pc = "sent" /\ job'[x].tries = job[x].tries
      \/ /\ At(x, "refetch") /\ job'[x].pc = "send" /\ job'[x].tries = job[x].tries
         /\ fresh' = fresh \cup {x}
  <2>1. CASE CallUpdate(x)
    BY <1>0, <2>1, CallEffect, CallCounts
  <2>2. CASE Refetch(x)
    BY <1>0, <2>2, RefetchEffect
  <2> QED
    BY <2>1, <2>2
<1>3. CASE At(x, "send") /\ job'[x].pc = "sent" /\ job'[x].tries = job[x].tries
  BY <1>1, <1>3, CountWrite
<1>4. CASE x \in Replayers /\ job'[x].pc # "sent"
  <2>1. fresh \subseteq fresh' /\ x \in MayWrite
    BY <1>1, <1>2, <1>4 DEF MayWrite, Replays, At
  <2> QED
    BY <1>1, <1>4, <2>1, CountReplay
<1>5. CASE x \in Edits /\ job'[x].pc # "sent"
  <2>1. x \in DOMAIN edits
    BY <1>1, <1>5 DEF CountInv, LockInv, NewInv, At
  <2>2. queue[x] \in {"visible", "form"}
    BY <1>0, <1>1, <1>5 DEF CountRow, At
  <2>3. Stale(x)' => Stale(x) /\ job'[x].tries = job[x].tries
    BY <1>2, <1>5 DEF Stale, At
  <2>4. GaveUp(x)' => GaveUp(x) \/ (Stale(x) /\ MaxAttempts <= job[x].tries + 1)
    BY <1>1, <1>2, <1>5 DEF GaveUp, Stale, At
  <2>5. \/ job'[x].tries = job[x].tries
        \/ Stale(x) /\ job'[x].tries = job[x].tries + 1
    BY <1>2, <1>5 DEF Stale, At
  <2>6. Written <= Written' => CountRow(x)'
    BY <1>0, <1>1, <1>5, <2>1, <2>2, <2>3, <2>4, <2>5, RowMade
  <2>7. x \notin Wrote /\ x \notin Parked /\ OtherMails(x) /\ \A l \in fresh : l \in fresh'
    BY <1>1, <1>2, <1>5, <2>2 DEF Wrote, Parked, At, OtherMails
  <2> QED
    BY <1>1, <2>1, <2>6, <2>7, CountEdit
<1> QED
  BY <1>0, <1>2, <1>3, <1>4, <1>5

\* handle_ace_event and reconcile_pending, between their writes.
LEMMA CountReplayer ==
    ASSUME CountInv, LockInv', faults = 0, IsFiniteSet(Replayers), NEW r \in Replayers,
           \/ r \in Handlers /\ (DeliverEvent(r) \/ Handler(r))
           \/ r \in Sweeps /\ Sweep(r)
    PROVE  CountInv'
<1>1. /\ Others(r) /\ UNCHANGED <<edits, queue, receives>>
      /\ \/ Delivers(r) \/ Reads(r) \/ Compares(r) \/ Mirrors(r) \/ Starts(r) \/ Looks(r)
         \/ Applies(r) \/ Fails(r) \/ Rejects(r) \/ Clears(r) \/ Tells(r)
  BY HandlerEffect, SweepEffect DEF CountInv, LockInv, sqs
<1>2. Leaves(r) => job'[r].pc \in {"compare", "idle"}
  BY NoJobIdle DEF Leaves, Goes
<1>3. CASE Delivers(r) \/ Reads(r) \/ Compares(r) \/ Mirrors(r)
  <2>1. /\ fresh \subseteq fresh' /\ pending' = pending
        /\ job'[r].pc = "apply" => pending # {}
        /\ ~At(r, "sent") /\ job'[r].pc \in {"read", "compare", "apply", "patch", "idle"}
    BY <1>3, NoJobIdle DEF Delivers, Reads, Compares, Mirrors, Fetched, Takes, Goes, At
  <2>2. r \in MayWrite' => r \in MayWrite
    BY <2>1 DEF MayWrite, Replays, At
  <2> QED
    BY <1>1, <2>1, <2>2, CountReplay
<1>4. CASE Starts(r) \/ Looks(r) \/ Applies(r)
  <2>1. fresh \subseteq fresh' /\ pending' = pending /\ r \in MayWrite
    BY <1>4 DEF Starts, Looks, Applies, Fetched, MayWrite, Replays, At
  <2> QED
    BY <1>1, <2>1, CountReplay
<1>5. CASE Fails(r) \/ Rejects(r) \/ Tells(r)
  <2>1. /\ fresh' = fresh /\ pending' = pending /\ ~At(r, "sent")
        /\ job'[r].pc \in {"compare", "idle", "drop"}
    BY <1>2, <1>5 DEF Fails, Rejects, Tells, Goes, At
  <2>2. r \in MayWrite' => r \in MayWrite
    BY <2>1 DEF MayWrite, Replays, At
  <2> QED
    BY <1>1, <2>1, <2>2, CountReplay
<1>6. CASE Clears(r)
  <2>1. fresh' = fresh /\ pending' = {} /\ job'[r].pc \in {"note", "compare", "idle"}
    BY <1>2, <1>6 DEF Clears, Goes
  <2>2. r \notin MayWrite'
    BY <2>1 DEF MayWrite, Replays, At
  <2> QED
    BY <1>1, <2>1, <2>2, CountReplay
<1> QED
  BY <1>1, <1>3, <1>4, <1>5, <1>6

\* A new edit has neither written nor parked.
LEMMA CountNew ==
    ASSUME CountInv, LockInv', faults = 0, IsFiniteSet(Replayers), NEW k \in Edits \ DOMAIN edits,
           DOMAIN edits \subseteq DOMAIN edits', k \in DOMAIN edits',
           UNCHANGED <<receives, pending, fresh>>, OtherMails(k), Others(k),
           queue'[k] \in {"visible", "form"}, job'[k].pc \in {"idle", "form"},
           job'[k].tries = job[k].tries
    PROVE  CountInv'
<1>0. /\ queue[k] = "none" /\ At(k, "idle") /\ CountRow(k) /\ receives[k] = 0
      /\ job[k].tries \in Nat
  BY Constants DEF CountInv, LockInv, NewInv, CountRow, At, TypeInv, JobOK, Job
<1>1. Wrote' = Wrote /\ Parked' = Parked
  BY <1>0, Constants DEF Wrote, Parked, At, Others, OtherMails
<1>2. MayWrite' = MayWrite
  <2>1. \A q \in Replayers : job'[q] = job[q]
    BY Constants DEF Replayers, Others
  <2> QED
    BY <2>1 DEF MayWrite, Replays, At
<1>3. Written' = Written /\ Written \in Int /\ Written <= Written'
  <2>1. Written' = Written
    BY <1>1, <1>2 DEF Written
  <2> QED
    BY <2>1, CountTyped, SMT
<1>4. ASSUME NEW l \in Edits \ {k}, faults' = 0 PROVE CountRow(l)'
  <2>1. CountRow(l) /\ job'[l] = job[l] /\ queue'[l] = queue[l]
    BY Constants DEF CountInv, Others, OtherMails
  <2> QED
    BY <1>3, <2>1, RowKept
<1>5. CountRow(k)'
  <2>1. ~Stale(k)' /\ ~GaveUp(k)'
    BY <1>0, SMT DEF Stale, GaveUp, At
  <2> QED
    BY <1>0, <1>3, <2>1 DEF CountRow
<1> QED
  BY <1>4, <1>5 DEF CountInv

\* BD, submit_to_ace, the reviewers, EventBridge and SQS.
LEMMA CountOutside ==
    ASSUME CountInv, LockInv', faults = 0, faults' = 0, IsFiniteSet(Replayers),
           \/ \E p \in Props, cleared \in BOOLEAN : Edit(p, cleared)
           \/ \E p \in Props : SubmitForm(p)
           \/ Submit \/ (\E status \in ReviewStatus : Review(status)) \/ LoseEvent
           \/ \E k \in Edits : Duplicate(k)
    PROVE  CountInv'
<1>0. TypeInv /\ EditsOK /\ QueueOK /\ JobOK
  BY DEF CountInv, LockInv, TypeInv, HubSpotOK, SqsOK
<1>1. ASSUME NEW p \in Props, NEW cleared \in BOOLEAN, Edit(p, cleared) PROVE CountInv'
  <2>1. PICK v \in Value : v = IF cleared THEN Empty ELSE Len(edits) + 1
    BY <1>1, Constants DEF Edit
  <2>2. PICK k : k = Len(edits) + 1
    OBVIOUS
  <2>3. /\ edits' = Append(edits, [prop |-> p, value |-> v, via |-> "deal"])
        /\ k \in Edits /\ queue' = [queue EXCEPT ![k] = "visible"]
        /\ job' = job /\ UNCHANGED <<receives, pending, fresh>>
    BY <1>1, <2>1, <2>2 DEF Edit, ace
  <2>4. DOMAIN edits' = DOMAIN edits \cup {k} /\ k \notin DOMAIN edits
    BY <1>0, <2>2, <2>3, EditAdded
  <2>5. OtherMails(k) /\ Others(k) /\ queue'[k] = "visible"
    BY <1>0, <2>3 DEF OtherMails, Others, QueueOK
  <2>6. job[k].pc = "idle"
    BY <2>3, <2>4 DEF CountInv, LockInv, NewInv
  <2> QED
    BY <2>3, <2>4, <2>5, <2>6, CountNew
<1>2. ASSUME NEW p \in Props, SubmitForm(p) PROVE CountInv'
  <2>1. PICK k : k = Len(edits) + 1
    OBVIOUS
  <2>2. /\ edits' = Append(edits, [prop |-> p, value |-> k, via |-> "card"])
        /\ k \in Edits /\ queue' = [queue EXCEPT ![k] = "form"] /\ Goto(k, "form")
        /\ UNCHANGED <<receives, pending, fresh>>
    BY <1>2, <2>1 DEF SubmitForm, ace
  <2>3. k \in Jobs /\ k \in Value
    BY <2>2, Constants
  <2>4. DOMAIN edits' = DOMAIN edits \cup {k} /\ k \notin DOMAIN edits
    BY <1>0, <2>1, <2>2, <2>3, EditAdded
  <2>5. OtherMails(k) /\ queue'[k] = "form"
    BY <1>0, <2>2 DEF OtherMails, QueueOK
  <2>6. Others(k) /\ job'[k].pc = "form" /\ job'[k].tries = job[k].tries
    BY <1>0, <2>2, <2>3, Moves DEF Others, Steps
  <2> QED
    BY <2>2, <2>4, <2>5, <2>6, CountNew
<1>3. ASSUME UNCHANGED <<edits, queue, receives, job, pending, fresh>> PROVE CountInv'
  <2>1. Wrote' = Wrote /\ Parked' = Parked /\ MayWrite' = MayWrite
    BY <1>3 DEF Wrote, Parked, MayWrite, Replays, At
  <2>2. Written' = Written
    BY <2>1 DEF Written
  <2>3. \A k \in Edits : CountRow(k)'
    BY <1>3, <2>2 DEF CountInv, CountRow, Stale, GaveUp, At
  <2> QED
    BY <2>3 DEF CountInv
<1>4. CASE Submit \/ (\E status \in ReviewStatus : Review(status)) \/ LoseEvent
  BY <1>3, <1>4 DEF Submit, Review, LoseEvent, hubspot, sqs
<1>5. ASSUME NEW k \in Edits, Duplicate(k) PROVE CountInv'
  BY <1>0, <1>5, NoFault DEF Duplicate
<1> QED
  BY <1>1, <1>2, <1>4, <1>5

\* A failure stays counted.
LEMMA FaultsStay == ASSUME TypeInv, [Next]_vars, faults' = 0 PROVE faults = 0
<1>0. faults \in Nat /\ \A kind : Fault(kind) => faults' # 0
  BY Constants, SMT DEF TypeInv, RestOK, Fault
<1>1. WriteNote => faults' = faults
  BY <1>0 DEF WriteNote
<1>2. ASSUME NEW x \in Jobs, Work(x) PROVE faults' = faults
  <2>1. CallUpdate(x) \/ Refetch(x) => faults' = faults
    BY <1>0 DEF CallUpdate, Refetch, ace
  <2>2. Worker(x) => faults' = faults
    BY <1>0, <1>1 DEF Worker, Receive, Resolve, GetCurrent, RefetchValue, Updated, Park, ParkNote,
       Dropped, Requeue, DeadLetter
  <2>3. Card(x) => faults' = faults
    BY <1>0 DEF Card, FormGet, FormApplied, FormRefused
  <2>4. Reconciler(x) => faults' = faults
    BY <1>0, <1>1 DEF Reconciler, Apply, ReplayFails, ReplayRejected, ClearPending, SuccessNote
  <2>5. DeliverEvent(x) \/ Handler(x) => faults' = faults
    BY <1>0, <2>4 DEF DeliverEvent, Handler, ReadPending, Compare, Mirror
  <2>6. Sweep(x) => faults' = faults
    BY <2>4 DEF Sweep, StartSweep, SweepGet
  <2> QED
    BY <1>2, <2>1, <2>2, <2>3, <2>5, <2>6 DEF Work
<1>3. \/ \E p \in Props, cleared \in BOOLEAN : Edit(p, cleared)
      \/ \E p \in Props : SubmitForm(p)
      \/ Submit \/ (\E status \in ReviewStatus : Review(status)) \/ LoseEvent
      => faults' = faults
  BY DEF Edit, SubmitForm, Submit, Review, LoseEvent
<1>4. \A x \in Jobs : ~Crash(x)
  BY <1>0 DEF Crash
<1>5. \A k \in Edits : ~Duplicate(k)
  BY <1>0 DEF Duplicate
<1>6. UNCHANGED vars => faults' = faults
  BY DEF vars
<1> QED
  BY <1>2, <1>3, <1>4, <1>5, <1>6 DEF Next, Rest

\* Every step.
LEMMA CountNext ==
    ASSUME CountInv, IsFiniteSet(Replayers), MaxReceive > 0, [Next]_vars
    PROVE  CountInv'
<1>0. LockInv' /\ TypeInv
  BY LockNext DEF CountInv, LockInv
<1>1. CASE faults' # 0
  BY <1>0, <1>1 DEF CountInv
<1>2. CASE faults' = 0
  <2>0. faults = 0
    BY <1>0, <1>2, FaultsStay
  <2>1. ASSUME NEW x \in Jobs, Work(x) PROVE CountInv'
    <3>1. CASE CallUpdate(x) \/ Refetch(x)
      BY <1>0, <1>2, <2>0, <3>1, CountCall
    <3>2. CASE x \in DOMAIN edits /\ Worker(x)
      BY <1>0, <2>0, <3>2, CountWorker
    <3>3. CASE x \in DOMAIN edits /\ Card(x)
      BY <1>0, <2>0, <3>3, CountCard
    <3>4. CASE \/ x \in Handlers /\ (DeliverEvent(x) \/ Handler(x))
               \/ x \in Sweeps /\ Sweep(x)
      BY <1>0, <2>0, <3>4, CountReplayer DEF Replayers
    <3> QED
      BY <2>1, <1>0, <3>1, <3>2, <3>3, <3>4, WorkEffect
  <2>2. \A x \in Jobs : ~Crash(x)
    BY <1>0, <1>2, <2>0, NoFault DEF Crash
  <2>3. CASE UNCHANGED vars
    <3>1. UNCHANGED <<edits, queue, receives, job, pending, fresh>>
      BY <2>3 DEF vars, hubspot, sqs, ace
    <3>2. Wrote' = Wrote /\ Parked' = Parked /\ MayWrite' = MayWrite
      BY <3>1 DEF Wrote, Parked, MayWrite, Replays, At
    <3>3. Written' = Written
      BY <3>2 DEF Written
    <3>4. \A k \in Edits : CountRow(k)'
      BY <2>0, <3>1, <3>3 DEF CountInv, CountRow, Stale, GaveUp, At
    <3> QED
      BY <1>0, <3>4 DEF CountInv
  <2> QED
    BY <1>0, <1>2, <2>0, <2>1, <2>2, <2>3, CountOutside DEF Next, Rest
<1> QED
  BY <1>1, <1>2

\* Initially nobody has written.
LEMMA CountInit == ASSUME IsFiniteSet(Replayers), Init PROVE CountInv
<1>1. LockInv
  BY LockInit
<1>2. /\ \A x \in Jobs : job[x] = NoJob
      /\ \A k \in Edits : queue[k] = "none" /\ receives[k] = 0
      /\ pending = {}
  BY DEF Init
<1>3. \A x \in Jobs : job[x].pc = "idle" /\ job[x].tries = 0
  BY <1>2, NoJobIdle
<1>4. Wrote = {} /\ Parked = {} /\ MayWrite = {}
  BY <1>2, <1>3, Constants DEF Wrote, Parked, MayWrite, Replays, Replayers, At
<1>5. Written = 0
  <2>1. Cardinality({}) = 0 /\ Cardinality(Replayers) \in Nat
    BY FS_EmptySet, FS_CardinalityType
  <2>2. Cardinality(Replayers) * 0 = 0
    BY <2>1, SMT
  <2> QED
    BY <1>4, <2>1, <2>2, SMT DEF Written
<1>6. ASSUME NEW k \in Edits PROVE CountRow(k)
  <2>1. job[k].pc = "idle" /\ job[k].tries = 0 /\ queue[k] = "none" /\ receives[k] = 0
    BY <1>2, <1>3, Constants
  <2>2. ~Stale(k) /\ ~GaveUp(k)
    BY <2>1, SMT DEF Stale, GaveUp, At
  <2> QED
    BY <1>5, <2>1, <2>2, SMT DEF CountRow
<1> QED
  BY <1>1, <1>6 DEF CountInv

\* Without failures, an edit is in the dead-letter queue only if other edits
\* account for as many writes as it has attempts: one for every edit that has
\* succeeded, and one for every edit that has parked and everyone who replays.
GivesUpAgainstThree ==
    faults = 0 => \A k \in Edits : queue[k] = "dlq" =>
        LET succeeded == {l \in Edits \ {k} : queue[l] = "done" \/ At(l, "sent")}
            parked    == {l \in Edits \ {k} : queue[l] = "parked" \/ At(l, "park_note")}
        IN  MaxAttempts <= Cardinality(succeeded)
                             + Cardinality(Handlers \cup Sweeps) * Cardinality(parked)

\* What the invariant says of an edit that is lost.
LEMMA LostToOthers ==
    ASSUME CountInv, IsFiniteSet(Replayers), faults = 0, NEW k \in Edits, queue[k] = "dlq"
    PROVE  /\ Wrote \cap Parked = {} /\ Wrote \subseteq Edits \ {k} /\ Parked \subseteq Edits \ {k}
           /\ MaxAttempts <= Cardinality(Wrote) + Cardinality(Replayers) * Cardinality(Parked)
<1>1. \A l \in Edits : job[l].pc # "idle" => queue[l] \in {"visible", "form"}
  BY DEF CountInv, CountRow
<1>2. Wrote \cap Parked = {} /\ Wrote \subseteq Edits \ {k} /\ Parked \subseteq Edits \ {k}
  BY <1>1 DEF Wrote, Parked, At
<1>3. MaxAttempts <= Written
  BY DEF CountInv, CountRow, GaveUp
<1>4. /\ Cardinality(Wrote) \in Nat /\ Cardinality(Parked) \in Nat
      /\ Cardinality(MayWrite) \in Nat /\ Cardinality(Replayers) \in Nat
  BY CountTyped, FS_CardinalityType
<1>5. Cardinality(Replayers) * Cardinality(Parked) \in Nat
  BY <1>4, SMT
<1> QED
  BY <1>2, <1>3, <1>4, <1>5, SMT DEF Written, MaxAttempts

\* update_with_retry gives up only after as many other writers as it has
\* attempts: no failure, no lost edit that others have not outnumbered, for any
\* number of edits, deliveries and replayers.
THEOREM GivesUpOnlyWhenOutnumbered ==
    ASSUME IsFiniteSet(Handlers \cup Sweeps), MaxReceive > 0
    PROVE  Spec => []GivesUpAgainstThree
<1>1. IsFiniteSet(Replayers)
  BY DEF Replayers
<1>2. Init => CountInv
  BY <1>1, CountInit
<1>3. CountInv /\ [Next]_vars => CountInv'
  BY <1>1, CountNext
<1>4. CountInv => GivesUpAgainstThree
  <2>1. ASSUME CountInv, faults = 0, NEW k \in Edits, queue[k] = "dlq",
               NEW succeeded, succeeded = {l \in Edits \ {k} : queue[l] = "done" \/ At(l, "sent")},
               NEW parked, parked = {l \in Edits \ {k} : queue[l] = "parked" \/ At(l, "park_note")}
        PROVE  MaxAttempts <= Cardinality(succeeded)
                                + Cardinality(Handlers \cup Sweeps) * Cardinality(parked)
    <3>1. succeeded = Wrote /\ parked = Parked
      BY <1>1, <2>1, LostToOthers DEF Wrote, Parked
    <3> QED
      BY <1>1, <2>1, <3>1, LostToOthers DEF Replayers
  <2> QED
    BY <2>1 DEF GivesUpAgainstThree
<1> QED
  BY <1>2, <1>3, <1>4, PTL DEF Spec

\* No edit has as many others to contend with as it has attempts.
FewWriters ==
    LET n == Cardinality(Handlers \cup Sweeps) IN
    (MaxEdits - 1) * (IF n = 0 THEN 1 ELSE n) < MaxAttempts

\* Contention alone never dead-letters an edit, as long as there are no more
\* writers than attempts.
THEOREM ContentionAbsorbed ==
    ASSUME IsFiniteSet(Handlers \cup Sweeps), MaxReceive > 0, FewWriters
    PROVE  Spec => []ContentionIsAbsorbed
<1>1. IsFiniteSet(Replayers)
  BY DEF Replayers
<1>2. Init => CountInv
  BY <1>1, CountInit
<1>3. CountInv /\ [Next]_vars => CountInv'
  BY <1>1, CountNext
<1>4. ASSUME CountInv, faults = 0, NEW k \in Edits, queue[k] = "dlq" PROVE FALSE
  <2>1. PICK a, b, n : /\ a = Cardinality(Wrote) /\ b = Cardinality(Parked)
                       /\ n = Cardinality(Replayers)
    OBVIOUS
  <2>2. /\ Wrote \cap Parked = {} /\ Wrote \cup Parked \subseteq Edits \ {k}
        /\ MaxAttempts <= a + n * b
    BY <1>1, <1>4, <2>1, LostToOthers
  <2>3. /\ IsFiniteSet(Wrote) /\ IsFiniteSet(Parked) /\ IsFiniteSet(Edits)
        /\ a \in Nat /\ b \in Nat /\ n \in Nat
    BY <1>1, <2>1, CountTyped, FS_CardinalityType
  <2>4. Cardinality(Edits) = MaxEdits /\ MaxEdits \in Nat
    <3>1. MaxEdits \in Nat /\ 1 \in Int /\ MaxEdits \in Int
      BY Constants
    <3>2. Cardinality(1..MaxEdits) = IF 1 > MaxEdits THEN 0 ELSE MaxEdits - 1 + 1
      BY <3>1, FS_Interval
    <3> QED
      BY <3>1, <3>2, SMT DEF Edits
  <2>5. /\ IsFiniteSet(Edits \ {k}) /\ Cardinality(Edits \ {k}) = MaxEdits - 1
    BY <1>4, <2>3, <2>4, FS_RemoveElement
  <2>6. Cardinality(Wrote \cup Parked) = a + b
    <3>1. Cardinality(Wrote \cap Parked) = 0
      BY <2>2, FS_EmptySet
    <3>2. Cardinality(Wrote \cup Parked) = a + b - Cardinality(Wrote \cap Parked)
      BY <2>1, <2>3, FS_Union
    <3> QED
      BY <2>3, <3>1, <3>2, SMT
  <2>7. a + b <= MaxEdits - 1
    BY <2>2, <2>5, <2>6, FS_Subset
  <2>8. PICK m \in Nat : m = (IF n = 0 THEN 1 ELSE n) /\ 1 <= m /\ n <= m
    BY <2>3, SMT
  <2>9. (MaxEdits - 1) * m < MaxAttempts
    BY <2>1, <2>8 DEF FewWriters, Replayers
  <2>10. PICK c \in Nat, d \in Nat : c = a + b /\ d = MaxEdits - 1 /\ c <= d
    BY <2>3, <2>4, <2>7, SMT
  <2>11. m * c <= m * d /\ m * d \in Nat /\ m * c \in Nat
    BY <2>8, <2>10, TimesGrows
  <2>12. a + n * b <= m * c
    <3>1. m * c = m * a + m * b
      BY <2>3, <2>8, <2>10, SMT
    <3>2. b * n <= b * m /\ b * n = n * b /\ b * m = m * b /\ b * n \in Nat /\ b * m \in Nat
      <4>1. b * n <= b * m /\ b * n \in Nat /\ b * m \in Nat
        BY <2>3, <2>8, TimesGrows
      <4> QED
        BY <4>1, <2>3, <2>8, SMT
    <3>3. a * 1 <= a * m /\ a * m = m * a /\ a * 1 = a /\ a * m \in Nat
      <4>1. a * 1 <= a * m /\ a * m \in Nat
        BY <2>3, <2>8, TimesGrows
      <4> QED
        BY <4>1, <2>3, <2>8, SMT
    <3> QED
      BY <2>3, <3>1, <3>2, <3>3, SMT
  <2>13. m * d = (MaxEdits - 1) * m /\ n * b \in Nat
    BY <2>3, <2>4, <2>8, <2>10, SMT
  <2> QED
    BY ONLY <2>2, <2>3, <2>9, <2>11, <2>12, <2>13, SMT DEF MaxAttempts
<1>5. CountInv => ContentionIsAbsorbed
  BY <1>4 DEF ContentionIsAbsorbed
<1> QED
  BY <1>2, <1>3, <1>5, PTL DEF Spec
=============================================================================
