----------------------------- MODULE AceUpdate ------------------------------
(***************************************************************************)
(* Edits after submission.  A property edited on a HubSpot deal becomes a  *)
(* message of the update queue, and update_in_ace merges it into the AWS   *)
(* opportunity with UpdateOpportunity, a PUT of every field under          *)
(* optimistic locking (src/lambdas/update_in_ace.py, src/ace/client.py).   *)
(* While AWS reviews the opportunity it refuses updates; the property is   *)
(* then parked on the ACE# row (src/sync/state.py) and replayed by         *)
(* reconcile_pending_props (src/ace/reconcile.py), which handle_ace_event  *)
(* runs on an "Opportunity Updated" event and reconcile_pending on a       *)
(* schedule.  The Update card (src/lambdas/ui_extension_writes.py) writes  *)
(* to AWS at once and to HubSpot afterwards.                               *)
(*                                                                         *)
(* One deal and its opportunity; the rows, deals and opportunities of      *)
(* different GovWin ids share nothing.  Every edit has a number, and the   *)
(* number stands for the value that was typed.  Each running invocation is *)
(* a job; a job is interrupted only between two calls that leave it.       *)
(***************************************************************************)
EXTENDS Naturals, Sequences, FiniteSets

CONSTANTS
    Props,         \* properties of the deal that update_in_ace forwards
    NextSteps,     \* govwin_ace_next_steps: an edit, and the place of notes
    Stage,         \* govwin_ace_lifecycle_stage: mirrored back from AWS
    Refetched,     \* properties read from the deal instead of the webhook
    Handlers,      \* concurrent invocations of handle_ace_event
    Sweeps,        \* invocations of reconcile_pending (reserved: one)
    Cards,         \* whether BD uses the Update card, too
    Empty,         \* a cleared property
    Note,          \* a note the integration writes for BD
    Reviews,       \* steps <<from, to>> the AWS review takes
    FirstReview,   \* the review status at the start
    Created,       \* whether the behaviour starts with the opportunity recorded
    MaxEdits,      \* bound: edits in a behaviour
    MaxEvents,     \* bound: undelivered events
    MaxReceive,    \* redrive policy: maxReceiveCount of the update queue
    MaxConcurrent, \* reserved_concurrent_executions of update_in_ace
    Faults,        \* which kinds of failure can happen, see FaultKinds
    MaxFaults      \* bound: failures injected in a behaviour

(***************************************************************************)
(*   crash      an invocation dies, or an exception reports its record     *)
(*   transient  AWS fails the call after the retries of _call_write        *)
(*   reject     AWS refuses the call for good                              *)
(*   duplicate  SQS delivers a processed message once more                 *)
(*   no_write   a best-effort write (a note, a parked property) fails      *)
(*   no_read    HubSpot does not answer a read of the deal                 *)
(*   no_event   EventBridge, whose delivery is best effort, drops an event *)
(***************************************************************************)
FaultKinds == {"crash", "transient", "reject", "duplicate", "no_write", "no_read",
               "no_event"}

MaxAttempts == 3   \* update_with_retry(max_attempts=3)

ReviewStatus == {"Pending Submission", "In review", "Approved", "Action Required",
                 "Rejected"}
\* "Submitted" is one with "In review": both refuse updates.
Blocked      == {"In review", "Rejected"}
Reconcilable == {"Approved", "Action Required"}

Edits == 1..MaxEdits
Jobs  == Edits \cup Handlers \cup Sweeps
Value == Edits \cup {0, Empty, Note}

ASSUME UpdateAssumption ==
    /\ Refetched \subseteq Props
    /\ Reviews \subseteq ReviewStatus \X ReviewStatus
    /\ FirstReview \in ReviewStatus /\ Created \in BOOLEAN /\ Cards \in BOOLEAN
    /\ Edits \cap (Handlers \cup Sweeps) = {} /\ Handlers \cap Sweeps = {}
    /\ Empty \notin Edits \cup {0} /\ Note \notin Edits \cup {0, Empty}
    /\ \A n \in {MaxEdits, MaxEvents, MaxReceive, MaxConcurrent, MaxFaults} : n \in Nat
    /\ Faults \subseteq FaultKinds

VARIABLES
    deal,       \* HubSpot: the properties of the deal
    edits,      \* every edit so far: its property, its value, where it was made
    queue,      \* per edit: where its message is, or how it left the queue
    receives,   \* per edit: ApproximateReceiveCount
    job,        \* per invocation: the call it is about to make, its locals
    pending,    \* DynamoDB: pending_reconcile_props of the ACE# row
    submission, \* how far submit_to_ace has come with the deal
    aws,        \* AWS: the fields of the opportunity
    fresh,      \* the jobs whose LastModifiedDate is the current one
    review,     \* AWS: the review status
    events,     \* undelivered "Opportunity Updated" events
    faults

hubspot == <<deal, edits>>
sqs     == <<queue, receives>>
ace     == <<aws, fresh, review, events>>
vars    == <<hubspot, sqs, job, pending, submission, ace, faults>>

NoFields == [p \in Props |-> 0]
NoJob    == [pc |-> "idle", payload |-> NoFields, props |-> {}, stage |-> 0, tries |-> 0]
Steps    == {"resolve", "get", "value", "send", "refetch", "sent", "locked", "rejected",
             "failed", "park_note", "form", "read", "apply", "note", "drop", "compare",
             "patch"}
\* The locals of an invocation: the UpdateOpportunity payload, the properties
\* it is about, the AWS stage it read, the attempts of update_with_retry.
Job      == [pc : Steps \cup {"idle"}, payload : [Props -> Value], props : SUBSET Props,
             stage : Value, tries : 0..(MaxAttempts - 1)]

Init ==
    /\ deal = NoFields /\ aws = NoFields /\ edits = << >>
    /\ queue = [k \in Edits |-> "none"] /\ receives = [k \in Edits |-> 0]
    /\ job = [x \in Jobs |-> NoJob]
    /\ pending = {} /\ fresh = {} /\ events = 0 /\ faults = 0
    /\ submission = IF Created THEN "recorded" ELSE "none"
    /\ review = FirstReview

-----------------------------------------------------------------------------
(* Helpers.                                                                *)

At(x, step)   == job[x].pc = step
Goto(x, step) == job' = [job EXCEPT ![x].pc = step]
End(x)        == job' = [job EXCEPT ![x] = NoJob]
Prop(k)       == edits[k].prop
Working       == {k \in DOMAIN edits : edits[k].via = "deal" /\ job[k].pc # "idle"}
Fault(kind)   == kind \in Faults /\ faults < MaxFaults /\ faults' = faults + 1

\* A message leaves the queue.
Finish(k, how) == End(k) /\ queue' = [queue EXCEPT ![k] = how]

\* AWS emits an "Opportunity Updated" event.
Emit == events' = IF events < MaxEvents THEN events + 1 ELSE events

\* A note for BD, which replaces the Next Steps of the deal.
WriteNote ==
    \/ /\ deal' = [p \in Props |-> IF p = NextSteps THEN Note ELSE deal[p]]
       /\ UNCHANGED faults
    \/ Fault("no_write") /\ UNCHANGED deal

\* _apply_delta: an empty value changes nothing.
Delta(fields, p, v) == IF v = Empty THEN fields ELSE [fields EXCEPT ![p] = v]

-----------------------------------------------------------------------------
(* The environment: BD users, submit_to_ace, the AWS reviewers.            *)

\* BD edits a property of the deal in HubSpot; the receiver enqueues it.
Edit(p, cleared) ==
    LET k == Len(edits) + 1
        v == IF cleared THEN Empty ELSE k IN
    /\ k \in Edits
    /\ edits' = Append(edits, [prop |-> p, value |-> v, via |-> "deal"])
    /\ deal' = [deal EXCEPT ![p] = v]
    /\ queue' = [queue EXCEPT ![k] = "visible"]
    /\ UNCHANGED <<receives, job, pending, submission, ace, faults>>

\* submit_to_ace reads the deal, creates the opportunity from what it read,
\* and records it in the ACE# row (module AceSubmit).
Submit ==
    /\ \/ /\ submission = "none" /\ submission' = "loaded"
          /\ aws' = deal
       \/ submission = "loaded" /\ submission' = "created" /\ UNCHANGED aws
       \/ submission = "created" /\ submission' = "recorded" /\ UNCHANGED aws
    /\ UNCHANGED <<hubspot, sqs, job, pending, fresh, review, events, faults>>

\* AWS moves the review on, which it announces with an event.
Review(status) ==
    /\ submission = "recorded"
    /\ <<review, status>> \in Reviews
    /\ review' = status
    /\ Emit
    /\ UNCHANGED <<hubspot, sqs, job, pending, submission, aws, fresh, faults>>

\* EventBridge drops an event: any number of them, within MaxEvents.
LoseEvent ==
    /\ "no_event" \in Faults /\ events > 0
    /\ events' = events - 1
    /\ UNCHANGED <<hubspot, sqs, job, pending, submission, aws, fresh, review, faults>>

-----------------------------------------------------------------------------
(* update_with_retry, shared by the three writers of the opportunity.      *)

\* GetOpportunity: the current fields, and a LastModifiedDate that is current.
Fetch(x, next) ==
    /\ job' = [job EXCEPT ![x].pc = next, ![x].payload = aws,
                          ![x].stage = IF Stage \in Props THEN aws[Stage] ELSE 0]
    /\ fresh' = fresh \cup {x}

\* Mutant: a conflict is an error like any other.
Conflict_GivesUp(x) == Goto(x, "failed")

\* ConflictException: try again with the current LastModifiedDate.
Conflict(x) ==
    IF job[x].tries + 1 < MaxAttempts
      THEN job' = [job EXCEPT ![x].pc = "refetch", ![x].tries = @ + 1]
      ELSE Goto(x, "failed")

\* Mutant: UpdateOpportunity without a LastModifiedDate.
CallUpdate_NoDate(x) ==
    /\ At(x, "send") /\ review \notin Blocked
    /\ aws' = job[x].payload /\ fresh' = {} /\ Emit
    /\ Goto(x, "sent")
    /\ UNCHANGED <<hubspot, sqs, pending, submission, review, faults>>

\* UpdateOpportunity: refused during review, refused when LastModifiedDate is
\* out of date, otherwise a PUT of the whole payload.
CallUpdate(x) ==
    /\ At(x, "send")
    /\ \/ /\ review \in Blocked
          /\ Goto(x, "locked")
          /\ UNCHANGED <<ace, faults>>
       \/ /\ review \notin Blocked /\ x \notin fresh
          /\ Conflict(x)
          /\ UNCHANGED <<ace, faults>>
       \/ /\ review \notin Blocked /\ x \in fresh
          /\ aws' = job[x].payload
          /\ fresh' = {}
          /\ Emit
          /\ Goto(x, "sent")
          /\ UNCHANGED <<review, faults>>
       \/ /\ Fault("reject") /\ Goto(x, "rejected")
          /\ UNCHANGED ace
       \/ /\ Fault("transient") /\ Goto(x, "failed")
          /\ UNCHANGED ace
    /\ UNCHANGED <<hubspot, sqs, pending, submission>>

\* On a conflict only LastModifiedDate is read again; the payload stays.
Refetch(x) ==
    /\ At(x, "refetch")
    /\ fresh' = fresh \cup {x}
    /\ Goto(x, "send")
    /\ UNCHANGED <<hubspot, sqs, pending, submission, aws, review, events, faults>>

-----------------------------------------------------------------------------
(* update_in_ace: one message.                                             *)

Receive(k) ==
    /\ queue[k] = "visible" /\ job[k].pc = "idle"
    /\ receives[k] < MaxReceive
    /\ Cardinality(Working) < MaxConcurrent
    /\ receives' = [receives EXCEPT ![k] = @ + 1]
    /\ Goto(k, "resolve")
    /\ UNCHANGED <<hubspot, queue, pending, submission, ace, faults>>

\* No ace_opportunity_id in the row yet, nor on the deal: skipped.
Resolve(k) ==
    /\ At(k, "resolve")
    /\ IF submission = "recorded" THEN Goto(k, "get") /\ UNCHANGED queue
                                  ELSE Finish(k, "skipped")
    /\ UNCHANGED <<hubspot, receives, pending, submission, ace, faults>>

\* The value of the webhook, unless the property is one to read from the deal.
SetValue(k, fields, v) ==
    IF v = Empty THEN Finish(k, "skipped")
    ELSE /\ job' = [job EXCEPT ![k].payload = Delta(fields, Prop(k), v), ![k].pc = "send"]
         /\ UNCHANGED queue

\* GetOpportunity; what AWS refuses for good is dropped like a refused update.
GetCurrent(k) ==
    /\ At(k, "get")
    /\ \/ /\ fresh' = fresh \cup {k}
          /\ IF Prop(k) \in Refetched
               THEN /\ job' = [job EXCEPT ![k].pc = "value", ![k].payload = aws]
                    /\ UNCHANGED queue
               ELSE SetValue(k, aws, edits[k].value)
          /\ UNCHANGED faults
       \/ Fault("reject") /\ Goto(k, "rejected") /\ UNCHANGED <<fresh, queue>>
    /\ UNCHANGED <<hubspot, receives, pending, submission, aws, review, events>>

\* Mutant: the value of the webhook is the one to write.
RefetchValue_Webhook(k) ==
    /\ At(k, "value")
    /\ SetValue(k, job[k].payload, edits[k].value)
    /\ UNCHANGED <<hubspot, receives, pending, submission, ace, faults>>

\* An empty property falls back on the webhook's value, and so does a failure.
RefetchValue(k) ==
    /\ At(k, "value")
    /\ \/ /\ SetValue(k, job[k].payload,
                      IF deal[Prop(k)] # Empty THEN deal[Prop(k)] ELSE edits[k].value)
          /\ UNCHANGED faults
       \/ Fault("no_read") /\ SetValue(k, job[k].payload, edits[k].value)
    /\ UNCHANGED <<hubspot, receives, pending, submission, ace>>

\* Success: last_modified_date goes to the row.
Updated(k) ==
    /\ At(k, "sent")
    /\ Finish(k, "done")
    /\ UNCHANGED <<hubspot, receives, pending, submission, ace, faults>>

\* Refused for the review only: park the property, or drop the edit when its
\* row is not found ...
Park(k) ==
    /\ At(k, "locked")
    /\ \/ pending' = pending \cup {Prop(k)} /\ Goto(k, "park_note") /\ UNCHANGED faults
       \/ Fault("no_write") /\ Goto(k, "park_note") /\ UNCHANGED pending
       \/ Fault("no_read") /\ Goto(k, "rejected") /\ UNCHANGED pending
    /\ UNCHANGED <<hubspot, sqs, submission, ace>>

\* ... and tell BD that it is queued.
ParkNote(k) ==
    /\ At(k, "park_note")
    /\ WriteNote
    /\ Finish(k, "parked")
    /\ UNCHANGED <<edits, receives, pending, submission, ace>>

\* Refused for good: tell BD why, and drop the message.
Dropped(k) ==
    /\ At(k, "rejected")
    /\ WriteNote
    /\ Finish(k, "dropped")
    /\ UNCHANGED <<edits, receives, pending, submission, ace>>

\* batchItemFailures: the message becomes visible again.
Requeue(k) ==
    /\ At(k, "failed")
    /\ End(k)
    /\ UNCHANGED <<hubspot, sqs, pending, submission, ace, faults>>

DeadLetter(k) ==
    /\ queue[k] = "visible" /\ job[k].pc = "idle"
    /\ receives[k] = MaxReceive
    /\ queue' = [queue EXCEPT ![k] = "dlq"]
    /\ UNCHANGED <<hubspot, receives, job, pending, submission, ace, faults>>

\* Standard queues deliver a deleted message again now and then.
Duplicate(k) ==
    /\ queue[k] \in {"done", "parked"} /\ edits[k].via = "deal" /\ receives[k] < MaxReceive
    /\ Fault("duplicate")
    /\ queue' = [queue EXCEPT ![k] = "visible"]
    /\ UNCHANGED <<hubspot, receives, job, pending, submission, ace>>

Worker(k) ==
    \/ Receive(k) \/ Resolve(k) \/ GetCurrent(k) \/ RefetchValue(k) \/ Updated(k)
    \/ Park(k) \/ ParkNote(k) \/ Dropped(k) \/ Requeue(k) \/ DeadLetter(k)

-----------------------------------------------------------------------------
(* handle_ace_event and reconcile_pending: replaying what is parked.       *)

\* An "Opportunity Updated" event starts handle_ace_event, which reads the
\* opportunity; a reconcilable one leads to the parked properties.
DeliverEvent(h) ==
    /\ At(h, "idle") /\ events > 0
    /\ events' = events - 1
    /\ Fetch(h, IF review \in Reconcilable THEN "read" ELSE "compare")
    /\ UNCHANGED <<hubspot, sqs, pending, submission, aws, review, faults>>

ReadPending(h) ==
    /\ At(h, "read")
    /\ IF pending = {} THEN Goto(h, "compare")
       ELSE job' = [job EXCEPT ![h].props = pending, ![h].pc = "apply"]
    /\ UNCHANGED <<hubspot, sqs, pending, submission, ace, faults>>

\* The sweep scans for rows with parked properties, then reads AWS.
StartSweep(s) ==
    /\ At(s, "idle") /\ pending # {}
    /\ job' = [job EXCEPT ![s].props = pending, ![s].pc = "get"]
    /\ UNCHANGED <<hubspot, sqs, pending, submission, ace, faults>>

\* Mutant: "Action Required" is taken for a review that is still going on.
SweepGet_OnlyApproved(s) ==
    /\ At(s, "get")
    /\ IF review = "Approved" THEN Fetch(s, "apply") ELSE End(s) /\ UNCHANGED fresh
    /\ UNCHANGED <<hubspot, sqs, pending, submission, aws, review, events, faults>>

SweepGet(s) ==
    /\ At(s, "get")
    /\ IF review \in Reconcilable THEN Fetch(s, "apply")
                                  ELSE End(s) /\ UNCHANGED fresh
    /\ UNCHANGED <<hubspot, sqs, pending, submission, aws, review, events, faults>>

\* What a reconciler does when it is through, or gives up: the handler still
\* has its write-back to do.
Leave(r) == IF r \in Handlers THEN Goto(r, "compare") ELSE End(r)

\* The parked properties take the deal's current values, those that have one.
Apply(r) ==
    LET given == {p \in job[r].props : deal[p] # Empty} IN
    /\ At(r, "apply")
    /\ \/ /\ given = {}
          /\ Goto(r, "drop")
          /\ UNCHANGED faults
       \/ /\ given # {}
          /\ job' = [job EXCEPT ![r].pc = "send",
                ![r].payload = [p \in Props |-> IF p \in given THEN deal[p] ELSE @[p]]]
          /\ UNCHANGED faults
       \/ Fault("no_read") /\ Goto(r, "failed")
    /\ UNCHANGED <<hubspot, sqs, pending, submission, ace>>

\* Mutant: the pending set is cleared whatever the outcome.
ReplayFails_Clears(r) ==
    /\ At(r, "locked") \/ At(r, "failed")
    /\ pending' = {}
    /\ Leave(r)
    /\ UNCHANGED <<hubspot, sqs, submission, ace, faults>>

\* Still locked, or a transient failure: what is parked stays parked.
ReplayFails(r) ==
    /\ At(r, "locked") \/ At(r, "failed")
    /\ Leave(r)
    /\ UNCHANGED <<hubspot, sqs, pending, submission, ace, faults>>

\* Refused for good: BD is told first.
ReplayRejected(r) ==
    /\ At(r, "rejected")
    /\ WriteNote
    /\ Goto(r, "drop")
    /\ UNCHANGED <<edits, sqs, pending, submission, ace>>

\* clear_pending_reconcile_props removes the whole set; after a success BD is
\* told.
ClearPending(r) ==
    /\ At(r, "sent") \/ At(r, "drop")
    /\ pending' = {}
    /\ IF At(r, "sent") THEN Goto(r, "note") ELSE Leave(r)
    /\ UNCHANGED <<hubspot, sqs, submission, ace, faults>>

SuccessNote(r) ==
    /\ At(r, "note")
    /\ WriteNote
    /\ Leave(r)
    /\ UNCHANGED <<edits, sqs, pending, submission, ace>>

\* Mutant: only a blank stage is filled in.
Compare_OnlyBlank(h) ==
    /\ At(h, "compare")
    /\ IF Stage \in Props /\ deal[Stage] = 0 THEN Goto(h, "patch") ELSE End(h)
    /\ UNCHANGED <<hubspot, sqs, pending, submission, ace, faults>>

\* handle_ace_event mirrors the AWS stage it read onto the deal, unless the
\* deal already has it.
Compare(h) ==
    /\ At(h, "compare")
    /\ \/ /\ IF Stage \in Props /\ deal[Stage] # job[h].stage THEN Goto(h, "patch")
                                                              ELSE End(h)
          /\ UNCHANGED faults
       \/ Stage \in Props /\ Fault("no_read") /\ Goto(h, "patch")
    /\ UNCHANGED <<hubspot, sqs, pending, submission, ace>>

Mirror(h) ==
    /\ At(h, "patch")
    /\ \/ deal' = [deal EXCEPT ![Stage] = job[h].stage] /\ UNCHANGED faults
       \/ Fault("no_write") /\ UNCHANGED deal
    /\ End(h)
    /\ UNCHANGED <<edits, sqs, pending, submission, ace>>

Reconciler(r) ==
    \/ Apply(r) \/ ReplayFails(r) \/ ReplayRejected(r) \/ ClearPending(r) \/ SuccessNote(r)
Handler(h) == ReadPending(h) \/ Reconciler(h) \/ Compare(h) \/ Mirror(h)
Sweep(s)   == StartSweep(s) \/ SweepGet(s) \/ Reconciler(s)

-----------------------------------------------------------------------------
(* The Update card: AWS first, then the deal, whose webhook the receiver    *)
(* drops because it comes from the integration itself.                      *)

SubmitForm(p) ==
    LET k == Len(edits) + 1 IN
    /\ Cards /\ submission = "recorded" /\ k \in Edits
    /\ edits' = Append(edits, [prop |-> p, value |-> k, via |-> "card"])
    /\ queue' = [queue EXCEPT ![k] = "form"]
    /\ Goto(k, "form")
    /\ UNCHANGED <<deal, receives, pending, submission, ace, faults>>

\* map_update_form_to_ace_payload overlays the form on the current fields.
FormGet(k) ==
    /\ At(k, "form")
    /\ fresh' = fresh \cup {k}
    /\ job' = [job EXCEPT ![k].pc = "send",
                          ![k].payload = Delta(aws, Prop(k), edits[k].value)]
    /\ UNCHANGED <<hubspot, sqs, pending, submission, aws, review, events, faults>>

FormApplied(k) ==
    /\ At(k, "sent")
    /\ \/ deal' = [deal EXCEPT ![Prop(k)] = edits[k].value] /\ UNCHANGED faults
       \/ Fault("no_write") /\ UNCHANGED deal
    /\ Finish(k, "done")
    /\ UNCHANGED <<edits, receives, pending, submission, ace>>

\* Any error of AWS is shown to the user; nothing is parked.
FormRefused(k) ==
    /\ job[k].pc \in {"locked", "rejected", "failed"}
    /\ Finish(k, "refused")
    /\ UNCHANGED <<hubspot, receives, pending, submission, ace, faults>>

Card(k) == FormGet(k) \/ FormApplied(k) \/ FormRefused(k)
-----------------------------------------------------------------------------

\* An invocation dies; a message it had is visible again, a form has failed.
Crash(x) ==
    /\ job[x].pc # "idle"
    /\ Fault("crash")
    /\ End(x)
    /\ queue' = IF x \in DOMAIN edits /\ edits[x].via = "card"
                  THEN [queue EXCEPT ![x] = "refused"] ELSE queue
    /\ UNCHANGED <<hubspot, receives, pending, submission, ace>>

\* One step of the code.
Work(x) ==
    \/ CallUpdate(x) \/ Refetch(x)
    \/ x \in DOMAIN edits /\ (IF edits[x].via = "deal" THEN Worker(x) ELSE Card(x))
    \/ x \in Handlers /\ (DeliverEvent(x) \/ Handler(x))
    \/ x \in Sweeps /\ Sweep(x)

\* No message and no event is under way and nothing runs.
Quiet ==
    /\ \A k \in Edits : queue[k] \notin {"visible", "form"}
    /\ \A x \in Jobs : job[x].pc = "idle"
    /\ events = 0

Rest == Quiet /\ UNCHANGED vars

Next ==
    \/ \E p \in Props, cleared \in BOOLEAN : Edit(p, cleared)
    \/ \E p \in Props : SubmitForm(p)
    \/ Submit
    \/ \E status \in ReviewStatus : Review(status)
    \/ LoseEvent
    \/ \E x \in Jobs : Work(x) \/ Crash(x)
    \/ \E k \in Edits : Duplicate(k)
    \/ Rest

Spec == Init /\ [][Next]_vars

\* Lambda runs what it started, SQS delivers, the scheduler sweeps again and
\* again.  Events may be lost, so nothing is assumed of them; nor of BD, of
\* the reviewers and of submit_to_ace.
Fairness ==
    \A x \in Jobs : WF_vars(Work(x) /\ x \notin Handlers) /\ WF_vars(Work(x) /\ job[x].pc # "idle")
FairSpec == Spec /\ Fairness
-----------------------------------------------------------------------------
(* Properties.                                                             *)

\* Types of all variables.
TypeOK ==
    /\ deal \in [Props -> Value] /\ aws \in [Props -> Value]
    /\ edits \in Seq([prop : Props, value : Value, via : {"deal", "card"}])
    /\ Len(edits) <= MaxEdits
    /\ queue \in [Edits -> {"none", "visible", "form", "done", "skipped", "parked", "dropped",
                            "refused", "dlq"}]
    /\ receives \in [Edits -> 0..MaxReceive]
    /\ job \in [Jobs -> Job]
    /\ pending \subseteq Props /\ fresh \subseteq Jobs
    /\ submission \in {"none", "loaded", "created", "recorded"}
    /\ review \in ReviewStatus
    /\ events \in 0..MaxEvents /\ faults \in 0..MaxFaults

\* The last edit of a property that was not refused, and whether AWS has it.
EditsOf(p)  == {k \in DOMAIN edits : edits[k].prop = p /\ queue[k] # "refused"}
LastEdit(k) == k \in EditsOf(Prop(k)) /\ \A l \in EditsOf(Prop(k)) : l <= k
Lands(k)    == LastEdit(k) => aws[Prop(k)] = edits[k].value
AtRest      == Quiet /\ pending = {} /\ submission = "recorded"

\* When everything has come to rest, AWS has what BD typed last, whatever was
\* parked, retried, delivered twice or interrupted on the way, unless the edit
\* was skipped, or refused, which BD is told.
EditsLand == AtRest => \A k \in Edits : queue[k] \in {"done", "parked"} => Lands(k)

\* docs/bd-user-guide.md: when the review exits, "the parked edit replays
\* automatically", that is, what BD typed reaches AWS once nothing is parked.
ParkedEditLands == AtRest => \A k \in Edits : queue[k] = "parked" => Lands(k)

\* _process_event: "apply only the property-change delta on top".
OtherFieldsStay ==
    \A k \in Edits : At(k, "send") /\ job'[k].pc = "sent"
        => \A p \in Props \ {Prop(k)} : aws'[p] = aws[p]

\* The hypotheses under which updates cannot disturb one another: no update
\* that met a conflict goes through with the payload it had before, and the
\* property is edited on the deal only.
FirstTriesOnly == \A x \in Jobs : At(x, "send") /\ job'[x].pc = "sent" => job[x].tries = 0
FromDeal(p)    == \A k \in DOMAIN edits : Prop(k) = p => edits[k].via = "deal"

\* An edit that is done and the last of its property is at AWS, from the moment
\* its message is deleted: no older edit that is still under way, delivered
\* late or delivered again writes over it.
Newest(k)      == k \in DOMAIN edits /\ \A l \in DOMAIN edits : Prop(l) = Prop(k) => l <= k
DoneIsAtAws(p) ==
    \A k \in Edits : Newest(k) /\ Prop(k) = p /\ queue[k] = "done" => aws[p] = edits[k].value

\* Contention alone never dead-letters an edit: update_with_retry gives up
\* only after as many other writers as it has attempts.
ContentionIsAbsorbed == faults = 0 => \A k \in Edits : queue[k] # "dlq"

\* At rest the deal shows the stage AWS has, though edits, replays and events
\* cross and an older stage may have been mirrored over a newer one in between.
StageIsMirrored ==
    AtRest /\ (\A k \in Edits : queue[k] \notin {"skipped", "dropped", "dlq"})
      => deal[Stage] = aws[Stage]

\* An opportunity that stays editable does not keep edits parked, though every
\* event about it may be lost: the sweep is enough.
ParkedIsReplayed ==
    <>[](review \in Reconcilable)
      => \A p \in Props : [](p \in pending => <>(p \notin pending))
=============================================================================
