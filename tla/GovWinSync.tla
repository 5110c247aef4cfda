----------------------------- MODULE GovWinSync -----------------------------
(***************************************************************************)
(* The sync of GovWin opportunities to HubSpot deals.  govwin_orchestrator *)
(* runs on a schedule, lists the opportunities, drops those whose          *)
(* watermark in DynamoDB is as recent, and sends the rest in batches to an *)
(* SQS queue (src/lambdas/govwin_orchestrator.py, src/sync/dedup.py).      *)
(* govwin_worker fetches every opportunity of a message, upserts companies,*)
(* contacts and deals, links them, and writes the watermarks               *)
(* (src/lambdas/govwin_worker.py, src/sync/orchestrator.py).               *)
(*                                                                         *)
(* A version of an opportunity is its updateDate.  The visibility timeout  *)
(* is longer than the timeout of the worker (sqs.tf), so that an invocation*)
(* is named by the message it holds.                                       *)
(***************************************************************************)
EXTENDS Naturals, Sequences, FiniteSets

CONSTANTS
    Opps,          \* GovWin opportunities
    Objects,       \* gov entities and contacts of GovWin
    Related,       \* per kind, the objects of every opportunity
    Messages,      \* bound: messages in the queue at once
    BatchSize,     \* sync.batch_size: opportunities in a message
    MaxReceive,    \* redrive policy: maxReceiveCount of the queue
    MaxConcurrent, \* worker_concurrency: concurrent invocations of the worker
    MaxVersion,    \* bound: versions of an opportunity
    Faults,        \* which kinds of failure can happen, see FaultKinds
    MaxFaults      \* bound: failures injected in a behaviour

Kinds == {"companies", "contacts"}

(***************************************************************************)
(*   crash      an invocation dies, or an exception reports its message    *)
(*   fetch      GovWin does not answer for one opportunity                 *)
(*   upsert     HubSpot refuses an upsert with HubSpotAPIError             *)
(*   no_reply   an upsert is done and its answer is lost                   *)
(*   unmapped   an upsert of companies or contacts answers for some only,  *)
(*              or two contacts have the same e-mail and one is upserted   *)
(*   skipped    an upsert of deals writes and answers some of them only    *)
(*   reordered  an upsert of deals answers in another order                *)
(*   link       a batch of associations fails                              *)
(*   no_rows    DynamoDB fails a read, which is taken for "no row"         *)
(*   send       SQS refuses a message of the orchestrator                  *)
(*   duplicate  SQS delivers a processed message once more                 *)
(***************************************************************************)
FaultKinds == {"crash", "fetch", "upsert", "no_reply", "unmapped", "skipped", "reordered",
               "link", "no_rows", "send", "duplicate"}

ASSUME SyncAssumption ==
    /\ Related \in [Kinds -> [Opps -> SUBSET Objects]]
    /\ IsFiniteSet(Opps) /\ IsFiniteSet(Messages)
    /\ BatchSize \in Nat \ {0} /\ MaxVersion \in Nat \ {0}
    /\ \A n \in {MaxReceive, MaxConcurrent, MaxFaults} : n \in Nat
    /\ Faults \subseteq FaultKinds

VARIABLES
    govwin,    \* GovWin: the version of every opportunity
    listing,   \* orchestrator: the versions it listed, all 0 when it has none
    plan,      \* orchestrator: the opportunities it has still to send
    body,      \* per message: the opportunities in it
    receives,  \* per message: ApproximateReceiveCount
    pc,        \* per message: where it is, or what its invocation does next
    work,      \* per message: the locals of its invocation
    deal,      \* HubSpot: the version every deal was written from
    links,     \* HubSpot: which deal is associated with which object
    mapped,    \* DynamoDB: the objects with a HUBSPOT_MAPPING row
    watermark, \* DynamoDB: govwin_update_date of the OPP# row
    faults

orchestrator == <<listing, plan>>
sqs     == <<body, receives, pc>>
hubspot == <<deal, links>>
state   == <<mapped, watermark>>
vars    == <<govwin, orchestrator, sqs, work, hubspot, state, faults>>

Version == 0..MaxVersion
Unknown == [o \in Opps |-> 0]
Bundle  == [opp : Opps, version : Version]
\* The locals of an invocation: how many references (then pairs) it has
\* handled, what it fetched, what HubSpot answered, whether it has errors.
NoWork  == [done |-> 0, bundles |-> << >>, results |-> << >>, errors |-> FALSE]
Work    == [done : Nat, bundles : Seq(Bundle), results : Seq(Opps), errors : BOOLEAN]
Running == {"fetch", "companies", "contacts", "deals", "link", "watermark"}

TypeOK ==
    /\ govwin \in [Opps -> Version] /\ listing \in [Opps -> Version]
    /\ plan \in Seq(Opps) /\ body \in [Messages -> Seq(Opps)]
    /\ receives \in [Messages -> 0..MaxReceive]
    /\ pc \in [Messages -> Running \cup {"free", "queued"}]
    /\ work \in [Messages -> Work]
    /\ deal \in [Opps -> Version] /\ watermark \in [Opps -> Version]
    /\ links \subseteq Opps \X Objects /\ mapped \subseteq Objects
    /\ faults \in 0..MaxFaults

Init ==
    /\ govwin = [o \in Opps |-> 1] /\ deal = Unknown /\ watermark = Unknown
    /\ listing = Unknown /\ plan = << >>
    /\ body = [m \in Messages |-> << >>] /\ receives = [m \in Messages |-> 0]
    /\ pc = [m \in Messages |-> "free"] /\ work = [m \in Messages |-> NoWork]
    /\ links = {} /\ mapped = {} /\ faults = 0

-----------------------------------------------------------------------------
(* Helpers.                                                                *)

Fault(kind) == kind \in Faults /\ faults < MaxFaults /\ faults' = faults + 1
Goto(m, step) == pc' = [pc EXCEPT ![m] = step]
Fetched(m)  == {work[m].bundles[i] : i \in DOMAIN work[m].bundles}
RelatedTo(kind, m) == UNION {Related[kind][b.opp] : b \in Fetched(m)}
Objs(o)     == UNION {Related[kind][o] : kind \in Kinds}

\* GovWin lists every opportunity once, in any order.
Distinct(s) == \A i, j \in DOMAIN s : s[i] = s[j] => i = j
Orders(S)   == {s \in [1..Cardinality(S) -> S] : Distinct(s)}

\* Mutants: every bundle, whatever HubSpot answered; the ids of the message.
Pairs_All(m) == [i \in DOMAIN work[m].bundles |->
                    [bundle |-> work[m].bundles[i], deal |-> work[m].bundles[i].opp]]
Pairs_ByReference(m) ==
    [i \in DOMAIN work[m].results |-> [bundle |-> work[m].bundles[i], deal |-> body[m][i]]]

\* zip(bundles, deal_results, strict=False): by position.
Pairs(m) ==
    LET n == IF Len(work[m].results) < Len(work[m].bundles)
             THEN Len(work[m].results) ELSE Len(work[m].bundles)
    IN [i \in 1..n |-> [bundle |-> work[m].bundles[i], deal |-> work[m].results[i]]]

\* The deals of an upsert, in the order sent.
Sent(m) == [i \in DOMAIN work[m].bundles |-> work[m].bundles[i].opp]
Deviation(m, answer) ==
    CASE answer = << >>               -> "upsert"
      [] Len(answer) < Len(Sent(m)) -> "skipped"
      [] OTHER                      -> "reordered"

-----------------------------------------------------------------------------
(* GovWin and the orchestrator.                                            *)

Change(o) ==
    /\ govwin[o] < MaxVersion
    /\ govwin' = [govwin EXCEPT ![o] = @ + 1]
    /\ UNCHANGED <<orchestrator, sqs, work, hubspot, state, faults>>

\* The schedule starts the orchestrator, never twice at once; the cursor
\* does not move, so that every opportunity is listed again.
List ==
    /\ plan = << >> /\ listing = Unknown
    /\ listing' = govwin
    /\ UNCHANGED <<govwin, plan, sqs, work, hubspot, state, faults>>

\* Mutant: an opportunity with a watermark is known, whatever its version.
Changed_OnlyNew(known) == {o \in Opps : known[o] = 0}

\* filter_changed_opportunities
Changed(known) == {o \in Opps : known[o] = 0 \/ listing[o] > known[o]}

Filter ==
    /\ listing # Unknown
    /\ \E known \in {watermark, Unknown} :
          /\ IF known = watermark THEN UNCHANGED faults ELSE Fault("no_rows")
          /\ plan' \in Orders(Changed(known))
    /\ listing' = Unknown
    /\ UNCHANGED <<govwin, sqs, work, hubspot, state>>

Batch == SubSeq(plan, 1, IF Len(plan) < BatchSize THEN Len(plan) ELSE BatchSize)
Rest  == SubSeq(plan, Len(Batch) + 1, Len(plan))

\* The names of the messages are free; which one is taken makes no difference.
Free == {m \in Messages : pc[m] = "free"}

\* A batch SQS refuses is logged and left to the next run.
Send ==
    /\ plan # << >>
    /\ plan' = Rest
    /\ \/ /\ Fault("send")
          /\ UNCHANGED sqs
       \/ LET m == CHOOSE n \in Free : TRUE IN
             /\ Free # {} /\ Goto(m, "queued")
             /\ body' = [body EXCEPT ![m] = Batch]
             /\ receives' = [receives EXCEPT ![m] = 0]
             /\ UNCHANGED faults
    /\ UNCHANGED <<govwin, listing, work, hubspot, state>>

-----------------------------------------------------------------------------
(* The worker.                                                             *)

\* Mutants: no redrive policy; no reserved concurrency.
Receive_NoRedrive(m) ==
    /\ pc[m] = "queued"
    /\ Cardinality({n \in Messages : pc[n] \in Running}) < MaxConcurrent
    /\ receives' = [receives EXCEPT ![m] = @ + 1]
    /\ Goto(m, "fetch")
    /\ work' = [work EXCEPT ![m] = NoWork]
    /\ UNCHANGED <<govwin, orchestrator, body, hubspot, state, faults>>
Receive_NoLimit(m) ==
    /\ pc[m] = "queued" /\ receives[m] < MaxReceive
    /\ receives' = [receives EXCEPT ![m] = @ + 1]
    /\ Goto(m, "fetch")
    /\ work' = [work EXCEPT ![m] = NoWork]
    /\ UNCHANGED <<govwin, orchestrator, body, hubspot, state, faults>>

Receive(m) ==
    /\ pc[m] = "queued" /\ receives[m] < MaxReceive
    /\ Cardinality({n \in Messages : pc[n] \in Running}) < MaxConcurrent
    /\ receives' = [receives EXCEPT ![m] = @ + 1]
    /\ Goto(m, "fetch")
    /\ work' = [work EXCEPT ![m] = NoWork]
    /\ UNCHANGED <<govwin, orchestrator, body, hubspot, state, faults>>

\* _fetch_bundles: the opportunity as GovWin has it now; one that cannot be
\* fetched is left out.
Fetch(m) ==
    /\ pc[m] = "fetch" /\ work[m].done < Len(body[m])
    /\ LET o == body[m][work[m].done + 1] IN
       \/ /\ work' = [work EXCEPT ![m].done = @ + 1,
                         ![m].bundles = Append(@, [opp |-> o, version |-> govwin[o]])]
          /\ UNCHANGED faults
       \/ Fault("fetch") /\ work' = [work EXCEPT ![m].done = @ + 1]
    /\ UNCHANGED <<govwin, orchestrator, sqs, hubspot, state>>

\* The message is gone, or comes once more although it was acknowledged.
Ack(m) ==
    /\ \/ Goto(m, "free") /\ UNCHANGED faults
       \/ Goto(m, "queued") /\ Fault("duplicate")
    /\ work' = [work EXCEPT ![m] = NoWork]

\* The message comes back after its visibility timeout.
Retry(m) ==
    /\ Goto(m, "queued")
    /\ work' = [work EXCEPT ![m] = NoWork]

FetchedAll(m) ==
    /\ pc[m] = "fetch" /\ work[m].done = Len(body[m])
    /\ IF work[m].bundles = << >>
       THEN Ack(m)
       ELSE Goto(m, "companies") /\ UNCHANGED <<work, faults>>
    /\ UNCHANGED <<govwin, orchestrator, body, receives, hubspot, state>>

\* Companies, then contacts: an upsert and the HUBSPOT_MAPPING rows of what is
\* answered; what is not is no error.  A refusal is an error of the message and
\* does not stop the batch.
UpsertRelated(kind, m) ==
    /\ pc[m] = kind
    /\ Goto(m, IF kind = "companies" THEN "contacts" ELSE "deals")
    /\ \/ /\ mapped' = mapped \cup RelatedTo(kind, m)
          /\ UNCHANGED <<work, faults>>
       \/ /\ Fault("unmapped")
          /\ \E answered \in SUBSET RelatedTo(kind, m) :
                answered # RelatedTo(kind, m) /\ mapped' = mapped \cup answered
          /\ UNCHANGED work
       \/ /\ RelatedTo(kind, m) # {} /\ Fault("upsert")
          /\ work' = [work EXCEPT ![m].errors = TRUE]
          /\ UNCHANGED mapped
    /\ UNCHANGED <<govwin, orchestrator, body, receives, hubspot, watermark>>

\* The deals HubSpot writes when it answers for these opportunities.
Written(m, answer) ==
    [o \in Opps |-> IF \E i \in DOMAIN answer : answer[i] = o
                    THEN (CHOOSE b \in Fetched(m) : b.opp = o).version ELSE deal[o]]

\* Mutant: deals left out of the answer are logged only.
UpsertDeals_NotAnError(m) ==
    /\ pc[m] = "deals"
    /\ \E S \in SUBSET {b.opp : b \in Fetched(m)} : \E answer \in Orders(S) :
          /\ IF answer = Sent(m) THEN UNCHANGED faults ELSE Fault(Deviation(m, answer))
          /\ deal' = Written(m, answer)
          /\ work' = [work EXCEPT ![m].results = answer, ![m].done = 0]
    /\ Goto(m, "link")
    /\ UNCHANGED <<govwin, orchestrator, body, receives, links, state>>

\* batch_upsert_deals; an answer that leaves deals out is an error, too.
UpsertDeals(m) ==
    /\ pc[m] = "deals"
    /\ \E S \in SUBSET {b.opp : b \in Fetched(m)} : \E answer \in Orders(S) :
          /\ IF answer = Sent(m) THEN UNCHANGED faults ELSE Fault(Deviation(m, answer))
          /\ deal' = Written(m, answer)
          /\ work' = [work EXCEPT ![m].results = answer, ![m].done = 0,
                         ![m].errors = @ \/ Len(answer) < Len(Sent(m))]
    /\ Goto(m, "link")
    /\ UNCHANGED <<govwin, orchestrator, body, receives, links, state>>

\* The upsert is done, its answer never comes: the exception ends the
\* invocation.
UpsertUnanswered(m) ==
    /\ pc[m] = "deals" /\ Fault("no_reply")
    /\ deal' = Written(m, Sent(m))
    /\ Retry(m)
    /\ UNCHANGED <<govwin, orchestrator, body, receives, links, state>>

\* The associations of a kind, for the objects whose mapping is known; a
\* failure is logged and forgotten.
Link(m) ==
    /\ pc[m] = "link"
    /\ \E failed \in SUBSET Kinds :
          /\ IF failed = {} THEN UNCHANGED faults ELSE Fault("link")
          /\ links' = links \cup
                UNION {{<<Pairs(m)[i].deal, x>> :
                           x \in mapped \cap UNION {Related[kind][Pairs(m)[i].bundle.opp] :
                                                       kind \in Kinds \ failed}} :
                       i \in DOMAIN Pairs(m)}
    /\ Goto(m, "watermark")
    /\ UNCHANGED <<govwin, orchestrator, body, receives, work, deal, state>>

\* Mutant: the version GovWin has by now, not the one that was written.
Watermark_Newest(m) ==
    /\ pc[m] = "watermark" /\ work[m].done < Len(Pairs(m))
    /\ LET b == Pairs(m)[work[m].done + 1].bundle IN
       watermark' = [watermark EXCEPT ![b.opp] = govwin[b.opp]]
    /\ work' = [work EXCEPT ![m].done = @ + 1]
    /\ UNCHANGED <<govwin, orchestrator, sqs, hubspot, mapped, faults>>

\* set_opp_state, a put for each pair.
Watermark(m) ==
    /\ pc[m] = "watermark" /\ work[m].done < Len(Pairs(m))
    /\ LET b == Pairs(m)[work[m].done + 1].bundle IN
       watermark' = [watermark EXCEPT ![b.opp] = b.version]
    /\ work' = [work EXCEPT ![m].done = @ + 1]
    /\ UNCHANGED <<govwin, orchestrator, sqs, hubspot, mapped, faults>>

\* Mutant: the errors are reported and the message acknowledged.
Finish_IgnoresErrors(m) ==
    /\ pc[m] = "watermark" /\ work[m].done = Len(Pairs(m))
    /\ Ack(m)
    /\ UNCHANGED <<govwin, orchestrator, body, receives, hubspot, state>>

Finish(m) ==
    /\ pc[m] = "watermark" /\ work[m].done = Len(Pairs(m))
    /\ IF work[m].errors THEN Retry(m) /\ UNCHANGED faults ELSE Ack(m)
    /\ UNCHANGED <<govwin, orchestrator, body, receives, hubspot, state>>

\* The invocation dies, GovWin refuses for its rate limit, or an exception
\* reports the message as a batch item failure.
Crash(m) ==
    /\ pc[m] \in Running /\ Fault("crash")
    /\ Retry(m)
    /\ UNCHANGED <<govwin, orchestrator, body, receives, hubspot, state>>

DeadLetter(m) ==
    /\ pc[m] = "queued" /\ receives[m] = MaxReceive
    /\ Goto(m, "free")
    /\ UNCHANGED <<govwin, orchestrator, body, receives, work, hubspot, state, faults>>

-----------------------------------------------------------------------------
Step(m) ==
    \/ Receive(m) \/ Fetch(m) \/ FetchedAll(m)
    \/ \E kind \in Kinds : UpsertRelated(kind, m)
    \/ UpsertDeals(m) \/ Link(m) \/ Watermark(m) \/ Finish(m) \/ DeadLetter(m)

Next ==
    \/ \E o \in Opps : Change(o)
    \/ List \/ Filter \/ Send
    \/ \E m \in Messages : Step(m) \/ UpsertUnanswered(m) \/ Crash(m)

Spec == Init /\ [][Next]_vars

\* The schedule starts the orchestrator again and again, SQS delivers a
\* message while there is one and the worker is free, and an invocation that
\* does not die goes on.  GovWin need not change anything.
Fairness ==
    /\ WF_vars(List \/ Filter \/ Send)
    /\ \A m \in Messages : WF_vars(Step(m))

FairSpec == Spec /\ Fairness

-----------------------------------------------------------------------------
(* Properties.                                                             *)

\* The watermark is what the filter trusts: an opportunity with a watermark
\* has a deal that is at least as recent (govwin_orchestrator: "written by
\* the worker after a successful HubSpot upsert ... the source of truth for
\* what has been synced").
WatermarkMeansSynced == \A o \in Opps : watermark[o] <= deal[o]

\* No delivery of an older message writes an older version over a newer one:
\* the worker fetches the opportunity again whenever it handles a message.
DealNeverGoesBack == [][\A o \in Opps : deal'[o] >= deal[o]]_vars

\* The worker acknowledges a message only when everything it fetched for it
\* is in HubSpot, with its watermark and its mappings: sync_opportunity_batch
\* catches the refusals of HubSpot, and the list of errors alone keeps the
\* message (_process_record).
AckMeansSynced ==
    [][\A m \in Messages : pc[m] = "watermark" /\ pc'[m] = "free" =>
          \A b \in Fetched(m) :
             watermark[b.opp] >= b.version /\ Objs(b.opp) \subseteq mapped]_vars

\* A deal is associated with the companies and contacts of its own
\* opportunity (sync/orchestrator.py: the "batch API doesn't guarantee order").
LinkedToItsOwn == \A l \in links : l[2] \in Objs(l[1])

\* A change in GovWin reaches the deal, although messages are dead-lettered,
\* opportunities are left out of a batch and acknowledged, and the cursor
\* never moves: the next run of the orchestrator finds it again.
EventuallySynced ==
    \A o \in Opps : \A v \in 1..MaxVersion : govwin[o] >= v ~> deal[o] >= v

\* The sync implements the replica: whatever is delivered late or twice, dies
\* half-way or is refused, HubSpot only ever sees deals move forward to versions
\* GovWin had, and watermarks move forward behind them.
Promise == INSTANCE Replica WITH source <- govwin, copy <- deal, vouched <- watermark
ImplementsReplica == Promise!Spec

-----------------------------------------------------------------------------
(* What the deployment and HubSpot would have to keep: sync_race violates the *)
(* first, and a partial or reordered answer can violate the second.          *)

\* An invocation has fetched an opportunity and has not ended.
Holds(m, o) == pc[m] \in Running /\ \E b \in Fetched(m) : b.opp = o

\* No two invocations hold the opportunity at the same time.
Apart(o) == \A m, n \in Messages : Holds(m, o) /\ Holds(n, o) => m = n
AllApart == \A o \in Opps : Apart(o)

\* If the opportunity is paired with an answer, then one of the answers is its
\* own: the deals that an answer leaves out are the last ones sent.
Answered(o) ==
    \A m \in Messages : pc[m] \in {"link", "watermark"} =>
        \A i \in DOMAIN Pairs(m) : Pairs(m)[i].bundle.opp = o =>
            \E j \in DOMAIN work[m].results : work[m].results[j] = o
AllAnswered == \A o \in Opps : Answered(o)

-----------------------------------------------------------------------------
(* The inductive invariants behind the safety properties.                   *)

\* No opportunity is twice in a batch, and so in what is fetched of it.
EachOnce ==
    /\ Distinct(plan)
    /\ \A m \in Messages :
         /\ Distinct(body[m])
         /\ \A i, j \in DOMAIN work[m].bundles :
               work[m].bundles[i].opp = work[m].bundles[j].opp => i = j
         /\ pc[m] = "fetch" => \A i \in DOMAIN work[m].bundles :
               \E k \in 1..work[m].done :
                  k \in DOMAIN body[m] /\ body[m][k] = work[m].bundles[i].opp

\* HubSpot has answered for as many deals as were sent, or there is an error.
AnswerCounted ==
    \A m \in Messages : pc[m] \in {"link", "watermark"} =>
        work[m].errors \/ Len(work[m].results) >= Len(work[m].bundles)

\* Every object of what was fetched has its mapping, or there is an error; or
\* HubSpot left it out of its answer, which is none.
MappedOrError ==
    \A m \in Messages : "unmapped" \in Faults \/ work[m].errors \/
        /\ pc[m] \in {"contacts", "deals", "link", "watermark"} =>
              RelatedTo("companies", m) \subseteq mapped
        /\ pc[m] \in {"deals", "link", "watermark"} =>
              RelatedTo("contacts", m) \subseteq mapped

\* What is fetched and not written yet is at least as recent as the deal.
FetchedIsRecent(o) ==
    \A m \in Messages : pc[m] \in {"fetch", "companies", "contacts", "deals"} =>
        \A b \in Fetched(m) : b.opp = o => deal[o] <= b.version /\ b.version <= govwin[o]

\* The pairs that are done have their watermarks.
WatermarksSoFar(o) ==
    \A m \in Messages :
        /\ pc[m] = "link" => work[m].done = 0
        /\ pc[m] = "watermark" =>
              \A i \in 1..work[m].done :
                 i \in DOMAIN work[m].bundles /\ work[m].bundles[i].opp = o =>
                    watermark[o] >= work[m].bundles[i].version

\* What an invocation is about to give a watermark is in the deal.
AnswerIsWritten(o) ==
    \A m \in Messages : pc[m] \in {"link", "watermark"} =>
        \A i \in DOMAIN Pairs(m) : Pairs(m)[i].bundle.opp = o =>
            deal[o] = Pairs(m)[i].bundle.version

\* What the locals of the workers say of HubSpot and of DynamoDB at each step:
\* of an opportunity that no two invocations hold, and of its watermark when
\* HubSpot has answered for it.
DealInv(o) == deal[o] <= govwin[o] /\ FetchedIsRecent(o) /\ WatermarksSoFar(o)
MarkInv(o) == watermark[o] <= deal[o] /\ AnswerIsWritten(o)

SyncInv ==
    /\ EachOnce /\ AnswerCounted /\ MappedOrError
    /\ \A o \in Opps : DealInv(o) /\ MarkInv(o)
=============================================================================
