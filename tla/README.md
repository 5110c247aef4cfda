# A formal model of the GovWin / HubSpot / AWS Partner Central integration

The program moves sales opportunities between three systems. A schedule copies
GovWin opportunities into HubSpot deals. When a BD user marks a deal, it is
submitted to AWS Partner Central (ACE); from then on edits of the deal follow it
to AWS and what happens at AWS is mirrored back. Everything runs in short-lived
AWS Lambda invocations that share nothing but two DynamoDB tables, SQS queues
and the three external systems. Hence the questions of this project: what do
several invocations do to each other, what does a redelivery find that a dead
invocation left behind, and what reaches the other side in the end.

## Inventory

| component | state it keeps | operations | how it interacts |
|---|---|---|---|
| `govwin_orchestrator`, `sync/dedup` | the cursor row (never advanced) | list, filter by watermark, send batches | schedule -> SQS sync queue |
| `govwin_worker`, `sync/orchestrator` | `OPP#` watermarks, `HUBSPOT_MAPPING` rows | fetch, upsert companies, contacts, deals, associate, put watermarks | SQS -> GovWin, HubSpot, DynamoDB |
| `hubspot_webhook_receiver`, `_webhook_routing` | `WHK#` replay rows | verify, route, enqueue, audit | HubSpot -> SQS submit and update queues |
| `submit_to_ace` | `ACE#` row: tokens, ids; `OPPID#`, `TASK#`, `INV#` index rows | reserve a token, create, associate, engage | SQS -> AWS; HubSpot write-back |
| `update_in_ace`, `ace/client` | `pending_reconcile_props` of the `ACE#` row | merge one property into the opportunity, park it during review | SQS -> AWS; notes on the deal |
| `handle_ace_event` | `EVT#` rows | de-duplicate, heal the row, replay parked edits, mirror stages and ids | EventBridge -> HubSpot, AWS |
| `reconcile_pending`, `ace/reconcile` | clears the pending set | replay parked edits | schedule, event handler -> AWS |
| `ui_extension_reads`, `ui_extension_writes` | `WHK#` rows; the catalog of solutions, per container | show, submit, update a deal from its card | HTTP -> AWS, HubSpot |
| `govwin/auth`, rate limiters | token cache in Secrets Manager; per-process windows | authenticate, refresh, invalidate; wait | used by the clients |
| mappers, models, properties, validators, signature | the signing secret, per container | conversions and tables | called by the handlers |
| setup, alerts, config, scripts, card front end, Terraform | resources and settings | | deployment, operators, BD users |

Behaviours that are hard to test, which the properties are about: two
deliveries between whose calls anything may happen; an invocation that dies
after an AWS call and before the row that records it; reads of DynamoDB that
are not consistent; an optimistic lock whose retry sends a payload read before
the conflict; a set that is cleared after it has grown; a watermark written
after, but not with, what it stands for; events and messages lost, repeated and
out of order. `PROJECT.json` lists each under `hazards`, at its line, with the
property that would catch it or the reason there is none.

What makes each component correct:

* submission: one opportunity per GovWin id, one engagement per opportunity,
  the Solution associated before the review starts, nothing recorded that did
  not happen, nothing acknowledged as submitted that is not, and every transient
  failure overcome;
* edits: an edit changes its own field only, reaches AWS or is reported, and
  does not stay parked once AWS accepts updates;
* events: the deal ends with the stage AWS has; handling an event twice is
  handling it once; an id AWS reports is found;
* sync: a watermark stands for a written deal, no deal goes back to an older
  version, nothing is acknowledged that was not written, deals are linked to
  their own companies and contacts, every change arrives in the end;
* receiver and card: a duplicate of a signed request is turned away for as long as
  the replay row is meant to live; what HubSpot takes for delivered is in the right
  queue; a submission starts with a form;
* payloads: whatever the order of the edits, AWS is sent bodies it takes, and
  ends up with what creating the opportunity from today's deal would give;
* lists: the products and the solution of an opportunity are those of the deal;
* tokens, caches, limiters: a refused token is not sent again, what a container
  kept is not used past its time, no service sees more calls than it allows.

## Modules

One module per group of handlers that share state. `AceSubmit`, `AceUpdate` and
`AceEvents` share the `ACE#` row and the deal: each has the row as far as its
handlers use it and contains the others reduced to what they do to it
(`AceUpdate!Submit` and the `submit` job of `AceEvents` are `AceSubmit` with
fewer calls). The remaining modules share no state.

**`AceSubmit`** is `submit_to_ace._process_event` and `handler` with the
functions of `SyncStateManager` they call. An *attempt* `<<m, n>>` is the n-th
delivery of message `m`; there is one invocation per attempt, and the attempt
names the ClientToken it would mint, so that "the same token" is equality.
Opportunities are named by the token they were created with, engagement tasks by
the opportunity and the task token: that is the idempotence AWS offers.

| variable | code |
|---|---|
| `queue`, `receives`, `pc`, `mem` | SQS, its receive count; the invocation and its locals (`mapping`, tokens, ids) |
| `row`, `replica` | the `ACE#` item, and what a `GetItem` without `ConsistentRead` may still see |
| `index` | the reverse lookup items |
| `created`, `readable`, `associated`, `tasks` | AWS: opportunities, whether AWS already finds them, associations, engagements |
| `deal` | `govwin_aws_cosell_id` written back |

Each action is one call that other processes can see, with the code up to the
next one. `ReserveClientToken` is the conditional put and `RereadClientToken`
the branch that lost it; `PersistOpportunity`, `PersistTask`, `IndexOpportunity`
and `IndexTask` are the halves of `update_ace_mapping`; `Resume` is the jump of
a redelivery over what the row shows as done. `Abort` ends an invocation at any
call (a crash, a timeout, a transient error), `PermanentError` drops it.

**`Submission`** is what the component promises, without tokens, rows or
queues: an opportunity is created once, gets its Solution, and is engaged once.
`AceSubmit` implements it (`ImplementsPromise`).

**`AceUpdate`** is `update_in_ace`, the review that locks the opportunity, the
parked properties, their replay by `handle_ace_event` and `reconcile_pending`,
the Update card, and `update_with_retry`, which all of them use. It models one
deal: different deals share no row. Each edit has a number which stands for the
value typed. A running invocation is a *job*, whose record holds the payload of
`UpdateOpportunity`, the properties it replays, the stage it read and its
attempts; `fresh` is the set of jobs whose `LastModifiedDate` is current, so the
optimistic lock is a membership test and a PUT empties it. `Delta` is the
common form of the delta handlers: the echo of the current fields with one of
them replaced; an empty value is skipped.

**`GovWinSync`** is the scheduled sync. A version of an opportunity is its
`updateDate`; `deal[o]` is the version the deal was written from. An invocation
of the worker is named by the message it holds, since the visibility timeout
(420 s) exceeds the worker's (300 s). `work` is its locals: what it fetched and
what HubSpot answered, as sequences, because the code pairs them by position
(`Pairs` is `zip(..., strict=False)`).

**`Replica`** is what the sync promises, without queue, batches or worker: HubSpot has a copy
of every opportunity that only moves forward, to versions GovWin had, and what the sync
vouches for, the watermark, moves forward behind it. `GovWinSync` implements it
(`ImplementsReplica`).

**`AceEvents`** is `handle_ace_event`: the mark of a seen event (`EVT#`), the
read of the opportunity, the three ways from it to the deal (row, search, `INV#`
row), healing, orphans and their alert, the archive check, the one PATCH and
the note in the row; and the answers to invitations. One deal and one GovWin
id, any number of opportunities, of which one may have been made in Partner
Central by hand.

| variable | code |
|---|---|
| `opps`, `bus` | AWS: opportunities; EventBridge: every event and whether it is delivered |
| `seen`, `row`, `index` | `EVT#`, `ACE#` and `INV#` items |
| `torn` | a writer died between the row and its `INV#` row, and none has repaired it |
| `deal` | stage, who wrote it last, AWS status, id of the opportunity, archived |
| `job` | per invocation (the handlers, and `submit` for `submit_to_ace`): the next call, its locals |
| `alerts` | orphan alerts per event |

`RefreshIndex` is the second half of `update_ace_mapping`, which both sides use:
it reads the row it has just written and puts the `INV#` row.

**`Associations`** is the list of products, or the solution, of one deal:
`wanted` on the deal, `associated` at AWS. `submit_to_ace` associates one item
after the other; `update_in_ace` reads the deal, then AWS, and then makes the
calls of the difference (`diff`, per worker), each of which AWS may refuse, as it
may the read.
`EditCard` is the Update card, whose own change the receiver drops.

**`AceForms`** is what bodies contain: `CreatedFrom` is the payload of
`CreateOpportunity` (`mapper.py`), `Written` the delta handlers of `update_in_ace`
with `PairedUp` for the two halves of Closed Lost, `Overlay` the card's form laid
over the opportunity, and `Scrub` (`scrub_for_update`) what makes an answer of AWS
a body again.
`held` is the deal, `customer` company and contacts, `opportunity` AWS, `inbox`
the edits to forward. AWS refuses a body that breaks a rule, of a creation, an update or
Partner Central alike, and `broken` notes all the rules it broke, so that one does not
hide another. `Today`, the reference of `EditsAgree`, is `CreatedFrom` applied to the deal
as it now is.

**`HubSpotRequests`** is the two doors HubSpot knocks at, the webhook receiver
and the card: signature age, replay row (`WHK#`, with its expiry), routing into
the queues, what SQS refuses, the privacy audit; and the card's Submit, which
writes the form and then the stage. `wire` keeps every request ever sent, so
that the network can deliver each any number of times and late; HubSpot sends a
delivery again, signed anew, until it is answered. A stamp may be `Ahead` of the
functions' clock, and is accepted up to `MaxAge` in either direction. The expiry of a
row counts from the last whole second (`int(time.time())`), of which the clock has
`PerSecond` ticks. An invocation may wait any time before it reserves its row, and
DynamoDB removes an expired one at any time.

**`GovWinClient`** is `GovWinAuth` and the loop of `GovWinClient._request` in
several invocations: tokens in memory (`client`), in Secrets Manager (`vault`), at
GovWin (`issued`, `withdrawn`). `unput` says whether Secrets Manager ever refused
a write.

**`RateLimits`** is the three limiters, each with the calls as they leave for the service;
**`ContainerCaches`** the two caches of a warm container, the signing secret and
the catalog of solutions, with a source that changes and may not answer.

**`MCAceSubmit`, `MCAceUpdate`, `MCAceForms`, `MCGovWinSync`** hold the constants
of the runs. **`MCParts`** puts the modules that run on their own side by side: a
behaviour chooses a part and stays with it, the variables of the others keep
their initial values. The distinct states are the sum of those of the parts, not
the product; one run instead of nine keeps what is asked of them in one place.
Two parts, `pair` and `mirror`, are instances of `AceUpdate`.

The theorems are in modules of their own: **`AceSubmitProofs`**, **`AceUpdateProofs`**,
**`AceEventsProofs`** and **`GovWinSyncProofs`**, each about the module it is named for;
**`OpportunityProofs`** about `Associations` and `AceForms`, and on top of it
**`AgreementProofs`** about `EditsAgree`; **`PartsProofs`** about `ContainerCaches`,
`RateLimits`, `GovWinClient` and `HubSpotRequests`; and **`MCPartsProofs`**, which carries
what they prove over to `MCParts`.

## What is checked

| run | instance | shows |
|---|---|---|
| `submit_safety` | 2 deals with the same GovWin id and a Solution; 2 deliveries each, 2 concurrent; one failure of any kind but a stale or failing read | the safety properties of `AceSubmit`, its inductive invariant, refinement of `Submission` |
| `submit_eventually` | one message about a deal with a product and no Solution, 3 deliveries, 3 failures, stale and failing reads besides | the deal is submitted, or the message dead-lettered after as many failures as deliveries |
| `submit_stale_read` | as above, two concurrent deliveries and one stale read | **violated**: two opportunities |
| `update_replay` | one edit, from the deal or from the card, around submission and review; handler and sweep; lost events, a message delivered twice | the edit lands; nothing stays parked while AWS accepts updates |
| `update_lost_update` | 2 concurrent edits of 2 properties, no failure | **violated**: an edit sets back the other one's field |
| `update_parked_lost` | 2 edits of one property, no failure | **violated**: the second is cleared with the first |
| `sync_safety` | 2 opportunities, one message of two, one worker, two failures of 8 kinds | watermark, deal, links and acknowledgement agree; the invariant `SyncInv` behind it; refinement of `Replica` |
| `sync_eventually` | one opportunity, one worker, 3 failures of 9 kinds, an answer that leaves a company or a contact out among them | every change arrives |
| `sync_race` | two workers, no failure | **violated**: watermark newer than the deal |
| `parts` | nine parts, below | the properties of each |
| `card_list` | a list edited on the deal and with the card, no failure | **violated**: products chosen on the card do not reach AWS |
| `agency_industry` | one deal of the sync, submitted | **violated**: a government agency is filed under Other |

The parts of `parts`:

| part | instance | properties |
|---|---|---|
| `events` | one handler beside `submit_to_ace`, one opportunity of ours or made by hand, 4 events, one failure of 5 kinds | `AlertsOnce`, `OrphansAreForeign`, `IndexFollowsRow`, `DealFollowsAws` |
| `associations` | 2 items, 3 edits from the deal or the card, one refused call (the read included) and one crash | `ListReachesAws` |
| `forms` | 3 deals, 3 customers, 5 forms, 2 edits and one change made in Partner Central | `BodiesAreAccepted`, `EditsAgree` |
| `requests` | one container, 2 deliveries or card calls of 2 attempts, stamps ahead of the clock, one failure of 3 kinds | `ServedApart`, `ChangesAreQueued`, `SubmitHasForm` |
| `tokens` | 2 invocations, 2 tokens, one failure of 5 kinds | `RefusedNotReused` |
| `limits` | each limiter for 6 ticks and 5 calls | `QuotaKept` |
| `caches` | one container, 2 replacements, a time past twice the TTL, one outage | `StaleForTtlAtMost` |
| `pair` | 3 edits of 2 properties, no review, two invocations, one failure of 5 kinds | `DoneStaysAtAws`, `FirstTriesEditOneField` |
| `mirror` | 2 concurrent stage edits, a review that may be reopened, one handler | `MirroredAtRest`, `MirrorAbsorbsContention` |

The failures are named constants (`FaultKinds` of each module explains them)
and counted by `MaxFaults`. Other bounds:

* `MaxReceive` is 5 in Terraform and 1 to 3 here: what matters is that a message
  is delivered again, finds what the first delivery left, and can be
  dead-lettered. In `submit_eventually` the failures can just use the deliveries
  up, in `sync_eventually` they can outlast them: there a later message does
  the work.
* `MaxConcurrent` is 5 (sync: 2) in Terraform. Two invocations show every
  interleaving of two; the theorems of `AceSubmit` hold for any number. Runs with
  one invocation say so; `update_lost_update` and `sync_race` show what two do.
  `pair` has two and stops where `update_lost_update` starts, at the first retry after
  a conflict that goes through (`PairUndisturbed`): up to there neither undoes what the
  other has written, whatever fails and is delivered again.
  In `events` and in `mirror` there is one handler. Two can patch the deal in the wrong
  order, and TLC then violates `DealFollowsAws`; with two whose reads and patches do
  not overlap it holds, which is what the theorem says for any number.
* `Associations` has one worker: two whose comparisons overlap leave AWS with a
  mixture (`update_in_ace.py:710`), as the products of a deal have no version. TLC
  violates `ListReachesAws` with two, and does not where comparisons do not overlap, as
  the theorem says for any number. Edits before the submission is through do not count
  in `ListReachesAws`: `update_in_ace` skips them while there is no row.
* `MaxEdits`, `MaxEvents`, `MaxVersion`, `Messages`, `MaxChanges`, `MaxFormEdits`
  cut the environment off: an older and a newer value, and a third edit to come
  after a redelivery.
* `requests` has seconds of two ticks, `MaxAge` of one second, stamps up to a tick
  ahead, and four ticks: a request is first served in the first or the second half of
  a second, its row expires with the one or the other left, and a stamp ahead is fresh
  when it has. Time passes, and the clock of HubSpot runs ahead, for one delivery,
  attempted twice and without failures (`RequestsInTime`); a second delivery and
  failures come while both clocks stand still. The theorems have neither bound.
* In `limits` a window is 3 ticks, so that two windows fit and calls are made at
  both edges of each; in `tokens` a token outlives its buffer by two ticks.

`parts`, `card_list` and `agency_industry` do not check for deadlock, because
their parts come to rest when the bounds are used up. Everywhere else it is
checked. `AceSubmit` and `AceUpdate` come to rest by a step named for it that is
enabled only when nothing is under way, so that a message stuck in the middle is
a deadlock; the orchestrator never rests.

Fairness. Only `FairSpec`s have it. Weak fairness of the steps of an invocation:
Lambda goes on with what it started. Weak fairness of receiving: SQS delivers a
visible message while there is room. Weak fairness of the sweep and of the
orchestrator: EventBridge Scheduler runs them again and again. Nothing is
assumed of BD, of GovWin, of the AWS reviewers or of EventBridge events, whose
delivery is best effort. Failures are not fair and are finitely many, which is
what "transient" means.

### What the violated runs show

* `submit_stale_read`: `reserve_client_token` re-reads the row after losing the
  conditional put, without `ConsistentRead`, and uses its own token when the read
  finds no row; ADR 0006 says duplicates are impossible. With strong reads the
  theorems below prove that they are.
* `update_lost_update`: `update_with_retry` refreshes only `LastModifiedDate`
  on a conflict and sends the old echo, which undoes the conflicting edit.
* `update_parked_lost`: `clear_pending_reconcile_props` removes the attribute,
  with what was parked while the replay was running.
* `sync_race`: a worker may write an older version of a deal after a newer one
  and the newer watermark after the older one; the filter then trusts it.
* `card_list`: the Update card leaves the products to the webhook of its own
  PATCH, and the receiver drops changes whose source is `INTEGRATION`.
* `agency_industry`: the sync gives agencies the HubSpot industry
  `GOVERNMENT_ADMINISTRATION`; the mapper looks it up in the list of AWS and
  answers `Other`, where the reference page says `Government`.

Three deviations of HubSpot's answers are in `GovWinSync` and off in `sync_safety`.
With `"reordered"` in `Faults` TLC violates `LinkedToItsOwn`, with `"skipped"` it
violates `WatermarkMeansSynced`, both because of the pairing by position. With
`"unmapped"`, an answer for companies or contacts that lacks some of them (or two
contacts of one email, `sync/orchestrator.py:90-95`), it violates `AckMeansSynced`: the
code reports no error for what an answer does not contain, and the message is
acknowledged without its mapping. `sync_eventually` has `"unmapped"`: the deal itself
arrives all the same.

### What the properties leave out, and why

* `BodiesAreAccepted` excepts four rules the code is known to break: a label of
  `partner_need` is sent as it is (`update_in_ace.py:379`), `aws_account_id` is
  sent as typed (`:291`), competitor `*Other` goes without a name, and Yes to
  national security may go with an industry that is not the government's. It also
  excepts a card form whose marketing source is `None`: `mapper.py:1325-1341` then
  takes the whole block out of the body (`test_map_update_form_to_ace_payload.py:190`
  asserts it), though the comment at `ace/client.py:554-566` says that
  `UpdateOpportunity` wants `Marketing.Source` in every call. The front end sends
  marketing only with an activity (`SubmitForm.tsx:383`), so another caller of the
  endpoint is needed to meet it.
* `EditsAgree` does not compare the campaign, since the card leaves marketing out as a
  whole. It knows that creating ignores `opportunity_type`
  (`mapper.py:1165`) and that the lifecycle stage of the deal is not loaded by
  `submit_to_ace`: fields only an edit sets count once they are edited.
* `_customer_contacts` forwards a contact whose lifecycle stage is blank, though
  its docstring says it is dropped; `Contacts` follows the code.
* `ServedApart` does not say that a signed request is served once. A stamp ahead of
  the clock stays acceptable for up to twice the age (`signature.py:119-123`), and
  its row is put for the age only, cut to whole seconds (`state.py:580`); once that
  is over the request is served again. What holds, and what the property says, is that
  two servings are a row's life apart.
* `DoneStaysAtAws` and `FirstTriesEditOneField` end with the first retry after a conflict
  that goes through: what it sends was read before the conflict (`update_lost_update`).
* `RefusedNotReused` holds while Secrets Manager takes every write (`unput`): a
  token that could not be cleared is found there again.
* `QuotaKept` for GovWin excepts more unanswered calls than the safety margin, as
  `_request` records a call once it is answered. The limiters belong to one
  process each: what several invocations do together is not limited by them. A call
  counts when it leaves; one that is slow to connect arrives closer to the next.
* `DealFollowsAws` speaks of stages an event wrote last; the sync, BD and the
  answer to an invitation overwrite them (hazards at `sync/mapper.py:204` and
  `handle_ace_event.py:658`).

Ten hazards of `PROJECT.json` have no property; each has a note that says what TLC
finds, or what is left out. Three are worth naming here. `state.py:398`:
`reserve_client_token` puts a whole row over one that healing wrote without a token;
only a submission the user guide forbids reaches it. `update_in_ace.py:741`: an edit
between the submission's read of the deal and its record is skipped by both handlers;
`EditsLand` and `ListReachesAws` leave such edits out. `submit_to_ace.py:44`: an
opportunity AWS does not find yet drops the message, with an alert.

Some steps are coarser than the code where no property tells them apart. `Resolve` has
one outcome for the ways `update_in_ace` finds the opportunity of a deal
(`update_in_ace.py:744-842`): found, or skipped. `SetStage` checks for an archived deal
and patches it in one step, and knows every stage label (`handle_ace_event.py:186-206`).

## What is proved

`AceSubmitProofs`, for every set of deals, messages, products and Solutions,
and every bound. `SubmitAssumption` types the constants; TLC evaluates it in
every run. Except for `TypeCorrect` the theorems also assume `StrongReads`:
no `stale_read` and no `read_error` among the failures, which is exactly what
`submit_stale_read` shows to be necessary. Every other failure is allowed.

* `TypeCorrect`: `Spec => []TypeOK`.
* `Reservation`: `Spec => []ReservationInv`. The safety properties are not
  inductive: an attempt acts on what it remembers, so one has to know how its
  memory relates to the row. `ReservationInv` says that from the moment an
  attempt holds a token it is the row's token; an id it remembers belongs to
  an opportunity created with that token; what it found associated is; and
  what the row records exists at AWS. It is preserved because a row, once it has
  a token, only grows (`RowsOnlyGrow` is the action property), and because a step
  of an attempt touches the row of its own GovWin id only. The proof has one
  lemma per group of actions; a step that changes no row and the memory of one
  attempt only is covered by a lemma on the locals alone.
* `OneOpportunity`, `OneEngagement`, `RowsAgree`, `SubmittedEngaged`,
  `SolutionFirst`, `RowsOnlyGrow`: the safety properties of `submit_safety`, from
  `ReservationInv`.
* `CosellMapped`: `CosellIdIsMapped` from the row's growth: the id written to a deal is
  the one the row has, and a row that has an id keeps it.
* `PromiseKept`: `Spec => Promise!Spec`, initial states and one lemma for each
  step of `Submission`, all other steps stuttering.

`AceUpdateProofs`, for any number of edits, deliveries, properties, events and failures.
Each actor has a lemma that says what its steps read and write; each invariant has one
lemma per actor, which cites it. What may be concluded depends on who runs beside whom,
so each theorem names its hypotheses, and its paragraph says what they keep away.

* `UpdatesTyped`: `Spec => []TypeOK`, without hypotheses.
* `FirstTriesEditTheirOwn`, without hypotheses: up to its first conflict an update changes
  nothing at AWS but the properties it is about, whoever else writes. The invariant
  (`LockInv`) says what `LastModifiedDate` is worth: as long as it is current, the payload
  differs from the opportunity in nothing else. A conflict renews the date and not the
  payload, so the invariant says nothing of a second try (`update_lost_update`).
* `OthersStayWithoutRetry`, without hypotheses: a step at which no update goes through with
  the payload it had before a conflict leaves every field as it is but the edited one,
  for any number of invocations, handlers, sweeps and forms.
* `DoneEditsAreAtAws`: `DoneIsAtAws(p)` on every behaviour in which no retry after a conflict
  goes through and `p` is edited on the deal; for a property that is read from the deal
  when its message is handled, by a read that does not fail, and over which neither a
  note nor a stage is written (`PlainProp`). Any number of invocations, deliveries in any
  order, crashes, refusals and redeliveries. The invariant (`DoneInv`): whoever still
  holds a date that is current has the newest value in its payload, or what AWS has.
  The condition on retries is the one that `update_lost_update` shows to be needed; without
  the read from the deal two messages that are swapped leave the older value at AWS.
* `AnEditReachesAws`: `EditsLand` for one edit (`OneEdit`), from the deal or the card, and any
  number of handlers and sweeps, any review, crashes, lost events and repeated
  deliveries; assuming `OnlyBusy`: the integration writes no note and no stage over the
  edited property, AWS refuses the update for nothing but the review, and the row takes
  the parked property. The invariant (`OneInv`): whoever writes, writes that edit, and the
  pending set is cleared only by one who has written it. With a second edit of the
  property this fails (`update_parked_lost`), and a replay that AWS refuses for good
  clears the set by design.
* `StageComesBack`: `StageIsMirrored`, for any number of handlers, on every behaviour in which
  no two are at work at once (`MirrorsApart`) and none dies (`HandlersLive`); assuming
  `NoneLost`: no sweep and no card, and no write or event is lost. Every change of the
  stage at AWS is announced, so as long as the handler runs, either it has read the stage
  AWS has or an event is waiting for it. Two that overlap may mirror the older stage last.
* `GivesUpOnlyWhenOutnumbered`, for any number of edits, handlers and sweeps (finitely many
  replayers, and a queue that delivers): while nothing fails, a dead-lettered edit has been
  outnumbered. The other edits that were written, once each, and those that were parked,
  once for everyone who replays, come to `MaxAttempts` (`GivesUpAgainstThree`). `CountInv` is
  the argument: every conflict of an edit is a write of somebody else after its last read.
  How often others have written is not in the state, so it is counted from the end:
  `Written` is what may be written at most, less those who may still write. An edit that is
  on its n-th try has seen n - 1 writes, and one more when its date is stale; a
  replayer writes once for a property that was parked, and not again until there is
  another.
* `ContentionAbsorbed`: `ContentionIsAbsorbed`, assuming `FewWriters`, that is, that the others
  cannot come to three. TLC refutes the property for four edits and no replayer: the bound
  is the one at which it becomes false.

`GovWinSyncProofs`, for every set of opportunities, objects and messages (the
first and the last finite), any number of workers, and every bound. Two conditions on
the behaviour stand for what the deployment and HubSpot do not promise. `AllApart`: no
two invocations hold the same opportunity at once; `sync_race` violates the first theorem
where it is broken. `AllAnswered`: what an answer leaves out are the last deals sent; it
may be short, and reordered, but an opportunity that is paired with an answer has one.
Both are about an opportunity, and a theorem about one opportunity asks nothing of the
others.

* `TypeCorrect`: `Spec => []TypeOK`, without further assumptions.
* `WatermarkIsTrue`: the watermark of an opportunity is never newer than its deal, if no two
  invocations hold this opportunity at once and it is answered for, whatever becomes of
  the others.
* `SyncInvariant`: `Spec => []SyncInv` under both conditions. The safety properties are not
  inductive, since a worker acts on what it fetched some steps ago. `SyncInv` says what
  its locals mean: what is fetched is fetched once and is between the deal and GovWin;
  after the upsert every deal is as fetched, or there is an error; the watermarks of the
  pairs done are written; the mappings are there, or there is an error. It is
  preserved because nobody else writes what a worker holds, and because a deal changes
  in an upsert only (`DealsWritten`).
* `WatermarksAreTrue`: `WatermarkMeansSynced` under both. `DealsGrow`: `DealNeverGoesBack` under
  the first, whatever HubSpot answers. `AckedIsSynced`: `AckMeansSynced` under the first, as
  long as companies and contacts are all answered for.
* `ReplicaKept`: `Spec => Promise!Spec` under both, `Promise` being `Replica`. An upsert refreshes
  the deals it writes, whether or not it is answered (`DealsWritten`); a watermark vouches
  for the version its deal has (`WatermarkedIsWritten`), which is not behind the old
  watermark; all other steps stutter.
* `OneWorkerIsApart`: a reserved concurrency of one would give `AllApart`. Terraform has 2.

`AceEventsProofs`, for any number of handlers, opportunities, events and
submissions, any review process, and whatever fails.

* `EventInvariant`: `EventSpec => []EventInv`: the types; references (an invocation
  knows its event, and `submit_to_ace` its opportunity from the moment there is
  one); `AlertInv`; and `IndexFollowsRow`, which is inductive beside them.
  `AlertInv` says that an event is marked before it is worked on, by one
  invocation at a time, and has alerted nobody before that one is through with it;
  a redelivery finds the mark. There is one lemma per action, on top of three
  about what a step of `submit_to_ace`, of a handler, or of neither leaves alone.
* `EventsTyped`, `OneAlert`, `IndexBehindRow`: `EventTypeOK`, `AlertsOnce` and
  `IndexFollowsRow` from it. The run has one handler, the theorems any number.
* `OrphansForeign`: `OrphansAreForeign`, for any number of handlers, assuming `Findable` (HubSpot
  finds a deal by its GovWin id). While nothing fails, an opportunity of ours that AWS
  reviews has its `INV#` row before the invitation is answered (`InvitedInv`, `AnsweredInv`),
  and every other event carries the id that the search needs. `Findable` is needed, and
  TLC violates the property without it: the event that announces an opportunity may be
  handled before `submit_to_ace` has written the row, and then the search is the only way.
* `DealAsAtAws`: `DealFollowsAws`, for any number of handlers, on every behaviour in which no two
  are between their read of AWS and their PATCH at once (`ReadsApart`); assuming
  `ReviewStarted` (no review goes back to `Pending Submission`, which the handler does not
  mirror). As long as an update waits, or a handler has read what AWS has now, the deal may
  be behind; otherwise it shows what AWS has. The condition is needed: TLC violates the
  property with two handlers that overlap (a hazard on the list).

`OpportunityProofs`. About `Associations`, for any finite set of items and any number of
changes, refusals and crashes:

* `ListsTyped`: `AssociationSpec => []AssociationTypeOK`, for any number of invocations. AWS
  never has two solutions: it refuses the second, however the calls fall.
* `AssociationInvariant`, for any number of invocations, on every behaviour in which no two
  are between their reads and the end of their calls at once (`ComparisonsApart`): unless a
  change is waiting, an invocation works towards what the deal asks for, and what it has
  still to add and to drop is exactly what AWS lacks and has too much, or AWS has refused
  an item.
* `ListsAgree`: `ListReachesAws` from it. Two comparisons that overlap leave a mixture.

About `AceForms`, for any deals, companies, forms and changes in Partner Central
(`FormAssumption`: deals have all properties, forms offer what deals do or leave it open,
the enums are never cleared, and Partner Central changes fields there are), and for any
number of each:

* `FormsTyped`: `FormSpec => []FormTypeOK`.
* `BodiesAlwaysAccepted`: `BodiesAreAccepted`. What is at AWS is of known values (`KnownFields`),
  whether `CreateOpportunity`, an update or Partner Central wrote it; `Scrub` makes it
  `Sendable`, without stubs and with marketing as a whole; and the fields of an edit or a
  form are `Harmless`, so that laying them over a body AWS takes gives one it takes. Half
  of Closed Lost is the one thing a single edit cannot avoid: `PairedUp` completes or drops
  it, unless the deal lacks the reason, and then the message waits for it.

`AgreementProofs`, under the same assumption:

* `EditsAlwaysAgree`: `EditsAgree`. The property speaks of an empty queue, and the deal and
  AWS may differ in anything whose edit waits, so it is not inductive; nor is it true
  of a reference that changes with every edit unless one knows what each edit will do.
  `AgreeInv` says it field by field. Most fields follow one property (`Governor`), and such a
  field is right, or was set at AWS, or an edit of its property waits or was refused
  (`FieldRight`). The last edit in the queue of each property has the value of the deal
  (`LastIsHeld`), so that a field is right again once that one is forwarded; an edit
  that is read from the deal again has it anyway. Stage and reason follow each other:
  a change of either can take the other along, from the deal (`PairedUp`), so that what holds
  of one depends on the other's messages (`StageRight`, `ReasonRight`), and what Partner Central
  or the card set there holds until an edit of its own comes (`StageSet`, `ReasonSet`). Last,
  what is at AWS breaks none of its rules, or the body of an edit would be refused
  for a field the edit is not about. There is one lemma for each action, and for
  `Forward` one for the fields the edit is not about, one for its own, and one each for
  the stage and the reason.

  Two clauses of the model are there because the theorem is false without them: a form
  that empties `aws_account_id` lets go of both fields an account can be in (a form of the
  instance does so); and AWS refuses to create, too, what it would refuse to update. A
  deal whose competitor is `*Other` would else give an opportunity without a name for it,
  and AWS would refuse every later edit for that.

`PartsProofs`. About `ContainerCaches`, for every number of containers, versions and
requests, any TTL and any bound; `CacheAssumption` asks that a read of the source takes
no longer than the TTL.

* `CacheInvariant`: `CacheSpec => []CacheInv`. Whatever a container keeps, is reading
  or answered last was current at the time it notes beside it, and these times are
  not in the future. The times come from the start of the read, which is what
  makes the age of the kept value an upper bound.
* `StaleBounded`: `StaleForTtlAtMost` from it.

About `RateLimits`, for any window, quota, margin, rates and number of calls, from
`LimitAssumption` alone:

* `LimitsTyped`: `LimitSpec => []LimitTypeOK`.
* `QuotasAreKept`: `QuotaKept`. A window forgets old calls only, so the k-th stamp it still has
  is not older than the call in its place, behind the calls that were pruned
  (`Forgotten`). Hence calls that are the limit apart in number (and more for each one
  GovWin never answered) are a window apart in time (`SpacedInv`), and no window holds
  more than the limit. HubSpot
  does not look again after its sleep; its window may then have one stamp too many, but
  that one is old by the end of the sleep (`RoomInv`). For a bucket, the calls of any
  stretch of time and the tokens left are together not more than the bucket and what the
  time put into it (`TokensInv`); the division that gives the length of a sleep rounds up,
  so that there is a token at its end (`SleepInv`).

About `GovWinClient`, for every number of invocations and tokens:

* `TokenInvariant`: `TokenSpec => []TokenInv`. A token somebody is about to put
  into the vault is nowhere else (`PrivateInv`); so no write of another invocation
  can bring a refused token back. Until a write was refused (`unput`) no invocation
  has in memory what it was refused, and the vault has it only while that
  invocation is about to clear it (`RefusedInv`).
* `TokensTyped`: types; no request is tried more than three times.
* `NotReused`: `RefusedNotReused` from the invariant.

About `HubSpotRequests`, for any number of containers, deliveries and attempts, any age,
and any difference of the clocks:

* `RequestInvariant`: `RequestSpec => []RequestInv`, in two halves. At the door
  (`DoorInv`): as long as the last serving of a signature is not further back than the
  age less the cut of a second, its row is there, as a row is removed only past its
  expiry; so nothing with this signature gets past the door before. Behind
  the door (`BehindInv`): how far a call has come says what it has handed on,
  so that an answer of 200 finds every change queued or logged, and a change of
  the stage finds the form written.
* `ServingsAreApart`, `ChangesQueued`, `FormFirst`: `ServedApart`, `ChangesAreQueued` and
  `SubmitHasForm` from it.

`MCPartsProofs`, about the parts side by side. A behaviour of `PartsSpec` stays with its part
and is, for the variables of that part, a behaviour of its specification, so that the
theorems above apply. Those of `AceUpdate` come from instances of `AceUpdateProofs` with the
constants of `pair` and of `mirror`, whose hypotheses then are facts about these values;
`PartsAssumption` says that the names among them are different where it matters.

* `PartsTyped`: `PartsTypeOK`, from the type theorem of each part.
* `PairEditsOneField`: `FirstTriesEditOneField`. `PairKeepsDone`: `DoneStaysAtAws`, as the properties
  of the pair are read from the deal and edited there only; until `retried` is set no
  retry has gone through.
* `MirrorAbsorbs`: `MirrorAbsorbsContention`, as two edits and one replayer are few writers.

Every invariant and every action property of the passing runs is a theorem, on the
conditions above, except for two that stay with TLC: `LinkedToItsOwn`, which one answer in
another order breaks, and `MirroredAtRest`, whose instance has a handler that nothing
interrupts (`StageComesBack` is the theorem about it). `EventuallySubmitted`,
`EventuallySynced` and `ParkedIsReplayed` are model-checked only: liveness under fairness is out
of the prover's reach. So is the deadlock freedom of the runs that check it.

## Not modelled

* The mapping of GovWin records to HubSpot properties, and of phones, URLs and
  long texts anywhere: conversions of one value into one other, with unit tests of
  their own. A conversion that fails is a failure of the handler that calls it.
* AWS contacts and scores an event may carry to the deal; contacts of the
  hyperscaler's team and `OpportunityTeam` in bodies.
* Expiry of rows after 180 or 365 days, and of SQS messages after 4 or 14 days.
* A clock of HubSpot that is behind: it makes a stamp look older, as a slow network does.
* The retries inside one client call (the call fails or succeeds as a whole; a
  lost answer is a failure of its own where it matters), alerts other than those
  of orphans and of typed ids, logging, configuration, uploads, wording of errors,
  the reads of the card, which change nothing.
* Terraform other than queues, schedules and concurrency; the setup of HubSpot,
  run once; operators' scripts; the card's front end.

## Plan

1. `AceSubmit`, `Submission`, `AceSubmitProofs`: done.
2. `AceUpdate`, `Associations`, `AceForms`: done.
3. `GovWinSync`, `Replica`, `GovWinSyncProofs`: done.
4. `AceEvents`, `HubSpotRequests`, `GovWinClient`, `RateLimits`, `ContainerCaches`, with
   proofs: done.
5. `AceUpdateProofs`, `OpportunityProofs`, `AgreementProofs`, `MCPartsProofs`: done.
6. One run in which receiver, submission and events share the `ACE#` row and the
   deal.
