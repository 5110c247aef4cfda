----------------------------- MODULE AceEvents ------------------------------
(***************************************************************************)
(* What comes back from AWS.  handle_ace_event turns the EventBridge       *)
(* events of Partner Central into the stage of the HubSpot deal            *)
(* (src/lambdas/handle_ace_event.py), and finds the deal through the ACE#  *)
(* row of src/sync/state.py.  The handler itself writes the row, to heal   *)
(* one that names no deal and to note that it was there; submit_to_ace     *)
(* reserves a token in it and records the opportunity and the invitation   *)
(* (AceSubmit has its every step).  Both go through update_ace_mapping,    *)
(* which writes the row and then the INV# row that leads from the          *)
(* invitation back to it.  The stage of the deal is also written by BD and *)
(* by the GovWin sync.                                                     *)
(*                                                                         *)
(* One GovWin id and one deal.  Opportunities and events are numbered; a   *)
(* process is interrupted only between two calls that leave it.            *)
(***************************************************************************)
EXTENDS Naturals, Sequences, FiniteSets

CONSTANTS
    Handlers,   \* concurrent invocations of handle_ace_event
    Foreign,    \* whether an opportunity may have been made in Partner Central
    Findable,   \* whether the deal has a govwin_opp_id, or a govwin_iq_opp_id only
    Reviews,    \* steps <<from, to>> the AWS review takes
    MaxOpps,    \* bound: opportunities at AWS
    MaxEvents,  \* bound: events in a behaviour
    MaxSubmits, \* bound: submissions in a behaviour
    Faults,     \* which kinds of failure can happen, see FaultKinds
    MaxFaults   \* bound: failures injected in a behaviour

(***************************************************************************)
(*   crash      an invocation dies, or an exception leaves the handler     *)
(*   duplicate  EventBridge delivers an event once more                    *)
(*   no_get     GetOpportunity fails                                       *)
(*   no_read    DynamoDB or HubSpot does not answer a read                 *)
(*   no_write   a best-effort write fails                                  *)
(***************************************************************************)
FaultKinds == {"crash", "duplicate", "no_get", "no_read", "no_write"}

ReviewStatus == {"Pending Submission", "In review", "Approved", "Action Required",
                 "Rejected"}
Closings     == {"Launched", "Closed Lost"}
\* Opportunity Created, Opportunity Updated and Engagement Resource Snapshot
\* Created are "updated"; Rejected and Expired are "declined"; Engagement
\* Created is logged like an invitation that was sent.
EventKinds   == {"updated", "invited", "accepted", "declined"}
Labels       == {"GovWin", "Submit to AWS", "Under AWS Review", "Approved by AWS",
                 "Action Required", "Closed Lost", "Closed Won"}
Writers      == {"sync", "bd", "event", "invitation"}

Opps   == 1..MaxOpps
Events == 1..MaxEvents
Tokens == 1..MaxSubmits
Jobs   == Handlers \cup {"submit"}

ASSUME EventAssumption ==
    /\ \A n \in {MaxOpps, MaxEvents, MaxSubmits, MaxFaults} : n \in Nat
    /\ MaxOpps > 0
    /\ "submit" \notin Handlers
    /\ Foreign \in BOOLEAN /\ Findable \in BOOLEAN
    /\ Reviews \subseteq ReviewStatus \X ReviewStatus
    /\ Faults \subseteq FaultKinds

VARIABLES
    opps,    \* AWS: the opportunities with our partner identifier
    bus,     \* EventBridge: every event so far and how far its delivery is
    seen,    \* DynamoDB: the events with an EVT# row
    row,     \* DynamoDB: the ACE# row, NoRow when it is absent
    index,   \* DynamoDB: the opportunities whose invitation has an INV# row
    torn,    \* whether a writer left the INV# row behind, none repaired it since
    deal,    \* HubSpot: the deal, and who wrote its stage last
    job,     \* per invocation: the call it is about to make, its locals
    submits, \* submissions so far; the number is the token submit_to_ace mints
    alerts,  \* per event: orphan alerts sent to the on-call
    efaults

aws     == <<opps, bus>>
mapping == <<row, index, torn>>
evars   == <<aws, seen, mapping, deal, job, submits, alerts, efaults>>

NoRow  == [token |-> 0, opp |-> 0, deal |-> FALSE, inv |-> 0]
Opp    == [token : 0..MaxSubmits, review : ReviewStatus, closed : Closings \cup {"open"},
           invited : BOOLEAN]
NewOpp(t) == [token |-> t, review |-> "Pending Submission", closed |-> "open",
              invited |-> FALSE]
MadeByHand == [NewOpp(0) EXCEPT !.review = "In review", !.invited = TRUE]
Event  == [kind : EventKinds, opp : Opps, state : {"pending", "running", "gone"}]
NoJob  == [pc |-> "idle", ev |-> 0, opp |-> 0, read |-> NewOpp(0)]
Steps  == {"idle", "get", "map", "search", "heal", "healed", "archive", "patch", "record", "find",
           "stage", "index", "reserve", "load", "create", "persist", "cosell", "start", "task"}
Job    == [pc : Steps, ev : 0..MaxEvents, opp : 0..MaxOpps, read : Opp]

EventInit ==
    /\ opps \in {<< >>} \cup (IF Foreign THEN {<<MadeByHand>>} ELSE {})
    /\ bus = << >> /\ seen = {} /\ row = NoRow /\ index = {} /\ torn = FALSE
    /\ deal = [stage |-> "GovWin", by |-> "sync", status |-> "none", cosell |-> 0,
               archived |-> FALSE]
    /\ job = [x \in Jobs |-> NoJob]
    /\ submits = 0 /\ alerts = [e \in Events |-> 0] /\ efaults = 0

-----------------------------------------------------------------------------
(* Helpers.                                                                *)

At(x, step)   == job[x].pc = step
Goto(x, step) == job' = [job EXCEPT ![x].pc = step]
Ev(h)         == bus[job[h].ev]
Fault(kind)   == kind \in Faults /\ efaults < MaxFaults /\ efaults' = efaults + 1

\* The handler is through with its event.
Done(h) ==
    /\ job' = [job EXCEPT ![h] = NoJob]
    /\ bus' = [bus EXCEPT ![job[h].ev].state = "gone"]

\* AWS changes an opportunity and announces it.
Room(n) == Len(bus) + n <= MaxEvents
Announce(kind, o) == [kind |-> kind, opp |-> o, state |-> "pending"]

\* _TERMINAL_STAGE_TO_HUBSPOT and _DEALSTAGE_BY_AWS_REVIEW.
StageOf(o) ==
    CASE o.closed = "Launched"          -> "Closed Won"
      [] o.closed = "Closed Lost"       -> "Closed Lost"
      [] OTHER -> CASE o.review = "In review"       -> "Under AWS Review"
                    [] o.review = "Approved"        -> "Approved by AWS"
                    [] o.review = "Action Required" -> "Action Required"
                    [] o.review = "Rejected"        -> "Closed Lost"
                    [] OTHER                        -> "none"
Status(o) == IF o.closed = "open" THEN o.review ELSE o.closed

\* _publish_orphan_alert.
Alert(h) == alerts' = [alerts EXCEPT ![job[h].ev] = @ + 1]

\* update_ace_mapping reads the row it has written, and puts the INV# row of
\* the invitation it finds there or was given.
RefreshIndex(x, known) ==
    \/ /\ index' = index \cup known \cup ({row.inv} \ {0}) /\ torn' = FALSE
       /\ UNCHANGED efaults
    \/ /\ Fault("no_read") /\ index' = index \cup known
       /\ torn' = (torn \/ row.inv \notin index' \cup {0})

-----------------------------------------------------------------------------
(* The environment: Partner Central, BD users, the GovWin sync.            *)

\* The review moves on, once the engagement was started.
Review(o, status) ==
    /\ opps[o].invited /\ <<opps[o].review, status>> \in Reviews /\ Room(1)
    /\ opps' = [opps EXCEPT ![o].review = status]
    /\ bus' = Append(bus, Announce("updated", o))
    /\ UNCHANGED <<seen, mapping, deal, job, submits, alerts, efaults>>

\* AWS answers the invitation, after submit_to_ace is through with it: days,
\* not seconds.  The review changes with it; either event may come first.
Respond(o, accepts) ==
    /\ opps[o].invited /\ opps[o].review = "In review" /\ At("submit", "idle") /\ Room(2)
    /\ opps' = [opps EXCEPT ![o].review = IF accepts THEN "Approved" ELSE "Rejected"]
    /\ bus' = bus \o <<Announce(IF accepts THEN "accepted" ELSE "declined", o),
                       Announce("updated", o)>>
    /\ UNCHANGED <<seen, mapping, deal, job, submits, alerts, efaults>>

\* The opportunity is closed, from the Update card or at AWS.
Close(o, how) ==
    /\ opps[o].closed = "open" /\ opps[o].review = "Approved" /\ Room(1)
    /\ opps' = [opps EXCEPT ![o].closed = how]
    /\ bus' = Append(bus, Announce("updated", o))
    /\ UNCHANGED <<seen, mapping, deal, job, submits, alerts, efaults>>

\* map_opportunity_to_deal sets the stage of the GovWin status on every sync.
Sync ==
    /\ ~deal.archived
    /\ deal' = [deal EXCEPT !.stage = "GovWin", !.by = "sync"]
    /\ UNCHANGED <<aws, seen, mapping, job, submits, alerts, efaults>>

Archive ==
    /\ ~deal.archived
    /\ deal' = [deal EXCEPT !.archived = TRUE]
    /\ UNCHANGED <<aws, seen, mapping, job, submits, alerts, efaults>>

\* EventBridge delivers at least once.
Redeliver(e) ==
    /\ bus[e].state = "gone" /\ Fault("duplicate")
    /\ bus' = [bus EXCEPT ![e].state = "pending"]
    /\ UNCHANGED <<opps, seen, mapping, deal, job, submits, alerts>>

-----------------------------------------------------------------------------
(* submit_to_ace, as far as the row and the events are concerned.          *)

\* BD submits from the card, which refuses a deal whose row names an
\* opportunity; a deal that shows one is not to be submitted (BD guide).
Trigger ==
    /\ At("submit", "idle") /\ submits < MaxSubmits
    /\ row.opp = 0 /\ deal.cosell = 0 /\ ~deal.archived
    /\ \A o \in DOMAIN opps : opps[o].token # 0
    /\ submits' = submits + 1
    /\ deal' = [deal EXCEPT !.stage = "Submit to AWS", !.by = "bd"]
    /\ Goto("submit", "reserve")
    /\ UNCHANGED <<aws, seen, mapping, alerts, efaults>>

\* reserve_client_token puts a whole row, unless there is one with a token.
Reserve ==
    /\ At("submit", "reserve")
    /\ row' = IF row.token = 0 THEN [NoRow EXCEPT !.token = submits] ELSE row
    /\ Goto("submit", "load")
    /\ UNCHANGED <<aws, seen, index, torn, deal, submits, alerts, efaults>>

\* Resume from what the row holds.
Load ==
    /\ At("submit", "load")
    /\ job' = [job EXCEPT !["submit"].opp = row.opp, !["submit"].pc =
                  IF row.opp = 0 THEN "create" ELSE IF row.inv = 0 THEN "start" ELSE "idle"]
    /\ UNCHANGED <<aws, seen, mapping, deal, submits, alerts, efaults>>

\* CreateOpportunity with the reserved token, idempotent at AWS.
Create ==
    LET known == {o \in DOMAIN opps : opps[o].token = row.token} IN
    /\ At("submit", "create")
    /\ IF known # {}
         THEN /\ job' = [job EXCEPT !["submit"].opp = CHOOSE o \in known : TRUE,
                                    !["submit"].pc = "persist"]
              /\ UNCHANGED aws
         ELSE /\ Len(opps) < MaxOpps /\ Room(1)
              /\ opps' = Append(opps, NewOpp(row.token))
              /\ bus' = Append(bus, Announce("updated", Len(opps) + 1))
              /\ job' = [job EXCEPT !["submit"].opp = Len(opps) + 1,
                                    !["submit"].pc = "persist"]
    /\ UNCHANGED <<seen, mapping, deal, submits, alerts, efaults>>

Persist ==
    /\ At("submit", "persist")
    /\ row' = [row EXCEPT !.opp = job["submit"].opp, !.deal = TRUE]
    /\ Goto("submit", "cosell")
    /\ UNCHANGED <<aws, seen, index, torn, deal, submits, alerts, efaults>>

\* The AWS identifiers go to the deal at once, if HubSpot takes them.
Cosell ==
    /\ At("submit", "cosell")
    /\ \/ /\ deal' = [deal EXCEPT !.cosell = job["submit"].opp, !.status = "Pending Submission"]
          /\ UNCHANGED efaults
       \/ Fault("no_write") /\ UNCHANGED deal
    /\ Goto("submit", "start")
    /\ UNCHANGED <<aws, seen, mapping, submits, alerts>>

\* StartEngagementFromOpportunityTask sends the invitation and starts the
\* review; a retry carries the same token and changes nothing.
Start ==
    LET o == job["submit"].opp IN
    /\ At("submit", "start")
    /\ IF opps[o].invited THEN UNCHANGED aws
       ELSE /\ Room(2)
            /\ opps' = [opps EXCEPT ![o].invited = TRUE, ![o].review = "In review"]
            /\ bus' = bus \o <<Announce("invited", o), Announce("updated", o)>>
    /\ Goto("submit", "task")
    /\ UNCHANGED <<seen, mapping, deal, submits, alerts, efaults>>

\* Mutant: the reverse row is left to whoever updates the row next.
Task_NoIndex ==
    /\ At("submit", "task")
    /\ row' = [row EXCEPT !.inv = job["submit"].opp, !.deal = TRUE]
    /\ job' = [job EXCEPT !["submit"] = NoJob]
    /\ UNCHANGED <<aws, seen, index, torn, deal, submits, alerts, efaults>>

\* The invitation goes to the row ...
Task ==
    /\ At("submit", "task")
    /\ row' = [row EXCEPT !.inv = job["submit"].opp, !.deal = TRUE]
    /\ Goto("submit", "index")
    /\ UNCHANGED <<aws, seen, index, torn, deal, submits, alerts, efaults>>

\* ... and then, given as an argument, to the INV# row.
TaskIndex ==
    /\ At("submit", "index")
    /\ RefreshIndex("submit", {job["submit"].opp})
    /\ job' = [job EXCEPT !["submit"] = NoJob]
    /\ UNCHANGED <<aws, seen, row, deal, submits, alerts>>

Submit == Reserve \/ Load \/ Create \/ Persist \/ Cosell \/ Start \/ Task \/ TaskIndex

-----------------------------------------------------------------------------
(* handle_ace_event.                                                       *)

\* Mutant: the event is looked up, and not marked.
Receive_NotMarked(h, e) ==
    /\ At(h, "idle") /\ bus[e].state = "pending"
    /\ IF e \in seen \/ bus[e].kind = "invited"
         THEN /\ bus' = [bus EXCEPT ![e].state = "gone"]
              /\ UNCHANGED job
         ELSE /\ bus' = [bus EXCEPT ![e].state = "running"]
              /\ job' = [job EXCEPT ![h].ev = e, ![h].pc =
                            IF bus[e].kind = "updated" THEN "get" ELSE "find"]
    /\ UNCHANGED <<opps, seen, mapping, deal, submits, alerts, efaults>>

\* mark_event_seen_atomic comes before everything else; the event is then
\* dispatched on its detail-type.  An invitation sent is only logged: the AWS
\* contacts it may carry are left out.
Receive(h, e) ==
    /\ At(h, "idle") /\ bus[e].state = "pending"
    /\ seen' = seen \cup {e}
    /\ IF e \in seen \/ bus[e].kind = "invited"
         THEN /\ bus' = [bus EXCEPT ![e].state = "gone"]
              /\ UNCHANGED job
         ELSE /\ bus' = [bus EXCEPT ![e].state = "running"]
              /\ job' = [job EXCEPT ![h].ev = e, ![h].pc =
                            IF bus[e].kind = "updated" THEN "get" ELSE "find"]
    /\ UNCHANGED <<opps, mapping, deal, submits, alerts, efaults>>

\* GetOpportunity; on an error the event is skipped.
Get(h) ==
    /\ At(h, "get")
    /\ \/ /\ job' = [job EXCEPT ![h].pc = "map", ![h].opp = Ev(h).opp,
                                ![h].read = opps[Ev(h).opp]]
          /\ UNCHANGED <<bus, efaults>>
       \/ Fault("no_get") /\ Done(h)
    /\ UNCHANGED <<opps, seen, mapping, deal, submits, alerts>>

\* find_govwin_by_invitation_id: the INV# row, and an orphan without it.
Find(h) ==
    /\ At(h, "find")
    /\ \/ /\ Ev(h).opp \in index
          /\ Goto(h, "map")
          /\ UNCHANGED <<bus, alerts, efaults>>
       \/ /\ Ev(h).opp \notin index
          /\ Done(h) /\ Alert(h)
          /\ UNCHANGED efaults
       \/ Fault("no_read") /\ Done(h) /\ Alert(h)
    /\ UNCHANGED <<opps, seen, mapping, deal, submits>>

\* With the deal known: an opportunity is mirrored, an invitation sets a stage.
Resolved(h) == IF Ev(h).kind = "updated" THEN "archive" ELSE "stage"

\* _resolve_or_heal_deal_id: the row, and a read that fails is no row, ...
Map(h) ==
    /\ At(h, "map")
    /\ \/ Goto(h, IF row.deal THEN Resolved(h) ELSE "search") /\ UNCHANGED efaults
       \/ Fault("no_read") /\ Goto(h, "search")
    /\ UNCHANGED <<aws, seen, mapping, deal, submits, alerts>>

\* Mutant: a row without a deal is an orphan.
Search_NoHeal(h) ==
    /\ At(h, "search")
    /\ Done(h) /\ Alert(h)
    /\ UNCHANGED <<opps, seen, mapping, deal, submits, efaults>>

\* ... then a search for the deal by govwin_opp_id, and an orphan without one,
Search(h) ==
    /\ At(h, "search")
    /\ \/ /\ Findable
          /\ Goto(h, "heal")
          /\ UNCHANGED <<bus, alerts, efaults>>
       \/ /\ ~Findable
          /\ Done(h) /\ Alert(h)
          /\ UNCHANGED efaults
       \/ Fault("no_read") /\ Done(h) /\ Alert(h)
    /\ UNCHANGED <<opps, seen, mapping, deal, submits>>

\* ... and the deal found goes to the row, as far as DynamoDB takes it.
Heal(h) ==
    /\ At(h, "heal")
    /\ \/ row' = [row EXCEPT !.deal = TRUE] /\ Goto(h, "healed") /\ UNCHANGED efaults
       \/ Fault("no_write") /\ Goto(h, Resolved(h)) /\ UNCHANGED row
    /\ UNCHANGED <<aws, seen, index, torn, deal, submits, alerts>>

HealIndex(h) ==
    /\ At(h, "healed")
    /\ RefreshIndex(h, {})
    /\ Goto(h, Resolved(h))
    /\ UNCHANGED <<aws, seen, row, deal, submits, alerts>>

\* An archived deal is left alone, and so is one that HubSpot does not answer
\* for.  Parked edits are replayed here (AceUpdate).
CheckArchive(h) ==
    /\ At(h, "archive")
    /\ \/ /\ IF deal.archived THEN Done(h) ELSE Goto(h, "patch") /\ UNCHANGED bus
          /\ UNCHANGED efaults
       \/ Fault("no_read") /\ Done(h)
    /\ UNCHANGED <<opps, seen, mapping, deal, submits, alerts>>

\* Mutant: the review alone decides, as if the opportunity were open.
Patch_ReviewOnly(h) ==
    LET o == job[h].read stage == StageOf([o EXCEPT !.closed = "open"]) IN
    /\ At(h, "patch")
    /\ deal' = [deal EXCEPT !.cosell = job[h].opp, !.status = Status(o),
                            !.stage = IF stage = "none" THEN @ ELSE stage,
                            !.by = IF stage = "none" THEN @ ELSE "event"]
    /\ IF stage = "none" THEN Done(h) ELSE Goto(h, "record") /\ UNCHANGED bus
    /\ UNCHANGED <<opps, seen, mapping, submits, alerts, efaults>>

\* One best-effort PATCH: the id, the status, and the stage when there is one.
\* HubSpot refuses to write to a deal archived meanwhile.
Patch(h) ==
    LET o == job[h].read stage == StageOf(o) IN
    /\ At(h, "patch")
    /\ \/ /\ ~deal.archived
          /\ deal' = [deal EXCEPT !.cosell = job[h].opp, !.status = Status(o),
                                  !.stage = IF stage = "none" THEN @ ELSE stage,
                                  !.by = IF stage = "none" THEN @ ELSE "event"]
          /\ UNCHANGED efaults
       \/ deal.archived /\ UNCHANGED <<deal, efaults>>
       \/ Fault("no_write") /\ UNCHANGED deal
    /\ IF stage = "none" THEN Done(h) ELSE Goto(h, "record") /\ UNCHANGED bus
    /\ UNCHANGED <<opps, seen, mapping, submits, alerts>>

\* LastModifiedDate goes to the row, which is created when it is not there ...
Record(h) ==
    /\ At(h, "record")
    /\ Goto(h, "index")
    /\ UNCHANGED <<aws, seen, mapping, deal, submits, alerts, efaults>>

\* ... and the reverse row with it.
RecordIndex(h) ==
    /\ At(h, "index")
    /\ RefreshIndex(h, {})
    /\ Done(h)
    /\ UNCHANGED <<opps, seen, row, deal, submits, alerts>>

\* _update_hubspot_stage: what the answer to the invitation says, whatever has
\* become of the opportunity since.
SetStage(h) ==
    /\ At(h, "stage")
    /\ deal' = IF deal.archived THEN deal ELSE
         [deal EXCEPT !.by = "invitation", !.stage =
             IF Ev(h).kind = "accepted" THEN "Approved by AWS" ELSE "Closed Lost"]
    /\ Done(h)
    /\ UNCHANGED <<opps, seen, mapping, submits, alerts, efaults>>

Handle(h) ==
    \/ Get(h) \/ Find(h) \/ Map(h) \/ Search(h) \/ Heal(h) \/ HealIndex(h)
    \/ CheckArchive(h) \/ Patch(h) \/ Record(h) \/ RecordIndex(h) \/ SetStage(h)

\* An invocation dies.  Lambda invokes an asynchronous handler again; what
\* submit_to_ace had is redelivered by SQS, and starts over.
Crash(x) ==
    /\ ~At(x, "idle") /\ Fault("crash")
    /\ job' = [job EXCEPT ![x] = IF x = "submit" THEN [NoJob EXCEPT !.pc = "reserve"]
                                                ELSE NoJob]
    /\ bus' = IF x = "submit" THEN bus ELSE [bus EXCEPT ![job[x].ev].state = "pending"]
    /\ torn' = (torn \/ row.inv \notin index \cup {0})
    /\ UNCHANGED <<opps, seen, row, index, deal, submits, alerts>>

-----------------------------------------------------------------------------

\* Every event was handled, and nothing runs.
Quiet ==
    /\ \A e \in DOMAIN bus : bus[e].state = "gone"
    /\ \A x \in Jobs : At(x, "idle")

EventNext ==
    \/ \E o \in DOMAIN opps :
          \/ \E status \in ReviewStatus : Review(o, status)
          \/ \E accepts \in BOOLEAN : Respond(o, accepts)
          \/ \E how \in Closings : Close(o, how)
    \/ Sync \/ Archive \/ Trigger \/ Submit
    \/ \E h \in Handlers : Handle(h) \/ (\E e \in DOMAIN bus : Receive(h, e))
    \/ \E e \in DOMAIN bus : Redeliver(e)
    \/ \E x \in Jobs : Crash(x)

EventSpec == EventInit /\ [][EventNext]_evars

-----------------------------------------------------------------------------
(* Properties.                                                             *)

\* Types of the state of both cloud accounts, of the deal and of the handlers.
EventTypeOK ==
    /\ opps \in Seq(Opp) /\ Len(opps) <= MaxOpps
    /\ bus \in Seq(Event) /\ Len(bus) <= MaxEvents
    /\ \A e \in DOMAIN bus : bus[e].opp \in DOMAIN opps
    /\ seen \subseteq DOMAIN bus
    /\ row \in [token : 0..MaxSubmits, opp : 0..MaxOpps, deal : BOOLEAN, inv : 0..MaxOpps]
    /\ index \subseteq Opps /\ torn \in BOOLEAN
    /\ deal \in [stage : Labels, by : Writers, status : ReviewStatus \cup Closings \cup {"none"},
                 cosell : 0..MaxOpps, archived : BOOLEAN]
    /\ job \in [Jobs -> Job]
    /\ submits \in 0..MaxSubmits /\ efaults \in 0..MaxFaults
    /\ alerts \in [Events -> Nat]

\* An event alerts the on-call at most once, however often it is delivered and
\* whichever invocation dies over it: the mark comes before the work.
AlertsOnce == \A e \in Events : alerts[e] <= 1

\* While nothing fails, only opportunities made by hand are reported as
\* orphans.  An event of our own may come while submit_to_ace is between any
\* two of its writes; the row, the healing and the INV# row then have to lead
\* to the deal all the same.
OrphansAreForeign ==
    efaults = 0 => \A e \in DOMAIN bus : alerts[e] > 0 => opps[bus[e].opp].token = 0

\* The INV# row lags behind the row only while submit_to_ace is about to write
\* it; when a crash came between the two, the next update of the row, whoever
\* makes it, puts it there.
IndexFollowsRow ==
    row.inv \in index \cup {0} \/ torn \/ At("submit", "index")

\* When everything is handled and nothing failed, the deal shows the status
\* AWS has, unless BD archived it; and so does its stage when an opportunity
\* event was the last to write it, rather than the GovWin sync, BD or the
\* answer to an invitation.
DealFollowsAws ==
    (Quiet /\ efaults = 0 /\ ~deal.archived /\ deal.cosell # 0)
      => /\ deal.status = Status(opps[deal.cosell])
         /\ (deal.by = "event" => deal.stage = StageOf(opps[deal.cosell]))
=============================================================================
