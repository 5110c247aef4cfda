-------------------------- MODULE HubSpotRequests --------------------------
(***************************************************************************)
(* The two doors HubSpot knocks at.  hubspot_webhook_receiver takes the    *)
(* property changes HubSpot delivers and puts them on the SQS queues       *)
(* (src/lambdas/hubspot_webhook_receiver.py); the Submit card calls        *)
(* ui_extension_writes (src/lambdas/_ui_extension_common.py,               *)
(* ui_extension_writes.py), which writes the form to the deal and then     *)
(* moves its stage: a change that comes back through the receiver.  Both   *)
(* check the signature and its age (src/hubspot/signature.py; the secret   *)
(* is in ContainerCaches), and reserve its fingerprint in DynamoDB.        *)
(*                                                                         *)
(* HubSpot tries a delivery again, signed anew, until it is answered with  *)
(* 200; the network may lose a request, or deliver it any number of times, *)
(* and the clock that stamps a request may run ahead of the functions'.    *)
(***************************************************************************)
EXTENDS Naturals, Sequences, FiniteSets

CONSTANTS
    Lambdas,       \* containers of the two functions
    PerSecond,     \* ticks of the clock in a second
    MaxAge,        \* webhook_max_age_seconds: how far a stamp may be off, and the
                   \* life of a row
    Ahead,         \* bound: how far the clock of HubSpot runs ahead
    Made,          \* bound: changes made to the deal, other than by the card
    MaxClock,      \* bound: the clock
    MaxDeliveries, \* bound: deliveries and card calls
    MaxTries,      \* bound: attempts of HubSpot at one delivery
    RequestFaults, \* which failures can happen: crash, no_sqs, no_hubspot
    MaxRequestFaults

ASSUME RequestAssumption ==
    /\ \A n \in {MaxAge, Ahead, MaxClock, MaxDeliveries, MaxTries, MaxRequestFaults} :
          n \in Nat
    /\ MaxTries > 0 /\ PerSecond \in Nat \ {0}
    /\ Made \subseteq {"edit", "echo", "cosell", "other"}
    /\ RequestFaults \subseteq {"crash", "no_sqs", "no_hubspot"}

\* The changes of a deal, by what the receiver makes of them: an edit of BD,
\* the echo of a write of the integration, the stage, an AWS id typed by hand,
\* and a property nobody subscribed to.
Changes == {"edit", "echo", "stage", "cosell", "other"}
Queues  == {"submit", "update"}

VARIABLES
    clock,
    pending,    \* HubSpot: changes made and not yet sent
    deliveries, \* HubSpot: each delivery, its attempts and its outcome
    wire,       \* the network: every request ever sent
    rows,       \* DynamoDB: the WHK# rows, each with its ttl
    served,     \* per signature: the times it got past the door, a history
    call,       \* per container: the request it works on
    queued,     \* SQS: the changes in each queue
    logged,     \* CloudWatch: the changes SQS refused
    alerted,    \* SNS: the changes somebody was alerted of
    form,       \* HubSpot: the calls whose form the deal has
    rfaults

sends == <<pending, deliveries, wire>>
sinks == <<queued, logged, alerted, form>>
rvars == <<clock, sends, rows, served, call, sinks, rfaults>>

Ids       == 1..MaxDeliveries
Signature == [id : Ids, try : 1..MaxTries]
Request   == [sig : Signature, stamp : 0..(MaxClock + Ahead)]
Delivery  == [card : BOOLEAN, changes : SUBSET Changes, tries : 1..MaxTries,
              state : {"sent", "done", "failed"}]
Idle      == [pc |-> "idle", sig |-> [id |-> 0, try |-> 0]]
RequestSteps == {"reserve", "submit", "update", "audit", "check", "patch", "flip"}
Call      == [pc : RequestSteps, sig : Signature]

RequestInit ==
    /\ clock = 0
    /\ pending = {} /\ deliveries = << >> /\ wire = {} /\ rows = {}
    /\ served = [s \in Signature |-> << >>] /\ call = [x \in Lambdas |-> Idle]
    /\ queued = [q \in Queues |-> {}] /\ logged = {} /\ alerted = {}
    /\ form = {} /\ rfaults = 0

-----------------------------------------------------------------------------
(* Helpers.                                                                *)

Doing(x, step)  == call[x].pc = step
Next_(x, step)  == call' = [call EXCEPT ![x].pc = step]
Of(x)           == deliveries[call[x].sig.id]
\* The answer, which counts for the attempt HubSpot is waiting for, and may
\* come too late or not at all.
Reply(x, code)  ==
    LET s == call[x].sig IN
    /\ call' = [call EXCEPT ![x] = Idle]
    /\ \/ /\ deliveries[s.id].tries = s.try
          /\ deliveries' = [deliveries EXCEPT ![s.id].state =
                                IF code \in {200, 202} THEN "done" ELSE "failed"]
       \/ UNCHANGED deliveries
RFault(kind)    == /\ kind \in RequestFaults /\ rfaults < MaxRequestFaults
                   /\ rfaults' = rfaults + 1

\* _route_event, with classify_property_change.
Route(c) == CASE c = "stage"  -> "submit"
              [] c = "edit"   -> "update"
              [] c = "cosell" -> "audit"
              [] OTHER        -> "drop"

\* HubSpot sends an attempt at a delivery, signed now by its own clock.
Post(id, try) == \E early \in 0..Ahead :
    wire' = wire \cup {[sig |-> [id |-> id, try |-> try], stamp |-> clock + early]}

-----------------------------------------------------------------------------
(* The environment: HubSpot, the card, the clock, the operator.            *)

Tick ==
    /\ clock < MaxClock
    /\ clock' = clock + 1
    /\ UNCHANGED <<sends, rows, served, call, sinks, rfaults>>

\* DynamoDB removes a row past its ttl, at once or some time later.
Expire ==
    /\ \E r \in rows : r.ttl < clock /\ rows' = rows \ {r}
    /\ UNCHANGED <<clock, sends, served, call, sinks, rfaults>>

\* Somebody changes the deal, not from the card.
Change(c) ==
    /\ c \in Made \ pending
    /\ \A d \in DOMAIN deliveries : c \notin deliveries[d].changes
    /\ pending' = pending \cup {c}
    /\ UNCHANGED <<clock, deliveries, wire, rows, served, call, sinks, rfaults>>

\* HubSpot batches what is pending.
Deliver ==
    LET id == Len(deliveries) + 1 IN
    /\ pending # {} /\ id \in Ids
    /\ deliveries' = Append(deliveries,
          [card |-> FALSE, changes |-> pending, tries |-> 1, state |-> "sent"])
    /\ pending' = {}
    /\ Post(id, 1)
    /\ UNCHANGED <<clock, rows, served, call, sinks, rfaults>>

\* BD presses Submit.
Press ==
    LET id == Len(deliveries) + 1 IN
    /\ id \in Ids
    /\ deliveries' = Append(deliveries,
          [card |-> TRUE, changes |-> {}, tries |-> 1, state |-> "sent"])
    /\ Post(id, 1)
    /\ UNCHANGED <<clock, pending, rows, served, call, sinks, rfaults>>

\* No answer yet, or not 200: HubSpot tries again, or BD presses again.
TryAgain(id) ==
    /\ deliveries[id].state # "done" /\ deliveries[id].tries < MaxTries
    /\ deliveries' = [deliveries EXCEPT ![id].tries = @ + 1, ![id].state = "sent"]
    /\ Post(id, deliveries[id].tries + 1)
    /\ UNCHANGED <<clock, pending, rows, served, call, sinks, rfaults>>

-----------------------------------------------------------------------------
(* The gates, in their order.                                              *)

\* A request reaches a container: its signature is right, its stamp is not too
\* far in the past nor in the future.  The method, the size and the path are
\* those of HubSpot.
Accept(x, r) ==
    /\ call[x] = Idle
    /\ clock <= r.stamp + MaxAge /\ r.stamp <= clock + MaxAge
    /\ call' = [call EXCEPT ![x] = [pc |-> "reserve", sig |-> r.sig]]
    /\ UNCHANGED <<clock, sends, rows, served, sinks, rfaults>>

Known(s) == \E r \in rows : r.sig = s

\* The row of a signature; its ttl counts from the last whole second.
Row(s) == [sig |-> s, ttl |-> (clock - (clock % PerSecond)) + MaxAge]

\* The request gets past the door.
Admit(x) ==
    /\ served' = [served EXCEPT ![call[x].sig] = Append(@, clock)]
    /\ Next_(x, IF Of(x).card THEN "check" ELSE "submit")

\* Mutants: a request that was seen is taken for one that was served; the row is
\* put without a condition.
Reserve_Acks(x) ==
    LET s == call[x].sig IN
    /\ Doing(x, "reserve")
    /\ \/ Known(s) /\ Reply(x, 200) /\ UNCHANGED <<rows, served>>
       \/ ~Known(s) /\ rows' = rows \cup {Row(s)} /\ Admit(x) /\ UNCHANGED deliveries
    /\ UNCHANGED <<clock, pending, wire, sinks, rfaults>>
Reserve_Unconditional(x) ==
    LET s == call[x].sig IN
    /\ Doing(x, "reserve")
    /\ rows' = {r \in rows : r.sig # s} \cup {Row(s)} /\ Admit(x)
    /\ UNCHANGED <<clock, pending, deliveries, wire, sinks, rfaults>>

\* reserve_webhook_signature, before anything is done for the request: the put
\* fails while the row is there, past its ttl or not.
ReserveSignature(x) ==
    LET s == call[x].sig IN
    /\ Doing(x, "reserve")
    /\ \/ Known(s) /\ Reply(x, 409) /\ UNCHANGED <<rows, served>>
       \/ ~Known(s) /\ rows' = rows \cup {Row(s)} /\ Admit(x) /\ UNCHANGED deliveries
    /\ UNCHANGED <<clock, pending, wire, sinks, rfaults>>

-----------------------------------------------------------------------------
(* The receiver.                                                           *)

Routed(x, q) == {c \in Of(x).changes : Route(c) = q}

\* _send_sqs_batches: what SQS refuses is logged, and that is all.
Enqueue(x, q, next) ==
    /\ Doing(x, q)
    /\ \/ /\ queued' = [queued EXCEPT ![q] = @ \cup Routed(x, q)]
          /\ UNCHANGED <<logged, rfaults>>
       \/ /\ Routed(x, q) # {} /\ RFault("no_sqs")
          /\ logged' = logged \cup Routed(x, q)
          /\ UNCHANGED queued
    /\ Next_(x, next)
    /\ UNCHANGED <<clock, sends, rows, served, alerted, form>>

\* _process_audit_events alerts of hand edits; the answer is 200 in any case.
Audit(x) ==
    /\ Doing(x, "audit")
    /\ alerted' = alerted \cup Routed(x, "audit")
    /\ Reply(x, 200)
    /\ UNCHANGED <<clock, pending, wire, rows, served, queued, logged, form, rfaults>>

-----------------------------------------------------------------------------
(* The Submit card: _handle_submit.                                        *)

\* A deal whose row names an opportunity, which submit_to_ace has recorded some
\* time after it got the stage, is not submitted again.
CheckSubmitted(x) ==
    /\ Doing(x, "check")
    /\ \/ "stage" \in queued["submit"] /\ Reply(x, 409)
       \/ Next_(x, "patch") /\ UNCHANGED deliveries
    /\ UNCHANGED <<clock, pending, wire, rows, served, sinks, rfaults>>

\* Mutant: the stage moves whether or not HubSpot took the form.
PatchForm_Ignored(x) ==
    /\ Doing(x, "patch")
    /\ \/ form' = form \cup {call[x].sig.id} /\ UNCHANGED rfaults
       \/ RFault("no_hubspot") /\ UNCHANGED form
    /\ Next_(x, "flip")
    /\ UNCHANGED <<clock, sends, rows, served, queued, logged, alerted>>

\* First the properties of the form ...
PatchForm(x) ==
    /\ Doing(x, "patch")
    /\ \/ /\ form' = form \cup {call[x].sig.id} /\ Next_(x, "flip")
          /\ UNCHANGED <<deliveries, rfaults>>
       \/ RFault("no_hubspot") /\ Reply(x, 502) /\ UNCHANGED form
    /\ UNCHANGED <<clock, pending, wire, rows, served, queued, logged, alerted>>

\* ... then the stage, which HubSpot announces unless it is there already.
FlipStage(x) ==
    /\ Doing(x, "flip")
    /\ \/ /\ pending' = IF \E d \in DOMAIN deliveries : "stage" \in deliveries[d].changes
                        THEN pending ELSE pending \cup {"stage"}
          /\ Reply(x, 202)
          /\ UNCHANGED rfaults
       \/ RFault("no_hubspot") /\ Reply(x, 502) /\ UNCHANGED pending
    /\ UNCHANGED <<clock, wire, rows, served, sinks>>

-----------------------------------------------------------------------------

\* A container dies, or an exception makes the answer a 5xx.
Abort(x) ==
    /\ call[x] # Idle /\ RFault("crash")
    /\ call' = [call EXCEPT ![x] = Idle]
    /\ UNCHANGED <<clock, sends, rows, served, sinks>>

Serve(x) ==
    \/ ReserveSignature(x) \/ Enqueue(x, "submit", "update") \/ Enqueue(x, "update", "audit")
    \/ Audit(x) \/ CheckSubmitted(x) \/ PatchForm(x) \/ FlipStage(x)

RequestNext ==
    \/ Tick \/ Expire \/ Deliver \/ Press
    \/ \E c \in Changes : Change(c)
    \/ \E id \in DOMAIN deliveries : TryAgain(id)
    \/ \E x \in Lambdas : Serve(x) \/ Abort(x) \/ (\E r \in wire : Accept(x, r))

RequestSpec == RequestInit /\ [][RequestNext]_rvars

-----------------------------------------------------------------------------
(* Properties.                                                             *)

\* Types of the state of HubSpot, of the network, of the doors and behind them.
RequestTypeOK ==
    /\ clock \in 0..MaxClock
    /\ pending \subseteq Changes
    /\ deliveries \in Seq(Delivery) /\ Len(deliveries) <= MaxDeliveries
    /\ wire \subseteq Request /\ \A r \in wire : r.sig.id \in DOMAIN deliveries
    /\ rows \subseteq [sig : Signature, ttl : 0..(MaxClock + MaxAge)]
    /\ served \in [Signature -> Seq(0..MaxClock)]
    /\ call \in [Lambdas -> Call \cup {Idle}]
    /\ queued \in [Queues -> SUBSET Changes]
    /\ logged \subseteq Changes /\ alerted \subseteq Changes /\ form \subseteq Ids
    /\ rfaults \in 0..MaxRequestFaults

\* The row of a signed request keeps its duplicates out for the age the code
\* allows a stamp, less the fraction of a second that the ttl is cut by: however
\* often the network delivers the request, to however many containers, and
\* however long an invocation waits before it reserves, it is served again only
\* after that.  It can be: a stamp ahead of the clock stays acceptable for
\* longer (validate_signature, reserve_webhook_signature).
ServedApart ==
    \A s \in Signature : \A i, j \in DOMAIN served[s] : i < j =>
        served[s][i] + MaxAge + 1 < served[s][j] + PerSecond

\* A change that HubSpot considers delivered is on its queue, or CloudWatch has
\* it that SQS refused it; so it is through crashes after the reservation,
\* late answers and duplicates.
ChangesAreQueued ==
    \A d \in DOMAIN deliveries : deliveries[d].state = "done" =>
        \A c \in deliveries[d].changes : \A q \in Queues :
            Route(c) = q => c \in queued[q] \cup logged

\* The stage that starts a submission moves only on a deal that has a form.
SubmitHasForm ==
    ("stage" \in pending \/ \E d \in DOMAIN deliveries : "stage" \in deliveries[d].changes)
       => form # {}
=============================================================================
