------------------------------- MODULE MCParts -------------------------------
(***************************************************************************)
(* The parts that run on their own, each on a small instance: a behaviour  *)
(* picks one and stays with it, the others rest in their initial states.   *)
(* AceUpdate comes in two instances, as one does not show everything:      *)
(*   pair    three edits of two properties and two invocations, no review: *)
(*           failures, redeliveries, deliveries in any order, up to the    *)
(*           first retry after a conflict that goes through;               *)
(*   mirror  two edits of the stage at once, through a review that may be  *)
(*           reopened, and one handler that replays them and mirrors the   *)
(*           stage of AWS.                                                 *)
(***************************************************************************)
EXTENDS AceEvents, Associations, MCAceForms, HubSpotRequests, GovWinClient, RateLimits,
        ContainerCaches

CONSTANTS
    Parts,   \* the parts to choose from
    h1, description, dealname, nextSteps, dealstage, Empty, Note

\* The values that stand for a handler, a property, a cleared property and a
\* note are no edits and differ from one another where AceUpdate tells them
\* apart.
ASSUME PartsAssumption ==
    /\ h1 \notin 1..2
    /\ Empty \notin 0..3 /\ Note \notin (0..3) \cup {Empty}
    /\ nextSteps \notin {description, dealname, dealstage}
    /\ dealstage \notin {description, dealname}

VARIABLES
    part,
    retried, \* whether an update of the pair has gone through after a conflict
    uDeal, uEdits, uQueue, uReceives, uJob, uPending, uSubmission, uAws, uFresh, uReview,
    uEvents, uFaults

uvars == <<uDeal, uEdits, uQueue, uReceives, uJob, uPending, uSubmission, uAws, uFresh,
           uReview, uEvents, uFaults>>

Pair == INSTANCE AceUpdate WITH
    Props <- {description, dealname}, Refetched <- {description, dealname},
    NextSteps <- nextSteps, Stage <- dealstage, Handlers <- {}, Sweeps <- {}, Cards <- FALSE,
    Reviews <- {}, FirstReview <- "Approved", Created <- TRUE,
    MaxEdits <- 3, MaxEvents <- 0, MaxReceive <- 2, MaxConcurrent <- 2,
    Faults <- {"crash", "transient", "reject", "duplicate", "no_write"}, MaxFaults <- 1,
    deal <- uDeal, edits <- uEdits, queue <- uQueue, receives <- uReceives, job <- uJob,
    pending <- uPending, submission <- uSubmission, aws <- uAws, fresh <- uFresh,
    review <- uReview, events <- uEvents, faults <- uFaults

Mirror == INSTANCE AceUpdate WITH
    Props <- {dealstage}, Refetched <- {},
    NextSteps <- nextSteps, Stage <- dealstage, Handlers <- {h1}, Sweeps <- {}, Cards <- FALSE,
    Reviews <- {<<"Pending Submission", "In review">>, <<"In review", "Approved">>,
                <<"In review", "Action Required">>, <<"Action Required", "In review">>},
    FirstReview <- "In review", Created <- TRUE,
    MaxEdits <- 2, MaxEvents <- 2, MaxReceive <- 1, MaxConcurrent <- 2,
    Faults <- {"reject", "no_read"}, MaxFaults <- 1,
    deal <- uDeal, edits <- uEdits, queue <- uQueue, receives <- uReceives, job <- uJob,
    pending <- uPending, submission <- uSubmission, aws <- uAws, fresh <- uFresh,
    review <- uReview, events <- uEvents, faults <- uFaults

\* AceEvents: the review is asked to be revised, and comes back.
MCReviews == {<<"In review", "Action Required">>, <<"Action Required", "In review">>,
              <<"Approved", "Action Required">>}

\* RateLimits.
MCRate == [kind \in Kinds |-> IF kind = "read" THEN 2 ELSE 1]

PartsInit ==
    /\ part \in Parts /\ retried = FALSE
    /\ EventInit /\ AssociationInit /\ RequestInit /\ TokenInit /\ LimitInit /\ CacheInit
    /\ FormInit
    /\ IF part = "mirror" THEN Mirror!Init ELSE Pair!Init
    /\ part # "events" => opps = << >>
    /\ part # "associations" => list = "products" /\ wanted = {}
    /\ part # "forms" => held = MCDeal
    /\ (held = MCDeal /\ part = "forms") \/ customer = MCCompany
    /\ part # "limits" => limiter = "govwin"
    /\ part # "caches" => source = "secret" /\ current = 0

PartsNext ==
    \/ /\ part = "events" /\ EventNext
       /\ UNCHANGED <<part, retried, avars, fvars, rvars, tvars, lvars, cvars, uvars>>
    \/ /\ part = "associations" /\ AssociationNext
       /\ UNCHANGED <<part, retried, evars, fvars, rvars, tvars, lvars, cvars, uvars>>
    \/ /\ part = "forms" /\ FormNext
       /\ UNCHANGED <<part, retried, evars, avars, rvars, tvars, lvars, cvars, uvars>>
    \/ /\ part = "requests" /\ RequestNext
       /\ UNCHANGED <<part, retried, evars, avars, fvars, tvars, lvars, cvars, uvars>>
    \/ /\ part = "tokens" /\ TokenNext
       /\ UNCHANGED <<part, retried, evars, avars, fvars, rvars, lvars, cvars, uvars>>
    \/ /\ part = "limits" /\ LimitNext
       /\ UNCHANGED <<part, retried, evars, avars, fvars, rvars, tvars, cvars, uvars>>
    \/ /\ part = "caches" /\ CacheNext
       /\ UNCHANGED <<part, retried, evars, avars, fvars, rvars, tvars, lvars, uvars>>
    \/ /\ part = "pair" /\ Pair!Next
       /\ retried' = (retried \/ ~Pair!FirstTriesOnly)
       /\ UNCHANGED <<part, evars, avars, fvars, rvars, tvars, lvars, cvars>>
    \/ /\ part = "mirror" /\ Mirror!Next
       /\ UNCHANGED <<part, retried, evars, avars, fvars, rvars, tvars, lvars, cvars>>

\* Bound of TLC: time passes, and the clock of HubSpot runs ahead, for one
\* delivery at most, tried again as often as it may be, and without failures; all
\* deliveries and failures are there while both clocks stand still.
RequestsInTime ==
    \/ Len(deliveries) <= 1 /\ rfaults = 0
    \/ clock = 0 /\ \A r \in wire : r.stamp = 0

\* Bound of TLC: the pair stops where its promise does (update_lost_update has
\* what comes after).
PairUndisturbed == ~retried

pvars     == <<part, retried, evars, avars, fvars, rvars, tvars, lvars, cvars, uvars>>
PartsSpec == PartsInit /\ [][PartsNext]_pvars
-----------------------------------------------------------------------------
(* Properties, those of AceUpdate for the instance they are about.         *)

\* Types of all variables of the part that runs.
PartsTypeOK ==
    /\ part = "events" => EventTypeOK
    /\ part = "associations" => AssociationTypeOK
    /\ part = "forms" => FormTypeOK
    /\ part = "requests" => RequestTypeOK
    /\ part = "tokens" => TokenTypeOK
    /\ part = "limits" => LimitTypeOK
    /\ part = "caches" => CacheTypeOK
    /\ part = "pair" => Pair!TypeOK
    /\ part = "mirror" => Mirror!TypeOK

\* Two invocations of update_in_ace, whatever fails and is delivered again: an
\* edit that is done and the last of its property is at AWS, and what is still
\* under way, delivered late or delivered twice does not write over it, until a
\* retry after a conflict goes through (AceUpdate's DoneIsAtAws).
DoneStaysAtAws ==
    part = "pair" /\ ~retried
      => \A p \in {description, dealname} : Pair!DoneIsAtAws(p)

\* An update that goes through at its first try changes the field of the edited
\* property and no other, whatever the other invocation has written since it
\* read the opportunity (AceUpdate's OtherFieldsStay).
FirstTriesEditOneField ==
    [][part = "pair" /\ Pair!FirstTriesOnly => Pair!OtherFieldsStay]_<<part, uvars>>

\* The stage of AWS ends up on the deal (AceUpdate's StageIsMirrored).
MirroredAtRest == part = "mirror" => Mirror!StageIsMirrored

\* Writers that contend with one another do not lose an edit to the
\* dead-letter queue (AceUpdate's ContentionIsAbsorbed).
MirrorAbsorbsContention == part = "mirror" => Mirror!ContentionIsAbsorbed
=============================================================================
