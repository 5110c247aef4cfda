------------------------------ MODULE AceForms ------------------------------
(***************************************************************************)
(* What AWS is sent of a deal.  Three writers fill in the fields of an     *)
(* opportunity, each with translations of its own: submit_to_ace creates   *)
(* it from the deal, the company and the contacts (src/ace/mapper.py);     *)
(* update_in_ace writes the fields of the one property BD edited           *)
(* (src/lambdas/update_in_ace.py); the Update card lays a form over what   *)
(* AWS has (mapper.py, src/lambdas/ui_extension_writes.py).  The last two  *)
(* send back all of what AWS returned, reduced to what it takes            *)
(* (src/ace/client.py, scrub_for_update), since UpdateOpportunity clears   *)
(* the fields it is not given.                                             *)
(*                                                                         *)
(* When and how often bodies are sent is AceUpdate's: here every message   *)
(* is delivered once, those of one property in order, an update is one     *)
(* step, the deal can be read, and the review is over.  Lengths and        *)
(* formats are left out, but for the 20 characters a description needs;    *)
(* of the enums a few values stand for all.                                *)
(***************************************************************************)
EXTENDS Naturals, Sequences, SequencesExt, FiniteSets

CONSTANTS
    Unset,        \* a property or a field without a value
    Stub,         \* what AWS returns of a field but does not take back
    Deals,        \* the deals there are, with the properties BD may have filled in
    Customers,    \* the companies and contacts associated with them
    Forms,        \* what BD sends with the Update card
    InCentral,    \* what is changed in Partner Central itself: field -> value
    MaxFormEdits, \* bound: edits on the deal and with the card
    MaxInCentral  \* bound: changes in Partner Central

VARIABLES
    held,         \* HubSpot: the properties of the deal
    customer,     \* HubSpot: the country, state and industry of the company, the contacts
    opportunity,  \* AWS: its fields, none before it is created
    inbox,        \* SQS: edits to forward, oldest first
    broken,       \* the rules of AWS that a body broke
    stale,        \* the properties whose last edit was refused, or left out
    edited,       \* the properties edited since the submission
    central,      \* the fields last changed in Partner Central, or only at AWS
    formEdits, centralEdits

fvars == <<held, customer, opportunity, inbox, broken, stale, edited, central, formEdits,
           centralEdits>>

\* f, and of g what f does not have; a function of one field.
f ++ g      == [x \in DOMAIN f \cup DOMAIN g |-> IF x \in DOMAIN f THEN f[x] ELSE g[x]]
Field(x, v) == [y \in {x} |-> v]

-----------------------------------------------------------------------------
(* Vocabularies.                                                           *)

ClosedLost  == "Closed Lost"
Activity    == "Marketing Activity"
OtherName   == "*Other"
NewBusiness == "Net New Business"

\* The short names HubSpot offers, and those of AWS.
NeedOf ==
    [need \in {"Deal Support", "Competitive Intelligence"} |->
        IF need = "Deal Support" THEN "Co-Sell - Deal Support"
        ELSE "Co-Sell - Competitive Information"]

WireNeed(need) == IF need \in DOMAIN NeedOf THEN NeedOf[need] ELSE need

Needs            == {NeedOf[need] : need \in DOMAIN NeedOf}
DeliveryModels   == {"SaaS or PaaS", "Managed Services"}
DefaultUseCase   == "Migration / Database Migration"
UseCases         == {DefaultUseCase, "Storage & Backup"}
DefaultActivity  == "Initialized discussions with customer"
OpportunityTypes == {NewBusiness, "Expansion"}
Industries       == {"Government", "Education", "Other"}
Titles           == {"Bid", "Cloud migration"}

\* The industry for AWS, and the text beside it when AWS does not know it.
Sector(industry) ==
    IF industry = Unset THEN <<"Government", Unset>>
    ELSE IF industry \in Industries THEN <<industry, Unset>> ELSE <<"Other", industry>>

\* A code, or a name the table has; anything else is an error.
Country(name) ==
    CASE name \in {Unset, "US", "United States"} -> "US"
      [] name \in {"CA", "Canada"} -> "CA"
      [] OTHER -> Unset

\* AWS checks the states of the US.
State(country, name) ==
    IF country # "US" THEN name
    ELSE CASE name \in {Unset, "DC", "District of Columbia"} -> "Dist. of Columbia"
           [] name = "VA" -> "Virginia"
           [] OTHER -> name

\* Twenty characters at least: a short text comes with the title before it.
Short == {"Bid", "RFI"}
Problem(text, title) ==
    IF text = Unset THEN Unset
    ELSE IF text \notin Short THEN <<text>>
    ELSE IF title \notin Short THEN <<title, text>> ELSE Unset

\* A deal's amount is a year's; nothing is said of an amount of zero.
Spend(amount) ==
    IF amount = Unset THEN Unset ELSE IF amount > 0 THEN amount \div 12 ELSE Unset

-----------------------------------------------------------------------------
(* CreateOpportunity.                                                      *)

UseCase(value) == IF value \in {Unset, "Other"} THEN DefaultUseCase ELSE value

\* The deal goes back to BD.
Unmappable(d, c) ==
    \/ d.partner_need = Unset \/ WireNeed(d.partner_need) \notin Needs
    \/ d.delivery_model \notin DeliveryModels
    \/ UseCase(d.use_case) \notin UseCases
    \/ Country(c.country) = Unset

\* Complete contacts of a customer's, or of no lifecycle stage.
Contacts(c) == c.contacts \cap {"customer", "no stage"}

MarketingBlock(d) ==
    IF d.marketing_source = Activity
    THEN [Source |-> Activity, Campaign |-> d.marketing_campaign]
    ELSE [Source |-> Unset, Campaign |-> Unset]

\* The industry of the company goes before the deal's.
CustomerBlock(d, c) ==
    LET sector  == Sector(IF c.industry = Unset THEN d.industry ELSE c.industry)
        country == Country(c.country) IN
    [Industry |-> sector[1], OtherIndustry |-> sector[2], AwsAccountId |-> d.aws_account_id,
     Country |-> country, State |-> State(country, c.state), Contacts |-> Contacts(c)]

\* The activities are not taken from the deal.
ProjectBlock(d) ==
    [Title |-> d.dealname, Problem |-> Problem(d.description, d.dealname),
     UseCase |-> UseCase(d.use_case), Spend |-> Spend(d.amount),
     DeliveryModels |-> d.delivery_model, SalesActivities |-> DefaultActivity,
     CompetitorName |-> d.competitor_name, OtherCompetitorNames |-> Unset,
     AdditionalComments |-> d.additional_comments,
     RelatedOpportunityIdentifier |-> d.related_opportunity_id, CustomerAwsAccountId |-> Unset]

\* Nor is the stage: it would be that of HubSpot's lifecycle, which
\* submit_to_ace does not load.
LifeCycleBlock(d) ==
    [Stage |-> Unset, ClosedLostReason |-> Unset, NextSteps |-> d.next_steps,
     TargetCloseDate |-> d.closedate]

\* map_hubspot_deal_to_ace_create_payload.
CreatedFrom(d, c) ==
    [Needs |-> WireNeed(d.partner_need), OpportunityType |-> NewBusiness,
     NationalSecurity |-> Unset, SoftwareRevenue |-> Unset]
    ++ CustomerBlock(d, c) ++ ProjectBlock(d) ++ LifeCycleBlock(d) ++ MarketingBlock(d)

-----------------------------------------------------------------------------
(* UpdateOpportunity.                                                      *)

\* Mutant: Marketing goes back as it came.
Scrub_AsIs(o) ==
    [o EXCEPT !.Spend = IF @ = Stub THEN Unset ELSE @,
              !.SalesActivities = IF @ = Stub THEN Unset ELSE @,
              !.Contacts = @ \ {Stub}]

\* AWS does not take back the stubs it returns, wants a marketing source, and
\* nothing else of marketing unless it was a marketing activity.
Scrub(o) ==
    [o EXCEPT !.Spend = IF @ = Stub THEN Unset ELSE @,
              !.SalesActivities = IF @ = Stub THEN Unset ELSE @,
              !.Contacts = @ \ {Stub},
              !.Source = IF @ = Unset THEN "None" ELSE @,
              !.Campaign = IF o.Source = Activity THEN @ ELSE Unset]

\* _make_marketing_handler.
Marketed(source, campaign) ==
    IF source = Activity THEN [Source |-> Activity, Campaign |-> campaign]
    ELSE [Source |-> "None", Campaign |-> Unset]

\* The fields that take what was typed, and those that take what was picked.
TextOf ==
    [closedate |-> "TargetCloseDate", dealname |-> "Title", use_case |-> "UseCase",
     competitor_name |-> "CompetitorName", additional_comments |-> "AdditionalComments",
     related_opportunity_id |-> "RelatedOpportunityIdentifier", next_steps |-> "NextSteps",
     aws_account_id |-> "CustomerAwsAccountId"]
ChoiceOf ==
    [closed_lost_reason |-> "ClosedLostReason", partner_need |-> "Needs",
     delivery_model |-> "DeliveryModels", sales_activities |-> "SalesActivities",
     national_security |-> "NationalSecurity", opportunity_type |-> "OpportunityType"]

\* _handle_lifecycle_stage: on the way back from Closed Lost the reason goes.
Staged(v, o) ==
    [Stage |-> v, ClosedLostReason |-> IF v = ClosedLost THEN o.ClosedLostReason ELSE Unset]

\* _DELTA_HANDLERS: the fields an edited property stands for.
Written(p, v, o) ==
    CASE p \in DOMAIN TextOf -> Field(TextOf[p], v)
      [] p \in DOMAIN ChoiceOf -> Field(ChoiceOf[p], v)
      [] p = "amount" -> [Spend |-> Spend(v)]
      [] p = "description" -> [Problem |-> Problem(v, o.Title)]
      [] p = "lifecycle_stage" -> Staged(v, o)
      [] p = "industry" -> [Industry |-> Sector(v)[1], OtherIndustry |-> Sector(v)[2]]
      [] p = "marketing_source" -> Marketed(v, o.Campaign)
      [] p = "marketing_campaign" -> Marketed(o.Source, v)

\* _apply_delta: a cleared property changes nothing, nor does what AWS would
\* refuse for certain.
LeftOut(p, v, o) ==
    \/ v = Unset
    \/ p = "description" /\ Problem(v, o.Title) = Unset
    \/ p = "national_security" /\ v \notin {"Yes", "No"}
    \/ p = "opportunity_type" /\ v \notin OpportunityTypes

\* Mutant: a reason without the stage is dropped, whatever the deal's stage.
PairedUp_Drop(o, d) ==
    IF o.Stage = ClosedLost /\ o.ClosedLostReason = Unset
      THEN [o EXCEPT !.ClosedLostReason = d.closed_lost_reason]
    ELSE IF o.Stage # ClosedLost THEN [o EXCEPT !.ClosedLostReason = Unset]
    ELSE o

\* _ensure_closed_lost_pair_consistency: the deal has the other half.
PairedUp(o, d) ==
    IF o.Stage = ClosedLost /\ o.ClosedLostReason = Unset
      THEN [o EXCEPT !.ClosedLostReason = d.closed_lost_reason]
    ELSE IF o.Stage # ClosedLost /\ o.ClosedLostReason # Unset
      THEN IF d.lifecycle_stage = ClosedLost THEN [o EXCEPT !.Stage = ClosedLost]
           ELSE [o EXCEPT !.ClosedLostReason = Unset]
    ELSE o

\* What AWS refuses, as the comments of the code and the error messages have
\* it; a project has no field CustomerAwsAccountId.
Rules(o) ==
    [needs      |-> o.Needs \in Needs,
     enums      |-> /\ o.DeliveryModels \in DeliveryModels /\ o.UseCase \in UseCases
                    /\ o.OpportunityType \in OpportunityTypes /\ o.Industry \in Industries
                    /\ o.OtherIndustry # Unset => o.Industry = "Other",
     stubs      |-> o.Spend # Stub /\ o.SalesActivities # Stub /\ Stub \notin o.Contacts,
     marketing  |-> o.Source \in {"None", Activity} /\ (o.Campaign # Unset => o.Source = Activity),
     pair       |-> (o.Stage = ClosedLost) = (o.ClosedLostReason # Unset),
     competitor |-> o.CompetitorName = OtherName => o.OtherCompetitorNames # Unset,
     security   |-> o.NationalSecurity = "Yes" => o.Industry = "Government",
     account    |-> o.CustomerAwsAccountId = Unset]

Broken(o) == {rule \in DOMAIN Rules(o) : ~Rules(o)[rule]}

-----------------------------------------------------------------------------
(* The Update card.                                                        *)

\* _validate_update_enums, for what the form itself lets through.
Invalid(form) ==
    \/ form.stage = ClosedLost /\ form.reason = Unset
    \/ "description" \in DOMAIN form.props /\ form.props.description \in Short
    \/ "partner_need" \in DOMAIN form.props /\ WireNeed(form.props.partner_need) \notin Needs

\* The fields a property of the form stands for: not always those of an edit.
FormFields(p, v, o) ==
    IF v = Unset \/ (p = "amount" /\ Spend(v) = Unset) THEN <<>>
    ELSE CASE p = "partner_need" -> [Needs |-> WireNeed(v)]
           [] p = "aws_account_id" -> [AwsAccountId |-> v]
           [] p = "competitor_name" ->
                 [CompetitorName |-> v,
                  OtherCompetitorNames |-> IF v = OtherName THEN "theirs" ELSE Unset]
           [] OTHER -> Written(p, v, o)

\* Marketing goes as a whole, and is left out unless it was an activity.
FormMarketing(props) ==
    LET given(p) == IF p \in DOMAIN props THEN props[p] ELSE Unset IN
    IF {"marketing_source", "marketing_campaign"} \cap DOMAIN props = {} THEN <<>>
    ELSE IF given("marketing_source") = Activity
    THEN [Source |-> Activity, Campaign |-> given("marketing_campaign")]
    ELSE [Source |-> Unset, Campaign |-> Unset]

\* map_update_form_to_ace_payload.
Overlay(o, form) ==
    LET by(f) == {p \in DOMAIN form.props : f \in DOMAIN FormFields(p, form.props[p], o)}
        laid  == [f \in DOMAIN o |->
                    IF by(f) = {} THEN o[f]
                    ELSE LET p == CHOOSE p \in by(f) : TRUE
                         IN  FormFields(p, form.props[p], o)[f]] IN
    [Stage |-> form.stage,
     ClosedLostReason |-> IF form.stage = ClosedLost THEN form.reason ELSE Unset]
    ++ FormMarketing(form.props) ++ laid

Listed == {"partner_need", "delivery_model", "sales_activities"}

\* _hubspot_update_property_payload: the deal takes over the form, all but the
\* reason; what was emptied is cleared, unless it is a list.
Patched(d, form) ==
    LET taken == {p \in DOMAIN form.props : p \in Listed => form.props[p] # Unset} IN
    [lifecycle_stage |-> form.stage] ++ [p \in taken |-> form.props[p]] ++ d

-----------------------------------------------------------------------------
(* The machine.                                                            *)

\* What BD can pick on the deal, or type: how the deal is classified, ...
Classified ==
    [industry |-> {"Government", "Space"}, opportunity_type |-> OpportunityTypes,
     delivery_model |-> DeliveryModels, partner_need |-> DOMAIN NeedOf, use_case |-> UseCases]
\* ... where it comes from and how it goes, ...
Attributed ==
    [marketing_source |-> {"None", Activity}, marketing_campaign |-> {"summit"},
     closed_lost_reason |-> {"Price", "Other"}, lifecycle_stage |-> {"Qualified", ClosedLost},
     competitor_name |-> {"No Competition", OtherName}]
\* ... what else AWS asks for, ...
Described ==
    [sales_activities |-> {DefaultActivity, "SOW Signed"}, national_security |-> {"Yes", "No"},
     additional_comments |-> {"text", Unset}, aws_account_id |-> {"1", "2"},
     next_steps |-> {"text"}, related_opportunity_id |-> {"O1"}]
\* ... and what HubSpot has of its own.
Options ==
    [amount |-> {0, 12, 24, Unset}, closedate |-> {1, 2}, dealname |-> Titles,
     description |-> {"RFI", "long text", Unset}]
    ++ Classified ++ Attributed ++ Described

Refetched == {"description", "dealname", "additional_comments", "next_steps"}

\* What BD may clear here; the enums never are.
Clearable == {"amount", "description", "additional_comments"}

\* A form offers what the deal does, or leaves it open.
ASSUME FormAssumption ==
    /\ MaxFormEdits \in Nat /\ MaxInCentral \in Nat
    /\ Unset \notin {"None", Activity, ClosedLost} /\ Stub # Unset /\ Stub \notin Nat
    /\ \A p \in DOMAIN Options :
          Stub \notin Options[p] /\ (p \notin Clearable => Unset \notin Options[p])
    /\ \A d \in Deals : DOMAIN d = DOMAIN Options
    /\ \A form \in Forms :
          /\ DOMAIN form.props \subseteq DOMAIN Options
          /\ \A p \in DOMAIN form.props : form.props[p] \in Options[p] \cup {Unset}
    /\ \A change \in InCentral, d \in Deals, c \in Customers :
          DOMAIN change \subseteq DOMAIN CreatedFrom(d, c)

FormInit ==
    /\ held \in Deals /\ customer \in Customers /\ opportunity = <<>> /\ inbox = <<>>
    /\ broken = {} /\ stale = {} /\ edited = {} /\ central = <<>>
    /\ formEdits = 0 /\ centralEdits = 0

\* submit_to_ace; a deal that cannot be mapped, or that AWS refuses, goes back to
\* BD.  Of a new opportunity AWS wants no marketing source.
CreateOpportunity ==
    LET body == CreatedFrom(held, customer)
        bad  == Broken(Scrub(body)) IN
    /\ opportunity = <<>> /\ ~Unmappable(held, customer)
    /\ opportunity' = IF bad = {} THEN body ELSE <<>>
    /\ broken' = broken \cup bad
    /\ UNCHANGED <<held, customer, inbox, stale, edited, central, formEdits, centralEdits>>

\* The fields that from now on are to follow the deal.
Follows(p, v) ==
    IF p = "lifecycle_stage" /\ v = ClosedLost /\ opportunity.ClosedLostReason # Unset
    THEN {"Stage"}
    ELSE IF p = "marketing_campaign" THEN {"Campaign"}
    ELSE IF p = "aws_account_id" THEN {"AwsAccountId", "CustomerAwsAccountId"}
    ELSE DOMAIN Written(p, v, opportunity) \cup DOMAIN FormFields(p, v, opportunity)

Without(fields) == [f \in DOMAIN central \ fields |-> central[f]]

\* BD edits the deal; before the submission nothing is forwarded.
EditProperty(p, v) ==
    /\ formEdits < MaxFormEdits /\ formEdits' = formEdits + 1
    /\ held[p] # v /\ held' = [held EXCEPT ![p] = v]
    /\ IF opportunity = <<>> THEN UNCHANGED <<inbox, edited, central>>
       ELSE /\ inbox' = Append(inbox, [prop |-> p, value |-> v])
            /\ edited' = edited \cup {p}
            /\ central' = Without(Follows(p, v))
    /\ UNCHANGED <<customer, opportunity, broken, stale, centralEdits>>

\* update_in_ace; a message that waits for its companion is not stale.
Forward(i) ==
    LET p    == inbox[i].prop
        v    == IF p \in Refetched /\ held[p] # Unset THEN held[p] ELSE inbox[i].value
        o    == Scrub(opportunity)
        body == PairedUp(Written(p, v, o) ++ o, held)
        bad  == Broken(body)
        half == IF held.closed_lost_reason = Unset THEN {"pair"} ELSE {} IN
    /\ \A j \in 1..(i - 1) : inbox[j].prop # p
    /\ inbox' = RemoveAt(inbox, i)
    /\ IF LeftOut(p, v, o)
         THEN stale' = stale \cup {p} /\ UNCHANGED <<opportunity, broken>>
         ELSE /\ opportunity' = IF bad = {} THEN body ELSE opportunity
              /\ broken' = broken \cup (bad \ half)
              /\ stale' = IF bad \ half = {} THEN stale \ {p} ELSE stale \cup {p}
    /\ UNCHANGED <<held, customer, edited, central, formEdits, centralEdits>>

\* _handle_update: AWS first, then the deal.
UseCard(form) ==
    LET body  == Overlay(Scrub(opportunity), form)
        props == DOMAIN form.props
        kept  == {p \in props : DOMAIN FormFields(p, form.props[p], opportunity) = {}} IN
    /\ opportunity # <<>> /\ inbox = <<>> /\ ~Invalid(form)
    /\ formEdits < MaxFormEdits /\ formEdits' = formEdits + 1
    /\ broken' = broken \cup {IF rule = "marketing" /\ body.Source = Unset
                               THEN "no source" ELSE rule : rule \in Broken(body)}
    /\ IF Broken(body) # {} THEN UNCHANGED <<held, opportunity, stale, edited, central>>
       ELSE /\ opportunity' = body
            /\ held' = Patched(held, form)
            /\ stale' = (stale \ props) \cup kept
            /\ edited' = edited \cup props \cup {"lifecycle_stage"}
            /\ central' = [ClosedLostReason |-> body.ClosedLostReason] ++
                   Without({"Stage"} \cup UNION {Follows(p, form.props[p]) : p \in props})
    /\ UNCHANGED <<customer, inbox, centralEdits>>

\* Partner Central, or AWS itself, under the same rules; the stage comes back to
\* the deal.
ChangeInCentral(change) ==
    /\ opportunity # <<>> /\ inbox = <<>> /\ Broken(Scrub(change ++ opportunity)) = {}
    /\ centralEdits < MaxInCentral /\ centralEdits' = centralEdits + 1
    /\ opportunity' = change ++ opportunity
    /\ central' = change ++ central
    /\ held' = IF "Stage" \in DOMAIN change THEN [held EXCEPT !.lifecycle_stage = change.Stage]
               ELSE held
    /\ UNCHANGED <<customer, inbox, broken, stale, edited, formEdits>>

FormNext ==
    \/ CreateOpportunity
    \/ \E p \in DOMAIN Options : \E v \in Options[p] : EditProperty(p, v)
    \/ \E i \in 1..Len(inbox) : Forward(i)
    \/ \E form \in Forms : UseCard(form)
    \/ \E change \in InCentral : ChangeInCentral(change)

FormSpec == FormInit /\ [][FormNext]_fvars

-----------------------------------------------------------------------------
(* Properties.                                                             *)

\* Types: the deal and the opportunity keep their fields.
FormTypeOK ==
    /\ DOMAIN held = DOMAIN Options /\ customer \in Customers
    /\ opportunity # <<>> => DOMAIN opportunity = DOMAIN CreatedFrom(held, customer)
    /\ \A i \in 1..Len(inbox) : inbox[i].value \in Options[inbox[i].prop]
    /\ stale \subseteq DOMAIN Options /\ edited \subseteq DOMAIN Options
    /\ formEdits \in 0..MaxFormEdits /\ centralEdits \in 0..MaxInCentral

\* Whatever AWS returns and whatever is edited, the body of a call is one
\* that AWS takes: stubs, marketing and the two halves of Closed Lost, in
\* whichever order they come, are put right.  What is known to be refused is
\* a label of partner_need, an account, *Other, and Yes to national security
\* outside the government; and the Update card leaves marketing out when its
\* form says that it was no activity.
BodiesAreAccepted ==
    broken \subseteq {"needs", "account", "competitor", "security", "no source"}

\* The fields an edit alone sets: CreateOpportunity does not take them from the deal.
EditOnly ==
    [Stage |-> "lifecycle_stage", OpportunityType |-> "opportunity_type",
     NationalSecurity |-> "national_security", SalesActivities |-> "sales_activities"]

\* The opportunity as creating it from today's deal would make it.
Today ==
    LET closed  == held.lifecycle_stage = ClosedLost /\ "closed_lost_reason" \in edited \ stale
        touched == {f \in DOMAIN EditOnly : EditOnly[f] \in edited \/ (f = "Stage" /\ closed)}
        sector  == Sector(held.industry) IN
    central ++ [f \in touched |-> held[EditOnly[f]]]
            ++ [ClosedLostReason |-> held.closed_lost_reason]
            ++ (IF "industry" \in edited
                THEN [Industry |-> sector[1], OtherIndustry |-> sector[2]] ELSE <<>>)
            ++ CreatedFrom(held, customer)

\* Up to stubs, the title before a short text, and the name of a campaign.
Compared(o, f) ==
    CASE f \in {"Spend", "SalesActivities"} -> IF o[f] = Stub THEN Unset ELSE o[f]
      [] f = "Contacts" -> o[f] \ {Stub}
      [] f = "Problem" -> IF held.description \in Short THEN Unset ELSE o[f]
      [] f = "Source" -> o[f] = Activity
      [] f = "Campaign" -> Unset
      [] f \in {"Stage", "ClosedLostReason"} ->
            IF \/ held.lifecycle_stage = ClosedLost /\ held.closed_lost_reason = Unset
               \/ f = "ClosedLostReason" /\ o.Stage # ClosedLost
            THEN Unset ELSE o[f]
      [] f = "OtherCompetitorNames" -> Unset
      [] OTHER -> o[f]

\* Once every edit is forwarded, the opportunity is what creating it from the
\* deal as it now is would make it, except for edits that were refused or left
\* out; and what was set in Partner Central has stayed as it was.
EditsAgree ==
    opportunity # <<>> /\ inbox = <<>> =>
        LET excused == UNION {Follows(p, held[p]) : p \in stale}
            today   == Today IN
        \A f \in DOMAIN opportunity \ excused : Compared(opportunity, f) = Compared(today, f)

\* docs/reference/aws-partner-central/api-create-opportunity.md: the industry
\* GOVERNMENT_ADMINISTRATION of a company is the Government of AWS.
AgenciesAreGovernment ==
    opportunity # <<>> /\ edited = {} /\ centralEdits = 0 =>
        (customer.industry = "GOVERNMENT_ADMINISTRATION" => opportunity.Industry = "Government")
=============================================================================
