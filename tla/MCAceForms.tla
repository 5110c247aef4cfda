----------------------------- MODULE MCAceForms -----------------------------
(* AceForms on a few deals, customers, forms and changes.                   *)
EXTENDS AceForms

\* A plain deal, one that lacks a need and has a reason, one of a
\* marketing campaign; a company of the sync, one abroad, one nowhere.
MCDeal ==
    [amount |-> 12, closedate |-> 1, dealname |-> "Bid", description |-> Unset,
     use_case |-> Unset, competitor_name |-> Unset, additional_comments |-> Unset,
     related_opportunity_id |-> Unset, next_steps |-> Unset, aws_account_id |-> "1",
     lifecycle_stage |-> Unset, closed_lost_reason |-> Unset, partner_need |-> "Deal Support",
     delivery_model |-> "SaaS or PaaS", sales_activities |-> Unset,
     national_security |-> Unset, opportunity_type |-> Unset, industry |-> "Education",
     marketing_source |-> Unset, marketing_campaign |-> Unset]
MCDeals ==
    {MCDeal,
     [MCDeal EXCEPT !.partner_need = Unset, !.closed_lost_reason = "Price",
                    !.description = "RFI"],
     [MCDeal EXCEPT !.marketing_source = Activity, !.marketing_campaign = "summit",
                    !.use_case = "Other"]}
MCCompany ==
    [country |-> Unset, state |-> Unset, industry |-> "GOVERNMENT_ADMINISTRATION",
     contacts |-> {}]
MCCustomers ==
    {MCCompany,
     [country |-> "Canada", state |-> "Ontario", industry |-> Unset,
      contacts |-> {"customer", "no stage", "staff", "hyperscaler", "nameless"}],
     [country |-> "Germania", state |-> Unset, industry |-> Unset, contacts |-> {}]}
Kept(props)  == [stage |-> "Qualified", reason |-> Unset, props |-> props]
Lost(reason, props) == [stage |-> ClosedLost, reason |-> reason, props |-> props]
MCForms ==
    {Kept([amount |-> 0, partner_need |-> "Competitive Intelligence", aws_account_id |-> Unset]),
     Kept([competitor_name |-> OtherName, marketing_source |-> Activity,
           marketing_campaign |-> "summit"]),
     Kept([marketing_source |-> "None", dealname |-> "Cloud migration",
           delivery_model |-> Unset]),
     Lost("Price", [description |-> Unset, aws_account_id |-> "2"]),
     Lost(Unset, [dealname |-> "Cloud migration"])}
MCInCentral ==
    {[Stage |-> ClosedLost, ClosedLostReason |-> "Other"],
     [Stage |-> "Launched", ClosedLostReason |-> Unset],
     [Spend |-> Stub, SalesActivities |-> Stub, Contacts |-> {"customer", Stub},
      SoftwareRevenue |-> "contract"],
     [Source |-> Activity, Campaign |-> "webinar"], [Source |-> "None", Campaign |-> Unset],
     [NationalSecurity |-> "Yes", Industry |-> "Government", OtherIndustry |-> Unset]}
=============================================================================
