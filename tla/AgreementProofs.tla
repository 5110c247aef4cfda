--------------------------- MODULE AgreementProofs ---------------------------
(***************************************************************************)
(* Proof that AWS has what the deal says once every edit is forwarded      *)
(* (EditsAgree of AceForms), for any deals, companies and contacts, forms  *)
(* of the Update card and changes in Partner Central, and for as many of   *)
(* them in any order as there may be.                                      *)
(*                                                                         *)
(* EditsAgree speaks of an empty queue; what every step keeps (AgreeInv)   *)
(* says for each field what holds while edits of other properties wait.  A *)
(* field that follows one property (Governor) is right unless an edit of   *)
(* that property waits or was refused, or it was set at AWS since; and the *)
(* last edit that waits has the value the deal has, so that the field is   *)
(* right when it was forwarded.  The stage and the reason of a loss follow *)
(* each other: the one that is forwarded first waits for the other, or     *)
(* takes it from the deal, and a reason that goes with the stage comes back *)
(* from the deal alone.  What AWS has keeps all of the rules of AWS, or the *)
(* next body would be refused for a field that nobody edited.              *)
(***************************************************************************)
EXTENDS OpportunityProofs

-----------------------------------------------------------------------------
(* What AWS has is what the deal says, field by field.                     *)

\* The property that a field follows, but for the stage, the reason of a loss, the campaign and
\* other competitors; "nothing" if no edit is about it.
Governor ==
    [Needs |-> "partner_need", OpportunityType |-> "opportunity_type",
     NationalSecurity |-> "national_security", SoftwareRevenue |-> "nothing",
     Industry |-> "industry", OtherIndustry |-> "industry", AwsAccountId |-> "aws_account_id",
     Country |-> "nothing", State |-> "nothing", Contacts |-> "nothing", Title |-> "dealname",
     Problem |-> "description", UseCase |-> "use_case", Spend |-> "amount",
     DeliveryModels |-> "delivery_model", SalesActivities |-> "sales_activities",
     CompetitorName |-> "competitor_name", AdditionalComments |-> "additional_comments",
     RelatedOpportunityIdentifier |-> "related_opportunity_id",
     CustomerAwsAccountId |-> "aws_account_id", NextSteps |-> "next_steps",
     TargetCloseDate |-> "closedate", Source |-> "marketing_source"]

\* The fields that follow a property each.
Followers ==
    {"Needs", "OpportunityType", "NationalSecurity", "SoftwareRevenue", "Industry",
     "OtherIndustry", "AwsAccountId", "Country", "State", "Contacts", "Title", "Problem",
     "UseCase", "Spend", "DeliveryModels", "SalesActivities", "CompetitorName",
     "AdditionalComments", "RelatedOpportunityIdentifier", "CustomerAwsAccountId", "NextSteps",
     "TargetCloseDate", "Source"}

\* The value x of field f, as it is compared when the deal's description is text.
Seen(f, x, text) ==
    IF f \in {"Spend", "SalesActivities"} THEN IF x = Stub THEN Unset ELSE x
    ELSE IF f = "Contacts" THEN x \ {Stub}
    ELSE IF f = "Problem" THEN IF text \in Short THEN Unset ELSE x
    ELSE IF f = "Source" THEN x = Activity
    ELSE x

\* What a deal d of customer c asks of field f, once the properties e were edited.
Asked(f, d, c, e) ==
    IF f \in {"OpportunityType", "NationalSecurity", "SalesActivities"} /\ Governor[f] \in e
      THEN d[Governor[f]]
    ELSE IF f = "Industry" /\ "industry" \in e THEN Sector(d.industry)[1]
    ELSE IF f = "OtherIndustry" /\ "industry" \in e THEN Sector(d.industry)[2]
    ELSE CreatedFrom(d, c)[f]

\* Opportunity o has in field f what the deal asks, or what was set at AWS, k.
Right(f, o, d, c, e, k) ==
    Seen(f, o[f], d.description) =
        Seen(f, IF f \in DOMAIN k THEN k[f] ELSE Asked(f, d, c, e), d.description)

\* An edit of property p waits in queue q.
Waits(p, q) == \E i \in 1..Len(q) : q[i].prop = p

\* No edit waits that takes the deal out of Closed Lost.
Lasting(q) ==
    \A i \in 1..Len(q) : q[i].prop = "lifecycle_stage" => q[i].value = ClosedLost

\* The last edit of a property has the value of the deal.
LastIsHeld(q, d) ==
    \A i \in 1..Len(q) :
        (\A j \in 1..Len(q) : i < j => q[j].prop # q[i].prop) => q[i].value = d[q[i].prop]

\* The stage of the deal that AWS has once the stage and the reason are forwarded.
StageAsked(d, e, s) ==
    IF \/ "lifecycle_stage" \in e
       \/ d.lifecycle_stage = ClosedLost /\ "closed_lost_reason" \in e \ s
    THEN d.lifecycle_stage ELSE Unset

\* A stage that was set at AWS came back to the deal.
StageSet(o, d, q, k) ==
    "Stage" \in DOMAIN k =>
        /\ ~Waits("lifecycle_stage", q)
        /\ k.Stage = d.lifecycle_stage /\ o.Stage = d.lifecycle_stage

\* Otherwise the stage is the deal's, once both halves of Closed Lost were forwarded.
StageRight(o, d, q, s, e, k) ==
    (/\ "Stage" \notin DOMAIN k /\ ~Waits("lifecycle_stage", q)
     /\ d.lifecycle_stage = ClosedLost =>
           d.closed_lost_reason # Unset /\ ~Waits("closed_lost_reason", q))
    => o.Stage = StageAsked(d, e, s)

\* A reason that was set at AWS has stayed.
ReasonSet(o, d, q, k) ==
    "ClosedLostReason" \in DOMAIN k =>
        /\ ~Waits("lifecycle_stage", q) /\ ~Waits("closed_lost_reason", q)
        /\ o.ClosedLostReason = k.ClosedLostReason
        /\ d.lifecycle_stage # ClosedLost => o.ClosedLostReason = Unset

\* Otherwise the reason of a lost opportunity is the deal's.
ReasonRight(o, d, q, k) ==
    (/\ "ClosedLostReason" \notin DOMAIN k /\ o.Stage = ClosedLost
     /\ ~Waits("closed_lost_reason", q) /\ Lasting(q))
    => o.ClosedLostReason = d.closed_lost_reason

\* A field is right that was set at AWS, or whose edits were forwarded and none refused.
FieldRight(f, o, d, c, q, s, e, k) ==
    /\ f \in DOMAIN k => ~Waits(Governor[f], q)
    /\ f \in DOMAIN k \/ (~Waits(Governor[f], q) /\ Governor[f] \notin s) =>
          Right(f, o, d, c, e, k)

\* The opportunity o of a deal d of customer c, with queue q, refused edits s, edited properties
\* e, and k set at AWS.
Agreeing(o, d, c, q, s, e, k) ==
    /\ Broken(Scrub(o)) = {}
    /\ LastIsHeld(q, d) /\ \A i \in 1..Len(q) : q[i].prop \in e
    /\ \A f \in Followers : FieldRight(f, o, d, c, q, s, e, k)
    /\ StageSet(o, d, q, k) /\ StageRight(o, d, q, s, e, k)
    /\ ReasonSet(o, d, q, k) /\ ReasonRight(o, d, q, k)

\* Before the submission nothing is forwarded; from then on the opportunity agrees with the deal.
AgreeInv ==
    /\ FormInv
    /\ opportunity = <<>> => inbox = <<>> /\ stale = {} /\ edited = {} /\ central = <<>>
    /\ opportunity # <<>> => Agreeing(opportunity, held, customer, inbox, stale, edited, central)

-----------------------------------------------------------------------------
\* The names.
LEMMA Governors ==
    /\ DOMAIN Governor = Followers /\ Followers \subseteq OpportunityFields
    /\ \A f \in Followers : Governor[f] \in PropertyNames \cup {"nothing"}
    /\ \A f \in Followers : Governor[f] \notin {"lifecycle_stage", "closed_lost_reason",
                                                "marketing_campaign"}
<1>1. DOMAIN Governor = Followers
  BY DEF Governor, Followers
<1>2. Followers \subseteq OpportunityFields
  BY DEF Followers, OpportunityFields
<1>3. \A f \in Followers :
        Governor[f] \in
          {"nothing", "partner_need", "opportunity_type", "national_security", "industry",
           "aws_account_id", "dealname", "description", "use_case", "amount", "delivery_model",
           "sales_activities", "competitor_name", "additional_comments",
           "related_opportunity_id", "next_steps", "closedate", "marketing_source"}
  BY DEF Governor, Followers
<1> QED
  BY <1>1, <1>2, <1>3 DEF PropertyNames

\* Today's opportunity, field by field.
LEMMA TodayFields ==
    /\ \A f \in Followers :
          Today[f] = IF f \in DOMAIN central THEN central[f] ELSE Asked(f, held, customer, edited)
    /\ Today.Stage = IF "Stage" \in DOMAIN central THEN central.Stage
                     ELSE StageAsked(held, edited, stale)
    /\ Today.ClosedLostReason =
          IF "ClosedLostReason" \in DOMAIN central THEN central.ClosedLostReason
          ELSE held.closed_lost_reason
<1> DEFINE closed  == held.lifecycle_stage = ClosedLost /\ "closed_lost_reason" \in edited \ stale
           touched == {f \in DOMAIN EditOnly : EditOnly[f] \in edited \/ (f = "Stage" /\ closed)}
           sector  == Sector(held.industry)
           edit    == [f \in touched |-> held[EditOnly[f]]]
           reason  == [ClosedLostReason |-> held.closed_lost_reason]
           indus   == IF "industry" \in edited
                      THEN [Industry |-> sector[1], OtherIndustry |-> sector[2]] ELSE <<>>
           o       == CreatedFrom(held, customer)
           one     == central ++ edit
           two     == one ++ reason
           three   == two ++ indus
           all     == three ++ o
<1>1. Today = all
  BY DEF Today
<1>2. DOMAIN EditOnly = {"Stage", "OpportunityType", "NationalSecurity", "SalesActivities"}
      /\ EditOnly.Stage = "lifecycle_stage" /\ EditOnly.OpportunityType = "opportunity_type"
      /\ EditOnly.NationalSecurity = "national_security"
      /\ EditOnly.SalesActivities = "sales_activities"
  BY DEF EditOnly
<1>3. DOMAIN edit = touched /\ \A f \in touched : edit[f] = held[EditOnly[f]]
  OBVIOUS
<1>4. DOMAIN reason = {"ClosedLostReason"} /\ reason.ClosedLostReason = held.closed_lost_reason
  OBVIOUS
<1>5. /\ "industry" \in edited => /\ DOMAIN indus = {"Industry", "OtherIndustry"}
                                  /\ indus.Industry = Sector(held.industry)[1]
                                  /\ indus.OtherIndustry = Sector(held.industry)[2]
      /\ "industry" \notin edited => DOMAIN indus = {}
  OBVIOUS
<1>6. touched \subseteq DOMAIN EditOnly
      /\ \A f \in DOMAIN EditOnly :
            f \in touched <=> EditOnly[f] \in edited \/ (f = "Stage" /\ closed)
  OBVIOUS
<1> HIDE DEF one, two, three, all, edit, reason, indus, touched, o
<1>7. /\ DOMAIN one = DOMAIN central \cup DOMAIN edit
      /\ \A f \in DOMAIN central : one[f] = central[f]
      /\ \A f \in DOMAIN edit : f \notin DOMAIN central => one[f] = edit[f]
  BY Fields DEF one
<1>8. /\ DOMAIN two = DOMAIN one \cup DOMAIN reason
      /\ \A f \in DOMAIN one : two[f] = one[f]
      /\ \A f \in DOMAIN reason : f \notin DOMAIN one => two[f] = reason[f]
  BY Fields DEF two
<1>9. /\ DOMAIN three = DOMAIN two \cup DOMAIN indus
      /\ \A f \in DOMAIN two : three[f] = two[f]
      /\ \A f \in DOMAIN indus : f \notin DOMAIN two => three[f] = indus[f]
  BY Fields DEF three
<1>10. /\ \A f \in DOMAIN three : all[f] = three[f]
       /\ \A f \in DOMAIN o : f \notin DOMAIN three => all[f] = o[f]
  BY Fields DEF all
<1>11. DOMAIN o = OpportunityFields /\ o.Stage = Unset
  BY Creation DEF o
<1>12. \A f \in DOMAIN central : all[f] = central[f]
  BY <1>7, <1>8, <1>9, <1>10
<1>13. \A f \in touched : f \notin DOMAIN central => all[f] = held[EditOnly[f]]
  BY <1>3, <1>7, <1>8, <1>9, <1>10
<1>14. \A f \in Followers :
         f \notin DOMAIN central => all[f] = Asked(f, held, customer, edited)
  <2> SUFFICES ASSUME NEW f \in Followers, f \notin DOMAIN central
               PROVE  all[f] = Asked(f, held, customer, edited)
    OBVIOUS
  <2>1. Asked(f, held, customer, edited) =
          IF f \in {"OpportunityType", "NationalSecurity", "SalesActivities"}
             /\ Governor[f] \in edited THEN held[Governor[f]]
          ELSE IF f = "Industry" /\ "industry" \in edited THEN Sector(held.industry)[1]
          ELSE IF f = "OtherIndustry" /\ "industry" \in edited THEN Sector(held.industry)[2]
          ELSE o[f]
    BY DEF Asked, o
  <2>2. /\ Governor.OpportunityType = "opportunity_type"
        /\ Governor.NationalSecurity = "national_security"
        /\ Governor.SalesActivities = "sales_activities"
    BY DEF Governor
  <2>3. f # "Stage" /\ f # "ClosedLostReason" /\ f \in DOMAIN o
    BY <1>11 DEF Followers, OpportunityFields
  <2>4. CASE f \in touched
    <3>1. /\ f \in {"OpportunityType", "NationalSecurity", "SalesActivities"}
          /\ Governor[f] = EditOnly[f] /\ EditOnly[f] \in edited
      BY <1>2, <1>6, <2>2, <2>3, <2>4
    <3> QED
      BY <1>13, <2>1, <2>4, <3>1
  <2>5. CASE f \notin touched /\ f \in DOMAIN indus
    <3>1. "industry" \in edited /\ f \in {"Industry", "OtherIndustry"}
      BY <1>5, <2>5
    <3>2. f \notin DOMAIN two
      BY <1>3, <1>4, <1>7, <1>8, <2>3, <2>5
    <3>3. all[f] = indus[f]
      BY <1>9, <1>10, <2>5, <3>2
    <3> QED
      BY <1>5, <2>1, <3>1, <3>3
  <2>6. CASE f \notin touched /\ f \notin DOMAIN indus
    <3>1. f \notin DOMAIN three
      BY <1>3, <1>4, <1>7, <1>8, <1>9, <2>3, <2>6
    <3>2. all[f] = o[f]
      BY <1>10, <2>3, <3>1
    <3>3. f \in {"OpportunityType", "NationalSecurity", "SalesActivities"} =>
            Governor[f] \notin edited
      BY <1>2, <1>6, <2>2, <2>6
    <3>4. f \in {"Industry", "OtherIndustry"} => "industry" \notin edited
      BY <1>5, <2>6
    <3> QED
      BY <2>1, <3>2, <3>3, <3>4
  <2> QED
    BY <2>4, <2>5, <2>6
<1>15. "Stage" \notin DOMAIN central => all.Stage = StageAsked(held, edited, stale)
  <2> SUFFICES ASSUME "Stage" \notin DOMAIN central
               PROVE  all.Stage = StageAsked(held, edited, stale)
    OBVIOUS
  <2>1. "Stage" \in touched <=> "lifecycle_stage" \in edited \/ closed
    BY <1>2, <1>6
  <2>2. CASE "Stage" \in touched
    BY <1>2, <1>13, <2>1, <2>2 DEF StageAsked
  <2>3. CASE "Stage" \notin touched
    <3>1. "Stage" \notin DOMAIN three
      BY <1>3, <1>4, <1>5, <1>7, <1>8, <1>9, <2>3
    <3>2. all.Stage = Unset
      BY <1>10, <1>11, <3>1 DEF OpportunityFields
    <3> QED
      BY <2>1, <2>3, <3>2 DEF StageAsked
  <2> QED
    BY <2>2, <2>3
<1>16. "ClosedLostReason" \notin DOMAIN central =>
          all.ClosedLostReason = held.closed_lost_reason
  <2>1. "ClosedLostReason" \notin touched
    BY <1>2, <1>6
  <2> QED
    BY <2>1, <1>3, <1>4, <1>7, <1>8, <1>9, <1>10
<1>17. "Stage" \in DOMAIN central => all.Stage = central.Stage
  BY <1>12
<1>18. "ClosedLostReason" \in DOMAIN central => all.ClosedLostReason = central.ClosedLostReason
  BY <1>12
<1>19. \A f \in Followers : f \in DOMAIN central => all[f] = central[f]
  BY <1>12
<1> HIDE DEF closed
<1> QED
  BY <1>1, <1>14, <1>15, <1>16, <1>17, <1>18, <1>19

\* What is compared of a field that follows the deal.
LEMMA ComparedIsSeen ==
    ASSUME NEW f \in Followers, NEW o
    PROVE  Compared(o, f) = Seen(f, o[f], held.description)
<1>1. CASE f \in {"Spend", "SalesActivities"}
  BY <1>1, Zenon DEF Compared, Seen
<1>2. CASE f = "Contacts"
  BY <1>2 DEF Compared, Seen
<1>3. CASE f = "Problem"
  BY <1>3 DEF Compared, Seen
<1>4. CASE f = "Source"
  BY <1>4 DEF Compared, Seen
<1>5. CASE f \notin {"Spend", "SalesActivities", "Contacts", "Problem", "Source"}
  <2>1. f \notin {"Campaign", "Stage", "ClosedLostReason", "OtherCompetitorNames"}
    BY DEF Followers
  <2> QED
    BY <1>5, <2>1 DEF Compared, Seen
<1> QED
  BY <1>1, <1>2, <1>3, <1>4, <1>5

\* The fields that an edit of a property writes.
About ==
    [amount |-> {"Spend"}, closedate |-> {"TargetCloseDate"}, dealname |-> {"Title"},
     description |-> {"Problem"}, industry |-> {"Industry", "OtherIndustry"},
     opportunity_type |-> {"OpportunityType"}, delivery_model |-> {"DeliveryModels"},
     partner_need |-> {"Needs"}, use_case |-> {"UseCase"},
     marketing_source |-> {"Source", "Campaign"}, marketing_campaign |-> {"Source", "Campaign"},
     closed_lost_reason |-> {"ClosedLostReason"},
     lifecycle_stage |-> {"Stage", "ClosedLostReason"},
     competitor_name |-> {"CompetitorName"}, sales_activities |-> {"SalesActivities"},
     national_security |-> {"NationalSecurity"},
     additional_comments |-> {"AdditionalComments"},
     aws_account_id |-> {"CustomerAwsAccountId"}, next_steps |-> {"NextSteps"},
     related_opportunity_id |-> {"RelatedOpportunityIdentifier"}]

\* An edited property writes the fields it is about.
LEMMA WrittenIs ==
    ASSUME NEW p \in PropertyNames, NEW v, NEW o
    PROVE  /\ DOMAIN Written(p, v, o) = About[p]
           /\ p \in DOMAIN TextOf => Written(p, v, o) = Field(TextOf[p], v)
           /\ p \in DOMAIN ChoiceOf => Written(p, v, o) = Field(ChoiceOf[p], v)
           /\ p = "amount" => Written(p, v, o) = [Spend |-> Spend(v)]
           /\ p = "description" => Written(p, v, o) = [Problem |-> Problem(v, o.Title)]
           /\ p = "lifecycle_stage" => Written(p, v, o) = Staged(v, o)
           /\ p = "industry" =>
                Written(p, v, o) = [Industry |-> Sector(v)[1], OtherIndustry |-> Sector(v)[2]]
           /\ p = "marketing_source" => Written(p, v, o) = Marketed(v, o.Campaign)
           /\ p = "marketing_campaign" => Written(p, v, o) = Marketed(o.Source, v)
<1>0. DOMAIN TextOf \cap DOMAIN ChoiceOf = {}
      /\ \A q \in {"amount", "description", "lifecycle_stage", "industry", "marketing_source",
                   "marketing_campaign"} : q \notin DOMAIN TextOf \cup DOMAIN ChoiceOf
  BY TextFields, ChoiceFields
<1>1. CASE p \in DOMAIN TextOf
  <2>1. Written(p, v, o) = Field(TextOf[p], v)
    BY <1>0, <1>1 DEF Written
  <2>2. About[p] = {TextOf[p]}
    BY <1>1, TextFields DEF About
  <2> QED
    BY <1>0, <1>1, <2>1, <2>2, OneField
<1>2. CASE p \in DOMAIN ChoiceOf
  <2>1. Written(p, v, o) = Field(ChoiceOf[p], v)
    BY <1>0, <1>2 DEF Written
  <2>2. About[p] = {ChoiceOf[p]}
    BY <1>2, ChoiceFields DEF About
  <2> QED
    BY <1>0, <1>2, <2>1, <2>2, OneField
<1>3. CASE p \notin DOMAIN TextOf \cup DOMAIN ChoiceOf
  <2>1. CASE p = "amount"
    BY <1>3, <2>1 DEF Written, About
  <2>2. CASE p = "description"
    BY <1>3, <2>2 DEF Written, About
  <2>3. CASE p = "lifecycle_stage"
    BY <1>3, <2>3 DEF Written, Staged, About
  <2>4. CASE p = "industry"
    BY <1>3, <2>4 DEF Written, About
  <2>5. CASE p = "marketing_source"
    BY <1>3, <2>5 DEF Written, Marketed, About
  <2>6. CASE p = "marketing_campaign"
    BY <1>3, <2>6 DEF Written, Marketed, About
  <2> QED
    BY <1>3, <2>1, <2>2, <2>3, <2>4, <2>5, <2>6, TextFields, ChoiceFields DEF PropertyNames
<1> QED
  BY <1>1, <1>2, <1>3

\* An edit is about the fields that follow its property, but for the account, and about the
\* stage, the reason and marketing.
LEMMA AboutFollowers ==
    /\ \A f \in Followers :
          Governor[f] # "nothing" => f = "AwsAccountId" \/ f \in About[Governor[f]]
    /\ \A p \in PropertyNames, f \in Followers :
          f \in About[p] => p = Governor[f] \/ (f = "Source" /\ p = "marketing_campaign")
    /\ \A p \in PropertyNames \ {"lifecycle_stage", "closed_lost_reason"} :
          "Stage" \notin About[p] /\ "ClosedLostReason" \notin About[p]
    /\ \A p \in PropertyNames : About[p] \subseteq OpportunityFields
<1>1. /\ Governor.Needs = "partner_need" /\ Governor.OpportunityType = "opportunity_type"
      /\ Governor.NationalSecurity = "national_security" /\ Governor.SoftwareRevenue = "nothing"
      /\ Governor.Industry = "industry" /\ Governor.OtherIndustry = "industry"
      /\ Governor.AwsAccountId = "aws_account_id" /\ Governor.Country = "nothing"
      /\ Governor.State = "nothing" /\ Governor.Contacts = "nothing"
      /\ Governor.Title = "dealname" /\ Governor.Problem = "description"
      /\ Governor.UseCase = "use_case" /\ Governor.Spend = "amount"
      /\ Governor.DeliveryModels = "delivery_model"
      /\ Governor.SalesActivities = "sales_activities"
      /\ Governor.CompetitorName = "competitor_name"
      /\ Governor.AdditionalComments = "additional_comments"
      /\ Governor.RelatedOpportunityIdentifier = "related_opportunity_id"
      /\ Governor.CustomerAwsAccountId = "aws_account_id" /\ Governor.NextSteps = "next_steps"
      /\ Governor.TargetCloseDate = "closedate" /\ Governor.Source = "marketing_source"
  BY DEF Governor
<1>2. /\ About.amount = {"Spend"} /\ About.closedate = {"TargetCloseDate"}
      /\ About.dealname = {"Title"} /\ About.description = {"Problem"}
      /\ About.industry = {"Industry", "OtherIndustry"}
      /\ About.opportunity_type = {"OpportunityType"}
      /\ About.delivery_model = {"DeliveryModels"} /\ About.partner_need = {"Needs"}
      /\ About.use_case = {"UseCase"} /\ About.marketing_source = {"Source", "Campaign"}
      /\ About.marketing_campaign = {"Source", "Campaign"}
      /\ About.closed_lost_reason = {"ClosedLostReason"}
      /\ About.lifecycle_stage = {"Stage", "ClosedLostReason"}
      /\ About.competitor_name = {"CompetitorName"}
      /\ About.sales_activities = {"SalesActivities"}
      /\ About.national_security = {"NationalSecurity"}
      /\ About.additional_comments = {"AdditionalComments"}
      /\ About.aws_account_id = {"CustomerAwsAccountId"} /\ About.next_steps = {"NextSteps"}
      /\ About.related_opportunity_id = {"RelatedOpportunityIdentifier"}
  BY DEF About
<1>3. \A f \in Followers : Governor[f] # "nothing" => f = "AwsAccountId" \/ f \in About[Governor[f]]
  BY <1>1, <1>2 DEF Followers
<1>4. \A p \in PropertyNames, f \in Followers :
          f \in About[p] => p = Governor[f] \/ (f = "Source" /\ p = "marketing_campaign")
  BY <1>1, <1>2 DEF Followers, PropertyNames
<1>5. \A p \in PropertyNames \ {"lifecycle_stage", "closed_lost_reason"} :
          "Stage" \notin About[p] /\ "ClosedLostReason" \notin About[p]
  BY <1>2 DEF PropertyNames
<1>6. \A p \in PropertyNames : About[p] \subseteq OpportunityFields
  BY <1>2 DEF PropertyNames, OpportunityFields
<1> QED
  BY <1>3, <1>4, <1>5, <1>6

\* What a property of a form lays over the opportunity.
LEMMA FormNames ==
    ASSUME NEW p \in PropertyNames, NEW v, NEW o
    PROVE  /\ p = "aws_account_id" => DOMAIN FormFields(p, v, o) \subseteq {"AwsAccountId"}
           /\ p = "competitor_name" =>
                DOMAIN FormFields(p, v, o) \subseteq {"CompetitorName", "OtherCompetitorNames"}
           /\ p \notin {"aws_account_id", "competitor_name"} =>
                DOMAIN FormFields(p, v, o) \subseteq About[p]
<1>1. CASE v = Unset \/ (p = "amount" /\ Spend(v) = Unset)
  <2>1. FormFields(p, v, o) = <<>>
    BY <1>1, Zenon DEF FormFields
  <2>2. DOMAIN <<>> = {}
    OBVIOUS
  <2> QED
    BY <2>1, <2>2
<1>2. CASE ~(v = Unset \/ (p = "amount" /\ Spend(v) = Unset))
  <2>1. CASE p = "partner_need"
    <3>1. FormFields(p, v, o) = [Needs |-> WireNeed(v)]
      BY <1>2, <2>1 DEF FormFields
    <3> QED
      BY <2>1, <3>1 DEF About
  <2>2. CASE p = "aws_account_id"
    <3>1. FormFields(p, v, o) = [AwsAccountId |-> v]
      BY <1>2, <2>2 DEF FormFields
    <3> QED
      BY <2>2, <3>1
  <2>3. CASE p = "competitor_name"
    <3>1. DOMAIN FormFields(p, v, o) = {"CompetitorName", "OtherCompetitorNames"}
      BY <1>2, <2>3 DEF FormFields
    <3> QED
      BY <2>3, <3>1
  <2>4. CASE p \notin {"partner_need", "aws_account_id", "competitor_name"}
    <3>1. FormFields(p, v, o) = Written(p, v, o)
      BY <1>2, <2>4, Zenon DEF FormFields
    <3> QED
      BY <2>4, <3>1, WrittenIs
  <2> QED
    BY <2>1, <2>2, <2>3, <2>4
<1> QED
  BY <1>1, <1>2

\* The fields that are to follow an edit are those its property governs.
LEMMA FollowsIs ==
    ASSUME NEW p \in PropertyNames, NEW v
    PROVE  /\ \A f \in Followers : f \in Follows(p, v) <=> Governor[f] = p
           /\ "Stage" \in Follows(p, v) <=> p = "lifecycle_stage"
           /\ "ClosedLostReason" \in Follows(p, v) <=>
                \/ p = "closed_lost_reason"
                \/ /\ p = "lifecycle_stage"
                   /\ ~(v = ClosedLost /\ opportunity.ClosedLostReason # Unset)
<1> DEFINE w == DOMAIN Written(p, v, opportunity)
           g == DOMAIN FormFields(p, v, opportunity)
<1>1. w = About[p]
  BY WrittenIs
<1>2. /\ p = "competitor_name" => g \subseteq {"CompetitorName", "OtherCompetitorNames"}
      /\ p \notin {"aws_account_id", "competitor_name"} => g \subseteq About[p]
  BY FormNames
<1> HIDE DEF w, g
<1>3. About.competitor_name = {"CompetitorName"} /\ About.closed_lost_reason = {"ClosedLostReason"}
      /\ About.lifecycle_stage = {"Stage", "ClosedLostReason"}
  BY DEF About
<1>4. /\ Governor.AwsAccountId = "aws_account_id"
      /\ Governor.CustomerAwsAccountId = "aws_account_id"
      /\ \A f \in Followers : Governor[f] = "aws_account_id" =>
            f \in {"AwsAccountId", "CustomerAwsAccountId"}
  BY DEF Governor, Followers
<1>5. Governor.CompetitorName = "competitor_name"
  BY DEF Governor
<1>6. "Stage" \notin Followers /\ "ClosedLostReason" \notin Followers /\ "Campaign" \notin Followers
      /\ "OtherCompetitorNames" \notin Followers
  BY DEF Followers
<1>7. CASE p = "lifecycle_stage" /\ v = ClosedLost /\ opportunity.ClosedLostReason # Unset
  <2>1. Follows(p, v) = {"Stage"}
    BY <1>7, Zenon DEF Follows
  <2> QED
    BY <1>6, <1>7, <2>1, Governors
<1>8. CASE p = "marketing_campaign"
  <2>1. Follows(p, v) = {"Campaign"}
    BY <1>8 DEF Follows
  <2> QED
    BY <1>6, <1>8, <2>1, Governors
<1>9. CASE p = "aws_account_id"
  <2>1. Follows(p, v) = {"AwsAccountId", "CustomerAwsAccountId"}
    BY <1>9 DEF Follows
  <2> QED
    BY <1>4, <1>6, <1>9, <2>1
<1>10. CASE /\ ~(p = "lifecycle_stage" /\ v = ClosedLost /\ opportunity.ClosedLostReason # Unset)
            /\ p \notin {"marketing_campaign", "aws_account_id"}
  <2>1. Follows(p, v) = w \cup g
    BY <1>10, Zenon DEF Follows, w, g
  <2>2. \A f \in OpportunityFields \ {"OtherCompetitorNames"} :
          f \in Follows(p, v) <=> f \in About[p]
    <3>1. CASE p = "competitor_name"
      BY <1>1, <1>2, <1>3, <2>1, <3>1
    <3>2. CASE p # "competitor_name"
      BY <1>1, <1>2, <1>10, <2>1, <3>2
    <3> QED
      BY <3>1, <3>2
  <2>3. \A f \in Followers : f \in About[p] <=> Governor[f] = p
    <3> SUFFICES ASSUME NEW f \in Followers PROVE f \in About[p] <=> Governor[f] = p
      OBVIOUS
    <3>1. f \in About[p] => Governor[f] = p
      BY <1>10, AboutFollowers
    <3>2. Governor[f] = p => f = "AwsAccountId" \/ f \in About[p]
      <4>1. p # "nothing"
        BY DEF PropertyNames
      <4> QED
        BY <4>1, AboutFollowers
    <3> QED
      BY <1>4, <1>10, <3>1, <3>2
  <2>4. \A f \in Followers : f \in Follows(p, v) <=> Governor[f] = p
    <3>1. \A f \in Followers : f \in OpportunityFields \ {"OtherCompetitorNames"}
      BY <1>6, Governors
    <3> QED
      BY <2>2, <2>3, <3>1
  <2>5. /\ "Stage" \in About[p] <=> p = "lifecycle_stage"
        /\ "ClosedLostReason" \in About[p] <=> p \in {"lifecycle_stage", "closed_lost_reason"}
    BY <1>3, AboutFollowers
  <2>6. {"Stage", "ClosedLostReason"} \subseteq OpportunityFields \ {"OtherCompetitorNames"}
    BY DEF OpportunityFields
  <2> QED
    BY <1>10, <2>2, <2>4, <2>5, <2>6
<1> QED
  BY <1>7, <1>8, <1>9, <1>10

\* The invariant is what is claimed once nothing waits.
LEMMA Agreement == AgreeInv => EditsAgree
<1> SUFFICES ASSUME AgreeInv, opportunity # <<>>, inbox = <<>>,
                    NEW f \in DOMAIN opportunity \ UNION {Follows(p, held[p]) : p \in stale}
             PROVE  Compared(opportunity, f) = Compared(Today, f)
  BY Zenon DEF EditsAgree
<1>1. /\ DOMAIN opportunity = OpportunityFields /\ stale \subseteq PropertyNames
      /\ Agreeing(opportunity, held, customer, inbox, stale, edited, central)
  BY DEF AgreeInv, FormInv, AtAwsInv
<1>2. \A p : ~Waits(p, inbox)
  <2>1. Len(inbox) = 0 /\ \A i : ~(i \in 1..0)
    BY SMT
  <2> QED
    BY <2>1 DEF Waits
<1>3. Lasting(inbox)
  <2>1. Len(inbox) = 0 /\ \A i : ~(i \in 1..0)
    BY SMT
  <2> QED
    BY <2>1 DEF Lasting
<1>4. CASE f \in Followers
  <2>1. FieldRight(f, opportunity, held, customer, inbox, stale, edited, central)
    BY <1>1, <1>4 DEF Agreeing
  <2>2. Governor[f] \notin stale
    <3>1. \A p \in stale : Governor[f] # p
      <4> TAKE p \in stale
      <4>1. f \notin Follows(p, held[p])
        OBVIOUS
      <4>2. p \in PropertyNames
        BY <1>1
      <4> QED
        BY <1>4, <4>1, <4>2, FollowsIs
    <3> QED
      BY <3>1
  <2>3. Right(f, opportunity, held, customer, edited, central)
    BY <1>2, <2>1, <2>2 DEF FieldRight
  <2>4. Today[f] = IF f \in DOMAIN central THEN central[f] ELSE Asked(f, held, customer, edited)
    BY <1>4, TodayFields
  <2>5. Seen(f, opportunity[f], held.description) = Seen(f, Today[f], held.description)
    BY <2>3, <2>4 DEF Right
  <2> QED
    BY <1>4, <2>5, ComparedIsSeen
<1>5. CASE held.lifecycle_stage = ClosedLost /\ held.closed_lost_reason = Unset
            /\ f \in {"Stage", "ClosedLostReason"}
  <2>1. \A o : Compared(o, f) = Unset
    BY <1>5, Zenon DEF Compared
  <2> QED
    BY <2>1
<1>6. CASE ~(held.lifecycle_stage = ClosedLost /\ held.closed_lost_reason = Unset)
            /\ f \in {"Stage", "ClosedLostReason"}
  <2>1. opportunity.Stage = Today.Stage
    BY <1>1, <1>2, <1>6, TodayFields DEF Agreeing, StageSet, StageRight
  <2>2. CASE f = "Stage"
    <3>1. \A o : Compared(o, f) = o.Stage
      BY <1>6, <2>2 DEF Compared
    <3> QED
      BY <2>1, <3>1
  <2>3. CASE f = "ClosedLostReason"
    <3>1. \A o : Compared(o, f) = IF o.Stage # ClosedLost THEN Unset ELSE o.ClosedLostReason
      BY <1>6, <2>3 DEF Compared
    <3>2. opportunity.Stage = ClosedLost => opportunity.ClosedLostReason = Today.ClosedLostReason
      BY <1>1, <1>2, <1>3, TodayFields DEF Agreeing, ReasonSet, ReasonRight
    <3> QED
      BY <2>1, <3>1, <3>2
  <2> QED
    BY <1>6, <2>2, <2>3
<1>7. CASE f \in {"Campaign", "OtherCompetitorNames"}
  <2>1. \A o : Compared(o, f) = Unset
    BY <1>7 DEF Compared
  <2> QED
    BY <2>1
<1> QED
  BY <1>1, <1>4, <1>5, <1>6, <1>7 DEF OpportunityFields, Followers

\* What the deal asks of a field depends on the property that governs it; of the problem, unless
\* the title goes before it.
LEMMA AskedSame ==
    ASSUME NEW f \in Followers, NEW d, NEW d2, NEW c, NEW e, NEW e2,
           Governor[f] # "nothing" => d[Governor[f]] = d2[Governor[f]],
           Governor[f] \in e <=> Governor[f] \in e2,
           f = "Problem" => d.description \notin Short
    PROVE  Asked(f, d, c, e) = Asked(f, d2, c, e2)
<1>1. PICK o : o = CreatedFrom(d, c)
  OBVIOUS
<1>2. PICK o2 : o2 = CreatedFrom(d2, c)
  OBVIOUS
<1>3. PICK i : i = IF c.industry = Unset THEN d.industry ELSE c.industry
  OBVIOUS
<1>4. PICK i2 : i2 = IF c.industry = Unset THEN d2.industry ELSE c.industry
  OBVIOUS
<1>5. /\ o.Needs = WireNeed(d.partner_need) /\ o.OpportunityType = NewBusiness
      /\ o.NationalSecurity = Unset /\ o.SoftwareRevenue = Unset
      /\ o.Industry = Sector(i)[1] /\ o.OtherIndustry = Sector(i)[2]
      /\ o.AwsAccountId = d.aws_account_id /\ o.Country = Country(c.country)
      /\ o.State = State(Country(c.country), c.state) /\ o.Contacts = Contacts(c)
      /\ o.Title = d.dealname /\ o.Problem = Problem(d.description, d.dealname)
      /\ o.UseCase = UseCase(d.use_case) /\ o.Spend = Spend(d.amount)
      /\ o.DeliveryModels = d.delivery_model /\ o.SalesActivities = DefaultActivity
      /\ o.CompetitorName = d.competitor_name /\ o.AdditionalComments = d.additional_comments
      /\ o.RelatedOpportunityIdentifier = d.related_opportunity_id
      /\ o.CustomerAwsAccountId = Unset /\ o.NextSteps = d.next_steps
      /\ o.TargetCloseDate = d.closedate
      /\ o.Source = IF d.marketing_source = Activity THEN Activity ELSE Unset
  BY <1>1, <1>3, CreatedValues
<1>6. /\ o2.Needs = WireNeed(d2.partner_need) /\ o2.OpportunityType = NewBusiness
      /\ o2.NationalSecurity = Unset /\ o2.SoftwareRevenue = Unset
      /\ o2.Industry = Sector(i2)[1] /\ o2.OtherIndustry = Sector(i2)[2]
      /\ o2.AwsAccountId = d2.aws_account_id /\ o2.Country = Country(c.country)
      /\ o2.State = State(Country(c.country), c.state) /\ o2.Contacts = Contacts(c)
      /\ o2.Title = d2.dealname /\ o2.Problem = Problem(d2.description, d2.dealname)
      /\ o2.UseCase = UseCase(d2.use_case) /\ o2.Spend = Spend(d2.amount)
      /\ o2.DeliveryModels = d2.delivery_model /\ o2.SalesActivities = DefaultActivity
      /\ o2.CompetitorName = d2.competitor_name /\ o2.AdditionalComments = d2.additional_comments
      /\ o2.RelatedOpportunityIdentifier = d2.related_opportunity_id
      /\ o2.CustomerAwsAccountId = Unset /\ o2.NextSteps = d2.next_steps
      /\ o2.TargetCloseDate = d2.closedate
      /\ o2.Source = IF d2.marketing_source = Activity THEN Activity ELSE Unset
  BY <1>2, <1>4, CreatedValues
<1>7. /\ Asked(f, d, c, e) =
            IF f \in {"OpportunityType", "NationalSecurity", "SalesActivities"} /\ Governor[f] \in e
              THEN d[Governor[f]]
            ELSE IF f = "Industry" /\ "industry" \in e THEN Sector(d.industry)[1]
            ELSE IF f = "OtherIndustry" /\ "industry" \in e THEN Sector(d.industry)[2]
            ELSE o[f]
      /\ Asked(f, d2, c, e2) =
            IF /\ f \in {"OpportunityType", "NationalSecurity", "SalesActivities"}
               /\ Governor[f] \in e2
              THEN d2[Governor[f]]
            ELSE IF f = "Industry" /\ "industry" \in e2 THEN Sector(d2.industry)[1]
            ELSE IF f = "OtherIndustry" /\ "industry" \in e2 THEN Sector(d2.industry)[2]
            ELSE o2[f]
  BY <1>1, <1>2 DEF Asked
<1>8. CASE f \in {"OpportunityType", "NationalSecurity", "SalesActivities"}
  <2>1. Governor[f] # "nothing"
    BY <1>8 DEF Governor
  <2>2. o[f] = o2[f]
    BY <1>5, <1>6, <1>8
  <2> QED
    BY <1>7, <1>8, <2>1, <2>2
<1>9. CASE f \in {"Industry", "OtherIndustry"}
  <2>1. Governor[f] = "industry"
    BY <1>9 DEF Governor
  <2>2. d.industry = d2.industry /\ i = i2 /\ ("industry" \in e <=> "industry" \in e2)
    BY <1>3, <1>4, <2>1
  <2> QED
    BY <1>5, <1>6, <1>7, <1>9, <2>2
<1>10. CASE f = "Problem"
  <2>1. d.description = d2.description
    BY <1>10 DEF Governor
  <2>2. Problem(d.description, d.dealname) = Problem(d2.description, d2.dealname)
    BY <1>10, <2>1 DEF Problem
  <2> QED
    BY <1>5, <1>6, <1>7, <1>10, <2>2
<1>11. CASE f \in {"SoftwareRevenue", "Country", "State", "Contacts", "CustomerAwsAccountId"}
  BY <1>5, <1>6, <1>7, <1>11
<1>12. CASE f \in {"Needs", "AwsAccountId", "Title", "UseCase", "Spend", "DeliveryModels"}
  <2>1. /\ Governor.Needs = "partner_need" /\ Governor.AwsAccountId = "aws_account_id"
        /\ Governor.Title = "dealname" /\ Governor.UseCase = "use_case"
        /\ Governor.Spend = "amount" /\ Governor.DeliveryModels = "delivery_model"
    BY DEF Governor
  <2> QED
    BY <1>5, <1>6, <1>7, <1>12, <2>1
<1>13. CASE f \in {"CompetitorName", "AdditionalComments", "RelatedOpportunityIdentifier",
                   "NextSteps", "TargetCloseDate", "Source"}
  <2>1. /\ Governor.CompetitorName = "competitor_name"
        /\ Governor.AdditionalComments = "additional_comments"
        /\ Governor.RelatedOpportunityIdentifier = "related_opportunity_id"
        /\ Governor.NextSteps = "next_steps" /\ Governor.TargetCloseDate = "closedate"
        /\ Governor.Source = "marketing_source"
    BY DEF Governor
  <2> QED
    BY <1>5, <1>6, <1>7, <1>13, <2>1
<1> QED
  BY <1>8, <1>9, <1>10, <1>11, <1>12, <1>13 DEF Followers

\* A field stays right when neither it nor the property that governs it changes.
LEMMA RightStays ==
    ASSUME NEW f \in Followers, NEW o, NEW o2, NEW d, NEW d2, NEW c, NEW e, NEW e2, NEW k, NEW k2,
           Governor[f] # "nothing" => d[Governor[f]] = d2[Governor[f]],
           Governor[f] \in e <=> Governor[f] \in e2,
           f \in DOMAIN k <=> f \in DOMAIN k2,
           f \in DOMAIN k => k[f] = k2[f],
           \A text : Seen(f, o[f], text) = Seen(f, o2[f], text),
           Right(f, o, d, c, e, k)
    PROVE  Right(f, o2, d2, c, e2, k2)
<1>1. CASE f = "Problem" /\ d.description \in Short
  <2>1. d2.description = d.description
    BY <1>1 DEF Governor
  <2> QED
    BY <1>1, <2>1 DEF Right, Seen
<1>2. CASE ~(f = "Problem" /\ d.description \in Short)
  <2>1. Asked(f, d, c, e) = Asked(f, d2, c, e2)
    BY <1>2, AskedSame
  <2>2. PICK x : x = IF f \in DOMAIN k THEN k[f] ELSE Asked(f, d, c, e)
    OBVIOUS
  <2>3. x = IF f \in DOMAIN k2 THEN k2[f] ELSE Asked(f, d2, c, e2)
    BY <2>1, <2>2
  <2>4. \A y : Seen(f, y, d.description) = Seen(f, y, d2.description)
    <3>1. CASE f = "Problem"
      <4>1. d2.description = d.description
        BY <3>1 DEF Governor
      <4> QED
        BY <4>1
    <3>2. CASE f # "Problem"
      BY <3>2, Zenon DEF Seen
    <3> QED
      BY <3>1, <3>2
  <2>5. Seen(f, o[f], d.description) = Seen(f, x, d.description)
    BY <2>2 DEF Right
  <2>6. Seen(f, o2[f], d2.description) = Seen(f, x, d2.description)
    BY <2>4, <2>5
  <2> QED
    BY <2>3, <2>6 DEF Right
<1> QED
  BY <1>1, <1>2

\* Scrubbing changes nothing that is compared.
LEMMA ScrubSeen ==
    ASSUME NEW o, DOMAIN o = OpportunityFields, NEW f \in Followers, NEW text
    PROVE  Seen(f, Scrub(o)[f], text) = Seen(f, o[f], text)
<1>1. /\ \A g \in OpportunityFields
                 \ {"Spend", "SalesActivities", "Contacts", "Source", "Campaign"} :
            Scrub(o)[g] = o[g]
      /\ Scrub(o).Source = IF o.Source = Unset THEN "None" ELSE o.Source
      /\ Scrub(o).Spend = IF o.Spend = Stub THEN Unset ELSE o.Spend
      /\ Scrub(o).SalesActivities = IF o.SalesActivities = Stub THEN Unset ELSE o.SalesActivities
      /\ Scrub(o).Contacts = o.Contacts \ {Stub}
  BY DEF Scrub, OpportunityFields
<1>2. f \in OpportunityFields
  BY Governors
<1>3. CASE f = "Spend"
  BY <1>1, <1>3, FormAssumption DEF Seen
<1>4. CASE f = "SalesActivities"
  BY <1>1, <1>4, FormAssumption DEF Seen
<1>5. CASE f = "Contacts"
  <2>1. (o.Contacts \ {Stub}) \ {Stub} = o.Contacts \ {Stub}
    OBVIOUS
  <2> QED
    BY <1>1, <1>5, <2>1 DEF Seen
<1>6. CASE f = "Source"
  <2>1. "None" # Activity /\ Unset # Activity
    BY FormAssumption, Zenon DEF Activity
  <2>2. (Scrub(o).Source = Activity) = (o.Source = Activity)
    BY <1>1, <2>1
  <2> QED
    BY <1>6, <2>2 DEF Seen
<1>7. CASE f \notin {"Spend", "SalesActivities", "Contacts", "Source"}
  <2>1. f # "Campaign"
    BY DEF Followers
  <2> QED
    BY <1>1, <1>2, <1>7, <2>1
<1> QED
  BY <1>3, <1>4, <1>5, <1>6, <1>7

\* AWS's names of needs and use cases stay as they are.
LEMMA NamesStay ==
    /\ \A v \in Needs : WireNeed(v) = v
    /\ \A v \in UseCases : v # Unset => UseCase(v) = v
<1>1. ASSUME NEW v \in Needs PROVE v \notin DOMAIN NeedOf
  <2>1. DOMAIN NeedOf = {"Deal Support", "Competitive Intelligence"}
    BY DEF NeedOf
  <2>2. PICK need \in {"Deal Support", "Competitive Intelligence"} : v = NeedOf[need]
    BY <2>1 DEF Needs
  <2>3. NeedOf[need] = IF need = "Deal Support" THEN "Co-Sell - Deal Support"
                       ELSE "Co-Sell - Competitive Information"
    BY DEF NeedOf
  <2>4. v \in {"Co-Sell - Deal Support", "Co-Sell - Competitive Information"}
    BY <2>2, <2>3, Zenon
  <2> QED
    BY <2>1, <2>4, Zenon
<1>2. "Other" \notin UseCases
  BY Zenon DEF UseCases, DefaultUseCase
<1> QED
  BY <1>1, <1>2 DEF WireNeed, UseCase

\* A property written into an opportunity is what the deal asks of it.
LEMMA WrittenRight ==
    ASSUME NEW f \in Followers \ {"AwsAccountId", "CustomerAwsAccountId", "Needs"},
           Governor[f] \in PropertyNames, NEW d, NEW c, NEW e, NEW o, Governor[f] \in e,
           d[Governor[f]] # Unset, Governor[f] = "use_case" => d[Governor[f]] \in UseCases,
           NEW w, w = Written(Governor[f], d[Governor[f]], o)
    PROVE  /\ f \in DOMAIN w
           /\ Seen(f, w[f], d.description) = Seen(f, Asked(f, d, c, e), d.description)
<1>p. PICK p \in PropertyNames : p = Governor[f]
  OBVIOUS
<1>v. PICK v : v = d[p]
  OBVIOUS
<1>0. /\ f \in Followers /\ f \notin {"AwsAccountId", "CustomerAwsAccountId", "Needs"}
      /\ Governor[f] = p /\ p \in e /\ v # Unset /\ (p = "use_case" => v \in UseCases)
      /\ w = Written(p, v, o)
  BY <1>p, <1>v
<1>1. PICK a : a = CreatedFrom(d, c)
  OBVIOUS
<1>2. PICK i : i = IF c.industry = Unset THEN d.industry ELSE c.industry
  OBVIOUS
<1>3. /\ a.Title = d.dealname /\ a.Problem = Problem(d.description, d.dealname)
      /\ a.UseCase = UseCase(d.use_case) /\ a.Spend = Spend(d.amount)
      /\ a.DeliveryModels = d.delivery_model
      /\ a.CompetitorName = d.competitor_name /\ a.AdditionalComments = d.additional_comments
      /\ a.RelatedOpportunityIdentifier = d.related_opportunity_id
      /\ a.NextSteps = d.next_steps /\ a.TargetCloseDate = d.closedate
      /\ a.Source = IF d.marketing_source = Activity THEN Activity ELSE Unset
  BY <1>0, <1>v, <1>1, <1>2, CreatedValues
<1>4. Asked(f, d, c, e) =
            IF f \in {"OpportunityType", "NationalSecurity", "SalesActivities"} /\ Governor[f] \in e
              THEN d[Governor[f]]
            ELSE IF f = "Industry" /\ "industry" \in e THEN Sector(d.industry)[1]
            ELSE IF f = "OtherIndustry" /\ "industry" \in e THEN Sector(d.industry)[2]
            ELSE a[f]
  BY <1>0, <1>v, <1>1 DEF Asked
<1>6. /\ p \in DOMAIN TextOf => w = Field(TextOf[p], v)
      /\ p \in DOMAIN ChoiceOf => w = Field(ChoiceOf[p], v)
      /\ p = "amount" => w = [Spend |-> Spend(v)]
      /\ p = "description" => w = [Problem |-> Problem(v, o.Title)]
      /\ p = "industry" => w = [Industry |-> Sector(v)[1], OtherIndustry |-> Sector(v)[2]]
      /\ p = "marketing_source" => w = Marketed(v, o.Campaign)
  BY <1>0, <1>v, WrittenIs
<1>7. p # "nothing"
  BY <1>0, <1>v DEF PropertyNames
<1>8. CASE f \in {"Title", "UseCase", "CompetitorName", "AdditionalComments",
                  "RelatedOpportunityIdentifier", "NextSteps", "TargetCloseDate"}
  <2>1. p \in DOMAIN TextOf /\ f = TextOf[p]
    BY <1>0, <1>v, <1>8, TextFields DEF Governor
  <2>2. DOMAIN w = {f} /\ w[f] = v
    <3>1. w = Field(f, v)
      BY <1>0, <1>v, <1>6, <2>1, Zenon
    <3> QED
      BY <1>0, <1>v, <3>1, OneField
  <2>3. a[f] = v
    <3>1. f = "UseCase" => UseCase(v) = v /\ p = "use_case"
      BY <1>0, <1>v, NamesStay DEF Governor
    <3>2. /\ f = "Title" => p = "dealname"
          /\ f = "CompetitorName" => p = "competitor_name"
          /\ f = "AdditionalComments" => p = "additional_comments"
          /\ f = "RelatedOpportunityIdentifier" => p = "related_opportunity_id"
          /\ f = "NextSteps" => p = "next_steps"
          /\ f = "TargetCloseDate" => p = "closedate"
      BY <1>0, <1>v DEF Governor
    <3> QED
      BY <1>0, <1>v, <1>3, <1>8, <3>1, <3>2
  <2>4. Asked(f, d, c, e) = a[f]
    BY <1>0, <1>v, <1>4, <1>8
  <2> QED
    BY <1>0, <1>v, <2>2, <2>3, <2>4
<1>9. CASE f \in {"DeliveryModels", "SalesActivities", "NationalSecurity", "OpportunityType"}
  <2>1. p \in DOMAIN ChoiceOf /\ f = ChoiceOf[p]
    BY <1>0, <1>v, <1>9, ChoiceFields DEF Governor
  <2>2. DOMAIN w = {f} /\ w[f] = v
    <3>1. w = Field(f, v)
      BY <1>0, <1>v, <1>6, <2>1, Zenon
    <3> QED
      BY <1>0, <1>v, <3>1, OneField
  <2>3. f = "DeliveryModels" => a[f] = v
    <3>1. f = "DeliveryModels" => p = "delivery_model"
      BY <1>0, <1>v DEF Governor
    <3> QED
      BY <1>0, <1>v, <1>3, <3>1
  <2>4. Asked(f, d, c, e) = v
    BY <1>0, <1>v, <1>4, <1>9, <2>3
  <2> QED
    BY <1>0, <1>v, <2>2, <2>4
<1>10. CASE f \in {"Industry", "OtherIndustry"}
  <2>1. p = "industry"
    BY <1>0, <1>v, <1>10 DEF Governor
  <2>2. /\ DOMAIN w = {"Industry", "OtherIndustry"}
        /\ w.Industry = Sector(v)[1] /\ w.OtherIndustry = Sector(v)[2]
    BY <1>0, <1>v, <1>6, <2>1
  <2>3. w[f] = Asked(f, d, c, e)
    BY <1>0, <1>v, <1>4, <1>10, <2>1, <2>2
  <2> QED
    BY <1>0, <1>v, <1>10, <2>2, <2>3
<1>11. CASE f = "Spend"
  <2>1. p = "amount"
    BY <1>0, <1>v, <1>11 DEF Governor
  <2>2. DOMAIN w = {"Spend"} /\ w.Spend = Spend(v)
    BY <1>0, <1>v, <1>6, <2>1
  <2>3. w[f] = Asked(f, d, c, e)
    BY <1>0, <1>v, <1>3, <1>4, <1>11, <2>1, <2>2
  <2> QED
    BY <1>0, <1>v, <1>11, <2>2, <2>3
<1>12. CASE f = "Problem"
  <2>1. p = "description"
    BY <1>0, <1>v, <1>12 DEF Governor
  <2>2. DOMAIN w = {"Problem"} /\ w.Problem = Problem(v, o.Title)
    BY <1>0, <1>v, <1>6, <2>1
  <2>3. Asked(f, d, c, e) = Problem(v, d.dealname)
    BY <1>0, <1>v, <1>3, <1>4, <1>12, <2>1
  <2>4. CASE v \in Short
    BY <1>0, <1>v, <1>12, <2>1, <2>2, <2>4 DEF Seen
  <2>5. CASE v \notin Short
    <3>1. Problem(v, o.Title) = Problem(v, d.dealname)
      BY <1>0, <1>v, <2>5 DEF Problem
    <3> QED
      BY <1>0, <1>v, <1>12, <2>2, <2>3, <3>1
  <2> QED
    BY <1>0, <1>v, <2>4, <2>5
<1>13. CASE f = "Source"
  <2>1. p = "marketing_source"
    BY <1>0, <1>v, <1>13 DEF Governor
  <2>2. "None" # Activity /\ Unset # Activity
    BY <1>0, <1>v, FormAssumption, Zenon DEF Activity
  <2>3. DOMAIN w = {"Source", "Campaign"} /\ w.Source = IF v = Activity THEN Activity ELSE "None"
    BY <1>0, <1>v, <1>6, <2>1 DEF Marketed
  <2>4. Asked(f, d, c, e) = IF v = Activity THEN Activity ELSE Unset
    BY <1>0, <1>v, <1>3, <1>4, <1>13, <2>1
  <2>5. (w[f] = Activity) = (Asked(f, d, c, e) = Activity)
    BY <1>0, <1>v, <1>13, <2>2, <2>3, <2>4
  <2> QED
    BY <1>0, <1>v, <1>13, <2>3, <2>5 DEF Seen
<1>14. f \notin {"SoftwareRevenue", "Country", "State", "Contacts"}
  BY <1>0, <1>v, <1>7 DEF Governor
<1> QED
  BY <1>0, <1>v, <1>8, <1>9, <1>10, <1>11, <1>12, <1>13, <1>14 DEF Followers

\* A body that AWS takes is taken again.
LEMMA TakenAgain ==
    ASSUME NEW o, DOMAIN o = OpportunityFields, Broken(o) = {}
    PROVE  Broken(Scrub(o)) = {}
<1>1. /\ o.Spend # Stub /\ o.SalesActivities # Stub /\ Stub \notin o.Contacts
      /\ o.Source \in {"None", Activity} /\ (o.Campaign # Unset => o.Source = Activity)
  BY Taken
<1>2. /\ DOMAIN Scrub(o) = OpportunityFields
      /\ \A f \in OpportunityFields
                 \ {"Spend", "SalesActivities", "Contacts", "Source", "Campaign"} :
            Scrub(o)[f] = o[f]
      /\ Scrub(o).Source = IF o.Source = Unset THEN "None" ELSE o.Source
      /\ Scrub(o).Spend = IF o.Spend = Stub THEN Unset ELSE o.Spend
      /\ Scrub(o).SalesActivities = IF o.SalesActivities = Stub THEN Unset ELSE o.SalesActivities
      /\ Scrub(o).Contacts = o.Contacts \ {Stub}
      /\ Scrub(o).Campaign = IF o.Source = Activity THEN o.Campaign ELSE Unset
  BY DEF Scrub, OpportunityFields
<1>3. o.Contacts \ {Stub} = o.Contacts
  BY <1>1
<1>4. o.Source # Unset /\ (o.Source # Activity => o.Campaign = Unset)
  BY <1>1, FormAssumption
<1>5. \A f \in OpportunityFields : Scrub(o)[f] = o[f]
  BY <1>1, <1>2, <1>3, <1>4
<1>6. Rules(Scrub(o)) = Rules(o)
  <2>1. /\ Scrub(o).Needs = o.Needs /\ Scrub(o).DeliveryModels = o.DeliveryModels
        /\ Scrub(o).UseCase = o.UseCase /\ Scrub(o).OpportunityType = o.OpportunityType
        /\ Scrub(o).Industry = o.Industry /\ Scrub(o).OtherIndustry = o.OtherIndustry
        /\ Scrub(o).Spend = o.Spend /\ Scrub(o).SalesActivities = o.SalesActivities
        /\ Scrub(o).Contacts = o.Contacts /\ Scrub(o).Source = o.Source
        /\ Scrub(o).Campaign = o.Campaign /\ Scrub(o).Stage = o.Stage
        /\ Scrub(o).ClosedLostReason = o.ClosedLostReason
        /\ Scrub(o).CompetitorName = o.CompetitorName
        /\ Scrub(o).OtherCompetitorNames = o.OtherCompetitorNames
        /\ Scrub(o).NationalSecurity = o.NationalSecurity
        /\ Scrub(o).CustomerAwsAccountId = o.CustomerAwsAccountId
    BY <1>5 DEF OpportunityFields
  <2> QED
    BY <2>1, Zenon DEF Rules
<1> QED
  BY <1>6 DEF Broken

\* Of a body that AWS takes, another stage with a reason that goes with it is taken as well.
LEMMA OtherStage ==
    ASSUME NEW o, Broken(o) = {}, NEW b, Paired(b), DOMAIN o = OpportunityFields,
           \A f \in OpportunityFields \ {"Stage", "ClosedLostReason"} : b[f] = o[f]
    PROVE  Broken(b) = {}
<1>1. /\ b.Needs = o.Needs /\ b.DeliveryModels = o.DeliveryModels
      /\ b.UseCase = o.UseCase /\ b.OpportunityType = o.OpportunityType
      /\ b.Industry = o.Industry /\ b.OtherIndustry = o.OtherIndustry
      /\ b.Spend = o.Spend /\ b.SalesActivities = o.SalesActivities
      /\ b.Contacts = o.Contacts /\ b.Source = o.Source
      /\ b.Campaign = o.Campaign
      /\ b.CompetitorName = o.CompetitorName
      /\ b.OtherCompetitorNames = o.OtherCompetitorNames
      /\ b.NationalSecurity = o.NationalSecurity
      /\ b.CustomerAwsAccountId = o.CustomerAwsAccountId
  BY DEF OpportunityFields
<1>2. DOMAIN Rules(b) = {"needs", "enums", "stubs", "marketing", "pair", "competitor", "security",
                         "account"}
  BY DEF Rules
<1>3. Rules(b).pair
  BY Zenon DEF Rules, Paired
<1>4. /\ Rules(b).needs = Rules(o).needs /\ Rules(b).enums = Rules(o).enums
      /\ Rules(b).stubs = Rules(o).stubs /\ Rules(b).marketing = Rules(o).marketing
      /\ Rules(b).competitor = Rules(o).competitor /\ Rules(b).security = Rules(o).security
      /\ Rules(b).account = Rules(o).account
  BY <1>1, Zenon DEF Rules
<1>5. /\ Rules(o).needs /\ Rules(o).enums /\ Rules(o).stubs /\ Rules(o).marketing
      /\ Rules(o).competitor /\ Rules(o).security /\ Rules(o).account
  <2>1. DOMAIN Rules(o) = {"needs", "enums", "stubs", "marketing", "pair", "competitor",
                           "security", "account"}
    BY DEF Rules
  <2> QED
    BY <2>1 DEF Broken
<1> QED
  BY <1>2, <1>3, <1>4, <1>5 DEF Broken

-----------------------------------------------------------------------------
\* A sequence without its element i.
LEMMA Removed ==
    ASSUME NEW S, NEW s \in Seq(S), NEW i \in 1..Len(s)
    PROVE  /\ Len(RemoveAt(s, i)) = Len(s) - 1 /\ Len(s) \in Nat
           /\ \A j \in 1..(Len(s) - 1) :
                RemoveAt(s, i)[j] = IF j < i THEN s[j] ELSE s[j + 1]
<1>1. Len(s) \in Nat /\ \A j \in 1..Len(s) : s[j] \in S
  BY LenProperties, ElementOfSeq
<1> DEFINE a == SubSeq(s, 1, i - 1)
           b == SubSeq(s, i + 1, Len(s))
<1>2. /\ a \in Seq(S) /\ Len(a) = i - 1 /\ \A j \in 1..(i - 1) : a[j] = s[j]
  <2>1. /\ 1 \in 1..(Len(s) + 1) /\ i - 1 \in (1 - 1)..Len(s)
        /\ \A j \in 1..(i - 1) : s[j] \in S
    BY <1>1, SMT
  <2>2. /\ a \in Seq(S)
        /\ Len(a) = IF 1 <= i - 1 THEN (i - 1) - 1 + 1 ELSE 0
        /\ \A j \in 1..((i - 1) - 1 + 1) : a[j] = s[1 + j - 1]
    BY <1>1, <2>1, SubSeqProperties
  <2> QED
    BY <1>1, <2>2, SMT
<1>3. /\ b \in Seq(S) /\ Len(b) = Len(s) - i /\ \A j \in 1..(Len(s) - i) : b[j] = s[i + j]
  <2>1. /\ i + 1 \in 1..(Len(s) + 1) /\ Len(s) \in ((i + 1) - 1)..Len(s)
        /\ \A j \in (i + 1)..Len(s) : s[j] \in S
    BY <1>1, SMT
  <2>2. /\ b \in Seq(S)
        /\ Len(b) = IF i + 1 <= Len(s) THEN Len(s) - (i + 1) + 1 ELSE 0
        /\ \A j \in 1..(Len(s) - (i + 1) + 1) : b[j] = s[(i + 1) + j - 1]
    BY <1>1, <2>1, SubSeqProperties
  <2> QED
    BY <1>1, <2>2, SMT
<1>4. RemoveAt(s, i) = a \o b
  BY DEF RemoveAt
<1> HIDE DEF a, b
<1>5. /\ Len(a \o b) = Len(a) + Len(b)
      /\ \A j \in 1..(Len(a) + Len(b)) : (a \o b)[j] = IF j <= Len(a) THEN a[j] ELSE b[j - Len(a)]
  BY <1>2, <1>3, ConcatProperties
<1>6. Len(a \o b) = Len(s) - 1
  BY <1>1, <1>2, <1>3, <1>5, SMT
<1>7. \A j \in 1..(Len(s) - 1) : (a \o b)[j] = IF j < i THEN s[j] ELSE s[j + 1]
  <2> TAKE j \in 1..(Len(s) - 1)
  <2>1. (a \o b)[j] = IF j <= Len(a) THEN a[j] ELSE b[j - Len(a)]
    BY <1>1, <1>2, <1>3, <1>5, SMT
  <2>2. CASE j < i
    <3>1. j <= Len(a) /\ j \in 1..(i - 1)
      BY <1>1, <1>2, <2>2, SMT
    <3> QED
      BY <1>2, <2>1, <2>2, <3>1
  <2>3. CASE ~(j < i)
    <3>1. /\ ~(j <= Len(a)) /\ j - Len(a) \in 1..(Len(s) - i)
          /\ i + (j - Len(a)) = j + 1
      BY <1>1, <1>2, <2>3, SMT
    <3> QED
      BY <1>3, <2>1, <2>3, <3>1
  <2> QED
    BY <2>2, <2>3
<1> QED
  BY <1>1, <1>4, <1>6, <1>7

\* The first edit of a property leaves the queue.
LEMMA QueueShrinks ==
    ASSUME NEW q \in Seq(Messages), NEW i \in 1..Len(q), NEW p, p = q[i].prop,
           \A j \in 1..(i - 1) : q[j].prop # p, NEW q2, q2 = RemoveAt(q, i)
    PROVE  /\ Waits(p, q) /\ \A r : r # p => (Waits(r, q2) <=> Waits(r, q))
           /\ \A j \in 1..Len(q2) : \E m \in 1..Len(q) : q2[j] = q[m]
           /\ \A d : LastIsHeld(q, d) => LastIsHeld(q2, d)
           /\ ~Waits(p, q2) => \A d : LastIsHeld(q, d) => q[i].value = d[p]
           /\ (p = "lifecycle_stage" => q[i].value = ClosedLost) => (Lasting(q2) => Lasting(q))
<1>1. /\ Len(q) \in Nat /\ Len(q2) = Len(q) - 1
      /\ \A j \in 1..Len(q2) : q2[j] = IF j < i THEN q[j] ELSE q[j + 1]
  BY Removed
<1> DEFINE To(j) == IF j < i THEN j ELSE j + 1
<1>2. \A j \in 1..Len(q2) : To(j) \in 1..Len(q) /\ To(j) # i /\ q2[j] = q[To(j)]
  BY <1>1, SMT
<1>3. \A m \in 1..Len(q) : m # i => \E j \in 1..Len(q2) : To(j) = m
  <2> SUFFICES ASSUME NEW m \in 1..Len(q), m # i PROVE \E j \in 1..Len(q2) : To(j) = m
    OBVIOUS
  <2>1. CASE m < i
    <3>1. m \in 1..Len(q2) /\ To(m) = m
      BY <1>1, <2>1, SMT
    <3> QED
      BY <3>1
  <2>2. CASE ~(m < i)
    <3>1. m - 1 \in 1..Len(q2) /\ To(m - 1) = m
      BY <1>1, <2>2, SMT
    <3> QED
      BY <3>1
  <2> QED
    BY <2>1, <2>2
<1>4. \A j, l \in 1..Len(q2) : j < l <=> To(j) < To(l)
  BY <1>1, SMT
<1> HIDE DEF To
<1>5. Waits(p, q)
  BY DEF Waits
<1>6. ASSUME NEW r, r # p PROVE Waits(r, q2) <=> Waits(r, q)
  <2>1. ASSUME Waits(r, q2) PROVE Waits(r, q)
    BY <1>2, <2>1 DEF Waits
  <2>2. ASSUME Waits(r, q) PROVE Waits(r, q2)
    <3>1. PICK m \in 1..Len(q) : q[m].prop = r
      BY <2>2 DEF Waits
    <3>2. PICK j \in 1..Len(q2) : To(j) = m
      BY <1>3, <1>6, <3>1
    <3>3. q2[j].prop = r
      BY <1>2, <3>1, <3>2
    <3> QED
      BY <3>3 DEF Waits
  <2> QED
    BY <2>1, <2>2
<1>7. \A j \in 1..Len(q2) : \E m \in 1..Len(q) : q2[j] = q[m]
  BY <1>2
<1>8. ASSUME NEW d, LastIsHeld(q, d) PROVE LastIsHeld(q2, d)
  <2> SUFFICES ASSUME NEW j \in 1..Len(q2),
                      \A l \in 1..Len(q2) : j < l => q2[l].prop # q2[j].prop
               PROVE  q2[j].value = d[q2[j].prop]
    BY DEF LastIsHeld
  <2>1. To(j) \in 1..Len(q) /\ q2[j] = q[To(j)] /\ To(j) # i
    BY <1>2
  <2>2. ASSUME NEW m \in 1..Len(q), To(j) < m PROVE q[m].prop # q[To(j)].prop
    <3>1. CASE m = i
      <4>1. To(j) \in 1..(i - 1)
        BY <2>1, <2>2, <3>1, <1>1, SMT
      <4> QED
        BY <3>1, <4>1
    <3>2. CASE m # i
      <4>1. PICK l \in 1..Len(q2) : To(l) = m
        BY <1>3, <3>2
      <4>2. j < l
        BY <1>4, <2>2, <4>1
      <4> QED
        BY <1>2, <2>1, <4>1, <4>2
    <3> QED
      BY <3>1, <3>2
  <2> QED
    BY <1>8, <2>1, <2>2 DEF LastIsHeld
<1>9. ASSUME ~Waits(p, q2), NEW d, LastIsHeld(q, d) PROVE q[i].value = d[p]
  <2>1. ASSUME NEW m \in 1..Len(q), i < m PROVE q[m].prop # q[i].prop
    <3>1. m # i
      BY <2>1, SMT
    <3>2. PICK l \in 1..Len(q2) : To(l) = m
      BY <1>3, <3>1
    <3> QED
      BY <1>2, <1>9, <3>2 DEF Waits
  <2> QED
    BY <1>9, <2>1 DEF LastIsHeld
<1>10. ASSUME p = "lifecycle_stage" => q[i].value = ClosedLost, Lasting(q2) PROVE Lasting(q)
  <2> SUFFICES ASSUME NEW m \in 1..Len(q), q[m].prop = "lifecycle_stage"
               PROVE  q[m].value = ClosedLost
    BY DEF Lasting
  <2>1. CASE m = i
    BY <1>10, <2>1
  <2>2. CASE m # i
    <3>1. PICK l \in 1..Len(q2) : To(l) = m
      BY <1>3, <2>2
    <3> QED
      BY <1>2, <1>10, <3>1 DEF Lasting
  <2> QED
    BY <2>1, <2>2
<1> QED
  BY <1>5, <1>6, <1>7, <1>8, <1>9, <1>10

\* An edit joins the queue, ...
LEMMA Appended ==
    ASSUME NEW q \in Seq(Messages), NEW m \in Messages, NEW q2, q2 = Append(q, m)
    PROVE  /\ Len(q) \in Nat /\ Len(q2) = Len(q) + 1 /\ q2[Len(q) + 1] = m
           /\ \A j \in 1..Len(q) : q2[j] = q[j] /\ q[j].prop \in PropertyNames
           /\ \A j \in 1..Len(q2) : j \in 1..Len(q) \/ j = Len(q) + 1
           /\ Len(q) + 1 \in 1..Len(q2)
           /\ \A j \in 1..Len(q) : j \in 1..Len(q2) /\ j < Len(q) + 1
<1>1. /\ Len(q) \in Nat /\ Len(q2) = Len(q) + 1 /\ q2[Len(q) + 1] = m
      /\ \A j \in 1..Len(q) : q2[j] = q[j]
  BY AppendProperties, LenProperties
<1>2. /\ \A j \in 1..Len(q2) : j \in 1..Len(q) \/ j = Len(q) + 1
      /\ Len(q) + 1 \in 1..Len(q2)
      /\ \A j \in 1..Len(q) : j \in 1..Len(q2) /\ j < Len(q) + 1
  BY <1>1, SMT
<1>3. \A j \in 1..Len(q) : q[j].prop \in PropertyNames
  <2>1. \A j \in 1..Len(q) : q[j] \in Messages
    BY ElementOfSeq
  <2> QED
    BY <2>1 DEF Messages
<1> QED
  BY <1>1, <1>2, <1>3

\* ... where it waits, ...
LEMMA QueueGrows ==
    ASSUME NEW q \in Seq(Messages), NEW m \in Messages, NEW q2, q2 = Append(q, m), NEW e,
           \A j \in 1..Len(q) : q[j].prop \in e
    PROVE  /\ Waits(m.prop, q2) /\ \A r : r # m.prop => (Waits(r, q2) <=> Waits(r, q))
           /\ \A j \in 1..Len(q2) : q2[j].prop \in e \cup {m.prop}
           /\ Lasting(q2) => Lasting(q) /\ (m.prop = "lifecycle_stage" => m.value = ClosedLost)
<1>1. Waits(m.prop, q2)
  BY Appended DEF Waits
<1>2. ASSUME NEW r, r # m.prop PROVE Waits(r, q2) <=> Waits(r, q)
  BY <1>2, Appended DEF Waits
<1>3. \A j \in 1..Len(q2) : q2[j].prop \in e \cup {m.prop}
  BY Appended
<1>4. ASSUME Lasting(q2)
      PROVE  Lasting(q) /\ (m.prop = "lifecycle_stage" => m.value = ClosedLost)
  BY <1>4, Appended DEF Lasting
<1> QED
  BY <1>1, <1>2, <1>3, <1>4

\* ... and has the value the deal has now.
LEMMA LastGrows ==
    ASSUME NEW q \in Seq(Messages), NEW m \in Messages,
           NEW d, DOMAIN d = PropertyNames, LastIsHeld(q, d)
    PROVE  LastIsHeld(Append(q, m), [d EXCEPT ![m.prop] = m.value])
<1>1. PICK q2 : q2 = Append(q, m)
  OBVIOUS
<1>2. PICK d2 : d2 = [d EXCEPT ![m.prop] = m.value]
  OBVIOUS
<1>3. d2[m.prop] = m.value /\ \A r \in PropertyNames \ {m.prop} : d2[r] = d[r]
  BY <1>2 DEF Messages
<1>4. ASSUME NEW j \in 1..Len(q2), \A l \in 1..Len(q2) : j < l => q2[l].prop # q2[j].prop
      PROVE  q2[j].value = d2[q2[j].prop]
  <2>1. CASE j = Len(q) + 1
    BY <1>1, <1>3, <2>1, Appended
  <2>2. CASE j \in 1..Len(q)
    <3>1. q2[j] = q[j] /\ q[j].prop # m.prop /\ q[j].prop \in PropertyNames
      BY <1>1, <1>4, <2>2, Appended
    <3>2. \A l \in 1..Len(q) : j < l => q[l].prop # q[j].prop
      BY <1>1, <1>4, <2>2, Appended
    <3>3. q[j].value = d[q[j].prop]
      BY <2>2, <3>2 DEF LastIsHeld
    <3> QED
      BY <1>3, <3>1, <3>3
  <2> QED
    BY <1>1, <2>1, <2>2, Appended
<1>5. LastIsHeld(q2, d2)
  BY <1>4 DEF LastIsHeld
<1> QED
  BY <1>1, <1>2, <1>5

-----------------------------------------------------------------------------
\* What AWS takes has both halves of Closed Lost, and no account of a project's.
LEMMA PairedAtAws ==
    ASSUME NEW o, DOMAIN o = OpportunityFields, Broken(Scrub(o)) = {}
    PROVE  Paired(o) /\ o.CustomerAwsAccountId = Unset
<1>1. /\ Scrub(o).Stage = o.Stage /\ Scrub(o).ClosedLostReason = o.ClosedLostReason
      /\ Scrub(o).CustomerAwsAccountId = o.CustomerAwsAccountId
  BY DEF Scrub, OpportunityFields
<1> QED
  BY <1>1, Taken DEF Paired

\* At first nothing is at AWS.
LEMMA AgreeStart == FormInit => AgreeInv
  BY FormStart DEF FormInit, AgreeInv

\* submit_to_ace creates what the deal asks.
LEMMA AgreeCreate == ASSUME AgreeInv, CreateOpportunity PROVE AgreeInv'
<1> DEFINE body == CreatedFrom(held, customer)
           bad  == Broken(Scrub(body))
<1>1. /\ opportunity' = IF bad = {} THEN body ELSE <<>>
      /\ inbox = <<>> /\ stale = {} /\ edited = {} /\ central = <<>>
      /\ UNCHANGED <<held, customer, inbox, stale, edited, central>>
  BY DEF CreateOpportunity, AgreeInv
<1>2. body.Stage = Unset
  BY Creation
<1>3. FormInv'
  BY FormCreate DEF AgreeInv
<1>4. ASSUME bad = {} PROVE Agreeing(body, held, customer, <<>>, {}, {}, <<>>)
  <2>1. Len(<<>>) = 0 /\ DOMAIN <<>> = {} /\ \A i : ~(i \in 1..0)
    BY SMT
  <2>2. \A f \in Followers : FieldRight(f, body, held, customer, <<>>, {}, {}, <<>>)
    <3> SUFFICES ASSUME NEW f \in Followers
                 PROVE  FieldRight(f, body, held, customer, <<>>, {}, {}, <<>>)
      OBVIOUS
    <3>1. Asked(f, held, customer, {}) = body[f]
      BY DEF Asked
    <3> HIDE DEF body
    <3>2. Right(f, body, held, customer, {}, <<>>)
      BY <2>1, <3>1 DEF Right
    <3> QED
      BY <2>1, <3>2 DEF FieldRight
  <2>3. LastIsHeld(<<>>, held) /\ \A i \in 1..Len(<<>>) : <<>>[i].prop \in {}
    BY <2>1 DEF LastIsHeld
  <2> HIDE DEF body
  <2>4. StageSet(body, held, <<>>, <<>>) /\ ReasonSet(body, held, <<>>, <<>>)
    BY <2>1 DEF StageSet, ReasonSet
  <2>5. StageRight(body, held, <<>>, {}, {}, <<>>)
    BY <1>2 DEF StageRight, StageAsked
  <2>6. ReasonRight(body, held, <<>>, <<>>)
    BY <1>2, FormAssumption DEF ReasonRight
  <2> QED
    BY <1>4, <2>2, <2>3, <2>4, <2>5, <2>6 DEF Agreeing, bad
<1> HIDE DEF body, bad
<1> QED
  BY <1>1, <1>3, <1>4 DEF AgreeInv

\* BD edits the deal: what is to follow is no longer as it was set at AWS.
LEMMA AgreeEdit ==
    ASSUME AgreeInv, NEW p \in DOMAIN Options, NEW v \in Options[p], EditProperty(p, v)
    PROVE  AgreeInv'
<1>1. /\ held[p] # v /\ held' = [held EXCEPT ![p] = v]
      /\ UNCHANGED <<customer, opportunity, stale>>
  BY DEF EditProperty
<1>2. p \in PropertyNames /\ DOMAIN held = PropertyNames /\ inbox \in Seq(Messages)
  BY Offers DEF AgreeInv, FormInv
<1>3. FormInv'
  BY FormEdit DEF AgreeInv
<1>4. CASE opportunity = <<>>
  <2>1. UNCHANGED <<inbox, edited, central>>
    BY <1>4 DEF EditProperty
  <2> QED
    BY <1>1, <1>3, <1>4, <2>1 DEF AgreeInv
<1>5. CASE opportunity # <<>>
  <2> DEFINE m == [prop |-> p, value |-> v]
  <2>1. /\ inbox' = Append(inbox, m) /\ edited' = edited \cup {p}
        /\ central' = [f \in DOMAIN central \ Follows(p, v) |-> central[f]]
    BY <1>5 DEF EditProperty, Without
  <2>2. m \in Messages /\ m.prop = p /\ m.value = v
    BY <1>2 DEF Messages
  <2> HIDE DEF m
  <2>3. held'[p] = v /\ \A r \in PropertyNames \ {p} : held'[r] = held[r]
    BY <1>1, <1>2
  <2>4. DOMAIN opportunity = OpportunityFields
    BY <1>5 DEF AgreeInv, FormInv, AtAwsInv
  <2>5. Agreeing(opportunity, held, customer, inbox, stale, edited, central)
    BY <1>5 DEF AgreeInv
  <2>6. /\ Waits(p, inbox') /\ \A r : r # p => (Waits(r, inbox') <=> Waits(r, inbox))
        /\ LastIsHeld(inbox', held')
        /\ \A i \in 1..Len(inbox') : inbox'[i].prop \in edited'
        /\ Lasting(inbox') => Lasting(inbox) /\ (p = "lifecycle_stage" => v = ClosedLost)
    <3>1. LastIsHeld(inbox, held) /\ \A i \in 1..Len(inbox) : inbox[i].prop \in edited
      BY <2>5 DEF Agreeing
    <3>2. /\ Waits(m.prop, inbox') /\ \A r : r # m.prop => (Waits(r, inbox') <=> Waits(r, inbox))
          /\ \A i \in 1..Len(inbox') : inbox'[i].prop \in edited \cup {m.prop}
          /\ Lasting(inbox') =>
                Lasting(inbox) /\ (m.prop = "lifecycle_stage" => m.value = ClosedLost)
      BY <1>2, <2>1, <2>2, <3>1, QueueGrows
    <3>3. LastIsHeld(inbox', held')
      <4>1. held' = [held EXCEPT ![m.prop] = m.value]
        BY <1>1, <2>2
      <4>2. LastIsHeld(Append(inbox, m), [held EXCEPT ![m.prop] = m.value])
        BY <1>2, <2>2, <3>1, LastGrows
      <4> QED
        BY <2>1, <4>1, <4>2, Zenon
    <3> QED
      BY <2>1, <2>2, <3>2, <3>3
  <2>7. \A f \in Followers :
          FieldRight(f, opportunity, held', customer, inbox', stale, edited', central')
    <3> SUFFICES ASSUME NEW f \in Followers
                 PROVE  FieldRight(f, opportunity, held', customer, inbox', stale, edited',
                                   central')
      OBVIOUS
    <3>1. FieldRight(f, opportunity, held, customer, inbox, stale, edited, central)
      BY <2>5 DEF Agreeing
    <3>2. f \in DOMAIN central' <=> f \in DOMAIN central /\ Governor[f] # p
      BY <1>2, <2>1, FollowsIs
    <3>3. CASE Governor[f] = p
      BY <2>6, <3>2, <3>3 DEF FieldRight
    <3>4. CASE Governor[f] # p
      <4>1. f \in DOMAIN central => central'[f] = central[f]
        BY <2>1, <3>2, <3>4
      <4>2. Governor[f] # "nothing" => held[Governor[f]] = held'[Governor[f]]
        BY <2>3, <3>4, Governors
      <4>3. Governor[f] \in edited <=> Governor[f] \in edited'
        BY <2>1, <3>4
      <4>4. Right(f, opportunity, held, customer, edited, central) =>
            Right(f, opportunity, held', customer, edited', central')
        BY <3>2, <3>4, <4>1, <4>2, <4>3, RightStays
      <4>5. Waits(Governor[f], inbox') <=> Waits(Governor[f], inbox)
        BY <2>6, <3>4
      <4> QED
        BY <3>1, <3>2, <3>4, <4>4, <4>5 DEF FieldRight
    <3> QED
      BY <3>3, <3>4
  <2>8. /\ "Stage" \in DOMAIN central' <=> "Stage" \in DOMAIN central /\ p # "lifecycle_stage"
        /\ "Stage" \in DOMAIN central' => central'.Stage = central.Stage
    BY <1>2, <2>1, FollowsIs
  <2>9. /\ "ClosedLostReason" \in DOMAIN central' <=>
             /\ "ClosedLostReason" \in DOMAIN central /\ p # "closed_lost_reason"
             /\ p = "lifecycle_stage" => v = ClosedLost /\ opportunity.ClosedLostReason # Unset
        /\ "ClosedLostReason" \in DOMAIN central' =>
             central'.ClosedLostReason = central.ClosedLostReason
    BY <1>2, <2>1, FollowsIs
  <2>10. /\ p # "lifecycle_stage" => held'.lifecycle_stage = held.lifecycle_stage
         /\ p # "closed_lost_reason" => held'.closed_lost_reason = held.closed_lost_reason
    BY <2>3 DEF PropertyNames
  <2>11. StageSet(opportunity, held', inbox', central')
    BY <2>5, <2>6, <2>8, <2>10 DEF Agreeing, StageSet
  <2>12. StageRight(opportunity, held', inbox', stale, edited', central')
    <3> SUFFICES ASSUME "Stage" \notin DOMAIN central', ~Waits("lifecycle_stage", inbox'),
                        held'.lifecycle_stage = ClosedLost =>
                           /\ held'.closed_lost_reason # Unset
                           /\ ~Waits("closed_lost_reason", inbox')
                 PROVE  opportunity.Stage = StageAsked(held', edited', stale)
      BY DEF StageRight
    <3>1. p # "lifecycle_stage"
      BY <2>6
    <3>2. held'.lifecycle_stage = ClosedLost => p # "closed_lost_reason"
      BY <2>6
    <3>3. opportunity.Stage = StageAsked(held, edited, stale)
      BY <2>5, <2>6, <2>8, <2>10, <3>1, <3>2 DEF Agreeing, StageRight
    <3> QED
      BY <2>1, <2>10, <3>1, <3>2, <3>3 DEF StageAsked
  <2>13. ReasonSet(opportunity, held', inbox', central')
    <3> SUFFICES ASSUME "ClosedLostReason" \in DOMAIN central'
                 PROVE  /\ ~Waits("lifecycle_stage", inbox') /\ ~Waits("closed_lost_reason", inbox')
                        /\ opportunity.ClosedLostReason = central'.ClosedLostReason
                        /\ held'.lifecycle_stage # ClosedLost =>
                              opportunity.ClosedLostReason = Unset
      BY DEF ReasonSet
    <3>1. ReasonSet(opportunity, held, inbox, central)
      BY <2>5 DEF Agreeing
    <3>2. p # "lifecycle_stage"
      BY <1>1, <2>9, <3>1 DEF ReasonSet
    <3> QED
      BY <2>6, <2>9, <2>10, <3>1, <3>2 DEF ReasonSet
  <2>14. ReasonRight(opportunity, held', inbox', central')
    <3> SUFFICES ASSUME "ClosedLostReason" \notin DOMAIN central', opportunity.Stage = ClosedLost,
                        ~Waits("closed_lost_reason", inbox'), Lasting(inbox')
                 PROVE  opportunity.ClosedLostReason = held'.closed_lost_reason
      BY DEF ReasonRight
    <3>1. opportunity.ClosedLostReason # Unset
      BY <2>4, <2>5, PairedAtAws DEF Agreeing, Paired
    <3>2. p # "closed_lost_reason" /\ (p = "lifecycle_stage" => v = ClosedLost)
      BY <2>6
    <3>3. "ClosedLostReason" \notin DOMAIN central
      BY <2>9, <3>1, <3>2
    <3> QED
      BY <2>5, <2>6, <2>10, <3>2, <3>3 DEF Agreeing, ReasonRight
  <2>15. Agreeing(opportunity, held', customer, inbox', stale, edited', central')
    BY <2>5, <2>6, <2>7, <2>11, <2>12, <2>13, <2>14 DEF Agreeing
  <2> QED
    BY <1>1, <1>3, <1>5, <2>15 DEF AgreeInv
<1> QED
  BY <1>4, <1>5

-----------------------------------------------------------------------------
(* update_in_ace forwards an edit of property p: queue q becomes q2, the    *)
(* refused edits s become s2, and what AWS has, o, becomes o2.              *)

\* A field that p does not govern stays as it was.
LEMMA ForwardOthers ==
    ASSUME NEW f \in Followers, NEW o, NEW o2, NEW d, NEW c, NEW q, NEW q2, NEW s, NEW s2,
           NEW e, NEW k, NEW p, Governor[f] # p,
           \A r : r # p => (Waits(r, q2) <=> Waits(r, q)),
           \A r : r # p => (r \in s2 <=> r \in s),
           \A text : Seen(f, o[f], text) = Seen(f, o2[f], text),
           FieldRight(f, o, d, c, q, s, e, k)
    PROVE  FieldRight(f, o2, d, c, q2, s2, e, k)
<1>1. /\ Waits(Governor[f], q2) <=> Waits(Governor[f], q)
      /\ Governor[f] \in s2 <=> Governor[f] \in s
  OBVIOUS
<1>2. Right(f, o, d, c, e, k) => Right(f, o2, d, c, e, k)
  BY RightStays
<1> QED
  BY <1>1, <1>2 DEF FieldRight

\* One that p governs is what the deal asks, once no edit of p waits and none was refused.
LEMMA ForwardOwn ==
    ASSUME NEW f \in Followers, NEW o, NEW o2, NEW d, NEW c, NEW q, NEW q2, NEW s, NEW s2,
           NEW e, NEW k, Waits(Governor[f], q),
           ~Waits(Governor[f], q2) /\ Governor[f] \notin s2 =>
              Seen(f, o2[f], d.description) = Seen(f, Asked(f, d, c, e), d.description),
           FieldRight(f, o, d, c, q, s, e, k)
    PROVE  FieldRight(f, o2, d, c, q2, s2, e, k)
<1>1. f \notin DOMAIN k
  BY DEF FieldRight
<1> QED
  BY <1>1 DEF FieldRight, Right

\* The stage and the reason are left alone.
LEMMA ForwardAside ==
    ASSUME NEW o, NEW o2, NEW d, NEW c, NEW q, NEW q2, NEW s, NEW s2, NEW e, NEW k, NEW p,
           p \notin {"lifecycle_stage", "closed_lost_reason"},
           \A r : r # p => (Waits(r, q2) <=> Waits(r, q)),
           \A r : r # p => (r \in s2 <=> r \in s),
           Lasting(q2) => Lasting(q),
           o2.Stage = o.Stage, o2.ClosedLostReason = o.ClosedLostReason,
           Agreeing(o, d, c, q, s, e, k)
    PROVE  /\ StageSet(o2, d, q2, k) /\ StageRight(o2, d, q2, s2, e, k)
           /\ ReasonSet(o2, d, q2, k) /\ ReasonRight(o2, d, q2, k)
<1>1. /\ Waits("lifecycle_stage", q2) <=> Waits("lifecycle_stage", q)
      /\ Waits("closed_lost_reason", q2) <=> Waits("closed_lost_reason", q)
      /\ "closed_lost_reason" \in s2 <=> "closed_lost_reason" \in s
  OBVIOUS
<1>2. StageAsked(d, e, s2) = StageAsked(d, e, s)
  BY <1>1 DEF StageAsked
<1>3. StageSet(o2, d, q2, k)
  BY <1>1 DEF Agreeing, StageSet
<1>4. StageRight(o2, d, q2, s2, e, k)
  BY <1>1, <1>2 DEF Agreeing, StageRight
<1>5. ReasonSet(o2, d, q2, k)
  BY <1>1 DEF Agreeing, ReasonSet
<1>6. ReasonRight(o2, d, q2, k)
  BY <1>1 DEF Agreeing, ReasonRight
<1> QED
  BY <1>3, <1>4, <1>5, <1>6

\* The stage is forwarded: v is taken with the reason of AWS or of the deal, or waits for one.
LEMMA ForwardStage ==
    ASSUME NEW o, NEW o2, NEW d, NEW c, NEW q, NEW q2, NEW s, NEW s2, NEW e, NEW k, NEW v,
           Paired(o), Waits("lifecycle_stage", q), "lifecycle_stage" \in e,
           \A r : r # "lifecycle_stage" => (Waits(r, q2) <=> Waits(r, q)),
           v = ClosedLost => (Lasting(q2) => Lasting(q)),
           ~Waits("lifecycle_stage", q2) => v = d.lifecycle_stage,
           \/ v = ClosedLost /\ d.closed_lost_reason = Unset /\ o2 = o
           \/ /\ o2.Stage = v
              /\ o2.ClosedLostReason =
                    IF v # ClosedLost THEN Unset
                    ELSE IF o.ClosedLostReason # Unset THEN o.ClosedLostReason
                    ELSE d.closed_lost_reason,
           Agreeing(o, d, c, q, s, e, k)
    PROVE  /\ StageSet(o2, d, q2, k) /\ StageRight(o2, d, q2, s2, e, k)
           /\ ReasonSet(o2, d, q2, k) /\ ReasonRight(o2, d, q2, k)
<1>1. "Stage" \notin DOMAIN k /\ "ClosedLostReason" \notin DOMAIN k
  BY DEF Agreeing, StageSet, ReasonSet
<1>2. StageSet(o2, d, q2, k) /\ ReasonSet(o2, d, q2, k)
  BY <1>1 DEF StageSet, ReasonSet
<1>3. StageRight(o2, d, q2, s2, e, k)
  <2>1. StageAsked(d, e, s2) = d.lifecycle_stage
    BY DEF StageAsked
  <2> QED
    BY <2>1 DEF StageRight
<1>4. ReasonRight(o2, d, q2, k)
  <2> SUFFICES ASSUME o2.Stage = ClosedLost, ~Waits("closed_lost_reason", q2), Lasting(q2)
               PROVE  o2.ClosedLostReason = d.closed_lost_reason
    BY DEF ReasonRight
  <2>1. v = ClosedLost
    OBVIOUS
  <2>2. ~Waits("closed_lost_reason", q) /\ Lasting(q)
    BY <2>1
  <2>3. o.Stage = ClosedLost => o.ClosedLostReason = d.closed_lost_reason
    BY <1>1, <2>2 DEF Agreeing, ReasonRight
  <2> QED
    BY <2>1, <2>3 DEF Paired
<1> QED
  BY <1>2, <1>3, <1>4

\* The reason is forwarded: v is taken, with the stage of AWS or of the deal, or dropped.
LEMMA ForwardReason ==
    ASSUME NEW o, NEW o2, NEW d, NEW c, NEW q, NEW q2, NEW s, NEW s2, NEW e, NEW k, NEW v,
           Waits("closed_lost_reason", q), "closed_lost_reason" \in e \ s2,
           \A r : r # "closed_lost_reason" => (Waits(r, q2) <=> Waits(r, q)),
           ~Waits("closed_lost_reason", q2) => v = d.closed_lost_reason,
           o2.Stage = IF d.lifecycle_stage = ClosedLost THEN ClosedLost ELSE o.Stage,
           o2.Stage = ClosedLost => o2.ClosedLostReason = v,
           Agreeing(o, d, c, q, s, e, k)
    PROVE  /\ StageSet(o2, d, q2, k) /\ StageRight(o2, d, q2, s2, e, k)
           /\ ReasonSet(o2, d, q2, k) /\ ReasonRight(o2, d, q2, k)
<1>1. /\ Waits("lifecycle_stage", q2) <=> Waits("lifecycle_stage", q)
      /\ "ClosedLostReason" \notin DOMAIN k
  BY DEF Agreeing, ReasonSet
<1>2. StageSet(o2, d, q2, k)
  BY <1>1 DEF Agreeing, StageSet
<1>3. StageRight(o2, d, q2, s2, e, k)
  <2> SUFFICES ASSUME "Stage" \notin DOMAIN k, ~Waits("lifecycle_stage", q2)
               PROVE  o2.Stage = StageAsked(d, e, s2)
    BY DEF StageRight
  <2>1. CASE d.lifecycle_stage = ClosedLost
    BY <2>1 DEF StageAsked
  <2>2. CASE d.lifecycle_stage # ClosedLost
    <3>1. o.Stage = StageAsked(d, e, s)
      BY <1>1, <2>2 DEF Agreeing, StageRight
    <3> QED
      BY <2>2, <3>1 DEF StageAsked
  <2> QED
    BY <2>1, <2>2
<1>4. ReasonSet(o2, d, q2, k)
  BY <1>1 DEF ReasonSet
<1>5. ReasonRight(o2, d, q2, k)
  BY DEF ReasonRight
<1> QED
  BY <1>2, <1>3, <1>4, <1>5

\* What update_in_ace does, but for the rules broken.
Forwarded(p, v, o, body, a, b, s, t) ==
    \/ LeftOut(p, v, o) /\ t = s \cup {p} /\ b = a
    \/ /\ ~LeftOut(p, v, o)
       /\ b = IF Broken(body) = {} THEN body ELSE a
       /\ t \in {s \ {p}, s \cup {p}}
       /\ Broken(body) = {} => t = s \ {p}
       /\ Broken(body) \ {"pair"} # {} => t = s \cup {p}

\* Any other property than the stage and the reason.
LEMMA BodyAside ==
    ASSUME NEW p \in PropertyNames, p \notin {"lifecycle_stage", "closed_lost_reason"}, NEW v,
           NEW a, DOMAIN a = OpportunityFields, NEW o, o = Scrub(a), Broken(o) = {}, NEW d,
           NEW body, body = PairedUp(Written(p, v, o) ++ o, d)
    PROVE  /\ DOMAIN body = OpportunityFields
           /\ body.Stage = a.Stage /\ body.ClosedLostReason = a.ClosedLostReason
           /\ "pair" \notin Broken(body)
           /\ \A f \in DOMAIN Written(p, v, o) : body[f] = Written(p, v, o)[f]
           /\ \A f \in OpportunityFields \ DOMAIN Written(p, v, o) : body[f] = o[f]
<1>1. PICK w : w = Written(p, v, o)
  OBVIOUS
<1>2. PICK b : b = w ++ o
  OBVIOUS
<1>3. /\ DOMAIN o = OpportunityFields /\ o.Stage = a.Stage
      /\ o.ClosedLostReason = a.ClosedLostReason
  BY DEF Scrub, OpportunityFields
<1>4. /\ DOMAIN w = About[p] /\ About[p] \subseteq OpportunityFields
      /\ "Stage" \notin About[p] /\ "ClosedLostReason" \notin About[p]
  BY <1>1, WrittenIs, AboutFollowers
<1>5. /\ DOMAIN b = DOMAIN w \cup DOMAIN o
      /\ \A f \in DOMAIN w : b[f] = w[f]
      /\ \A f \in DOMAIN o : f \notin DOMAIN w => b[f] = o[f]
  BY ONLY <1>2 DEF ++
<1>6. b.Stage = o.Stage /\ b.ClosedLostReason = o.ClosedLostReason
  BY <1>3, <1>4, <1>5 DEF OpportunityFields
<1>7. Paired(o)
  BY Taken
<1>8. Paired(b)
  BY <1>6, <1>7 DEF Paired
<1>9. body = b
  <2>1. body = PairedUp(b, d)
    BY <1>1, <1>2, Zenon
  <2> QED
    BY <1>8, <2>1 DEF PairedUp, Paired
<1>10. "pair" \notin Broken(body)
  BY <1>8, <1>9, Zenon DEF Broken, Rules, Paired
<1> QED
  BY <1>1, <1>3, <1>4, <1>5, <1>6, <1>9, <1>10

\* The edit is accepted.
LEMMA FieldsAside ==
    ASSUME NEW p \in PropertyNames, p \notin {"lifecycle_stage", "closed_lost_reason"}, NEW v,
           NEW a, DOMAIN a = OpportunityFields, NEW o, o = Scrub(a), Broken(o) = {},
           NEW d, NEW c, NEW q, NEW q2, NEW s, NEW s2, NEW e, NEW k, p \in e, v # Unset,
           NEW body, body = PairedUp(Written(p, v, o) ++ o, d), Broken(body) = {},
           Waits(p, q), ~Waits(p, q2) => v = d[p],
           \A r : r # p => (Waits(r, q2) <=> Waits(r, q)),
           \A r : r # p => (r \in s2 <=> r \in s),
           Agreeing(a, d, c, q, s, e, k), NEW f \in Followers
    PROVE  FieldRight(f, body, d, c, q2, s2, e, k)
<1>1. PICK w : w = Written(p, v, o)
  OBVIOUS
<1>2. /\ \A g \in DOMAIN w : body[g] = w[g]
      /\ \A g \in OpportunityFields \ DOMAIN w : body[g] = o[g]
  BY <1>1, BodyAside
<1>3. DOMAIN w = About[p] /\ f \in OpportunityFields
  BY <1>1, WrittenIs, Governors
<1>4. FieldRight(f, a, d, c, q, s, e, k)
  BY DEF Agreeing
<1>5. \A text : Seen(f, o[f], text) = Seen(f, a[f], text)
  BY ScrubSeen
<1>6. CASE Governor[f] # p
  <2>1. body[f] = o[f]
    <3>1. CASE f \notin About[p]
      BY <1>2, <1>3, <3>1
    <3>2. CASE f \in About[p]
      <4>1. f = "Source" /\ p = "marketing_campaign"
        BY <1>6, <3>2, AboutFollowers
      <4>2. w = Marketed(o.Source, v)
        BY <1>1, <4>1, WrittenIs
      <4>3. w.Source = o.Source
        <5>1. o.Source \in {"None", Activity}
          BY Taken
        <5> QED
          BY <4>2, <5>1 DEF Marketed
      <4> QED
        BY <1>2, <1>3, <3>2, <4>1, <4>3
    <3> QED
      BY <3>1, <3>2
  <2>2. \A text : Seen(f, a[f], text) = Seen(f, body[f], text)
    BY <1>5, <2>1
  <2> QED
    BY <1>4, <1>6, <2>2, ForwardOthers
<1>7. CASE Governor[f] = p
  <2>1. ASSUME v = d[p]
        PROVE  Seen(f, body[f], d.description) = Seen(f, Asked(f, d, c, e), d.description)
    <3>1. p # "nothing"
      BY DEF PropertyNames
    <3>2. f = "AwsAccountId" \/ f \in About[p]
      BY <1>7, <3>1, AboutFollowers
    <3>3. CASE f \in {"AwsAccountId", "CustomerAwsAccountId"}
      <4>1. p = "aws_account_id"
        BY <1>7, <3>3 DEF Governor
      <4>2. p \in DOMAIN TextOf /\ TextOf[p] = "CustomerAwsAccountId"
        BY <4>1, TextFields
      <4>3. w = Field(TextOf[p], v)
        BY <1>1, <4>2, WrittenIs
      <4>4. w = Field("CustomerAwsAccountId", v)
        BY <4>2, <4>3, Zenon
      <4>5. DOMAIN w = {"CustomerAwsAccountId"} /\ w.CustomerAwsAccountId = v
        BY <4>4, OneField
      <4>6. body.CustomerAwsAccountId = v
        BY <1>2, <4>5
      <4> QED
        BY <4>6, Taken
    <3>4. CASE f = "Needs"
      <4>1. p = "partner_need"
        BY <1>7, <3>4 DEF Governor
      <4>2. p \in DOMAIN ChoiceOf /\ ChoiceOf[p] = "Needs"
        BY <4>1, ChoiceFields
      <4>3. w = Field(ChoiceOf[p], v)
        BY <1>1, <4>2, WrittenIs
      <4>4. w = Field("Needs", v)
        BY <4>2, <4>3, Zenon
      <4>5. DOMAIN w = {"Needs"} /\ w.Needs = v
        BY <4>4, OneField
      <4>6. body.Needs = v
        BY <1>2, <4>5
      <4>7. WireNeed(v) = v
        BY <4>6, Taken, NamesStay
      <4>8. PICK b : b = CreatedFrom(d, c)
        OBVIOUS
      <4>9. b.Needs = WireNeed(d.partner_need)
        BY <4>8, CreatedValues
      <4>10. Asked(f, d, c, e) = b[f]
        BY <3>4, <4>8 DEF Asked
      <4> QED
        BY <2>1, <3>4, <4>1, <4>6, <4>7, <4>9, <4>10
    <3>5. CASE f \notin {"AwsAccountId", "CustomerAwsAccountId", "Needs"}
      <4>1. p = "use_case" => v \in UseCases
        <5> SUFFICES ASSUME p = "use_case" PROVE v \in UseCases
          OBVIOUS
        <5>1. p \in DOMAIN TextOf /\ TextOf[p] = "UseCase"
          BY TextFields
        <5>2. w = Field(TextOf[p], v)
          BY <1>1, <5>1, WrittenIs
        <5>3. w = Field("UseCase", v)
          BY <5>1, <5>2, Zenon
        <5>4. DOMAIN w = {"UseCase"} /\ w.UseCase = v
          BY <5>3, OneField
        <5>5. body.UseCase = v
          BY <1>2, <5>4
        <5> QED
          BY <5>5, Taken
      <4>2. /\ f \in DOMAIN w
            /\ Seen(f, w[f], d.description) = Seen(f, Asked(f, d, c, e), d.description)
        BY <1>1, <1>7, <2>1, <3>5, <4>1, WrittenRight
      <4> QED
        BY <1>2, <4>2
    <3> QED
      BY <3>3, <3>4, <3>5
  <2> QED
    BY <1>4, <1>7, <2>1, ForwardOwn
<1> QED
  BY <1>6, <1>7

\* What of a body with stage v goes to AWS, which has a; o is a scrubbed, d the deal.
WithStage(body, v, a, o, d) ==
    /\ DOMAIN body = OpportunityFields /\ body.Stage = v
    /\ \A f \in OpportunityFields \ {"Stage", "ClosedLostReason"} : body[f] = o[f]
    /\ body.ClosedLostReason =
         IF v # ClosedLost THEN Unset
         ELSE IF a.ClosedLostReason # Unset THEN a.ClosedLostReason
         ELSE d.closed_lost_reason
    /\ (v = ClosedLost /\ d.closed_lost_reason = Unset) \/ Broken(body) = {}

\* And of a body with the reason v.
WithReason(body, v, a, o, d) ==
    /\ DOMAIN body = OpportunityFields /\ Broken(body) = {}
    /\ \A f \in OpportunityFields \ {"Stage", "ClosedLostReason"} : body[f] = o[f]
    /\ body.Stage = IF d.lifecycle_stage = ClosedLost THEN ClosedLost ELSE a.Stage
    /\ body.Stage = ClosedLost => body.ClosedLostReason = v

\* The stage, with the reason that AWS has of it, or the deal.
LEMMA BodyStage ==
    ASSUME NEW v, v # Unset, NEW a, DOMAIN a = OpportunityFields, NEW o, o = Scrub(a),
           Broken(o) = {}, NEW d, NEW w, w = Written("lifecycle_stage", v, o), NEW b, b = w ++ o,
           NEW body, body = PairedUp(b, d)
    PROVE  WithStage(body, v, a, o, d)
<1>3. /\ DOMAIN o = OpportunityFields /\ o.ClosedLostReason = a.ClosedLostReason
  BY DEF Scrub, OpportunityFields
<1>4. w = Staged(v, o)
  <2>1. "lifecycle_stage" \in PropertyNames
    BY DEF PropertyNames
  <2> QED
    BY <2>1, WrittenIs
<1>5. /\ DOMAIN w = {"Stage", "ClosedLostReason"} /\ w.Stage = v
      /\ w.ClosedLostReason = IF v = ClosedLost THEN o.ClosedLostReason ELSE Unset
  BY <1>4 DEF Staged
<1>6. /\ DOMAIN b = DOMAIN w \cup DOMAIN o
      /\ \A f \in DOMAIN w : b[f] = w[f]
      /\ \A f \in DOMAIN o : f \notin DOMAIN w => b[f] = o[f]
  BY DEF ++
<1>7. /\ DOMAIN b = OpportunityFields
      /\ b.Stage = v /\ b.ClosedLostReason = IF v = ClosedLost THEN a.ClosedLostReason ELSE Unset
      /\ \A f \in OpportunityFields \ {"Stage", "ClosedLostReason"} : b[f] = o[f]
  BY <1>3, <1>5, <1>6 DEF OpportunityFields
<1>9. body = IF v = ClosedLost /\ a.ClosedLostReason = Unset
             THEN [b EXCEPT !.ClosedLostReason = d.closed_lost_reason] ELSE b
  BY <1>7 DEF PairedUp
<1>10. /\ DOMAIN body = OpportunityFields /\ body.Stage = v
       /\ \A f \in OpportunityFields \ {"Stage", "ClosedLostReason"} : body[f] = o[f]
       /\ body.ClosedLostReason =
             IF v # ClosedLost THEN Unset
             ELSE IF a.ClosedLostReason # Unset THEN a.ClosedLostReason
             ELSE d.closed_lost_reason
  BY <1>7, <1>9 DEF OpportunityFields
<1>11. ASSUME ~(v = ClosedLost /\ d.closed_lost_reason = Unset) PROVE Broken(body) = {}
  <2>1. Paired(body)
    BY <1>10, <1>11 DEF Paired
  <2> QED
    BY <1>3, <1>10, <2>1, OtherStage
<1> QED
  BY <1>10, <1>11 DEF WithStage

\* The reason, with the stage that AWS has of it, or the deal.
LEMMA BodyReason ==
    ASSUME NEW v, v # Unset, NEW a, DOMAIN a = OpportunityFields, NEW o, o = Scrub(a),
           Broken(o) = {}, NEW d, NEW w, w = Written("closed_lost_reason", v, o), NEW b, b = w ++ o,
           NEW body, body = PairedUp(b, d)
    PROVE  WithReason(body, v, a, o, d)
<1>3. DOMAIN o = OpportunityFields /\ o.Stage = a.Stage
  BY DEF Scrub, OpportunityFields
<1>4. DOMAIN w = {"ClosedLostReason"} /\ w.ClosedLostReason = v
  <2>1. /\ "closed_lost_reason" \in PropertyNames /\ "closed_lost_reason" \in DOMAIN ChoiceOf
        /\ ChoiceOf["closed_lost_reason"] = "ClosedLostReason"
    BY ChoiceFields DEF PropertyNames
  <2>2. w = Field(ChoiceOf["closed_lost_reason"], v)
    BY <2>1, WrittenIs
  <2>3. w = Field("ClosedLostReason", v)
    BY <2>1, <2>2, Zenon
  <2> QED
    BY <2>3, OneField
<1>5. /\ DOMAIN b = DOMAIN w \cup DOMAIN o
      /\ \A f \in DOMAIN w : b[f] = w[f]
      /\ \A f \in DOMAIN o : f \notin DOMAIN w => b[f] = o[f]
  BY DEF ++
<1>6. /\ DOMAIN b = OpportunityFields /\ b.Stage = a.Stage /\ b.ClosedLostReason = v
      /\ \A f \in OpportunityFields \ {"Stage", "ClosedLostReason"} : b[f] = o[f]
  BY <1>3, <1>4, <1>5 DEF OpportunityFields
<1>8. body = IF a.Stage = ClosedLost THEN b
             ELSE IF d.lifecycle_stage = ClosedLost THEN [b EXCEPT !.Stage = ClosedLost]
             ELSE [b EXCEPT !.ClosedLostReason = Unset]
  BY <1>6 DEF PairedUp
<1>9. /\ DOMAIN body = OpportunityFields
      /\ \A f \in OpportunityFields \ {"Stage", "ClosedLostReason"} : body[f] = o[f]
      /\ body.Stage = IF d.lifecycle_stage = ClosedLost THEN ClosedLost ELSE a.Stage
      /\ body.ClosedLostReason = IF body.Stage = ClosedLost THEN v ELSE Unset
  BY <1>6, <1>8 DEF OpportunityFields
<1>10. Paired(body)
  BY <1>9 DEF Paired
<1>11. Broken(body) = {}
  BY <1>3, <1>9, <1>10, OtherStage
<1> QED
  BY <1>9, <1>11 DEF WithReason

\* Forwarding an edit.
LEMMA AgreeForward == ASSUME AgreeInv, NEW i \in 1..Len(inbox), Forward(i) PROVE AgreeInv'
<1>1. PICK p : p = inbox[i].prop
  OBVIOUS
<1>2. PICK v : v = IF p \in Refetched /\ held[p] # Unset THEN held[p] ELSE inbox[i].value
  OBVIOUS
<1>3. PICK o : o = Scrub(opportunity)
  OBVIOUS
<1>4. PICK body : body = PairedUp(Written(p, v, o) ++ o, held)
  OBVIOUS
<1>5. PICK q2 : q2 = inbox'
  OBVIOUS
<1>6. PICK s2 : s2 = stale'
  OBVIOUS
<1>7. PICK o2 : o2 = opportunity'
  OBVIOUS
<1>8. /\ \A j \in 1..(i - 1) : inbox[j].prop # p
      /\ q2 = RemoveAt(inbox, i) /\ UNCHANGED <<held, customer, edited, central>>
      /\ Forwarded(p, v, o, body, opportunity, o2, stale, s2)
  BY <1>1, <1>2, <1>3, <1>4, <1>5, <1>6, <1>7 DEF Forward, Forwarded
<1>9. FormInv' /\ inbox \in Seq(Messages)
  BY FormForward DEF AgreeInv, FormInv
<1>10. p \in PropertyNames /\ inbox[i].value \in Options[p] /\ inbox # <<>>
  <2>1. inbox[i] \in Messages
    BY <1>9, ElementOfSeq
  <2>2. ~(i \in 1..0) /\ Len(<<>>) = 0
    BY SMT
  <2> QED
    BY <1>1, <2>1, <2>2 DEF Messages
<1>11. /\ opportunity # <<>> /\ DOMAIN opportunity = OpportunityFields
       /\ Agreeing(opportunity, held, customer, inbox, stale, edited, central)
  BY <1>10 DEF AgreeInv, FormInv, AtAwsInv
<1>12. Broken(o) = {} /\ p \in edited /\ LastIsHeld(inbox, held)
  BY <1>1, <1>3, <1>11 DEF Agreeing
<1>13. /\ Waits(p, inbox) /\ \A r : r # p => (Waits(r, q2) <=> Waits(r, inbox))
       /\ \A j \in 1..Len(q2) : \E m \in 1..Len(inbox) : q2[j] = inbox[m]
       /\ LastIsHeld(q2, held)
       /\ ~Waits(p, q2) => inbox[i].value = held[p]
       /\ (p = "lifecycle_stage" => inbox[i].value = ClosedLost) => (Lasting(q2) => Lasting(inbox))
  BY <1>1, <1>8, <1>9, <1>12, QueueShrinks
<1>14. ~Waits(p, q2) => v = held[p]
  BY <1>2, <1>13
<1>15. \A j \in 1..Len(q2) : q2[j].prop \in edited
  BY <1>11, <1>13 DEF Agreeing
<1>16. \A r : r # p => (r \in s2 <=> r \in stale)
  BY <1>8 DEF Forwarded
<1>17. \A f \in Followers :
         FieldRight(f, opportunity, held, customer, inbox, stale, edited, central)
  BY <1>11 DEF Agreeing
<1>18. p \in {"lifecycle_stage", "closed_lost_reason"} =>
          v = inbox[i].value /\ v # Unset /\ ~LeftOut(p, v, o)
  BY <1>2, <1>10, Offers, FormAssumption DEF Refetched, Clearable, LeftOut
<1> SUFFICES /\ DOMAIN o2 = OpportunityFields
             /\ Agreeing(o2, held, customer, q2, s2, edited, central)
  <2>1. \A x : DOMAIN x = OpportunityFields => x # <<>>
    BY DEF OpportunityFields
  <2> QED
    BY <1>5, <1>6, <1>7, <1>8, <1>9, <2>1 DEF AgreeInv
<1>19. CASE p \notin {"lifecycle_stage", "closed_lost_reason"} /\ o2 = opportunity /\ p \in s2
  <2>1. \A f \in Followers : FieldRight(f, o2, held, customer, q2, s2, edited, central)
    <3> TAKE f \in Followers
    <3>1. CASE Governor[f] = p
      BY <1>13, <1>17, <1>19, <3>1, ForwardOwn
    <3>2. CASE Governor[f] # p
      BY <1>13, <1>16, <1>17, <1>19, <3>2, ForwardOthers
    <3> QED
      BY <3>1, <3>2
  <2>2. /\ StageSet(o2, held, q2, central) /\ StageRight(o2, held, q2, s2, edited, central)
        /\ ReasonSet(o2, held, q2, central) /\ ReasonRight(o2, held, q2, central)
    BY <1>11, <1>13, <1>16, <1>19, ForwardAside
  <2> QED
    BY <1>11, <1>13, <1>15, <1>19, <2>1, <2>2 DEF Agreeing
<1>20. CASE /\ p \notin {"lifecycle_stage", "closed_lost_reason"} /\ v # Unset
            /\ o2 = body /\ Broken(body) = {}
  <2>1. DOMAIN body = OpportunityFields
    BY <1>3, <1>4, <1>10, <1>11, <1>12, <1>20, BodyAside
  <2>2. Broken(Scrub(o2)) = {}
    BY <1>20, <2>1, TakenAgain
  <2>3. \A f \in Followers : FieldRight(f, o2, held, customer, q2, s2, edited, central)
    BY <1>3, <1>4, <1>10, <1>11, <1>12, <1>13, <1>14, <1>16, <1>20, FieldsAside
  <2>4. body.Stage = opportunity.Stage /\ body.ClosedLostReason = opportunity.ClosedLostReason
    BY <1>3, <1>4, <1>10, <1>11, <1>12, <1>20, BodyAside
  <2>5. /\ StageSet(o2, held, q2, central) /\ StageRight(o2, held, q2, s2, edited, central)
        /\ ReasonSet(o2, held, q2, central) /\ ReasonRight(o2, held, q2, central)
    BY <1>11, <1>13, <1>16, <1>20, <2>4, ForwardAside
  <2> QED
    BY <1>13, <1>15, <1>20, <2>1, <2>2, <2>3, <2>5 DEF Agreeing
<1>21. CASE p = "lifecycle_stage"
  <2> DEFINE w == Written(p, v, o)
             b == w ++ o
  <2>1. w = Written("lifecycle_stage", v, o) /\ b = w ++ o /\ body = PairedUp(b, held)
    BY <1>4, <1>21, Zenon
  <2>2. WithStage(body, v, opportunity, o, held)
    <3> HIDE DEF w, b
    <3>1. v # Unset /\ DOMAIN opportunity = OpportunityFields
      BY <1>11, <1>18, <1>21
    <3> QED
      BY <1>3, <1>12, <2>1, <3>1, BodyStage
  <2>3. \/ o2 = opportunity /\ v = ClosedLost /\ held.closed_lost_reason = Unset
        \/ o2 = body /\ Broken(body) = {}
    BY <1>8, <1>18, <1>21, <2>2 DEF Forwarded, WithStage
  <2>4. Broken(Scrub(o2)) = {}
    BY <1>3, <1>12, <2>2, <2>3, TakenAgain DEF WithStage
  <2>5. \A f \in Followers : FieldRight(f, o2, held, customer, q2, s2, edited, central)
    <3> TAKE f \in Followers
    <3>1. Governor[f] # p /\ f \in OpportunityFields \ {"Stage", "ClosedLostReason"}
      BY <1>21, Governors DEF Followers
    <3>2. \A text : Seen(f, opportunity[f], text) = Seen(f, o2[f], text)
      BY <1>3, <1>11, <2>2, <2>3, <3>1, ScrubSeen DEF WithStage
    <3> QED
      BY <1>13, <1>16, <1>17, <3>1, <3>2, ForwardOthers
  <2>6. Paired(opportunity)
    BY <1>3, <1>11, <1>12, PairedAtAws
  <2>7. /\ StageSet(o2, held, q2, central) /\ StageRight(o2, held, q2, s2, edited, central)
        /\ ReasonSet(o2, held, q2, central) /\ ReasonRight(o2, held, q2, central)
    BY <1>11, <1>12, <1>13, <1>14, <1>18, <1>21, <2>2, <2>3, <2>6, ForwardStage DEF WithStage
  <2> QED
    BY <1>11, <1>13, <1>15, <2>2, <2>3, <2>4, <2>5, <2>7 DEF Agreeing, WithStage
<1>22. CASE p = "closed_lost_reason"
  <2> DEFINE w == Written(p, v, o)
             b == w ++ o
  <2>1. w = Written("closed_lost_reason", v, o) /\ b = w ++ o /\ body = PairedUp(b, held)
    BY <1>4, <1>22, Zenon
  <2>2. WithReason(body, v, opportunity, o, held)
    <3> HIDE DEF w, b
    <3>1. v # Unset /\ DOMAIN opportunity = OpportunityFields
      BY <1>11, <1>18, <1>22
    <3> QED
      BY <1>3, <1>12, <2>1, <3>1, BodyReason
  <2>3. o2 = body /\ s2 = stale \ {p}
    BY <1>8, <1>18, <1>22, <2>2 DEF Forwarded, WithReason
  <2>4. Broken(Scrub(o2)) = {}
    BY <2>2, <2>3, TakenAgain DEF WithReason
  <2>5. \A f \in Followers : FieldRight(f, o2, held, customer, q2, s2, edited, central)
    <3> TAKE f \in Followers
    <3>1. Governor[f] # p /\ f \in OpportunityFields \ {"Stage", "ClosedLostReason"}
      BY <1>22, Governors DEF Followers
    <3>2. \A text : Seen(f, opportunity[f], text) = Seen(f, o2[f], text)
      BY <1>3, <1>11, <2>2, <2>3, <3>1, ScrubSeen DEF WithReason
    <3> QED
      BY <1>13, <1>16, <1>17, <3>1, <3>2, ForwardOthers
  <2>6. /\ StageSet(o2, held, q2, central) /\ StageRight(o2, held, q2, s2, edited, central)
        /\ ReasonSet(o2, held, q2, central) /\ ReasonRight(o2, held, q2, central)
    BY <1>11, <1>12, <1>13, <1>14, <1>22, <2>2, <2>3, ForwardReason DEF WithReason
  <2> QED
    BY <1>13, <1>15, <2>2, <2>3, <2>4, <2>5, <2>6 DEF Agreeing, WithReason
<1>23. CASE /\ p \notin {"lifecycle_stage", "closed_lost_reason"}
            /\ ~(o2 = opportunity /\ p \in s2) /\ ~(v # Unset /\ o2 = body /\ Broken(body) = {})
  <2>1. "pair" \notin Broken(body)
    BY <1>3, <1>4, <1>10, <1>11, <1>12, <1>23, BodyAside
  <2>2. LeftOut(p, v, o) \/ v # Unset
    BY DEF LeftOut
  <2> QED
    BY <1>8, <1>23, <2>1, <2>2 DEF Forwarded
<1> QED
  BY <1>19, <1>20, <1>21, <1>22, <1>23

\* The fields of the card's body.
LEMMA CardFields ==
    ASSUME NEW o, DOMAIN o = OpportunityFields, NEW form, DOMAIN form.props \subseteq PropertyNames,
           NEW body, body = Overlay(o, form)
    PROVE  /\ DOMAIN body = OpportunityFields /\ body.Stage = form.stage
           /\ body.ClosedLostReason = IF form.stage = ClosedLost THEN form.reason ELSE Unset
           /\ \A f \in OpportunityFields \ {"Stage", "ClosedLostReason", "Source", "Campaign"} :
                 \/ /\ body[f] = o[f]
                    /\ \A p \in DOMAIN form.props : f \notin DOMAIN FormFields(p, form.props[p], o)
                 \/ \E p \in DOMAIN form.props : /\ f \in DOMAIN FormFields(p, form.props[p], o)
                                                 /\ body[f] = FormFields(p, form.props[p], o)[f]
           /\ {"marketing_source", "marketing_campaign"} \cap DOMAIN form.props = {} =>
                 body.Source = o.Source /\ body.Campaign = o.Campaign
           /\ {"marketing_source", "marketing_campaign"} \cap DOMAIN form.props # {} =>
                 /\ body.Source = IF /\ "marketing_source" \in DOMAIN form.props
                                     /\ form.props.marketing_source = Activity
                                  THEN Activity ELSE Unset
                 /\ body.Campaign # Unset => body.Source = Activity
<1> DEFINE F(p)   == FormFields(p, form.props[p], o)
           by(f)  == {p \in DOMAIN form.props : f \in DOMAIN F(p)}
           laid   == [f \in DOMAIN o |->
                        IF by(f) = {} THEN o[f] ELSE LET p == CHOOSE p \in by(f) : TRUE IN F(p)[f]]
           stage  == [Stage |-> form.stage,
                      ClosedLostReason |-> IF form.stage = ClosedLost THEN form.reason ELSE Unset]
           market == FormMarketing(form.props)
           half   == stage ++ market
<1>1. body = half ++ laid
  BY DEF Overlay
<1>2. DOMAIN laid = OpportunityFields
  OBVIOUS
<1>3. ASSUME NEW f \in OpportunityFields
      PROVE  \/ laid[f] = o[f] /\ \A p \in DOMAIN form.props : f \notin DOMAIN F(p)
             \/ \E p \in DOMAIN form.props : f \in DOMAIN F(p) /\ laid[f] = F(p)[f]
  <2>1. CASE by(f) = {}
    BY <2>1
  <2>2. CASE by(f) # {}
    <3>1. PICK p : p = CHOOSE q \in by(f) : TRUE
      OBVIOUS
    <3>2. p \in by(f)
      BY <2>2, <3>1
    <3>3. laid[f] = F(p)[f]
      BY <2>2, <3>1
    <3> QED
      BY <3>2, <3>3
  <2> QED
    BY <2>1, <2>2
<1>4. /\ DOMAIN stage = {"Stage", "ClosedLostReason"} /\ stage.Stage = form.stage
      /\ stage.ClosedLostReason = IF form.stage = ClosedLost THEN form.reason ELSE Unset
  OBVIOUS
<1>5. /\ {"marketing_source", "marketing_campaign"} \cap DOMAIN form.props = {} =>
            DOMAIN market = {}
      /\ {"marketing_source", "marketing_campaign"} \cap DOMAIN form.props # {} =>
            /\ DOMAIN market = {"Source", "Campaign"}
            /\ market.Source = IF /\ "marketing_source" \in DOMAIN form.props
                                  /\ form.props.marketing_source = Activity
                               THEN Activity ELSE Unset
            /\ market.Campaign # Unset => market.Source = Activity
  <2>1. CASE {"marketing_source", "marketing_campaign"} \cap DOMAIN form.props = {}
    <3>1. market = <<>>
      BY <2>1 DEF FormMarketing
    <3>2. DOMAIN <<>> = {}
      OBVIOUS
    <3> QED
      BY <2>1, <3>1, <3>2
  <2>2. CASE {"marketing_source", "marketing_campaign"} \cap DOMAIN form.props # {}
    <3> DEFINE given(p) == IF p \in DOMAIN form.props THEN form.props[p] ELSE Unset
    <3>1. market = IF given("marketing_source") = Activity
                   THEN [Source |-> Activity, Campaign |-> given("marketing_campaign")]
                   ELSE [Source |-> Unset, Campaign |-> Unset]
      BY <2>2 DEF FormMarketing
    <3>2. given("marketing_source") = Activity <=>
             "marketing_source" \in DOMAIN form.props /\ form.props.marketing_source = Activity
      <4>1. Unset # Activity
        BY FormAssumption
      <4> QED
        BY <4>1
    <3> HIDE DEF given, market
    <3> QED
      BY <2>2, <3>1, <3>2
  <2> QED
    BY <2>1, <2>2
<1>6. \A p \in DOMAIN form.props \ {"marketing_source", "marketing_campaign"} :
         "Source" \notin DOMAIN F(p) /\ "Campaign" \notin DOMAIN F(p)
  <2> TAKE p \in DOMAIN form.props \ {"marketing_source", "marketing_campaign"}
  <2>1. /\ p = "aws_account_id" => DOMAIN F(p) \subseteq {"AwsAccountId"}
        /\ p = "competitor_name" =>
             DOMAIN F(p) \subseteq {"CompetitorName", "OtherCompetitorNames"}
        /\ p \notin {"aws_account_id", "competitor_name"} => DOMAIN F(p) \subseteq About[p]
    BY FormNames
  <2> HIDE DEF F
  <2>2. "Source" \notin About[p] /\ "Campaign" \notin About[p]
    BY DEF About, PropertyNames
  <2> QED
    BY <2>1, <2>2
<1> HIDE DEF F, by, laid, stage, market
<1>7. /\ DOMAIN half = DOMAIN stage \cup DOMAIN market
      /\ \A x \in DOMAIN stage : half[x] = stage[x]
      /\ \A x \in DOMAIN market : x \notin DOMAIN stage => half[x] = market[x]
  BY Fields
<1> HIDE DEF half
<1>8. /\ DOMAIN body = DOMAIN half \cup DOMAIN laid
      /\ \A x \in DOMAIN half : body[x] = half[x]
      /\ \A x \in DOMAIN laid : x \notin DOMAIN half => body[x] = laid[x]
  BY ONLY <1>1 DEF ++
<1>9. DOMAIN market \subseteq {"Source", "Campaign"}
  BY <1>5
<1>10. /\ DOMAIN body = OpportunityFields
       /\ body.Stage = stage.Stage /\ body.ClosedLostReason = stage.ClosedLostReason
       /\ \A f \in OpportunityFields \ {"Stage", "ClosedLostReason", "Source", "Campaign"} :
             body[f] = laid[f]
  BY <1>2, <1>4, <1>7, <1>8, <1>9 DEF OpportunityFields
<1>11. ASSUME {"marketing_source", "marketing_campaign"} \cap DOMAIN form.props = {}
       PROVE  body.Source = o.Source /\ body.Campaign = o.Campaign
  <2>1. body.Source = laid.Source /\ body.Campaign = laid.Campaign
    BY <1>2, <1>4, <1>5, <1>7, <1>8, <1>11 DEF OpportunityFields
  <2> QED
    BY <1>3, <1>6, <1>11, <2>1 DEF OpportunityFields
<1>12. ASSUME {"marketing_source", "marketing_campaign"} \cap DOMAIN form.props # {}
       PROVE  body.Source = market.Source /\ body.Campaign = market.Campaign
  BY <1>4, <1>5, <1>7, <1>8, <1>12
<1>13. \A f \in OpportunityFields \ {"Stage", "ClosedLostReason", "Source", "Campaign"} :
          \/ body[f] = o[f] /\ \A p \in DOMAIN form.props : f \notin DOMAIN F(p)
          \/ \E p \in DOMAIN form.props : f \in DOMAIN F(p) /\ body[f] = F(p)[f]
  BY <1>3, <1>10
<1> QED
  BY <1>4, <1>5, <1>10, <1>11, <1>12, <1>13 DEF F

\* A property that a form leaves to AWS is one without a value, or an amount of nothing a month.
LEMMA FormLeaves ==
    ASSUME NEW p \in PropertyNames, NEW v, NEW o, NEW w, w = FormFields(p, v, o)
    PROVE  DOMAIN w = {} <=> v = Unset \/ (p = "amount" /\ Spend(v) = Unset)
<1>1. CASE v = Unset \/ (p = "amount" /\ Spend(v) = Unset)
  <2>1. w = <<>>
    BY <1>1, Zenon DEF FormFields
  <2>2. DOMAIN <<>> = {}
    OBVIOUS
  <2> QED
    BY <1>1, <2>1, <2>2
<1>2. CASE ~(v = Unset \/ (p = "amount" /\ Spend(v) = Unset))
  <2>1. CASE p = "partner_need"
    <3>1. w = [Needs |-> WireNeed(v)]
      BY <1>2, <2>1 DEF FormFields
    <3> QED
      BY <1>2, <3>1
  <2>2. CASE p = "aws_account_id"
    <3>1. w = [AwsAccountId |-> v]
      BY <1>2, <2>2 DEF FormFields
    <3> QED
      BY <1>2, <3>1
  <2>3. CASE p = "competitor_name"
    <3>1. DOMAIN w = {"CompetitorName", "OtherCompetitorNames"}
      BY <1>2, <2>3 DEF FormFields
    <3> QED
      BY <1>2, <3>1
  <2>4. CASE p \notin {"partner_need", "aws_account_id", "competitor_name"}
    <3>1. w = Written(p, v, o)
      BY <1>2, <2>4, Zenon DEF FormFields
    <3>2. DOMAIN w = About[p]
      BY <3>1, WrittenIs
    <3>3. About[p] # {}
      BY DEF About, PropertyNames
    <3> QED
      BY <1>2, <3>2, <3>3
  <2> QED
    BY <2>1, <2>2, <2>3, <2>4
<1> QED
  BY <1>1, <1>2

\* Only the property that governs a field of the deal's lays it over the opportunity.
LEMMA FormGoverned ==
    ASSUME NEW p \in PropertyNames, NEW v, NEW o, NEW f \in Followers \ {"Source"},
           NEW w, w = FormFields(p, v, o), f \in DOMAIN w
    PROVE  Governor[f] = p /\ f # "CustomerAwsAccountId"
<1>1. /\ p = "aws_account_id" => DOMAIN w \subseteq {"AwsAccountId"}
      /\ p = "competitor_name" => DOMAIN w \subseteq {"CompetitorName", "OtherCompetitorNames"}
      /\ p \notin {"aws_account_id", "competitor_name"} => DOMAIN w \subseteq About[p]
  BY FormNames
<1>2. /\ Governor.AwsAccountId = "aws_account_id" /\ Governor.CompetitorName = "competitor_name"
      /\ Governor.CustomerAwsAccountId = "aws_account_id"
  BY DEF Governor
<1>3. f # "OtherCompetitorNames"
  BY DEF Followers
<1>4. p \notin {"aws_account_id", "competitor_name"} => p = Governor[f]
  BY <1>1, AboutFollowers
<1> QED
  BY <1>1, <1>2, <1>3, <1>4

\* Fields w give f the value that the deal asks.
Gives(w, f, d, c, e) ==
    /\ f \in DOMAIN w
    /\ Seen(f, w[f], d.description) = Seen(f, Asked(f, d, c, e), d.description)

\* A property of a form is what the deal asks of its fields once the deal has it.
LEMMA FormRight ==
    ASSUME NEW f \in Followers \ {"CustomerAwsAccountId", "Source"}, Governor[f] \in PropertyNames,
           NEW d, NEW c, NEW e, NEW o, Governor[f] \in e,
           Governor[f] = "use_case" => d[Governor[f]] \in UseCases,
           NEW w, w = FormFields(Governor[f], d[Governor[f]], o), DOMAIN w # {}
    PROVE  Gives(w, f, d, c, e)
<1>1. PICK p \in PropertyNames : p = Governor[f]
  OBVIOUS
<1>2. PICK v : v = d[p]
  OBVIOUS
<1>3. w = FormFields(p, v, o)
  BY <1>1, <1>2
<1>4. ~(v = Unset \/ (p = "amount" /\ Spend(v) = Unset))
  BY <1>3, FormLeaves
<1>5. PICK a : a = CreatedFrom(d, c)
  OBVIOUS
<1>6. /\ a.Needs = WireNeed(d.partner_need) /\ a.AwsAccountId = d.aws_account_id
      /\ a.CompetitorName = d.competitor_name
  BY <1>5, CreatedValues
<1>7. f \in {"Needs", "AwsAccountId", "CompetitorName"} => Asked(f, d, c, e) = a[f]
  BY <1>5 DEF Asked
<1>8. CASE f = "Needs"
  <2>1. p = "partner_need"
    BY <1>1, <1>8 DEF Governor
  <2>2. w = [Needs |-> WireNeed(v)]
    BY <1>3, <1>4, <2>1 DEF FormFields
  <2>3. DOMAIN w = {"Needs"} /\ w.Needs = WireNeed(d.partner_need)
    BY <1>2, <2>1, <2>2
  <2> QED
    BY <1>6, <1>7, <1>8, <2>3 DEF Gives
<1>9. CASE f = "AwsAccountId"
  <2>1. p = "aws_account_id"
    BY <1>1, <1>9 DEF Governor
  <2>2. w = [AwsAccountId |-> v]
    BY <1>3, <1>4, <2>1 DEF FormFields
  <2>3. DOMAIN w = {"AwsAccountId"} /\ w.AwsAccountId = d.aws_account_id
    BY <1>2, <2>1, <2>2
  <2> QED
    BY <1>6, <1>7, <1>9, <2>3 DEF Gives
<1>10. CASE f = "CompetitorName"
  <2>1. p = "competitor_name"
    BY <1>1, <1>10 DEF Governor
  <2>2. "CompetitorName" \in DOMAIN w /\ w.CompetitorName = v
    BY <1>3, <1>4, <2>1 DEF FormFields
  <2> QED
    BY <1>2, <1>6, <1>7, <1>10, <2>1, <2>2 DEF Gives
<1>11. CASE f \notin {"Needs", "AwsAccountId", "CompetitorName"}
  <2>1. p \notin {"partner_need", "aws_account_id", "competitor_name"}
    BY <1>1, <1>11 DEF Governor, Followers
  <2>2. w = Written(p, v, o)
    BY <1>3, <1>4, <2>1, Zenon DEF FormFields
  <2>3. w = Written(Governor[f], d[Governor[f]], o)
    BY <1>1, <1>2, <2>2
  <2>4. f \in Followers \ {"AwsAccountId", "CustomerAwsAccountId", "Needs"}
    BY <1>11
  <2>5. /\ f \in DOMAIN w
        /\ Seen(f, w[f], d.description) = Seen(f, Asked(f, d, c, e), d.description)
    BY <1>1, <1>2, <1>4, <2>3, <2>4, WrittenRight
  <2> QED
    BY <2>5 DEF Gives
<1> QED
  BY <1>8, <1>9, <1>10, <1>11

\* The deal takes over the form.
LEMMA PatchedDeal ==
    ASSUME NEW d, DOMAIN d = PropertyNames, NEW form, DOMAIN form.props \subseteq PropertyNames,
           NEW d2, d2 = Patched(d, form)
    PROVE  /\ DOMAIN d2 = PropertyNames /\ d2.lifecycle_stage = form.stage
           /\ \A p \in DOMAIN form.props \ {"lifecycle_stage"} :
                 p \notin Listed \/ form.props[p] # Unset => d2[p] = form.props[p]
           /\ \A p \in PropertyNames \ (DOMAIN form.props \cup {"lifecycle_stage"}) : d2[p] = d[p]
<1> DEFINE stage == [lifecycle_stage |-> form.stage]
           taken == {p \in DOMAIN form.props : p \in Listed => form.props[p] # Unset}
           given == [p \in taken |-> form.props[p]]
           top   == stage ++ given
<1>1. DOMAIN stage = {"lifecycle_stage"} /\ stage.lifecycle_stage = form.stage
  OBVIOUS
<1>2. /\ DOMAIN given = taken /\ taken \subseteq DOMAIN form.props
      /\ \A p \in taken : given[p] = form.props[p]
  OBVIOUS
<1>3. \A p \in DOMAIN form.props : p \notin Listed \/ form.props[p] # Unset => p \in taken
  OBVIOUS
<1> HIDE DEF stage, taken, given
<1>4. /\ DOMAIN top = DOMAIN stage \cup DOMAIN given
      /\ \A x \in DOMAIN stage : top[x] = stage[x]
      /\ \A x \in DOMAIN given : x \notin DOMAIN stage => top[x] = given[x]
  BY DEF ++
<1>5. d2 = top ++ d
  BY DEF Patched, stage, taken, given
<1> HIDE DEF top
<1>6. /\ DOMAIN d2 = DOMAIN top \cup DOMAIN d
      /\ \A x \in DOMAIN top : d2[x] = top[x]
      /\ \A x \in DOMAIN d : x \notin DOMAIN top => d2[x] = d[x]
  BY <1>5 DEF ++
<1> QED
  BY <1>1, <1>2, <1>3, <1>4, <1>6 DEF PropertyNames

\* The card is used: what the form says is asked from now on.
LEMMA AgreeCard == ASSUME AgreeInv, NEW form \in Forms, UseCard(form) PROVE AgreeInv'
<1>1. PICK o : o = Scrub(opportunity)
  OBVIOUS
<1>2. PICK body : body = Overlay(o, form)
  OBVIOUS
<1>3. PICK props : props = DOMAIN form.props
  OBVIOUS
<1>4. PICK kept : kept = {p \in props : DOMAIN FormFields(p, form.props[p], opportunity) = {}}
  OBVIOUS
<1>5. PICK follow : follow = {"Stage"} \cup UNION {Follows(p, form.props[p]) : p \in props}
  OBVIOUS
<1>6. /\ opportunity # <<>> /\ inbox = <<>> /\ UNCHANGED <<customer, inbox>>
      /\ \/ UNCHANGED <<held, opportunity, stale, edited, central>>
         \/ /\ Broken(body) = {} /\ opportunity' = body /\ held' = Patched(held, form)
            /\ stale' = (stale \ props) \cup kept
            /\ edited' = edited \cup props \cup {"lifecycle_stage"}
            /\ central' = [ClosedLostReason |-> body.ClosedLostReason] ++ Without(follow)
  BY <1>1, <1>2, <1>3, <1>4, <1>5 DEF UseCard
<1>7. FormInv'
  BY FormCard DEF AgreeInv
<1>8. /\ DOMAIN opportunity = OpportunityFields /\ DOMAIN held = PropertyNames
      /\ Agreeing(opportunity, held, customer, inbox, stale, edited, central)
  BY <1>6 DEF AgreeInv, FormInv, AtAwsInv
<1>9. props \subseteq PropertyNames /\ \A p \in props : form.props[p] \in Options[p] \cup {Unset}
  BY <1>3, FormAssumption, Offers
<1>10. CASE UNCHANGED <<held, opportunity, stale, edited, central>>
  BY <1>6, <1>7, <1>8, <1>10 DEF AgreeInv
<1>11. CASE /\ Broken(body) = {} /\ opportunity' = body /\ held' = Patched(held, form)
            /\ stale' = (stale \ props) \cup kept
            /\ edited' = edited \cup props \cup {"lifecycle_stage"}
            /\ central' = [ClosedLostReason |-> body.ClosedLostReason] ++ Without(follow)
  <2>1. PICK d2 : d2 = held'
    OBVIOUS
  <2>2. PICK k : k = central
    OBVIOUS
  <2>3. PICK k2 : k2 = central'
    OBVIOUS
  <2>4. /\ DOMAIN d2 = PropertyNames /\ d2.lifecycle_stage = form.stage
        /\ \A p \in props \ {"lifecycle_stage"} :
              p \notin Listed \/ form.props[p] # Unset => d2[p] = form.props[p]
        /\ \A p \in PropertyNames \ (props \cup {"lifecycle_stage"}) : d2[p] = held[p]
    BY <1>3, <1>8, <1>9, <1>11, <2>1, PatchedDeal
  <2>5. /\ DOMAIN body = OpportunityFields /\ body.Stage = form.stage
        /\ body.ClosedLostReason = IF form.stage = ClosedLost THEN form.reason ELSE Unset
        /\ \A f \in OpportunityFields \ {"Stage", "ClosedLostReason", "Source", "Campaign"} :
              \/ /\ body[f] = o[f]
                 /\ \A p \in props : f \notin DOMAIN FormFields(p, form.props[p], o)
              \/ \E p \in props : /\ f \in DOMAIN FormFields(p, form.props[p], o)
                                  /\ body[f] = FormFields(p, form.props[p], o)[f]
        /\ {"marketing_source", "marketing_campaign"} \cap props = {} =>
              body.Source = o.Source /\ body.Campaign = o.Campaign
        /\ {"marketing_source", "marketing_campaign"} \cap props # {} =>
              /\ body.Source = IF /\ "marketing_source" \in props
                                  /\ form.props.marketing_source = Activity
                               THEN Activity ELSE Unset
              /\ body.Campaign # Unset => body.Source = Activity
    <3>1. DOMAIN o = OpportunityFields
      BY <1>1, <1>8 DEF Scrub
    <3> QED
      BY <1>2, <1>3, <1>9, <3>1, CardFields
  <2>6. /\ DOMAIN k2 = {"ClosedLostReason"} \cup (DOMAIN k \ follow)
        /\ k2.ClosedLostReason = body.ClosedLostReason
        /\ \A f \in DOMAIN k2 \ {"ClosedLostReason"} : k2[f] = k[f]
    <3>1. Without(follow) = [f \in DOMAIN k \ follow |-> k[f]]
      BY <2>2 DEF Without
    <3>2. k2 = [ClosedLostReason |-> body.ClosedLostReason] ++ [f \in DOMAIN k \ follow |-> k[f]]
      BY <1>11, <2>3, <3>1
    <3> QED
      BY <3>2 DEF ++
  <2>7. /\ "Stage" \in follow
        /\ \A f \in Followers : f \in follow <=> Governor[f] \in props
    <3> SUFFICES ASSUME NEW f \in Followers PROVE f \in follow <=> Governor[f] \in props
      BY <1>5
    <3>1. \A p \in props : f \in Follows(p, form.props[p]) <=> Governor[f] = p
      BY <1>9, FollowsIs
    <3>2. f # "Stage"
      BY DEF Followers
    <3>3. f \in follow <=> \E p \in props : f \in Follows(p, form.props[p])
      BY <1>5, <3>2
    <3> QED
      BY <3>1, <3>3
  <2>8. Len(<<>>) = 0 /\ \A i : ~(i \in 1..0)
    BY SMT
  <2>9. \A p : ~Waits(p, inbox')
    BY <1>6, <2>8 DEF Waits
  <2>10. LastIsHeld(inbox', d2) /\ \A i \in 1..Len(inbox') : inbox'[i].prop \in edited'
    BY <1>6, <2>8 DEF LastIsHeld
  <2>11. Broken(Scrub(body)) = {}
    BY <1>11, <2>5, TakenAgain
  <2>12. ASSUME NEW f \in Followers
         PROVE  FieldRight(f, body, d2, customer, inbox', stale', edited', k2)
    <3>1. PICK g : g = Governor[f]
      OBVIOUS
    <3>2. g # "lifecycle_stage" /\ f # "ClosedLostReason"
      BY <3>1, Governors DEF Followers
    <3>3. f \in DOMAIN k2 <=> f \in DOMAIN k /\ g \notin props
      BY <2>6, <2>7, <3>1, <3>2
    <3>4. f \in OpportunityFields \ {"Stage", "ClosedLostReason", "Source", "Campaign"}
          \/ f = "Source"
      BY Governors DEF Followers
    <3>5. CASE g \notin props
      <4>1. body[f] = o[f]
        <5>1. CASE f = "Source"
          <6>1. g = "marketing_source"
            BY <3>1, <5>1 DEF Governor
          <6>2. body.Source \in {"None", Activity}
            BY <1>11, Taken
          <6>3. Unset \notin {"None", Activity}
            BY FormAssumption
          <6> QED
            BY <2>5, <3>5, <5>1, <6>1, <6>2, <6>3
        <5>2. CASE f # "Source"
          <6>1. \A p \in props : f \notin DOMAIN FormFields(p, form.props[p], o)
            BY <1>9, <3>1, <3>5, <5>2, FormGoverned
          <6> QED
            BY <2>5, <3>4, <5>2, <6>1
        <5> QED
          BY <5>1, <5>2
      <4>2. \A text : Seen(f, opportunity[f], text) = Seen(f, body[f], text)
        BY <1>1, <1>8, <4>1, ScrubSeen
      <4>3. g # "nothing" => held[g] = d2[g]
        BY <2>4, <3>1, <3>2, <3>5, Governors
      <4>4. g \in edited <=> g \in edited'
        BY <1>11, <3>2, <3>5
      <4>5. f \in DOMAIN k => k[f] = k2[f]
        BY <2>6, <3>2, <3>3, <3>5
      <4>6. Right(f, opportunity, held, customer, edited, k) =>
              Right(f, body, d2, customer, edited', k2)
        BY <3>1, <3>3, <3>5, <4>2, <4>3, <4>4, <4>5, RightStays
      <4>7. FieldRight(f, opportunity, held, customer, inbox, stale, edited, k)
        BY <1>8, <2>2 DEF Agreeing
      <4>8. g \in stale' <=> g \in stale
        BY <1>4, <1>11, <3>5
      <4>9. ~Waits(g, inbox)
        BY <1>6, <2>8 DEF Waits
      <4> QED
        BY <2>9, <3>1, <3>3, <3>5, <4>6, <4>7, <4>8, <4>9 DEF FieldRight
    <3>6. CASE g \in props
      <4>1. /\ g \in PropertyNames /\ g \in edited'
            /\ g \notin Listed \/ form.props[g] # Unset => d2[g] = form.props[g]
        BY <1>9, <1>11, <2>4, <3>2, <3>6
      <4>2. ASSUME g \notin stale'
            PROVE  Seen(f, body[f], d2.description) =
                     Seen(f, Asked(f, d2, customer, edited'), d2.description)
        <5>1. g \notin kept
          BY <1>11, <4>2
        <5>2. CASE f = "CustomerAwsAccountId"
          <6>1. body.CustomerAwsAccountId = Unset
            BY <1>11, Taken
          <6>2. PICK a : a = CreatedFrom(d2, customer)
            OBVIOUS
          <6>3. a.CustomerAwsAccountId = Unset
            BY <6>2, CreatedValues
          <6>4. Asked(f, d2, customer, edited') = a[f]
            BY <5>2, <6>2 DEF Asked
          <6> QED
            BY <5>2, <6>1, <6>3, <6>4
        <5>3. CASE f = "Source"
          <6>1. g = "marketing_source"
            BY <3>1, <5>3 DEF Governor
          <6>2. PICK a : a = CreatedFrom(d2, customer)
            OBVIOUS
          <6>3. a.Source = IF d2.marketing_source = Activity THEN Activity ELSE Unset
            BY <6>2, CreatedValues
          <6>4. Asked(f, d2, customer, edited') = a[f]
            BY <5>3, <6>2 DEF Asked
          <6>5. d2.marketing_source = form.props.marketing_source
            BY <4>1, <6>1 DEF Listed
          <6>6. body.Source = a.Source
            BY <2>5, <3>6, <6>1, <6>3, <6>5
          <6> QED
            BY <5>3, <6>4, <6>6
        <5>4. CASE f \notin {"CustomerAwsAccountId", "Source"}
          <6>1. PICK w : w = FormFields(g, form.props[g], o)
            OBVIOUS
          <6>2. DOMAIN w # {} /\ form.props[g] # Unset
            <7>1. DOMAIN FormFields(g, form.props[g], opportunity) # {}
              BY <1>4, <3>6, <5>1
            <7>2. ~(form.props[g] = Unset \/ (g = "amount" /\ Spend(form.props[g]) = Unset))
              BY <4>1, <7>1, FormLeaves
            <7> QED
              BY <4>1, <6>1, <7>2, FormLeaves
          <6>3. w = FormFields(Governor[f], d2[Governor[f]], o)
            BY <3>1, <4>1, <6>1, <6>2
          <6>4. g = "use_case" => d2[g] \in UseCases
            BY <1>9, <3>6, <4>1, <6>2, Offers
          <6>5. f \in DOMAIN w /\ Seen(f, w[f], d2.description) =
                                  Seen(f, Asked(f, d2, customer, edited'), d2.description)
            <7>1. PICK e2 : e2 = edited'
              OBVIOUS
            <7>2. /\ f \in Followers \ {"CustomerAwsAccountId", "Source"}
                  /\ Governor[f] \in PropertyNames /\ Governor[f] \in e2
                  /\ Governor[f] = "use_case" => d2[Governor[f]] \in UseCases
              BY <3>1, <4>1, <5>4, <6>4, <7>1
            <7>3. Gives(w, f, d2, customer, e2)
              BY <6>3, <6>2, <7>2, FormRight
            <7> QED
              BY <7>1, <7>3 DEF Gives
          <6>6. body[f] = w[f]
            <7>1. \A p \in props : f \in DOMAIN FormFields(p, form.props[p], o) => p = g
              BY <1>9, <3>1, <5>4, FormGoverned
            <7>2. f \in OpportunityFields \ {"Stage", "ClosedLostReason", "Source", "Campaign"}
              BY <3>4, <5>4
            <7>3. f \in DOMAIN FormFields(g, form.props[g], o)
              BY <6>1, <6>5
            <7>4. PICK p \in props : /\ f \in DOMAIN FormFields(p, form.props[p], o)
                                    /\ body[f] = FormFields(p, form.props[p], o)[f]
              BY <2>5, <3>6, <7>2, <7>3
            <7> QED
              BY <6>1, <7>1, <7>4
          <6> QED
            BY <6>5, <6>6
        <5> QED
          BY <5>2, <5>3, <5>4
      <4> QED
        BY <2>9, <3>1, <3>3, <3>6, <4>2 DEF FieldRight, Right
    <3> QED
      BY <3>5, <3>6
  <2>13. StageSet(body, d2, inbox', k2)
    BY <2>6, <2>7 DEF StageSet
  <2>14. StageRight(body, d2, inbox', stale', edited', k2)
    BY <1>11, <2>4, <2>5 DEF StageRight, StageAsked
  <2>15. ReasonSet(body, d2, inbox', k2)
    BY <2>4, <2>5, <2>6, <2>9 DEF ReasonSet
  <2>16. ReasonRight(body, d2, inbox', k2)
    BY <2>6 DEF ReasonRight
  <2>17. Agreeing(body, d2, customer, inbox', stale', edited', k2)
    BY <2>10, <2>11, <2>12, <2>13, <2>14, <2>15, <2>16 DEF Agreeing
  <2>18. body # <<>>
    BY <2>5 DEF OpportunityFields
  <2> QED
    BY <1>6, <1>7, <1>11, <2>1, <2>3, <2>17, <2>18 DEF AgreeInv
<1> QED
  BY <1>6, <1>10, <1>11

\* What is set in Partner Central stays as it was set; a stage comes back to the deal.
LEMMA AgreeCentral ==
    ASSUME AgreeInv, NEW change \in InCentral, ChangeInCentral(change) PROVE AgreeInv'
<1>1. /\ opportunity # <<>> /\ inbox = <<>> /\ Broken(Scrub(change ++ opportunity)) = {}
      /\ opportunity' = change ++ opportunity /\ central' = change ++ central
      /\ held' = IF "Stage" \in DOMAIN change THEN [held EXCEPT !.lifecycle_stage = change.Stage]
                 ELSE held
      /\ UNCHANGED <<customer, inbox, stale, edited>>
  BY DEF ChangeInCentral
<1>2. FormInv'
  BY FormCentral DEF AgreeInv
<1>3. PICK o2, k2, d2 : o2 = change ++ opportunity /\ k2 = change ++ central /\ d2 = held'
  OBVIOUS
<1>4. /\ DOMAIN o2 = DOMAIN change \cup DOMAIN opportunity
      /\ \A x \in DOMAIN change : o2[x] = change[x]
      /\ \A x \in DOMAIN opportunity \ DOMAIN change : o2[x] = opportunity[x]
  <2>1. o2 = change ++ opportunity
    BY <1>3
  <2> QED
    BY ONLY <2>1 DEF ++
<1>5. /\ DOMAIN k2 = DOMAIN change \cup DOMAIN central
      /\ \A x \in DOMAIN change : k2[x] = change[x]
      /\ \A x \in DOMAIN central \ DOMAIN change : k2[x] = central[x]
  <2>1. k2 = change ++ central
    BY <1>3
  <2> QED
    BY ONLY <2>1 DEF ++
<1>6. /\ DOMAIN opportunity = OpportunityFields /\ DOMAIN held = PropertyNames
      /\ Agreeing(opportunity, held, customer, inbox, stale, edited, central)
  BY <1>1 DEF AgreeInv, FormInv, AtAwsInv
<1>20. o2 # <<>>
  <2>1. "Stage" \in DOMAIN o2
    BY <1>4, <1>6 DEF OpportunityFields
  <2>2. DOMAIN <<>> = {}
    BY SMT
  <2> QED
    BY <2>1, <2>2
<1>7. DOMAIN o2 = OpportunityFields
  <2>1. opportunity' = o2
    BY <1>1, <1>3
  <2> QED
    BY <1>2, <1>20, <2>1 DEF FormInv, AtAwsInv
<1>8. /\ \A p \in PropertyNames \ {"lifecycle_stage"} : d2[p] = held[p]
      /\ "Stage" \in DOMAIN change => d2.lifecycle_stage = change.Stage
      /\ "Stage" \notin DOMAIN change => d2.lifecycle_stage = held.lifecycle_stage
  BY <1>1, <1>3, <1>6 DEF PropertyNames
<1>9. {"Stage", "ClosedLostReason"} \subseteq OpportunityFields
      /\ "closed_lost_reason" \in PropertyNames \ {"lifecycle_stage"}
  BY DEF OpportunityFields, PropertyNames
<1>10. /\ \A p : ~Waits(p, inbox)
       /\ Lasting(inbox) /\ LastIsHeld(inbox, d2)
       /\ \A i \in 1..Len(inbox) : inbox[i].prop \in edited
  <2>1. \A i : i \notin 1..Len(inbox)
    BY <1>1, SMT
  <2> QED
    BY <2>1 DEF Waits, Lasting, LastIsHeld
<1>11. Broken(Scrub(o2)) = {} /\ Paired(o2) /\ Paired(opportunity)
  BY <1>1, <1>3, <1>6, <1>7, PairedAtAws DEF Agreeing
<1>12. \A f \in Followers : FieldRight(f, o2, d2, customer, inbox, stale, edited, k2)
  <2> SUFFICES ASSUME NEW f \in Followers
               PROVE  FieldRight(f, o2, d2, customer, inbox, stale, edited, k2)
    OBVIOUS
  <2>1. CASE f \in DOMAIN change
    <3>1. o2[f] = k2[f] /\ f \in DOMAIN k2
      BY <1>4, <1>5, <2>1
    <3>2. Right(f, o2, d2, customer, edited, k2)
      BY <3>1 DEF Right
    <3> QED
      BY <1>10, <3>2 DEF FieldRight
  <2>2. CASE f \notin DOMAIN change
    <3>1. /\ o2[f] = opportunity[f] /\ (f \in DOMAIN k2 <=> f \in DOMAIN central)
          /\ f \in DOMAIN central => k2[f] = central[f]
      BY <1>4, <1>5, <1>6, <2>2, Governors
    <3>2. Governor[f] # "nothing" => held[Governor[f]] = d2[Governor[f]]
      BY <1>8, Governors
    <3>3. FieldRight(f, opportunity, held, customer, inbox, stale, edited, central)
      BY <1>6 DEF Agreeing
    <3>4. Right(f, opportunity, held, customer, edited, central) =>
          Right(f, o2, d2, customer, edited, k2)
      BY <3>1, <3>2, RightStays
    <3> QED
      BY <1>10, <3>1, <3>3, <3>4 DEF FieldRight
  <2> QED
    BY <2>1, <2>2
<1>13. StageSet(o2, d2, inbox, k2)
  <2>1. CASE "Stage" \in DOMAIN change
    BY <1>4, <1>5, <1>8, <1>10, <2>1 DEF StageSet
  <2>2. CASE "Stage" \notin DOMAIN change
    BY <1>4, <1>5, <1>6, <1>8, <1>9, <1>10, <2>2 DEF StageSet, Agreeing
  <2> QED
    BY <2>1, <2>2
<1>14. StageRight(o2, d2, inbox, stale, edited, k2)
  <2> SUFFICES ASSUME "Stage" \notin DOMAIN k2,
                      d2.lifecycle_stage = ClosedLost => d2.closed_lost_reason # Unset
               PROVE  o2.Stage = StageAsked(d2, edited, stale)
    BY DEF StageRight
  <2>1. /\ "Stage" \notin DOMAIN change /\ "Stage" \notin DOMAIN central
        /\ o2.Stage = opportunity.Stage /\ d2.lifecycle_stage = held.lifecycle_stage
        /\ d2.closed_lost_reason = held.closed_lost_reason
    BY <1>4, <1>5, <1>6, <1>8, <1>9
  <2>2. opportunity.Stage = StageAsked(held, edited, stale)
    BY <1>6, <1>10, <2>1 DEF Agreeing, StageRight
  <2> QED
    BY <2>1, <2>2 DEF StageAsked
<1>15. ReasonSet(o2, d2, inbox, k2)
  <2> SUFFICES ASSUME "ClosedLostReason" \in DOMAIN k2
               PROVE  /\ o2.ClosedLostReason = k2.ClosedLostReason
                      /\ d2.lifecycle_stage # ClosedLost => o2.ClosedLostReason = Unset
    BY <1>10 DEF ReasonSet
  <2>1. o2.ClosedLostReason = k2.ClosedLostReason
    <3>1. CASE "ClosedLostReason" \in DOMAIN change
      BY <1>4, <1>5, <3>1
    <3>2. CASE "ClosedLostReason" \notin DOMAIN change
      BY <1>4, <1>5, <1>6, <1>9, <3>2 DEF Agreeing, ReasonSet
    <3> QED
      BY <3>1, <3>2
  <2>2. ASSUME d2.lifecycle_stage # ClosedLost PROVE o2.Stage # ClosedLost
    <3>1. CASE "Stage" \in DOMAIN k2
      BY <1>13, <2>2, <3>1 DEF StageSet
    <3>2. CASE "Stage" \notin DOMAIN k2
      <4>1. o2.Stage = StageAsked(d2, edited, stale)
        BY <1>10, <1>14, <2>2, <3>2 DEF StageRight
      <4> QED
        BY <2>2, <4>1, FormAssumption DEF StageAsked
    <3> QED
      BY <3>1, <3>2
  <2> QED
    BY <1>11, <2>1, <2>2 DEF Paired
<1>16. ReasonRight(o2, d2, inbox, k2)
  <2> SUFFICES ASSUME "ClosedLostReason" \notin DOMAIN k2, o2.Stage = ClosedLost
               PROVE  o2.ClosedLostReason = d2.closed_lost_reason
    BY DEF ReasonRight
  <2>1. /\ "ClosedLostReason" \notin DOMAIN central
        /\ o2.ClosedLostReason = opportunity.ClosedLostReason
        /\ d2.closed_lost_reason = held.closed_lost_reason
    BY <1>4, <1>5, <1>6, <1>8, <1>9
  <2>2. opportunity.Stage = ClosedLost
    BY <1>11, <2>1 DEF Paired
  <2> QED
    BY <1>6, <1>10, <2>1, <2>2 DEF Agreeing, ReasonRight
<1>17. Agreeing(o2, d2, customer, inbox, stale, edited, k2)
  BY <1>10, <1>11, <1>12, <1>13, <1>14, <1>15, <1>16 DEF Agreeing
<1>18. o2 = opportunity' /\ d2 = held' /\ k2 = central'
  BY <1>1, <1>3
<1>19. Agreeing(opportunity, held, customer, inbox, stale, edited, central)'
  BY <1>1, <1>17, <1>18, Zenon
<1> QED
  BY <1>2, <1>18, <1>19, <1>20 DEF AgreeInv

\* Every step keeps the agreement.
LEMMA AgreeStep == AgreeInv /\ [FormNext]_fvars => AgreeInv'
<1> SUFFICES ASSUME AgreeInv, [FormNext]_fvars PROVE AgreeInv'
  OBVIOUS
<1>1. CASE CreateOpportunity
  BY <1>1, AgreeCreate
<1>2. ASSUME NEW p \in DOMAIN Options, NEW v \in Options[p], EditProperty(p, v) PROVE AgreeInv'
  BY <1>2, AgreeEdit
<1>3. ASSUME NEW i \in 1..Len(inbox), Forward(i) PROVE AgreeInv'
  BY <1>3, AgreeForward
<1>4. ASSUME NEW form \in Forms, UseCard(form) PROVE AgreeInv'
  BY <1>4, AgreeCard
<1>5. ASSUME NEW change \in InCentral, ChangeInCentral(change) PROVE AgreeInv'
  BY <1>5, AgreeCentral
<1>6. CASE UNCHANGED fvars
  <2>1. FormInv'
    BY <1>6, FormStep DEF AgreeInv
  <2> QED
    BY <1>6, <2>1 DEF AgreeInv, fvars
<1> QED
  BY <1>1, <1>2, <1>3, <1>4, <1>5, <1>6 DEF FormNext

\* Once every edit is forwarded, the opportunity at AWS is what creating it from the deal as it now
\* is would make it, but for edits that were refused or left out, and what was set in Partner
\* Central has stayed: whichever way submit_to_ace, update_in_ace and the Update card translate a
\* property, and whatever order BD edits in (src/ace/mapper.py, src/lambdas/update_in_ace.py,
\* src/lambdas/ui_extension_writes.py).
THEOREM EditsAlwaysAgree == FormSpec => []EditsAgree
  BY AgreeStart, AgreeStep, Agreement, PTL DEF FormSpec
=============================================================================
