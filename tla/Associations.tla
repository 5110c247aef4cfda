---------------------------- MODULE Associations ----------------------------
(***************************************************************************)
(* The AWS products and the solution of an opportunity.  They are not part *)
(* of UpdateOpportunity: submit_to_ace associates those of the deal when   *)
(* the opportunity is created (src/lambdas/submit_to_ace.py), and every    *)
(* later change of the deal's list makes update_in_ace compare the list    *)
(* with what AWS has, and associate and disassociate one item after the    *)
(* other (src/lambdas/update_in_ace.py, _handle_aws_products_diff and      *)
(* _handle_solution_diff).  An item AWS refuses is logged and left; the    *)
(* message is acknowledged all the same.                                   *)
(*                                                                         *)
(* A behaviour is about the products or about the solution of one deal.    *)
(* How the opportunity is found for a message is AceUpdate's; here it is   *)
(* found as soon as the row is there.  Retries stay within the queue's     *)
(* maxReceiveCount.                                                        *)
(***************************************************************************)
EXTENDS Naturals, FiniteSets

CONSTANTS
    Items,       \* products, solutions
    Workers,     \* concurrent invocations of update_in_ace
    OwnWrites,   \* whether BD edits the list from the Update card as well
    MaxChanges,  \* bound: edits of the list
    MaxRefusals, \* bound: calls that AWS refuses
    MaxCrashes   \* bound: invocations that die

ASSUME AssociationAssumption ==
    /\ \A n \in {MaxChanges, MaxRefusals, MaxCrashes} : n \in Nat
    /\ OwnWrites \in BOOLEAN
    /\ IsFiniteSet(Items)

VARIABLES
    list,       \* "products" or "solution"
    wanted,     \* HubSpot: the items on the deal
    associated, \* AWS: the items of the opportunity
    messages,   \* SQS: changes of the list waiting in the update queue
    diff,       \* per worker: the comparison it works on
    submitting, \* submit_to_ace: the items it has still to associate
    recorded,   \* whether the ACE# row names the opportunity
    lastEdit,   \* where the deal's list comes from
    refused,    \* whether AWS refused an item since it was last compared
    changes, refusals, crashes

avars == <<list, wanted, associated, messages, diff, submitting, recorded, lastEdit, refused,
           changes, refusals, crashes>>

Lists    == {"products", "solution"}
NoDiff   == [pc |-> "idle", wanted |-> {}, add |-> {}, drop |-> {}]
DiffPcs  == {"idle", "deal", "aws", "calls"}
NoSubmit == [pc |-> "before", add |-> {}]
\* A solution is single, at HubSpot and at AWS.
Selections == {s \in SUBSET Items : list = "solution" => Cardinality(s) <= 1}

AssociationInit ==
    /\ list \in Lists /\ wanted \in Selections /\ associated = {} /\ messages = 0
    /\ diff = [w \in Workers |-> NoDiff] /\ submitting = NoSubmit /\ recorded = FALSE
    /\ lastEdit = "before" /\ refused = FALSE
    /\ changes = 0 /\ refusals = 0 /\ crashes = 0

-----------------------------------------------------------------------------
(* BD.                                                                     *)

Edit(s) ==
    /\ changes < MaxChanges /\ changes' = changes + 1
    /\ s # wanted /\ wanted' = s

\* An edit on the deal comes to the queue by webhook.
EditDeal(s) ==
    /\ Edit(s)
    /\ messages' = messages + 1
    /\ lastEdit' = IF submitting.pc = "done" THEN "deal" ELSE "before"
    /\ UNCHANGED <<list, associated, diff, submitting, recorded, refused, refusals, crashes>>

\* _handle_update writes the form to the deal, and leaves the list to the
\* webhook; but _route_event drops what the integration wrote itself.
EditCard(s) ==
    /\ OwnWrites /\ submitting.pc = "done" /\ Edit(s)
    /\ lastEdit' = "card"
    /\ UNCHANGED <<list, associated, messages, diff, submitting, recorded, refused, refusals,
                   crashes>>

-----------------------------------------------------------------------------
(* AWS.                                                                    *)

\* AssociateOpportunity: a second solution is a conflict, and so is what is
\* there already; every caller takes a conflict for done.
Associate(x) ==
    \/ /\ associated' = IF list = "products" \/ associated = {} THEN associated \cup {x}
                        ELSE associated
       /\ UNCHANGED <<refused, refusals>>
    \/ /\ refusals < MaxRefusals /\ refusals' = refusals + 1
       /\ refused' = TRUE
       /\ UNCHANGED associated

Disassociate(x) ==
    \/ associated' = associated \ {x} /\ UNCHANGED <<refused, refusals>>
    \/ /\ refusals < MaxRefusals /\ refusals' = refusals + 1
       /\ refused' = TRUE
       /\ UNCHANGED associated

-----------------------------------------------------------------------------
(* submit_to_ace.                                                          *)

\* The deal is read once, before the opportunity is created and recorded.
SubmitLoad ==
    /\ submitting.pc = "before"
    /\ submitting' = [pc |-> "create", add |-> wanted]
    /\ UNCHANGED <<list, wanted, associated, messages, diff, recorded, lastEdit, refused,
                   changes, refusals, crashes>>

SubmitRecord ==
    /\ submitting.pc = "create"
    /\ recorded' = TRUE
    /\ submitting' = [submitting EXCEPT !.pc = "associate"]
    /\ UNCHANGED <<list, wanted, associated, messages, diff, lastEdit, refused, changes,
                   refusals, crashes>>

\* A product that AWS refuses is left out; a refused solution fails the
\* submission, which starts over with the deal as it then is.
SubmitAssociate(x) ==
    /\ submitting.pc = "associate" /\ x \in submitting.add
    /\ Associate(x)
    /\ submitting' = IF list = "solution" /\ refusals' # refusals THEN NoSubmit
                     ELSE [submitting EXCEPT !.add = @ \ {x}]
    /\ UNCHANGED <<list, wanted, messages, diff, recorded, lastEdit, changes, crashes>>

SubmitDone ==
    /\ submitting.pc = "associate" /\ submitting.add = {}
    /\ submitting' = [submitting EXCEPT !.pc = "done"]
    /\ UNCHANGED <<list, wanted, associated, messages, diff, recorded, lastEdit, refused,
                   changes, refusals, crashes>>

-----------------------------------------------------------------------------
(* update_in_ace.                                                          *)

\* A message is received; without an opportunity it is skipped.
ReceiveChange(w) ==
    /\ diff[w].pc = "idle" /\ messages > 0
    /\ messages' = messages - 1
    /\ diff' = IF recorded THEN [diff EXCEPT ![w].pc = "deal"] ELSE diff
    /\ UNCHANGED <<list, wanted, associated, submitting, recorded, lastEdit, refused, changes,
                   refusals, crashes>>

\* What BD wants is on the deal, not in the message.
ReadDeal(w) ==
    /\ diff[w].pc = "deal"
    /\ diff' = [diff EXCEPT ![w].pc = "aws", ![w].wanted = wanted]
    /\ UNCHANGED <<list, wanted, associated, messages, submitting, recorded, lastEdit, refused,
                   changes, refusals, crashes>>

\* Mutant: products are only ever added.
Difference_AddOnly(w) == [diff[w] EXCEPT !.pc = "calls", !.add = diff[w].wanted \ associated]

\* What the deal has and AWS has not, and the other way round.
Difference(w) == [diff[w] EXCEPT !.pc = "calls", !.add = diff[w].wanted \ associated,
                                 !.drop = associated \ diff[w].wanted]

\* GetOpportunity; when AWS refuses it for good the message is dropped.
ReadAws(w) ==
    /\ diff[w].pc = "aws"
    /\ \/ /\ diff' = [diff EXCEPT ![w] = Difference(w)]
          /\ refused' = FALSE
          /\ UNCHANGED refusals
       \/ /\ refusals < MaxRefusals /\ refusals' = refusals + 1
          /\ diff' = [diff EXCEPT ![w] = NoDiff]
          /\ refused' = TRUE
    /\ UNCHANGED <<list, wanted, associated, messages, submitting, recorded, lastEdit, changes,
                   crashes>>

\* Products are added first; of solutions there can be only one.
Add(w, x) ==
    /\ diff[w].pc = "calls" /\ x \in diff[w].add
    /\ list = "solution" => diff[w].drop = {}
    /\ Associate(x)
    /\ diff' = [diff EXCEPT ![w].add = @ \ {x}]
    /\ UNCHANGED <<list, wanted, messages, submitting, recorded, lastEdit, changes, crashes>>

Drop(w, x) ==
    /\ diff[w].pc = "calls" /\ x \in diff[w].drop
    /\ list = "products" => diff[w].add = {}
    /\ Disassociate(x)
    /\ diff' = [diff EXCEPT ![w].drop = @ \ {x}]
    /\ UNCHANGED <<list, wanted, messages, submitting, recorded, lastEdit, changes, crashes>>

Acknowledge(w) ==
    /\ diff[w].pc = "calls" /\ diff[w].add = {} /\ diff[w].drop = {}
    /\ diff' = [diff EXCEPT ![w] = NoDiff]
    /\ UNCHANGED <<list, wanted, associated, messages, submitting, recorded, lastEdit, refused,
                   changes, refusals, crashes>>

\* An invocation dies, or a read fails; the message is visible again.
Die(w) ==
    /\ diff[w].pc # "idle" /\ crashes < MaxCrashes /\ crashes' = crashes + 1
    /\ diff' = [diff EXCEPT ![w] = NoDiff]
    /\ messages' = messages + 1
    /\ UNCHANGED <<list, wanted, associated, submitting, recorded, lastEdit, refused, changes,
                   refusals>>

AssociationNext ==
    \/ \E s \in Selections : EditDeal(s) \/ EditCard(s)
    \/ SubmitLoad \/ SubmitRecord \/ SubmitDone \/ \E x \in Items : SubmitAssociate(x)
    \/ \E w \in Workers :
          \/ ReceiveChange(w) \/ ReadDeal(w) \/ ReadAws(w) \/ Acknowledge(w) \/ Die(w)
          \/ \E x \in Items : Add(w, x) \/ Drop(w, x)

AssociationSpec == AssociationInit /\ [][AssociationNext]_avars

-----------------------------------------------------------------------------
(* Properties.                                                             *)

\* Types of the lists, the queue and the comparisons.
AssociationTypeOK ==
    /\ list \in Lists /\ wanted \in Selections /\ associated \in Selections
    /\ messages \in 0..(MaxChanges + MaxCrashes)
    /\ diff \in [Workers -> [pc : DiffPcs, wanted : SUBSET Items, add : SUBSET Items,
                             drop : SUBSET Items]]
    /\ submitting \in [pc : {"before", "create", "associate", "done"}, add : SUBSET Items]
    /\ recorded \in BOOLEAN /\ lastEdit \in {"before", "deal", "card"} /\ refused \in BOOLEAN
    /\ changes \in 0..MaxChanges /\ refusals \in 0..MaxRefusals /\ crashes \in 0..MaxCrashes

Settled ==
    /\ messages = 0 /\ submitting.pc = "done" /\ \A w \in Workers : diff[w].pc = "idle"
    /\ ~refused

\* After an edit of the list AWS ends up with exactly what the deal asks for,
\* through crashes between the calls and edits that overtake each other; what
\* AWS refused before, in the submission too, is healed by the next edit.
ListReachesAws == Settled /\ lastEdit = "deal" => associated = wanted

\* ui_extension_writes.py: the PATCH of the card "fires a property-change
\* webhook that update_in_ace's _handle_aws_products_diff consumes".
CardListReachesAws == Settled /\ lastEdit = "card" => associated = wanted
=============================================================================
