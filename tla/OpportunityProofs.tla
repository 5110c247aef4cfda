------------------------- MODULE OpportunityProofs --------------------------
(***************************************************************************)
(* Proofs about what an opportunity at AWS has of its deal: the products   *)
(* and solutions associated with it (Associations), for any items and      *)
(* bounds, whatever is refused and whoever dies; and its fields            *)
(* (AceForms), for any deals, companies, forms and changes in Partner      *)
(* Central, as many of each as there are.                                  *)
(***************************************************************************)
EXTENDS Associations, AceForms, FiniteSetTheorems, SequenceTheorems, TLAPS

-----------------------------------------------------------------------------
(* The associations.                                                       *)

\* What is left to do.

\* Edits count from the end of the submission, which has recorded the row.
SubmittedInv ==
    /\ submitting.pc # "done" => lastEdit = "before"
    /\ submitting.pc \in {"associate", "done"} => recorded

\* An invocation has read the deal and is not through with its calls.  No two
\* invocations are there at once: where they are, each calls for its own list.
Compares(w)      == diff[w].pc \in {"aws", "calls"}
ComparisonsApart == \A v, w \in Workers : Compares(v) /\ Compares(w) => v = w

\* The calls an invocation has still to make are those that AWS lacks.
OnTrack(w) ==
    /\ diff[w].add = wanted \ associated
    /\ diff[w].drop = associated \ wanted

\* The invocation works towards what the deal asks for; or AWS has refused an
\* item since.
TowardsDeal(w) ==
    /\ Compares(w)
    /\ diff[w].wanted = wanted
    /\ diff[w].pc = "calls" => refused \/ OnTrack(w)

\* A change or a crash sends at most one message.  After an edit of the list,
\* unless a message is waiting, an invocation is about to read the deal or works
\* towards it; or AWS has what it asks for, or has refused an item.
Counted       == messages <= changes + crashes
TypedInv      == AssociationTypeOK /\ Counted
LeftInv       ==
    lastEdit = "deal" /\ messages = 0 =>
        \/ \E w \in Workers : diff[w].pc = "deal" \/ TowardsDeal(w)
        \/ (\A w \in Workers : ~Compares(w)) /\ (refused \/ associated = wanted)
AssociationInv == TypedInv /\ SubmittedInv /\ LeftInv

-----------------------------------------------------------------------------
(* Types.                                                                  *)

\* What an invocation knows of the list.
Comparison == [pc : DiffPcs, wanted : SUBSET Items, add : SUBSET Items, drop : SUBSET Items]

\* The bounds are numbers.
LEMMA NatBounds ==
    MaxChanges \in Nat /\ MaxRefusals \in Nat /\ MaxCrashes \in Nat /\ IsFiniteSet(Items)
  BY AssociationAssumption

\* A selection is any set of products, and at most one solution.
LEMMA Single ==
    ASSUME NEW s, s \subseteq Items
    PROVE  s \in Selections <=> (list = "solution" => \A x, y \in s : x = y)
<1>1. IsFiniteSet(s) /\ Cardinality(s) \in Nat
  BY NatBounds, FS_Subset, FS_CardinalityType
<1>2. ASSUME \A x, y \in s : x = y PROVE Cardinality(s) <= 1
  <2>1. CASE s = {}
    BY <2>1, FS_EmptySet, SMT
  <2>2. CASE s # {}
    <3>1. PICK x : s = {x}
      BY <1>2, <2>2
    <3>2. Cardinality(s) = 1
      BY <3>1, FS_Singleton
    <3> QED
      BY <3>2, SMT
  <2> QED
    BY <2>1, <2>2
<1>3. ASSUME Cardinality(s) <= 1 PROVE \A x, y \in s : x = y
  <2>1. Cardinality(s) = 0 \/ Cardinality(s) = 1
    BY <1>1, <1>3, SMT
  <2> QED
    BY <1>1, <2>1, FS_EmptySet, FS_Singleton
<1> QED
  BY <1>2, <1>3 DEF Selections

\* What is left of a selection is one.
LEMMA Fewer ==
    ASSUME NEW s \in Selections, NEW t \in SUBSET s PROVE t \in Selections
<1>1. s \subseteq Items
  BY DEF Selections
<1> QED
  BY <1>1, Single

\* Selections are about the same list before and after a step.
LEMMA SameSelections == ASSUME list' = list PROVE Selections' = Selections
  BY DEF Selections

\* AWS is left with a selection, whoever associates or disassociates.
LEMMA AssociateTyped ==
    ASSUME associated \in Selections, refused \in BOOLEAN, refusals \in 0..MaxRefusals,
           NEW x \in Items, Associate(x) \/ Disassociate(x)
    PROVE  associated' \in Selections /\ refused' \in BOOLEAN /\ refusals' \in 0..MaxRefusals
<1>0. \/ refused' = refused /\ refusals' = refusals
      \/ refused' = TRUE /\ refusals < MaxRefusals /\ refusals' = refusals + 1
  BY DEF Associate, Disassociate
<1>1. refused' \in BOOLEAN /\ refusals' \in 0..MaxRefusals
  <2>1. refused' \in BOOLEAN
    BY <1>0
  <2>2. refusals' \in 0..MaxRefusals
    BY <1>0, NatBounds, SMT
  <2> QED
    BY <2>1, <2>2
<1>2. associated \subseteq Items
  BY DEF Selections
<1>3. CASE associated' \subseteq associated
  BY <1>1, <1>3, Fewer
<1>4. CASE associated' = associated \cup {x} /\ (list = "products" \/ associated = {})
  <2>1. associated' \subseteq Items
    BY <1>2, <1>4
  <2>2. list = "solution" => \A a, b \in associated' : a = b
    BY <1>4
  <2> QED
    BY <1>1, <2>1, <2>2, Single
<1> QED
  BY <1>3, <1>4 DEF Associate, Disassociate

\* Nothing is compared or counted at first.
LEMMA InitTyped == AssociationInit => TypedInv
<1> SUFFICES ASSUME AssociationInit PROVE TypedInv
  OBVIOUS
<1>1. {} \in Selections
  BY Single
<1>2. NoDiff \in Comparison
  BY DEF NoDiff, Comparison, DiffPcs
<1>3. /\ messages \in 0..(MaxChanges + MaxCrashes) /\ changes \in 0..MaxChanges
      /\ refusals \in 0..MaxRefusals /\ crashes \in 0..MaxCrashes
      /\ messages <= changes + crashes
  BY NatBounds, SMT DEF AssociationInit
<1>4. submitting \in [pc : {"before", "create", "associate", "done"}, add : SUBSET Items]
  BY DEF AssociationInit, NoSubmit
<1> QED
  BY <1>1, <1>2, <1>3, <1>4 DEF AssociationInit, TypedInv, AssociationTypeOK, Counted,
     Comparison

\* Every message comes from a change of the deal or from an invocation that died.
LEMMA CountsTyped ==
    ASSUME TypedInv, [AssociationNext]_avars
    PROVE  /\ messages' \in 0..(MaxChanges + MaxCrashes) /\ messages' <= changes' + crashes'
           /\ changes' \in 0..MaxChanges /\ crashes' \in 0..MaxCrashes
<1> USE NatBounds
<1>1. /\ messages \in Nat /\ messages <= changes + crashes
      /\ changes \in 0..MaxChanges /\ crashes \in 0..MaxCrashes
  BY SMT DEF TypedInv, AssociationTypeOK, Counted
<1>2. \/ messages' = messages /\ changes' = changes /\ crashes' = crashes
      \/ messages > 0 /\ messages' = messages - 1 /\ changes' = changes /\ crashes' = crashes
      \/ messages' = messages /\ crashes' = crashes /\ changes < MaxChanges
         /\ changes' = changes + 1
      \/ messages' = messages + 1 /\ crashes' = crashes /\ changes < MaxChanges
         /\ changes' = changes + 1
      \/ messages' = messages + 1 /\ changes' = changes /\ crashes < MaxCrashes
         /\ crashes' = crashes + 1
  BY DEF AssociationNext, avars, EditDeal, EditCard, Edit, SubmitLoad, SubmitRecord, SubmitDone,
     SubmitAssociate, ReceiveChange, ReadDeal, ReadAws, Acknowledge, Die, Add, Drop
<1> QED
  BY <1>1, <1>2, SMT

\* Types are kept, however many invocations work.
LEMMA NextTyped ==
    ASSUME TypedInv, [AssociationNext]_avars PROVE TypedInv'
<1> USE DEF Comparison
<1>0. AssociationTypeOK
  BY DEF TypedInv
<1>1. list' = list /\ list \in Lists
  BY <1>0 DEF AssociationTypeOK, AssociationNext, avars, EditDeal, EditCard, Edit, SubmitLoad,
     SubmitRecord, SubmitDone, SubmitAssociate, ReceiveChange, ReadDeal, ReadAws, Acknowledge,
     Die, Add, Drop
<1>2. Selections' = Selections
  BY <1>1, SameSelections
<1>3. \A s \in Selections : s \subseteq Items
  BY DEF Selections
<1>4. wanted \in Selections /\ associated \in Selections
  BY <1>0 DEF AssociationTypeOK
<1> DEFINE Kept == /\ wanted' \in Selections /\ associated' \in Selections
                    /\ diff' \in [Workers -> Comparison]
                    /\ submitting' \in [pc : {"before", "create", "associate", "done"},
                                        add : SUBSET Items]
                    /\ recorded' \in BOOLEAN /\ lastEdit' \in {"before", "deal", "card"}
                    /\ refused' \in BOOLEAN /\ refusals' \in 0..MaxRefusals
<1>5. SUFFICES Kept
  BY <1>1, <1>2, CountsTyped DEF TypedInv, AssociationTypeOK, Counted, Lists
<1>6. CASE UNCHANGED avars
  BY <1>0, <1>6 DEF AssociationTypeOK, avars
<1>7. ASSUME NEW s \in Selections, EditDeal(s) \/ EditCard(s) PROVE Kept
  BY <1>0, <1>7 DEF AssociationTypeOK, EditDeal, EditCard, Edit
<1>8. CASE SubmitLoad \/ SubmitRecord \/ SubmitDone
  <2>1. submitting' \in [pc : {"before", "create", "associate", "done"}, add : SUBSET Items]
    <3>1. wanted \in SUBSET Items
      BY <1>3, <1>4
    <3> QED
      BY <1>0, <1>8, <3>1 DEF AssociationTypeOK, SubmitLoad, SubmitRecord, SubmitDone
  <2>2. recorded' \in BOOLEAN
    BY <1>0, <1>8 DEF AssociationTypeOK, SubmitLoad, SubmitRecord, SubmitDone
  <2>3. UNCHANGED <<wanted, associated, diff, lastEdit, refused, refusals>>
    BY <1>8 DEF SubmitLoad, SubmitRecord, SubmitDone
  <2> QED
    BY <1>0, <2>1, <2>2, <2>3 DEF AssociationTypeOK
<1>9. ASSUME NEW x \in Items, SubmitAssociate(x) PROVE Kept
  <2>1. associated' \in Selections /\ refused' \in BOOLEAN /\ refusals' \in 0..MaxRefusals
    BY <1>0, <1>9, AssociateTyped DEF AssociationTypeOK, SubmitAssociate
  <2> QED
    BY <1>0, <1>9, <2>1 DEF AssociationTypeOK, SubmitAssociate, NoSubmit
<1>10. ASSUME NEW w \in Workers,
              ReceiveChange(w) \/ ReadDeal(w) \/ ReadAws(w) \/ Acknowledge(w) \/ Die(w)
       PROVE  Kept
  <2>1. associated \subseteq Items /\ wanted \subseteq Items
    BY <1>3, <1>4
  <2>2. diff[w] \in Comparison
    BY <1>0 DEF AssociationTypeOK
  <2>5. NoDiff \in Comparison /\ Difference(w) \in Comparison
    BY <2>1, <2>2 DEF NoDiff, Difference, DiffPcs
  <2>3. diff' \in [Workers -> Comparison]
    <3>1. CASE ReadAws(w)
      BY <1>0, <2>5, <3>1 DEF AssociationTypeOK, ReadAws
    <3>2. CASE Acknowledge(w) \/ Die(w)
      BY <1>0, <2>5, <3>2 DEF AssociationTypeOK, Acknowledge, Die
    <3>3. CASE ReceiveChange(w) \/ ReadDeal(w)
      BY <1>0, <2>1, <2>2, <3>3 DEF AssociationTypeOK, ReceiveChange, ReadDeal, DiffPcs
    <3> QED
      BY <1>10, <3>1, <3>2, <3>3
  <2>4. refusals' \in 0..MaxRefusals
    <3>1. \/ refusals' = refusals
          \/ refusals < MaxRefusals /\ refusals' = refusals + 1
      BY <1>10 DEF ReceiveChange, ReadDeal, ReadAws, Acknowledge, Die
    <3> QED
      BY <1>0, <3>1, NatBounds, SMT DEF AssociationTypeOK
  <2> QED
    BY <1>0, <1>10, <2>3, <2>4 DEF AssociationTypeOK, ReceiveChange, ReadDeal, ReadAws,
       Acknowledge, Die
<1>11. ASSUME NEW w \in Workers, NEW x \in Items, Add(w, x) \/ Drop(w, x) PROVE Kept
  <2>1. associated' \in Selections /\ refused' \in BOOLEAN /\ refusals' \in 0..MaxRefusals
    BY <1>0, <1>11, AssociateTyped DEF AssociationTypeOK, Add, Drop
  <2>2. diff' \in [Workers -> Comparison]
    BY <1>0, <1>11 DEF AssociationTypeOK, Add, Drop
  <2> QED
    BY <1>0, <1>11, <2>1, <2>2 DEF AssociationTypeOK, Add, Drop
<1> QED
  BY <1>6, <1>7, <1>8, <1>9, <1>10, <1>11 DEF AssociationNext

-----------------------------------------------------------------------------
(* The submission comes first.                                             *)

\* Only an edit made after the submission counts as one of the deal or the card.
LEMMA NextSubmitted ==
    ASSUME TypedInv, SubmittedInv, [AssociationNext]_avars PROVE SubmittedInv'
<1> USE DEF SubmittedInv
<1>1. CASE \E s \in Selections : EditDeal(s) \/ EditCard(s)
  BY <1>1 DEF EditDeal, EditCard, Edit
<1>2. CASE SubmitLoad \/ SubmitRecord \/ SubmitDone \/ \E x \in Items : SubmitAssociate(x)
  BY <1>2 DEF SubmitLoad, SubmitRecord, SubmitDone, SubmitAssociate, NoSubmit, TypedInv,
     AssociationTypeOK
<1>3. CASE \E w \in Workers :
              \/ ReceiveChange(w) \/ ReadDeal(w) \/ ReadAws(w) \/ Acknowledge(w) \/ Die(w)
              \/ \E x \in Items : Add(w, x) \/ Drop(w, x)
  BY <1>3 DEF ReceiveChange, ReadDeal, ReadAws, Acknowledge, Die, Add, Drop
<1>4. CASE UNCHANGED avars
  BY <1>4 DEF avars
<1> QED
  BY <1>1, <1>2, <1>3, <1>4 DEF AssociationNext

-----------------------------------------------------------------------------
(* One comparison at a time.                                               *)

\* A call that AWS takes brings the list one item closer; of a solution there
\* is none when the new one is associated.
LEMMA CallOnTrack ==
    ASSUME TypedInv, NEW w \in Workers, NEW x \in Items, Add(w, x) \/ Drop(w, x),
           refused \/ OnTrack(w)
    PROVE  refused' \/ OnTrack(w)'
<1> SUFFICES ASSUME ~refused' PROVE OnTrack(w)'
  OBVIOUS
<1>0. AssociationTypeOK /\ diff \in [Workers -> Comparison]
  BY DEF TypedInv, AssociationTypeOK, Comparison
<1>1. ~refused /\ OnTrack(w) /\ wanted' = wanted
  BY DEF Add, Drop, Associate, Disassociate
<1>2. CASE Add(w, x)
  <2>1. x \in wanted \ associated
    BY <1>1, <1>2 DEF Add, OnTrack
  <2>2. associated' = associated \cup {x}
    <3>1. CASE list = "solution"
      <4>1. associated \subseteq wanted
        BY <1>1, <1>2, <3>1 DEF Add, OnTrack
      <4>2. \A a, b \in wanted : a = b
        BY <1>0, <3>1, Single DEF AssociationTypeOK, Selections
      <4>3. associated = {}
        BY <2>1, <4>1, <4>2
      <4> QED
        BY <1>2, <4>3 DEF Add, Associate
    <3>2. CASE list = "products"
      BY <1>2, <3>2 DEF Add, Associate
    <3> QED
      BY <1>0, <3>1, <3>2 DEF AssociationTypeOK, Lists
  <2>3. diff'[w].add = diff[w].add \ {x} /\ diff'[w].drop = diff[w].drop
    BY <1>0, <1>2 DEF Add, Comparison
  <2> QED
    BY <1>1, <2>1, <2>2, <2>3 DEF OnTrack
<1>3. CASE Drop(w, x)
  <2>1. x \in associated \ wanted
    BY <1>1, <1>3 DEF Drop, OnTrack
  <2>2. associated' = associated \ {x}
    BY <1>3 DEF Drop, Disassociate
  <2>3. diff'[w].drop = diff[w].drop \ {x} /\ diff'[w].add = diff[w].add
    BY <1>0, <1>3 DEF Drop, Comparison
  <2> QED
    BY <1>1, <2>1, <2>2, <2>3 DEF OnTrack
<1> QED
  BY <1>2, <1>3

\* What an invocation that works towards the deal does next is towards it as
\* well, until AWS has what the deal asks for.
LEMMA WorkerTowards ==
    ASSUME TypedInv, NEW w \in Workers, TowardsDeal(w),
           ReadAws(w) \/ Acknowledge(w) \/ \E x \in Items : Add(w, x) \/ Drop(w, x)
    PROVE  \/ TowardsDeal(w)'
           \/ diff' = [diff EXCEPT ![w] = NoDiff] /\ (refused' \/ associated' = wanted')
<1>0. diff \in [Workers -> Comparison]
  BY DEF TypedInv, AssociationTypeOK, Comparison
<1>1. wanted' = wanted
  BY DEF ReadAws, Acknowledge, Add, Drop
<1>2. CASE ReadAws(w)
  <2>1. CASE diff' = [diff EXCEPT ![w] = NoDiff] /\ refused' = TRUE
    BY <2>1
  <2>2. CASE diff' = [diff EXCEPT ![w] = Difference(w)]
    <3>1. /\ diff'[w].pc = "calls" /\ diff'[w].wanted = diff[w].wanted
          /\ diff'[w].add = diff[w].wanted \ associated
          /\ diff'[w].drop = associated \ diff[w].wanted
      BY <1>0, <2>2 DEF Difference, Comparison
    <3>2. associated' = associated
      BY <1>2 DEF ReadAws
    <3> QED
      BY <1>1, <3>1, <3>2 DEF TowardsDeal, OnTrack, Compares
  <2> QED
    BY <1>2, <2>1, <2>2 DEF ReadAws
<1>3. CASE Acknowledge(w)
  <2>1. refused \/ (wanted \ associated = {} /\ associated \ wanted = {})
    BY <1>3 DEF Acknowledge, TowardsDeal, OnTrack
  <2>2. refused \/ associated = wanted
    BY <2>1
  <2>3. diff' = [diff EXCEPT ![w] = NoDiff] /\ refused' = refused /\ associated' = associated
    BY <1>3 DEF Acknowledge
  <2> QED
    BY <1>1, <2>2, <2>3
<1>4. ASSUME NEW x \in Items, Add(w, x) \/ Drop(w, x) PROVE TowardsDeal(w)'
  <2>1. diff[w].pc = "calls"
    BY <1>4 DEF Add, Drop
  <2>2. refused' \/ OnTrack(w)'
    BY <1>4, <2>1, CallOnTrack DEF TowardsDeal
  <2>3. diff'[w].pc = "calls" /\ diff'[w].wanted = diff[w].wanted
    BY <1>0, <1>4, <2>1 DEF Add, Drop, Comparison
  <2> QED
    BY <1>1, <2>2, <2>3 DEF TowardsDeal, Compares
<1> QED
  BY <1>2, <1>3, <1>4

\* What is left is done, whichever of the invocations goes on.
LEMMA WorkLeft ==
    ASSUME TypedInv, SubmittedInv, ComparisonsApart, LeftInv, NEW v \in Workers,
           \/ ReceiveChange(v) \/ ReadDeal(v) \/ ReadAws(v) \/ Acknowledge(v) \/ Die(v)
           \/ \E x \in Items : Add(v, x) \/ Drop(v, x),
           lastEdit' = "deal", messages' = 0
    PROVE  LeftInv'
<1>0. diff \in [Workers -> Comparison] /\ messages \in Nat
  BY NatBounds, SMT DEF TypedInv, AssociationTypeOK, Comparison
<1>1. lastEdit = "deal" /\ wanted' = wanted
  BY DEF ReceiveChange, ReadDeal, ReadAws, Acknowledge, Die, Add, Drop
<1>2. CASE ReceiveChange(v)
  <2>1. recorded
    BY <1>1 DEF SubmittedInv
  <2>2. diff'[v].pc = "deal"
    BY <1>0, <1>2, <2>1 DEF ReceiveChange
  <2> QED
    BY <2>2 DEF LeftInv
<1>3. CASE Die(v)
  <2>1. messages' = messages + 1
    BY <1>3 DEF Die
  <2> QED
    BY <1>0, <2>1, SMT
<1>4. CASE ReadDeal(v)
  <2>1. diff'[v].pc = "aws" /\ diff'[v].wanted = wanted
    BY <1>0, <1>4 DEF ReadDeal, Comparison
  <2>2. TowardsDeal(v)'
    BY <1>1, <2>1 DEF TowardsDeal, Compares
  <2> QED
    BY <2>2 DEF LeftInv
<1>5. CASE ReadAws(v) \/ Acknowledge(v) \/ \E x \in Items : Add(v, x) \/ Drop(v, x)
  <2>1. Compares(v) /\ messages = 0 /\ \A w \in Workers \ {v} : diff'[w] = diff[w]
    BY <1>0, <1>5 DEF Compares, ReadAws, Acknowledge, Add, Drop
  <2>2. \A w \in Workers \ {v} : ~Compares(w)
    BY <2>1 DEF ComparisonsApart
  <2>3. PICK w \in Workers : diff[w].pc = "deal" \/ TowardsDeal(w)
    BY <1>1, <2>1 DEF LeftInv
  <2>4. CASE diff[w].pc = "deal"
    <3>1. w # v /\ diff'[w].pc = "deal"
      BY <2>1, <2>4 DEF Compares
    <3> QED
      BY <3>1 DEF LeftInv
  <2>5. CASE TowardsDeal(w)
    <3>1. w = v
      BY <2>2, <2>5 DEF TowardsDeal
    <3>2. CASE TowardsDeal(v)'
      BY <3>2 DEF LeftInv
    <3>3. CASE diff' = [diff EXCEPT ![v] = NoDiff] /\ (refused' \/ associated' = wanted')
      <4>1. diff'[v].pc = "idle"
        BY <1>0, <3>3 DEF NoDiff
      <4>2. \A u \in Workers : ~Compares(u)'
        BY <2>1, <2>2, <4>1 DEF Compares
      <4> QED
        BY <3>3, <4>2 DEF LeftInv
    <3> QED
      BY <1>5, <2>5, <3>1, <3>2, <3>3, WorkerTowards
  <2> QED
    BY <2>3, <2>4, <2>5
<1> QED
  BY <1>2, <1>3, <1>4, <1>5

\* An edit of the deal leaves a message, one of the card is not waited for, and
\* the submission is over.
LEMMA NextLeft ==
    ASSUME ComparisonsApart, TypedInv, SubmittedInv, LeftInv, [AssociationNext]_avars
    PROVE  LeftInv'
<1> SUFFICES ASSUME lastEdit' = "deal", messages' = 0 PROVE LeftInv'
  BY DEF LeftInv
<1>0. messages \in Nat
  BY NatBounds, SMT DEF TypedInv, AssociationTypeOK
<1>1. ASSUME NEW s \in Selections, EditDeal(s) PROVE FALSE
  <2>1. messages' = messages + 1
    BY <1>1 DEF EditDeal
  <2> QED
    BY <1>0, <2>1, SMT
<1>2. ASSUME NEW s \in Selections, EditCard(s) PROVE FALSE
  BY <1>2 DEF EditCard
<1>3. CASE SubmitLoad \/ SubmitRecord \/ SubmitDone \/ \E x \in Items : SubmitAssociate(x)
  BY <1>3 DEF SubmitLoad, SubmitRecord, SubmitDone, SubmitAssociate, SubmittedInv
<1>4. ASSUME NEW v \in Workers,
             \/ ReceiveChange(v) \/ ReadDeal(v) \/ ReadAws(v) \/ Acknowledge(v) \/ Die(v)
             \/ \E x \in Items : Add(v, x) \/ Drop(v, x)
      PROVE  LeftInv'
  BY <1>4, WorkLeft
<1>5. CASE UNCHANGED avars
  BY <1>5 DEF avars, LeftInv, TowardsDeal, OnTrack, Compares
<1> QED
  BY <1>1, <1>2, <1>3, <1>4, <1>5 DEF AssociationNext

-----------------------------------------------------------------------------
(* Theorems.                                                               *)

\* The types of the list at both ends, of the queue and of the comparisons, for
\* any number of invocations: AWS never has two solutions.
THEOREM ListsTyped == AssociationSpec => []AssociationTypeOK
<1>1. TypedInv => AssociationTypeOK
  BY DEF TypedInv
<1> QED
  BY <1>1, InitTyped, NextTyped, PTL DEF AssociationSpec

\* The inductive invariant, for any number of invocations of update_in_ace.
THEOREM AssociationInvariant ==
    AssociationSpec /\ []ComparisonsApart => []AssociationInv
<1>1. AssociationInit => AssociationInv
  <2> SUFFICES ASSUME AssociationInit PROVE AssociationInv
    OBVIOUS
  <2>1. SubmittedInv /\ LeftInv
    BY DEF AssociationInit, SubmittedInv, LeftInv, NoSubmit
  <2> QED
    BY <2>1, InitTyped DEF AssociationInv
<1>2. AssociationInv /\ ComparisonsApart /\ [AssociationNext]_avars => AssociationInv'
  BY NextTyped, NextSubmitted, NextLeft DEF AssociationInv
<1> QED
  BY <1>1, <1>2, PTL DEF AssociationSpec

\* After an edit of the list AWS ends up with exactly what the deal asks for,
\* through crashes and refusals that a later edit heals, and however many
\* invocations take messages of the deal: as long as one of them reads the deal
\* only when the one before is through with its calls.
THEOREM ListsAgree ==
    AssociationSpec /\ []ComparisonsApart => []ListReachesAws
<1>1. AssociationInv => ListReachesAws
  BY DEF AssociationInv, LeftInv, ListReachesAws, Settled, TowardsDeal, Compares
<1> QED
  BY <1>1, AssociationInvariant, PTL

-----------------------------------------------------------------------------
(* The bodies of updates.  What AWS has is of known values; scrubbing makes*)
(* it a body that AWS takes, and neither an edited property nor a form lays*)
(* anything over it that AWS does not take.                                *)

\* The names of the fields of an opportunity.
OpportunityFields ==
    {"Needs", "OpportunityType", "NationalSecurity", "SoftwareRevenue", "Industry",
     "OtherIndustry", "AwsAccountId", "Country", "State", "Contacts", "Title", "Problem",
     "UseCase", "Spend", "DeliveryModels", "SalesActivities", "CompetitorName",
     "OtherCompetitorNames", "AdditionalComments", "RelatedOpportunityIdentifier",
     "CustomerAwsAccountId", "Stage", "ClosedLostReason", "NextSteps", "TargetCloseDate",
     "Source", "Campaign"}

\* The names of the properties of a deal.
PropertyNames ==
    {"amount", "closedate", "dealname", "description", "industry", "opportunity_type",
     "delivery_model", "partner_need", "use_case", "marketing_source", "marketing_campaign",
     "closed_lost_reason", "lifecycle_stage", "competitor_name", "sales_activities",
     "national_security", "additional_comments", "aws_account_id", "next_steps",
     "related_opportunity_id"}

\* The values AWS knows of some fields.
Vocabulary ==
    [DeliveryModels |-> DeliveryModels, UseCase |-> UseCases, Industry |-> Industries,
     OpportunityType |-> OpportunityTypes, Source |-> {Unset, "None", Activity}]

\* What AWS takes of a body, but for needs, accounts, competitors and national security:
\* known values, ...
KnownFields(o) ==
    /\ DOMAIN Vocabulary \cup {"OtherIndustry"} \subseteq DOMAIN o
    /\ \A f \in DOMAIN Vocabulary : o[f] \in Vocabulary[f]
    /\ o.OtherIndustry # Unset => o.Industry = "Other"

\* ... no stubs, ...
Shaped(o) ==
    /\ KnownFields(o)
    /\ {"Spend", "SalesActivities", "Contacts", "Campaign", "Stage", "ClosedLostReason"}
          \subseteq DOMAIN o
    /\ o.Spend # Stub /\ o.SalesActivities # Stub /\ Stub \notin o.Contacts

\* ... marketing as a whole, ...
Sendable(o) == Shaped(o) /\ o.Source # Unset /\ (o.Campaign # Unset => o.Source = Activity)

\* ... and both halves of Closed Lost.
Paired(o) == (o.Stage = ClosedLost) = (o.ClosedLostReason # Unset)

\* Laying fields that AWS takes over a body leaves it one that AWS takes.
Harmless(w) ==
    /\ DOMAIN w \subseteq OpportunityFields
    /\ \A f \in DOMAIN w \cap DOMAIN Vocabulary : w[f] \in Vocabulary[f]
    /\ {"Industry", "OtherIndustry"} \cap DOMAIN w # {} =>
          /\ {"Industry", "OtherIndustry"} \subseteq DOMAIN w
          /\ w.OtherIndustry # Unset => w.Industry = "Other"
    /\ "Spend" \in DOMAIN w => w.Spend # Stub
    /\ "SalesActivities" \in DOMAIN w => w.SalesActivities # Stub
    /\ "Contacts" \notin DOMAIN w
    /\ {"Source", "Campaign"} \cap DOMAIN w # {} =>
          /\ {"Source", "Campaign"} \subseteq DOMAIN w
          /\ w.Source # Unset /\ (w.Campaign # Unset => w.Source = Activity)

\* The edits that may wait.
Messages == {m \in [prop : PropertyNames, value : UNION {Options[p] : p \in PropertyNames}] :
                m.value \in Options[m.prop]}

\* Nothing is at AWS, or all the fields, of known values.
AtAwsInv ==
    \/ opportunity = <<>> /\ inbox = <<>>
    \/ DOMAIN opportunity = OpportunityFields /\ KnownFields(opportunity)

\* The invariant: what is at AWS has all its fields, of known values, whoever wrote them last;
\* no body has broken a rule.
FormInv ==
    /\ Deals # {} /\ customer \in Customers /\ DOMAIN held = PropertyNames
    /\ AtAwsInv /\ inbox \in Seq(Messages)
    /\ stale \subseteq PropertyNames /\ edited \subseteq PropertyNames
    /\ formEdits \in 0..MaxFormEdits /\ centralEdits \in 0..MaxInCentral
    /\ BodiesAreAccepted

-----------------------------------------------------------------------------
(* Functions of fields.                                                    *)

\* The fields of f and of g.
LEMMA Fields ==
    ASSUME NEW f, NEW g
    PROVE  /\ DOMAIN (f ++ g) = DOMAIN f \cup DOMAIN g
           /\ \A x \in DOMAIN f : (f ++ g)[x] = f[x]
           /\ \A x \in DOMAIN g : x \notin DOMAIN f => (f ++ g)[x] = g[x]
  BY DEF ++

\* A function of one field has that field, with that value.
LEMMA OneField ==
    ASSUME NEW x, NEW v PROVE DOMAIN Field(x, v) = {x} /\ Field(x, v)[x] = v
  BY DEF Field

\* The fields whose values AWS knows.
LEMMA KnownNames ==
    /\ DOMAIN Vocabulary = {"DeliveryModels", "UseCase", "Industry", "OpportunityType", "Source"}
    /\ Vocabulary.DeliveryModels = DeliveryModels /\ Vocabulary.UseCase = UseCases
    /\ Vocabulary.Industry = Industries /\ Vocabulary.OpportunityType = OpportunityTypes
    /\ Vocabulary.Source = {Unset, "None", Activity}
  BY DEF Vocabulary

\* To be of known values, field by field.
LEMMA KnownValues ==
    ASSUME NEW o
    PROVE  (\A f \in DOMAIN Vocabulary : o[f] \in Vocabulary[f]) <=>
              /\ o.DeliveryModels \in DeliveryModels /\ o.UseCase \in UseCases
              /\ o.Industry \in Industries /\ o.OpportunityType \in OpportunityTypes
              /\ o.Source \in {Unset, "None", Activity}
  BY KnownNames

\* The rules that a body breaks.
LEMMA Refusals ==
    ASSUME NEW o, Shaped(o)
    PROVE  /\ Broken(o) \subseteq
                {"needs", "account", "competitor", "security", "pair", "marketing"}
           /\ Paired(o) => "pair" \notin Broken(o)
           /\ Sendable(o) => "marketing" \notin Broken(o)
<1>1. /\ o.DeliveryModels \in DeliveryModels /\ o.UseCase \in UseCases
      /\ o.OpportunityType \in OpportunityTypes /\ o.Industry \in Industries
      /\ o.OtherIndustry # Unset => o.Industry = "Other"
      /\ o.Source \in {Unset, "None", Activity}
      /\ o.Spend # Stub /\ o.SalesActivities # Stub /\ Stub \notin o.Contacts
  BY KnownValues DEF Shaped, KnownFields
<1>2. DOMAIN Rules(o) = {"needs", "enums", "stubs", "marketing", "pair", "competitor", "security",
                         "account"}
  BY DEF Rules
<1>3. Rules(o).enums /\ Rules(o).stubs
  BY <1>1, Zenon DEF Rules
<1>4. Paired(o) => Rules(o).pair
  BY Zenon DEF Rules, Paired
<1>5. ASSUME Sendable(o) PROVE Rules(o).marketing
  <2>1. o.Source \in {"None", Activity} /\ (o.Campaign # Unset => o.Source = Activity)
    BY <1>1, <1>5 DEF Sendable
  <2> QED
    BY <2>1, Zenon DEF Rules
<1> QED
  BY <1>2, <1>3, <1>4, <1>5 DEF Broken

-----------------------------------------------------------------------------
(* The opportunity that submit_to_ace creates, and what is sent back of it.*)

\* Whatever the industry, its sector is one AWS knows, and a text comes with Other.
LEMMA SectorKnown ==
    ASSUME NEW industry
    PROVE  /\ Sector(industry)[1] \in Industries
           /\ Sector(industry)[2] # Unset => Sector(industry)[1] = "Other"
  BY DEF Sector, Industries

\* The blocks an opportunity is created from do not overlap.
LEMMA Blocks ==
    ASSUME NEW d, NEW c
    PROVE  LET o == CreatedFrom(d, c) IN
           /\ DOMAIN o = OpportunityFields
           /\ o.Needs = WireNeed(d.partner_need) /\ o.OpportunityType = NewBusiness
           /\ o.NationalSecurity = Unset /\ o.SoftwareRevenue = Unset
           /\ \A f \in DOMAIN CustomerBlock(d, c) : o[f] = CustomerBlock(d, c)[f]
           /\ \A f \in DOMAIN ProjectBlock(d) : o[f] = ProjectBlock(d)[f]
           /\ \A f \in DOMAIN LifeCycleBlock(d) : o[f] = LifeCycleBlock(d)[f]
           /\ \A f \in DOMAIN MarketingBlock(d) : o[f] = MarketingBlock(d)[f]
<1> DEFINE first == [Needs |-> WireNeed(d.partner_need), OpportunityType |-> NewBusiness,
                     NationalSecurity |-> Unset, SoftwareRevenue |-> Unset]
           two   == first ++ CustomerBlock(d, c)
           three == two ++ ProjectBlock(d)
           four  == three ++ LifeCycleBlock(d)
           o     == four ++ MarketingBlock(d)
<1>1. CreatedFrom(d, c) = o
  BY DEF CreatedFrom
<1>2. /\ DOMAIN first = {"Needs", "OpportunityType", "NationalSecurity", "SoftwareRevenue"}
      /\ first.Needs = WireNeed(d.partner_need) /\ first.OpportunityType = NewBusiness
      /\ first.NationalSecurity = Unset /\ first.SoftwareRevenue = Unset
  OBVIOUS
<1>3. DOMAIN CustomerBlock(d, c) =
          {"Industry", "OtherIndustry", "AwsAccountId", "Country", "State", "Contacts"}
  BY DEF CustomerBlock
<1>4. DOMAIN ProjectBlock(d) =
          {"Title", "Problem", "UseCase", "Spend", "DeliveryModels", "SalesActivities",
           "CompetitorName", "OtherCompetitorNames", "AdditionalComments",
           "RelatedOpportunityIdentifier", "CustomerAwsAccountId"}
  BY DEF ProjectBlock
<1>5. DOMAIN LifeCycleBlock(d) = {"Stage", "ClosedLostReason", "NextSteps", "TargetCloseDate"}
  BY DEF LifeCycleBlock
<1>6. DOMAIN MarketingBlock(d) = {"Source", "Campaign"}
  BY DEF MarketingBlock
<1>7. /\ DOMAIN two = DOMAIN first \cup DOMAIN CustomerBlock(d, c)
      /\ \A f \in DOMAIN first : two[f] = first[f]
      /\ \A f \in DOMAIN CustomerBlock(d, c) : f \notin DOMAIN first =>
            two[f] = CustomerBlock(d, c)[f]
  BY Fields
<1>8. /\ DOMAIN three = DOMAIN two \cup DOMAIN ProjectBlock(d)
      /\ \A f \in DOMAIN two : three[f] = two[f]
      /\ \A f \in DOMAIN ProjectBlock(d) : f \notin DOMAIN two => three[f] = ProjectBlock(d)[f]
  BY Fields
<1>9. /\ DOMAIN four = DOMAIN three \cup DOMAIN LifeCycleBlock(d)
      /\ \A f \in DOMAIN three : four[f] = three[f]
      /\ \A f \in DOMAIN LifeCycleBlock(d) : f \notin DOMAIN three =>
            four[f] = LifeCycleBlock(d)[f]
  BY Fields
<1>10. /\ DOMAIN o = DOMAIN four \cup DOMAIN MarketingBlock(d)
       /\ \A f \in DOMAIN four : o[f] = four[f]
       /\ \A f \in DOMAIN MarketingBlock(d) : f \notin DOMAIN four => o[f] = MarketingBlock(d)[f]
  BY Fields
<1> HIDE DEF first, two, three, four, o
<1>11. DOMAIN o = OpportunityFields
  BY <1>2, <1>3, <1>4, <1>5, <1>6, <1>7, <1>8, <1>9, <1>10 DEF OpportunityFields
<1>12. \A f \in DOMAIN first : o[f] = first[f]
  BY <1>7, <1>8, <1>9, <1>10
<1>13. \A f \in DOMAIN CustomerBlock(d, c) : o[f] = CustomerBlock(d, c)[f]
  <2>1. DOMAIN first \cap DOMAIN CustomerBlock(d, c) = {}
    BY <1>2, <1>3
  <2> QED
    BY <2>1, <1>7, <1>8, <1>9, <1>10
<1>14. \A f \in DOMAIN ProjectBlock(d) : o[f] = ProjectBlock(d)[f]
  <2>1. DOMAIN two \cap DOMAIN ProjectBlock(d) = {}
    BY <1>2, <1>3, <1>4, <1>7
  <2> QED
    BY <2>1, <1>8, <1>9, <1>10
<1>15. \A f \in DOMAIN LifeCycleBlock(d) : o[f] = LifeCycleBlock(d)[f]
  <2>1. DOMAIN three \cap DOMAIN LifeCycleBlock(d) = {}
    BY <1>2, <1>3, <1>4, <1>5, <1>7, <1>8
  <2> QED
    BY <2>1, <1>9, <1>10
<1>16. \A f \in DOMAIN MarketingBlock(d) : o[f] = MarketingBlock(d)[f]
  <2>1. DOMAIN four \cap DOMAIN MarketingBlock(d) = {}
    BY <1>2, <1>3, <1>4, <1>5, <1>6, <1>7, <1>8, <1>9
  <2> QED
    BY <2>1, <1>10
<1> QED
  BY <1>1, <1>2, <1>11, <1>12, <1>13, <1>14, <1>15, <1>16

\* Where the fields of an opportunity come from when it is created.
LEMMA CreatedValues ==
    ASSUME NEW d, NEW c, NEW o, o = CreatedFrom(d, c), NEW industry,
           industry = (IF c.industry = Unset THEN d.industry ELSE c.industry)
    PROVE  /\ DOMAIN o = OpportunityFields
           /\ o.Needs = WireNeed(d.partner_need) /\ o.OpportunityType = NewBusiness
           /\ o.NationalSecurity = Unset /\ o.SoftwareRevenue = Unset
           /\ o.Industry = Sector(industry)[1] /\ o.OtherIndustry = Sector(industry)[2]
           /\ o.AwsAccountId = d.aws_account_id /\ o.Country = Country(c.country)
           /\ o.State = State(Country(c.country), c.state) /\ o.Contacts = Contacts(c)
           /\ o.Title = d.dealname /\ o.Problem = Problem(d.description, d.dealname)
           /\ o.UseCase = UseCase(d.use_case) /\ o.Spend = Spend(d.amount)
           /\ o.DeliveryModels = d.delivery_model /\ o.SalesActivities = DefaultActivity
           /\ o.CompetitorName = d.competitor_name
           /\ o.AdditionalComments = d.additional_comments
           /\ o.RelatedOpportunityIdentifier = d.related_opportunity_id
           /\ o.CustomerAwsAccountId = Unset
           /\ o.Stage = Unset /\ o.ClosedLostReason = Unset /\ o.NextSteps = d.next_steps
           /\ o.TargetCloseDate = d.closedate
           /\ o.Source = IF d.marketing_source = Activity THEN Activity ELSE Unset
<1> DEFINE customers == CustomerBlock(d, c)
           project   == ProjectBlock(d)
           life      == LifeCycleBlock(d)
<1>1. /\ DOMAIN customers =
            {"Industry", "OtherIndustry", "AwsAccountId", "Country", "State", "Contacts"}
      /\ customers.Industry = Sector(industry)[1] /\ customers.OtherIndustry = Sector(industry)[2]
      /\ customers.AwsAccountId = d.aws_account_id /\ customers.Country = Country(c.country)
      /\ customers.State = State(Country(c.country), c.state)
      /\ customers.Contacts = Contacts(c)
  BY DEF CustomerBlock
<1>2. /\ DOMAIN project =
            {"Title", "Problem", "UseCase", "Spend", "DeliveryModels", "SalesActivities",
             "CompetitorName", "OtherCompetitorNames", "AdditionalComments",
             "RelatedOpportunityIdentifier", "CustomerAwsAccountId"}
      /\ project.Title = d.dealname /\ project.Problem = Problem(d.description, d.dealname)
      /\ project.UseCase = UseCase(d.use_case) /\ project.Spend = Spend(d.amount)
      /\ project.DeliveryModels = d.delivery_model /\ project.SalesActivities = DefaultActivity
      /\ project.CompetitorName = d.competitor_name
      /\ project.AdditionalComments = d.additional_comments
      /\ project.RelatedOpportunityIdentifier = d.related_opportunity_id
      /\ project.CustomerAwsAccountId = Unset
  BY DEF ProjectBlock
<1>3. /\ DOMAIN life = {"Stage", "ClosedLostReason", "NextSteps", "TargetCloseDate"}
      /\ life.Stage = Unset /\ life.ClosedLostReason = Unset /\ life.NextSteps = d.next_steps
      /\ life.TargetCloseDate = d.closedate
  BY DEF LifeCycleBlock
<1>4. /\ DOMAIN MarketingBlock(d) = {"Source", "Campaign"}
      /\ MarketingBlock(d).Source = IF d.marketing_source = Activity THEN Activity ELSE Unset
  BY DEF MarketingBlock
<1>5. /\ \A f \in DOMAIN customers : o[f] = customers[f]
      /\ \A f \in DOMAIN project : o[f] = project[f]
      /\ \A f \in DOMAIN life : o[f] = life[f]
      /\ \A f \in DOMAIN MarketingBlock(d) : o[f] = MarketingBlock(d)[f]
  <2> HIDE DEF customers, project, life
  <2>1. /\ \A f \in DOMAIN CustomerBlock(d, c) : CreatedFrom(d, c)[f] = CustomerBlock(d, c)[f]
        /\ \A f \in DOMAIN ProjectBlock(d) : CreatedFrom(d, c)[f] = ProjectBlock(d)[f]
        /\ \A f \in DOMAIN LifeCycleBlock(d) : CreatedFrom(d, c)[f] = LifeCycleBlock(d)[f]
        /\ \A f \in DOMAIN MarketingBlock(d) : CreatedFrom(d, c)[f] = MarketingBlock(d)[f]
    BY Blocks
  <2> QED
    BY <2>1 DEF customers, project, life
<1>6. /\ DOMAIN o = OpportunityFields
      /\ o.Needs = WireNeed(d.partner_need) /\ o.OpportunityType = NewBusiness
      /\ o.NationalSecurity = Unset /\ o.SoftwareRevenue = Unset
  BY Blocks
<1> HIDE DEF customers, project, life
<1>7. /\ o.Industry = Sector(industry)[1] /\ o.OtherIndustry = Sector(industry)[2]
      /\ o.AwsAccountId = d.aws_account_id /\ o.Country = Country(c.country)
      /\ o.State = State(Country(c.country), c.state) /\ o.Contacts = Contacts(c)
  BY <1>1, <1>5
<1>8. /\ o.Title = d.dealname /\ o.Problem = Problem(d.description, d.dealname)
      /\ o.UseCase = UseCase(d.use_case) /\ o.Spend = Spend(d.amount)
      /\ o.DeliveryModels = d.delivery_model /\ o.SalesActivities = DefaultActivity
      /\ o.CompetitorName = d.competitor_name
      /\ o.AdditionalComments = d.additional_comments
      /\ o.RelatedOpportunityIdentifier = d.related_opportunity_id
      /\ o.CustomerAwsAccountId = Unset
  BY <1>2, <1>5
<1>9. /\ o.Stage = Unset /\ o.ClosedLostReason = Unset /\ o.NextSteps = d.next_steps
      /\ o.TargetCloseDate = d.closedate
  BY <1>3, <1>5
<1>10. o.Source = IF d.marketing_source = Activity THEN Activity ELSE Unset
  BY <1>4, <1>5
<1> QED
  BY <1>6, <1>7, <1>8, <1>9, <1>10

\* submit_to_ace creates an opportunity with all the fields, of known values unless
\* the deal goes back to BD.  It is no lost one.
LEMMA Creation ==
    ASSUME NEW d, NEW c
    PROVE  /\ DOMAIN CreatedFrom(d, c) = OpportunityFields
           /\ CreatedFrom(d, c).Stage = Unset /\ CreatedFrom(d, c).ClosedLostReason = Unset
           /\ ~Unmappable(d, c) => KnownFields(CreatedFrom(d, c))
<1>1. PICK o : o = CreatedFrom(d, c)
  OBVIOUS
<1>2. PICK industry : industry = IF c.industry = Unset THEN d.industry ELSE c.industry
  OBVIOUS
<1>3. /\ DOMAIN o = OpportunityFields /\ o.Stage = Unset /\ o.ClosedLostReason = Unset
      /\ o.OpportunityType = NewBusiness /\ o.DeliveryModels = d.delivery_model
      /\ o.Industry = Sector(industry)[1] /\ o.OtherIndustry = Sector(industry)[2]
      /\ o.UseCase = UseCase(d.use_case)
      /\ o.Source = IF d.marketing_source = Activity THEN Activity ELSE Unset
  BY <1>1, <1>2, CreatedValues
<1>4. ASSUME ~Unmappable(d, c) PROVE KnownFields(o)
  <2>1. UseCase(d.use_case) \in UseCases /\ d.delivery_model \in DeliveryModels
    BY <1>4 DEF Unmappable
  <2>2. /\ o.OpportunityType \in OpportunityTypes /\ o.Industry \in Industries
        /\ o.OtherIndustry # Unset => o.Industry = "Other"
        /\ o.Source \in {Unset, "None", Activity}
    BY <1>3, SectorKnown DEF OpportunityTypes
  <2>3. \A f \in DOMAIN Vocabulary : o[f] \in Vocabulary[f]
    BY <1>3, <2>1, <2>2, KnownValues
  <2> QED
    BY <1>3, <2>2, <2>3, KnownNames DEF KnownFields, OpportunityFields
<1> QED
  BY <1>1, <1>3, <1>4

\* Scrubbing makes what AWS has something it takes back.
LEMMA Scrubbed ==
    ASSUME NEW o, DOMAIN o = OpportunityFields, KnownFields(o)
    PROVE  Sendable(Scrub(o)) /\ DOMAIN Scrub(o) = OpportunityFields
<1>1. /\ DOMAIN Scrub(o) = OpportunityFields
      /\ \A f \in OpportunityFields
                 \ {"Spend", "SalesActivities", "Contacts", "Source", "Campaign"} :
            Scrub(o)[f] = o[f]
  BY DEF Scrub
<1>2. /\ Scrub(o).Spend # Stub /\ Scrub(o).SalesActivities # Stub /\ Stub \notin Scrub(o).Contacts
      /\ Scrub(o).Source = IF o.Source = Unset THEN "None" ELSE o.Source
      /\ Scrub(o).Campaign = IF o.Source = Activity THEN o.Campaign ELSE Unset
  BY FormAssumption DEF Scrub, OpportunityFields
<1>3. o.Source \in {Unset, "None", Activity}
  BY KnownNames DEF KnownFields
<1>4. \A f \in DOMAIN Vocabulary : Scrub(o)[f] \in Vocabulary[f]
  BY <1>1, <1>2, <1>3, KnownValues DEF KnownFields, OpportunityFields
<1>5. Scrub(o).OtherIndustry # Unset => Scrub(o).Industry = "Other"
  BY <1>1 DEF KnownFields, OpportunityFields
<1>6. KnownFields(Scrub(o))
  BY <1>1, <1>4, <1>5, KnownNames DEF KnownFields, OpportunityFields
<1>7. "None" # Unset /\ Activity # Unset
  BY FormAssumption
<1>8. {"Spend", "SalesActivities", "Contacts", "Campaign", "Stage", "ClosedLostReason"}
          \subseteq DOMAIN Scrub(o)
  BY <1>1 DEF OpportunityFields
<1> QED
  BY <1>1, <1>2, <1>3, <1>6, <1>7, <1>8 DEF Sendable, Shaped

\* A body that AWS takes breaks none of the rules.
LEMMA Taken ==
    ASSUME NEW o, Broken(o) = {}
    PROVE  /\ o.Needs \in Needs
           /\ o.DeliveryModels \in DeliveryModels /\ o.UseCase \in UseCases
           /\ o.OpportunityType \in OpportunityTypes /\ o.Industry \in Industries
           /\ o.OtherIndustry # Unset => o.Industry = "Other"
           /\ o.Spend # Stub /\ o.SalesActivities # Stub /\ Stub \notin o.Contacts
           /\ o.Source \in {"None", Activity} /\ (o.Campaign # Unset => o.Source = Activity)
           /\ Paired(o)
           /\ o.CompetitorName = OtherName => o.OtherCompetitorNames # Unset
           /\ o.NationalSecurity = "Yes" => o.Industry = "Government"
           /\ o.CustomerAwsAccountId = Unset
<1>1. DOMAIN Rules(o) = {"needs", "enums", "stubs", "marketing", "pair", "competitor", "security",
                         "account"}
  BY DEF Rules
<1>2. \A rule \in DOMAIN Rules(o) : Rules(o)[rule]
  BY DEF Broken
<1>3. /\ Rules(o).needs /\ Rules(o).enums /\ Rules(o).stubs /\ Rules(o).marketing
      /\ Rules(o).pair /\ Rules(o).competitor /\ Rules(o).security /\ Rules(o).account
  BY <1>1, <1>2
<1> QED
  BY <1>3, Zenon DEF Rules, Paired

\* What AWS has under its rules is of known values.
LEMMA TakenIsKnown ==
    ASSUME NEW o, DOMAIN o = OpportunityFields, Broken(Scrub(o)) = {}
    PROVE  KnownFields(o)
<1>1. /\ \A f \in OpportunityFields
                 \ {"Spend", "SalesActivities", "Contacts", "Source", "Campaign"} :
            Scrub(o)[f] = o[f]
      /\ Scrub(o).Source = IF o.Source = Unset THEN "None" ELSE o.Source
  BY DEF Scrub, OpportunityFields
<1>2. /\ o.DeliveryModels \in DeliveryModels /\ o.UseCase \in UseCases
      /\ o.OpportunityType \in OpportunityTypes /\ o.Industry \in Industries
      /\ o.OtherIndustry # Unset => o.Industry = "Other"
      /\ Scrub(o).Source \in {"None", Activity}
  BY <1>1, Taken DEF OpportunityFields
<1>3. \A f \in DOMAIN Vocabulary : o[f] \in Vocabulary[f]
  BY <1>1, <1>2, KnownValues
<1> QED
  BY <1>2, <1>3, KnownNames DEF KnownFields, OpportunityFields

-----------------------------------------------------------------------------
(* Edits of a property.                                                    *)

\* What the deal offers.
LEMMA Offers ==
    /\ DOMAIN Options = PropertyNames
    /\ Options.delivery_model = DeliveryModels /\ Options.use_case = UseCases
    /\ Options.opportunity_type = OpportunityTypes
    /\ Options.amount = {0, 12, 24, Unset}
<1> DEFINE own   == [amount |-> {0, 12, 24, Unset}, closedate |-> {1, 2}, dealname |-> Titles,
                     description |-> {"RFI", "long text", Unset}]
           two   == own ++ Classified
           three == two ++ Attributed
           all   == three ++ Described
<1>0. Options = all
  BY DEF Options
<1>1. DOMAIN own = {"amount", "closedate", "dealname", "description"}
      /\ own.amount = {0, 12, 24, Unset}
  OBVIOUS
<1>2. /\ DOMAIN Classified =
            {"industry", "opportunity_type", "delivery_model", "partner_need", "use_case"}
      /\ Classified.delivery_model = DeliveryModels /\ Classified.use_case = UseCases
      /\ Classified.opportunity_type = OpportunityTypes
  BY DEF Classified
<1>3. DOMAIN Attributed =
            {"marketing_source", "marketing_campaign", "closed_lost_reason", "lifecycle_stage",
             "competitor_name"}
  BY DEF Attributed
<1>4. DOMAIN Described =
            {"sales_activities", "national_security", "additional_comments", "aws_account_id",
             "next_steps", "related_opportunity_id"}
  BY DEF Described
<1>5. /\ DOMAIN two = DOMAIN own \cup DOMAIN Classified
      /\ \A x \in DOMAIN own : two[x] = own[x]
      /\ \A x \in DOMAIN Classified : x \notin DOMAIN own => two[x] = Classified[x]
  BY Fields
<1>6. /\ DOMAIN three = DOMAIN two \cup DOMAIN Attributed
      /\ \A x \in DOMAIN two : three[x] = two[x]
  BY Fields
<1>7. /\ DOMAIN all = DOMAIN three \cup DOMAIN Described
      /\ \A x \in DOMAIN three : all[x] = three[x]
  BY Fields
<1> HIDE DEF own, two, three, all
<1>8. /\ two.amount = own.amount /\ two.delivery_model = Classified.delivery_model
      /\ two.use_case = Classified.use_case /\ two.opportunity_type = Classified.opportunity_type
      /\ {"amount", "delivery_model", "use_case", "opportunity_type"} \subseteq DOMAIN two
  BY <1>1, <1>2, <1>5
<1>9. /\ all.amount = two.amount /\ all.delivery_model = two.delivery_model
      /\ all.use_case = two.use_case /\ all.opportunity_type = two.opportunity_type
  BY <1>6, <1>7, <1>8
<1>10. DOMAIN all = PropertyNames
  BY <1>1, <1>2, <1>3, <1>4, <1>5, <1>6, <1>7 DEF PropertyNames
<1> QED
  BY <1>0, <1>1, <1>2, <1>8, <1>9, <1>10

\* A body that AWS takes, with harmless fields laid over it, is one.
LEMMA Laid ==
    ASSUME NEW o, DOMAIN o = OpportunityFields, Sendable(o), NEW w, Harmless(w)
    PROVE  Sendable(w ++ o) /\ DOMAIN (w ++ o) = OpportunityFields
<1>1. /\ DOMAIN (w ++ o) = OpportunityFields
      /\ \A x \in DOMAIN w : (w ++ o)[x] = w[x]
      /\ \A x \in OpportunityFields \ DOMAIN w : (w ++ o)[x] = o[x]
  <2>1. DOMAIN w \subseteq OpportunityFields
    BY DEF Harmless
  <2>2. /\ DOMAIN (w ++ o) = DOMAIN w \cup DOMAIN o
        /\ \A x \in DOMAIN w : (w ++ o)[x] = w[x]
        /\ \A x \in DOMAIN o : x \notin DOMAIN w => (w ++ o)[x] = o[x]
    BY Fields
  <2> QED
    BY <2>1, <2>2
<1> DEFINE b == w ++ o
<1> HIDE DEF b
<1>2. \A x \in DOMAIN Vocabulary : x \in OpportunityFields
  BY KnownNames DEF OpportunityFields
<1>3. \A f \in DOMAIN Vocabulary : b[f] \in Vocabulary[f]
  BY <1>1, <1>2 DEF Harmless, Sendable, Shaped, KnownFields, b
<1>4. b.OtherIndustry # Unset => b.Industry = "Other"
  BY <1>1 DEF Harmless, Sendable, Shaped, KnownFields, b, OpportunityFields
<1>5. b.Spend # Stub /\ b.SalesActivities # Stub /\ Stub \notin b.Contacts
  BY <1>1 DEF Harmless, Sendable, Shaped, b, OpportunityFields
<1>6. b.Source # Unset /\ (b.Campaign # Unset => b.Source = Activity)
  BY <1>1 DEF Harmless, Sendable, Shaped, b, OpportunityFields
<1>7. KnownFields(b)
  BY <1>1, <1>3, <1>4, KnownNames DEF KnownFields, b, OpportunityFields
<1>8. {"Spend", "SalesActivities", "Contacts", "Campaign", "Stage", "ClosedLostReason"}
          \subseteq DOMAIN b
  BY <1>1 DEF OpportunityFields, b
<1>9. Sendable(b)
  BY <1>5, <1>6, <1>7, <1>8 DEF Sendable, Shaped
<1> QED
  BY <1>1, <1>9 DEF b

\* A number, or nothing, is no stub.
LEMMA SpendIsNoStub ==
    ASSUME NEW v \in {0, 12, 24, Unset} PROVE Spend(v) # Stub
<1>1. CASE v = Unset
  BY <1>1, FormAssumption DEF Spend
<1>2. CASE v # Unset
  <2>1. v \in {0, 12, 24}
    BY <1>2
  <2>2. v \in Nat /\ v \div 12 \in Nat
    BY <2>1, SMT
  <2>3. Spend(v) = IF v > 0 THEN v \div 12 ELSE Unset
    BY <1>2 DEF Spend
  <2> QED
    BY <2>2, <2>3, FormAssumption
<1> QED
  BY <1>1, <1>2

\* The fields of the properties that are typed, ...
LEMMA TextFields ==
    /\ DOMAIN TextOf = {"closedate", "dealname", "use_case", "competitor_name",
            "additional_comments", "related_opportunity_id", "next_steps", "aws_account_id"}
    /\ TextOf.closedate = "TargetCloseDate" /\ TextOf.dealname = "Title"
    /\ TextOf.use_case = "UseCase" /\ TextOf.competitor_name = "CompetitorName"
    /\ TextOf.additional_comments = "AdditionalComments"
    /\ TextOf.related_opportunity_id = "RelatedOpportunityIdentifier"
    /\ TextOf.next_steps = "NextSteps" /\ TextOf.aws_account_id = "CustomerAwsAccountId"
  BY DEF TextOf

\* ... and of those that are picked.
LEMMA ChoiceFields ==
    /\ DOMAIN ChoiceOf = {"closed_lost_reason", "partner_need", "delivery_model",
            "sales_activities", "national_security", "opportunity_type"}
    /\ ChoiceOf.closed_lost_reason = "ClosedLostReason" /\ ChoiceOf.partner_need = "Needs"
    /\ ChoiceOf.delivery_model = "DeliveryModels"
    /\ ChoiceOf.sales_activities = "SalesActivities"
    /\ ChoiceOf.national_security = "NationalSecurity"
    /\ ChoiceOf.opportunity_type = "OpportunityType"
  BY DEF ChoiceOf

\* A function of one field.
LEMMA OneHarmless ==
    ASSUME NEW f \in OpportunityFields, NEW v,
           f \notin {"Industry", "OtherIndustry", "Contacts", "Source", "Campaign"},
           f \in {"Spend", "SalesActivities"} => v # Stub,
           f \in DOMAIN Vocabulary => v \in Vocabulary[f]
    PROVE  Harmless(Field(f, v))
<1>1. DOMAIN Field(f, v) = {f} /\ Field(f, v)[f] = v
  BY OneField
<1> DEFINE w == Field(f, v)
<1> HIDE DEF w
<1>2. DOMAIN w = {f} /\ w[f] = v
  BY <1>1 DEF w
<1>3. Harmless(w)
  BY <1>2 DEF Harmless
<1> QED
  BY <1>3 DEF w

\* What an edited property stands for is harmless.
LEMMA WrittenHarmless ==
    ASSUME NEW p \in PropertyNames, NEW v, NEW o, Sendable(o),
           p \in {"delivery_model", "use_case", "opportunity_type", "amount", "sales_activities"}
              => v \in Options[p]
    PROVE  Harmless(Written(p, v, o))
<1>1. CASE p \in DOMAIN TextOf
  <2>1. Written(p, v, o) = Field(TextOf[p], v)
    <3>1. p \notin DOMAIN ChoiceOf /\ p \notin {"amount", "description", "lifecycle_stage",
             "industry", "marketing_source", "marketing_campaign"}
      BY <1>1, TextFields, ChoiceFields
    <3> QED
      BY <1>1, <3>1 DEF Written
  <2>2. /\ TextOf[p] \in OpportunityFields
        /\ TextOf[p] \notin {"Industry", "OtherIndustry", "Contacts", "Source", "Campaign",
              "Spend", "SalesActivities", "DeliveryModels", "OpportunityType"}
        /\ TextOf[p] = "UseCase" => p = "use_case"
    BY <1>1, TextFields DEF OpportunityFields
  <2>3. TextOf[p] \in DOMAIN Vocabulary => v \in Vocabulary[TextOf[p]]
    BY <2>2, KnownNames, Offers
  <2> QED
    BY <2>1, <2>2, <2>3, OneHarmless
<1>2. CASE p \in DOMAIN ChoiceOf
  <2>1. Written(p, v, o) = Field(ChoiceOf[p], v)
    <3>1. p \notin DOMAIN TextOf /\ p \notin {"amount", "description", "lifecycle_stage",
             "industry", "marketing_source", "marketing_campaign"}
      BY <1>2, TextFields, ChoiceFields
    <3> QED
      BY <1>2, <3>1 DEF Written
  <2>2. /\ ChoiceOf[p] \in OpportunityFields
        /\ ChoiceOf[p] \notin {"Industry", "OtherIndustry", "Contacts", "Source", "Campaign",
              "Spend", "UseCase"}
        /\ ChoiceOf[p] = "DeliveryModels" => p = "delivery_model"
        /\ ChoiceOf[p] = "OpportunityType" => p = "opportunity_type"
        /\ ChoiceOf[p] = "SalesActivities" => p = "sales_activities"
    BY <1>2, ChoiceFields DEF OpportunityFields
  <2>3. ChoiceOf[p] \in DOMAIN Vocabulary => v \in Vocabulary[ChoiceOf[p]]
    BY <2>2, KnownNames, Offers
  <2>4. ChoiceOf[p] \in {"Spend", "SalesActivities"} => v # Stub
    BY <2>2, FormAssumption, Offers DEF PropertyNames
  <2> QED
    BY <2>1, <2>2, <2>3, <2>4, OneHarmless
<1>3. CASE p \notin DOMAIN TextOf \cup DOMAIN ChoiceOf
  <2>1. CASE p = "amount"
    <3>1. Written(p, v, o) = [Spend |-> Spend(v)]
      BY <1>3, <2>1 DEF Written
    <3>2. Spend(v) # Stub
      BY <2>1, SpendIsNoStub, Offers
    <3> QED
      BY <3>1, <3>2, KnownNames DEF Harmless, OpportunityFields
  <2>2. CASE p = "description"
    <3>1. Written(p, v, o) = [Problem |-> Problem(v, o.Title)]
      BY <1>3, <2>2 DEF Written
    <3> QED
      BY <3>1, KnownNames DEF Harmless, OpportunityFields
  <2>3. CASE p = "lifecycle_stage"
    <3>1. Written(p, v, o) = Staged(v, o)
      BY <1>3, <2>3 DEF Written
    <3> QED
      BY <3>1, KnownNames DEF Harmless, OpportunityFields, Staged
  <2>4. CASE p = "industry"
    <3>1. Written(p, v, o) = [Industry |-> Sector(v)[1], OtherIndustry |-> Sector(v)[2]]
      BY <1>3, <2>4 DEF Written
    <3> QED
      BY <3>1, SectorKnown, KnownNames DEF Harmless, OpportunityFields
  <2>5. ASSUME NEW s, NEW c PROVE Harmless(Marketed(s, c))
    <3>1. "None" # Unset /\ Activity # Unset
      BY FormAssumption
    <3>2. /\ DOMAIN Marketed(s, c) = {"Source", "Campaign"}
          /\ Marketed(s, c).Source \in {"None", Activity}
          /\ Marketed(s, c).Campaign # Unset => Marketed(s, c).Source = Activity
      BY DEF Marketed
    <3> QED
      BY <3>1, <3>2, KnownNames DEF Harmless, OpportunityFields
  <2>6. CASE p = "marketing_source"
    <3>1. Written(p, v, o) = Marketed(v, o.Campaign)
      BY <1>3, <2>6 DEF Written
    <3> QED
      BY <2>5, <3>1
  <2>7. CASE p = "marketing_campaign"
    <3>1. Written(p, v, o) = Marketed(o.Source, v)
      BY <1>3, <2>7 DEF Written
    <3> QED
      BY <2>5, <3>1
  <2> QED
    BY <1>3, <2>1, <2>2, <2>3, <2>4, <2>6, <2>7, TextFields, ChoiceFields DEF PropertyNames
<1> QED
  BY <1>1, <1>2, <1>3

\* Only two properties are about marketing, and only one about the industry.
LEMMA WrittenFields ==
    ASSUME NEW p \in PropertyNames, NEW v, NEW o
    PROVE  /\ p \notin {"marketing_source", "marketing_campaign"} =>
                {"Source", "Campaign"} \cap DOMAIN Written(p, v, o) = {}
           /\ p # "industry" => {"Industry", "OtherIndustry"} \cap DOMAIN Written(p, v, o) = {}
<1>1. CASE p \in DOMAIN TextOf
  <2>1. p \notin DOMAIN ChoiceOf /\ p \notin {"amount", "description", "lifecycle_stage",
             "industry", "marketing_source", "marketing_campaign"}
    BY <1>1, TextFields, ChoiceFields
  <2>2. Written(p, v, o) = Field(TextOf[p], v)
    BY <1>1, <2>1 DEF Written
  <2>3. TextOf[p] \notin {"Source", "Campaign", "Industry", "OtherIndustry"}
    BY <1>1, TextFields
  <2>4. DOMAIN Written(p, v, o) = {TextOf[p]}
    BY <2>2, OneField
  <2> QED
    BY <2>3, <2>4
<1>2. CASE p \in DOMAIN ChoiceOf
  <2>1. p \notin DOMAIN TextOf /\ p \notin {"amount", "description", "lifecycle_stage",
             "industry", "marketing_source", "marketing_campaign"}
    BY <1>2, TextFields, ChoiceFields
  <2>2. Written(p, v, o) = Field(ChoiceOf[p], v)
    BY <1>2, <2>1 DEF Written
  <2>3. ChoiceOf[p] \notin {"Source", "Campaign", "Industry", "OtherIndustry"}
    BY <1>2, ChoiceFields
  <2>4. DOMAIN Written(p, v, o) = {ChoiceOf[p]}
    BY <2>2, OneField
  <2> QED
    BY <2>3, <2>4
<1>3. CASE p \notin DOMAIN TextOf \cup DOMAIN ChoiceOf
  <2>1. CASE p = "amount"
    BY <1>3, <2>1 DEF Written
  <2>2. CASE p = "description"
    BY <1>3, <2>2 DEF Written
  <2>3. CASE p = "lifecycle_stage"
    BY <1>3, <2>3 DEF Written, Staged
  <2>4. CASE p = "industry"
    BY <1>3, <2>4 DEF Written
  <2>5. CASE p = "marketing_source"
    BY <1>3, <2>5 DEF Written, Marketed
  <2>6. CASE p = "marketing_campaign"
    BY <1>3, <2>6 DEF Written, Marketed
  <2> QED
    BY <1>3, <2>1, <2>2, <2>3, <2>4, <2>5, <2>6, TextFields, ChoiceFields DEF PropertyNames
<1> QED
  BY <1>1, <1>2, <1>3

\* The two halves of Closed Lost, if the deal has the reason.
LEMMA PairUp ==
    ASSUME NEW o, Sendable(o), NEW d
    PROVE  /\ Sendable(PairedUp(o, d)) /\ DOMAIN PairedUp(o, d) = DOMAIN o
           /\ d.closed_lost_reason # Unset => Paired(PairedUp(o, d))
<1>1. /\ DOMAIN PairedUp(o, d) = DOMAIN o
      /\ \A f \in DOMAIN o \ {"Stage", "ClosedLostReason"} : PairedUp(o, d)[f] = o[f]
  BY DEF PairedUp
<1>2. Sendable(PairedUp(o, d))
  BY <1>1, KnownNames DEF Sendable, Shaped, KnownFields
<1>3. "Stage" \in DOMAIN o /\ "ClosedLostReason" \in DOMAIN o
  BY DEF Sendable, Shaped
<1>4. d.closed_lost_reason # Unset => Paired(PairedUp(o, d))
  BY <1>3 DEF PairedUp, Paired
<1> QED
  BY <1>1, <1>2, <1>4

-----------------------------------------------------------------------------
(* The Update card.                                                        *)

\* What a property of a form stands for is harmless, and only two of them are
\* about marketing and only one about the industry.
LEMMA FormFieldsHarmless ==
    ASSUME NEW p \in PropertyNames, NEW v \in Options[p] \cup {Unset}, NEW o, Sendable(o)
    PROVE  /\ Harmless(FormFields(p, v, o))
           /\ p \notin {"marketing_source", "marketing_campaign"} =>
                {"Source", "Campaign"} \cap DOMAIN FormFields(p, v, o) = {}
           /\ p # "industry" => {"Industry", "OtherIndustry"} \cap DOMAIN FormFields(p, v, o) = {}
<1>1. CASE v = Unset \/ (p = "amount" /\ Spend(v) = Unset)
  <2>1. FormFields(p, v, o) = <<>>
    BY <1>1, Zenon DEF FormFields
  <2>2. DOMAIN <<>> = {}
    OBVIOUS
  <2> QED
    BY <2>1, <2>2 DEF Harmless
<1>2. CASE ~(v = Unset \/ (p = "amount" /\ Spend(v) = Unset))
  <2>1. CASE p = "partner_need"
    <3>1. FormFields(p, v, o) = [Needs |-> WireNeed(v)]
      BY <1>2, <2>1 DEF FormFields
    <3> QED
      BY <2>1, <3>1, KnownNames DEF Harmless, OpportunityFields
  <2>2. CASE p = "aws_account_id"
    <3>1. FormFields(p, v, o) = [AwsAccountId |-> v]
      BY <1>2, <2>2 DEF FormFields
    <3> QED
      BY <2>2, <3>1, KnownNames DEF Harmless, OpportunityFields
  <2>3. CASE p = "competitor_name"
    <3>1. DOMAIN FormFields(p, v, o) = {"CompetitorName", "OtherCompetitorNames"}
      BY <1>2, <2>3 DEF FormFields
    <3> QED
      BY <2>3, <3>1, KnownNames DEF Harmless, OpportunityFields
  <2>4. CASE p \notin {"partner_need", "aws_account_id", "competitor_name"}
    <3>1. FormFields(p, v, o) = Written(p, v, o)
      BY <1>2, <2>4, Zenon DEF FormFields
    <3>2. Harmless(Written(p, v, o))
      BY <1>2, WrittenHarmless
    <3>3. /\ p \notin {"marketing_source", "marketing_campaign"} =>
                {"Source", "Campaign"} \cap DOMAIN Written(p, v, o) = {}
          /\ p # "industry" => {"Industry", "OtherIndustry"} \cap DOMAIN Written(p, v, o) = {}
      BY WrittenFields
    <3> QED
      BY <3>1, <3>2, <3>3
  <2> QED
    BY <2>1, <2>2, <2>3, <2>4
<1> QED
  BY <1>1, <1>2

\* The body of the card.
LEMMA CardBody ==
    ASSUME NEW o, DOMAIN o = OpportunityFields, Sendable(o), NEW form,
           DOMAIN form.props \subseteq PropertyNames,
           \A p \in DOMAIN form.props : form.props[p] \in Options[p] \cup {Unset}
    PROVE  /\ Shaped(Overlay(o, form)) /\ DOMAIN Overlay(o, form) = OpportunityFields
           /\ ~Invalid(form) => Paired(Overlay(o, form))
           /\ Overlay(o, form).Source # Unset => Sendable(Overlay(o, form))
<1> DEFINE F(p)   == FormFields(p, form.props[p], o)
           by(f)  == {p \in DOMAIN form.props : f \in DOMAIN F(p)}
           laid   == [f \in DOMAIN o |->
                        IF by(f) = {} THEN o[f] ELSE LET p == CHOOSE p \in by(f) : TRUE IN F(p)[f]]
           stage  == [Stage |-> form.stage,
                      ClosedLostReason |-> IF form.stage = ClosedLost THEN form.reason ELSE Unset]
           market == FormMarketing(form.props)
           half   == stage ++ market
           b      == half ++ laid
<1>0. Overlay(o, form) = b
  BY DEF Overlay
<1>1. \A p \in DOMAIN form.props :
        /\ Harmless(F(p))
        /\ p \notin {"marketing_source", "marketing_campaign"} =>
             {"Source", "Campaign"} \cap DOMAIN F(p) = {}
        /\ p # "industry" => {"Industry", "OtherIndustry"} \cap DOMAIN F(p) = {}
  BY FormFieldsHarmless
<1>2. DOMAIN laid = OpportunityFields
  OBVIOUS
<1>3. ASSUME NEW f \in OpportunityFields
      PROVE  \/ by(f) = {} /\ laid[f] = o[f]
             \/ \E p \in DOMAIN form.props : /\ f \in DOMAIN F(p) /\ laid[f] = F(p)[f]
                                             /\ by(f) # {}
  <2>1. CASE by(f) = {}
    BY <2>1
  <2>2. CASE by(f) # {}
    <3>1. PICK p : p = CHOOSE q \in by(f) : TRUE
      OBVIOUS
    <3>2. p \in by(f)
      BY <2>2, <3>1
    <3>3. laid[f] = F(p)[f]
      BY <2>2, <3>1
    <3> QED
      BY <2>2, <3>2, <3>3
  <2> QED
    BY <2>1, <2>2
<1>4. /\ DOMAIN stage = {"Stage", "ClosedLostReason"} /\ stage.Stage = form.stage
      /\ stage.ClosedLostReason = IF form.stage = ClosedLost THEN form.reason ELSE Unset
  OBVIOUS
<1>5. \/ /\ DOMAIN market = {}
         /\ {"marketing_source", "marketing_campaign"} \cap DOMAIN form.props = {}
      \/ /\ DOMAIN market = {"Source", "Campaign"} /\ market.Source \in {Unset, Activity}
         /\ market.Campaign # Unset => market.Source = Activity
  <2>1. CASE {"marketing_source", "marketing_campaign"} \cap DOMAIN form.props = {}
    <3>1. market = <<>>
      BY <2>1 DEF FormMarketing
    <3>2. DOMAIN <<>> = {}
      OBVIOUS
    <3> QED
      BY <2>1, <3>1, <3>2
  <2>2. CASE {"marketing_source", "marketing_campaign"} \cap DOMAIN form.props # {}
    <3> DEFINE given(p) == IF p \in DOMAIN form.props THEN form.props[p] ELSE Unset
    <3>1. market = IF given("marketing_source") = Activity
                   THEN [Source |-> Activity, Campaign |-> given("marketing_campaign")]
                   ELSE [Source |-> Unset, Campaign |-> Unset]
      BY <2>2 DEF FormMarketing
    <3> HIDE DEF given, market
    <3> QED
      BY <3>1
  <2> QED
    BY <2>1, <2>2
<1> HIDE DEF F, by, laid, stage, market
<1>6. /\ DOMAIN half = DOMAIN stage \cup DOMAIN market
      /\ \A x \in DOMAIN stage : half[x] = stage[x]
      /\ \A x \in DOMAIN market : x \notin DOMAIN stage => half[x] = market[x]
  BY Fields
<1> HIDE DEF half
<1>7. /\ DOMAIN b = DOMAIN half \cup DOMAIN laid
      /\ \A x \in DOMAIN half : b[x] = half[x]
      /\ \A x \in DOMAIN laid : x \notin DOMAIN half => b[x] = laid[x]
  BY Fields
<1> HIDE DEF b
<1>8. /\ DOMAIN b = OpportunityFields
      /\ \A f \in OpportunityFields \ {"Stage", "ClosedLostReason", "Source", "Campaign"} :
            b[f] = laid[f]
      /\ b.Stage = stage.Stage /\ b.ClosedLostReason = stage.ClosedLostReason
  BY <1>2, <1>4, <1>5, <1>6, <1>7 DEF OpportunityFields
<1>9. \A p \in DOMAIN form.props : \A f \in DOMAIN F(p) \cap DOMAIN Vocabulary :
         F(p)[f] \in Vocabulary[f]
  BY <1>1 DEF Harmless
<1>10. \A f \in DOMAIN Vocabulary : f \in OpportunityFields /\ o[f] \in Vocabulary[f]
  BY KnownNames DEF OpportunityFields, Sendable, Shaped, KnownFields
<1>11. \A f \in DOMAIN Vocabulary : laid[f] \in Vocabulary[f]
  BY <1>3, <1>9, <1>10
<1>12. /\ b.Source \in {Unset, "None", Activity}
       /\ b.Source # Unset => (b.Campaign # Unset => b.Source = Activity)
  <2>1. CASE /\ DOMAIN market = {}
             /\ {"marketing_source", "marketing_campaign"} \cap DOMAIN form.props = {}
    <3>1. b.Source = laid.Source /\ b.Campaign = laid.Campaign
      BY <1>2, <1>4, <1>6, <1>7, <2>1 DEF OpportunityFields
    <3>2. laid.Source = o.Source /\ laid.Campaign = o.Campaign
      BY <1>1, <1>3, <2>1 DEF OpportunityFields
    <3>3. o.Source \in {Unset, "None", Activity}
      BY <1>10, KnownNames
    <3> QED
      BY <3>1, <3>2, <3>3 DEF Sendable
  <2>2. CASE /\ DOMAIN market = {"Source", "Campaign"} /\ market.Source \in {Unset, Activity}
             /\ market.Campaign # Unset => market.Source = Activity
    <3>1. b.Source = market.Source /\ b.Campaign = market.Campaign
      BY <1>4, <1>6, <1>7, <2>2
    <3> QED
      BY <2>2, <3>1
  <2> QED
    BY <1>5, <2>1, <2>2
<1>13. b.OtherIndustry # Unset => b.Industry = "Other"
  <2>1. b.Industry = laid.Industry /\ b.OtherIndustry = laid.OtherIndustry
    BY <1>8 DEF OpportunityFields
  <2>2. CASE "industry" \in DOMAIN form.props /\ "Industry" \in DOMAIN F("industry")
    <3>1. /\ "OtherIndustry" \in DOMAIN F("industry")
          /\ F("industry").OtherIndustry # Unset => F("industry").Industry = "Other"
      BY <1>1, <2>2 DEF Harmless
    <3>2. "industry" \in by("Industry") /\ "industry" \in by("OtherIndustry")
      BY <2>2, <3>1 DEF by
    <3>3. laid.Industry = F("industry").Industry
          /\ laid.OtherIndustry = F("industry").OtherIndustry
      BY <1>1, <1>3, <3>2 DEF OpportunityFields
    <3> QED
      BY <2>1, <3>1, <3>3
  <2>3. CASE ~("industry" \in DOMAIN form.props /\ "Industry" \in DOMAIN F("industry"))
    <3>1. \A p \in DOMAIN form.props : {"Industry", "OtherIndustry"} \cap DOMAIN F(p) = {}
      BY <1>1, <2>3 DEF Harmless
    <3>2. laid.Industry = o.Industry /\ laid.OtherIndustry = o.OtherIndustry
      BY <1>3, <3>1 DEF OpportunityFields
    <3> QED
      BY <2>1, <3>2 DEF Sendable, Shaped, KnownFields
  <2> QED
    BY <2>2, <2>3
<1>14. b.Spend # Stub /\ b.SalesActivities # Stub /\ Stub \notin b.Contacts
  <2>1. /\ b.Spend = laid.Spend /\ b.SalesActivities = laid.SalesActivities
        /\ b.Contacts = laid.Contacts
    BY <1>8 DEF OpportunityFields
  <2>2. \A p \in DOMAIN form.props :
          /\ "Spend" \in DOMAIN F(p) => F(p).Spend # Stub
          /\ "SalesActivities" \in DOMAIN F(p) => F(p).SalesActivities # Stub
          /\ "Contacts" \notin DOMAIN F(p)
    BY <1>1 DEF Harmless
  <2>3. o.Spend # Stub /\ o.SalesActivities # Stub /\ Stub \notin o.Contacts
    BY DEF Sendable, Shaped
  <2>4. laid.Spend # Stub
    BY <1>3, <2>2, <2>3 DEF OpportunityFields
  <2>5. laid.SalesActivities # Stub
    BY <1>3, <2>2, <2>3 DEF OpportunityFields
  <2>6. Stub \notin laid.Contacts
    BY <1>3, <2>2, <2>3 DEF OpportunityFields
  <2> QED
    BY <2>1, <2>4, <2>5, <2>6
<1>15. \A f \in DOMAIN Vocabulary : b[f] \in Vocabulary[f]
  <2>1. \A f \in DOMAIN Vocabulary \ {"Source"} : b[f] = laid[f]
    BY <1>8, <1>10, KnownNames
  <2> QED
    BY <1>11, <1>12, <2>1, KnownNames
<1>16. KnownFields(b)
  BY <1>8, <1>13, <1>15, KnownNames DEF KnownFields, OpportunityFields
<1>17. {"Spend", "SalesActivities", "Contacts", "Campaign", "Stage", "ClosedLostReason"}
          \subseteq DOMAIN b
  BY <1>8 DEF OpportunityFields
<1>18. Shaped(b)
  BY <1>14, <1>16, <1>17 DEF Shaped
<1>19. ~Invalid(form) => Paired(b)
  BY <1>4, <1>8 DEF Invalid, Paired
<1> QED
  BY <1>0, <1>8, <1>12, <1>18, <1>19 DEF Sendable

-----------------------------------------------------------------------------
(* The steps.                                                              *)

\* At first nothing is at AWS and nothing waits.
LEMMA FormStart == FormInit => FormInv
<1> SUFFICES ASSUME FormInit PROVE FormInv
  OBVIOUS
<1>1. formEdits \in 0..MaxFormEdits /\ centralEdits \in 0..MaxInCentral
  BY FormAssumption, SMT DEF FormInit
<1>2. DOMAIN held = PropertyNames
  BY FormAssumption, Offers DEF FormInit
<1>3. inbox \in Seq(Messages)
  BY EmptySeq DEF FormInit
<1> QED
  BY <1>1, <1>2, <1>3 DEF FormInit, FormInv, AtAwsInv, BodiesAreAccepted

\* A sequence without one of its elements.
LEMMA Removal ==
    ASSUME NEW S, NEW s \in Seq(S), NEW i \in 1..Len(s)
    PROVE  RemoveAt(s, i) \in Seq(S)
<1>1. Len(s) \in Nat /\ \A j \in 1..Len(s) : s[j] \in S
  BY LenProperties, ElementOfSeq
<1>2. /\ 1 \in 1..(Len(s) + 1) /\ i - 1 \in (1 - 1)..Len(s)
      /\ i + 1 \in 1..(Len(s) + 1) /\ Len(s) \in ((i + 1) - 1)..Len(s)
  BY <1>1, SMT
<1>3. SubSeq(s, 1, i - 1) \in Seq(S)
  <2>1. \A j \in 1..(i - 1) : s[j] \in S
    BY <1>1, SMT
  <2> QED
    BY <1>1, <1>2, <2>1, SubSeqProperties, SMT
<1>4. SubSeq(s, i + 1, Len(s)) \in Seq(S)
  <2>1. \A j \in (i + 1)..Len(s) : s[j] \in S
    BY <1>1, SMT
  <2> QED
    BY <1>1, <1>2, <2>1, SubSeqProperties, SMT
<1> QED
  BY <1>3, <1>4, ConcatProperties DEF RemoveAt

\* submit_to_ace creates what AWS takes.
LEMMA FormCreate == ASSUME FormInv, CreateOpportunity PROVE FormInv'
<1> DEFINE body == CreatedFrom(held, customer)
           bad  == Broken(Scrub(body))
<1>1. /\ opportunity = <<>> /\ ~Unmappable(held, customer)
      /\ opportunity' = IF bad = {} THEN body ELSE <<>>
      /\ broken' = broken \cup bad
      /\ UNCHANGED <<held, customer, inbox, stale, edited, central, formEdits, centralEdits>>
  BY DEF CreateOpportunity
<1>2. /\ DOMAIN body = OpportunityFields /\ KnownFields(body)
      /\ body.Stage = Unset /\ body.ClosedLostReason = Unset
  BY <1>1, Creation
<1>3. Sendable(Scrub(body)) /\ Paired(Scrub(body))
  <2>1. Scrub(body).Stage = Unset /\ Scrub(body).ClosedLostReason = Unset
    <3> HIDE DEF body
    <3> QED
      BY <1>2 DEF Scrub, OpportunityFields
  <2> QED
    BY <1>2, <2>1, Scrubbed, FormAssumption DEF Paired
<1>4. bad \subseteq {"needs", "account", "competitor", "security"}
  BY <1>3, Refusals DEF Sendable
<1> HIDE DEF bad, body
<1>5. broken' \subseteq {"needs", "account", "competitor", "security", "no source"}
  BY <1>1, <1>4 DEF FormInv, BodiesAreAccepted
<1>6. inbox = <<>>
  <2>1. DOMAIN <<>> # OpportunityFields
    BY DEF OpportunityFields
  <2> QED
    BY <1>1, <2>1 DEF FormInv, AtAwsInv
<1>7. AtAwsInv'
  BY <1>1, <1>2, <1>6 DEF AtAwsInv
<1> QED
  BY <1>1, <1>5, <1>7 DEF FormInv, BodiesAreAccepted

\* An edit on the deal.
LEMMA FormEdit ==
    ASSUME FormInv, NEW p \in DOMAIN Options, NEW v \in Options[p], EditProperty(p, v)
    PROVE  FormInv'
<1>1. p \in PropertyNames
  BY Offers
<1>2. /\ UNCHANGED <<customer, opportunity, broken, stale, centralEdits>>
      /\ held' = [held EXCEPT ![p] = v] /\ formEdits' = formEdits + 1
      /\ formEdits < MaxFormEdits
  BY DEF EditProperty
<1>3. formEdits' \in 0..MaxFormEdits
  BY <1>2, FormAssumption, SMT DEF FormInv
<1>4. DOMAIN held' = PropertyNames
  BY <1>2 DEF FormInv
<1>5. CASE opportunity = <<>>
  <2>1. inbox' = inbox /\ edited' = edited
    BY <1>5 DEF EditProperty
  <2> QED
    BY <1>2, <1>3, <1>4, <2>1 DEF FormInv, AtAwsInv, BodiesAreAccepted
<1>6. CASE opportunity # <<>>
  <2>1. inbox' = Append(inbox, [prop |-> p, value |-> v]) /\ edited' = edited \cup {p}
    BY <1>6 DEF EditProperty
  <2>2. [prop |-> p, value |-> v] \in Messages
    BY <1>1 DEF Messages
  <2>3. inbox' \in Seq(Messages)
    BY <2>1, <2>2, AppendProperties DEF FormInv
  <2> QED
    BY <1>1, <1>2, <1>3, <1>4, <1>6, <2>1, <2>3 DEF FormInv, AtAwsInv, BodiesAreAccepted
<1> QED
  BY <1>5, <1>6

\* An edit is forwarded.
LEMMA FormForward == ASSUME FormInv, NEW i \in 1..Len(inbox), Forward(i) PROVE FormInv'
<1> DEFINE p    == inbox[i].prop
           v    == IF p \in Refetched /\ held[p] # Unset THEN held[p] ELSE inbox[i].value
           o    == Scrub(opportunity)
           w    == Written(p, v, o)
           body == PairedUp(w ++ o, held)
           bad  == Broken(body)
           half == IF held.closed_lost_reason = Unset THEN {"pair"} ELSE {}
<1>1. /\ inbox' = RemoveAt(inbox, i)
      /\ UNCHANGED <<held, customer, edited, formEdits, centralEdits>>
      /\ \/ stale' = stale \cup {p} /\ UNCHANGED <<opportunity, broken>>
         \/ /\ opportunity' = IF bad = {} THEN body ELSE opportunity
            /\ broken' = broken \cup (bad \ half)
            /\ stale' = IF bad \ half = {} THEN stale \ {p} ELSE stale \cup {p}
  BY DEF Forward
<1>2. inbox[i] \in Messages /\ inbox # <<>>
  <2>1. inbox \in Seq(Messages)
    BY DEF FormInv
  <2>2. inbox[i] \in Messages
    BY <2>1, ElementOfSeq
  <2>3. ~(i \in 1..0) /\ Len(<<>>) = 0
    BY SMT
  <2> QED
    BY <2>2, <2>3
<1>3. p \in PropertyNames /\ inbox[i].value \in Options[p]
  BY <1>2 DEF Messages
<1>4. DOMAIN opportunity = OpportunityFields /\ KnownFields(opportunity)
  BY <1>2 DEF FormInv, AtAwsInv
<1>5. Sendable(o) /\ DOMAIN o = OpportunityFields
  BY <1>4, Scrubbed
<1>6. p \in {"delivery_model", "use_case", "opportunity_type", "amount", "sales_activities"}
        => v \in Options[p]
  BY <1>3 DEF Refetched
<1> HIDE DEF v, o
<1>7. Harmless(w)
  BY <1>3, <1>5, <1>6, WrittenHarmless
<1> HIDE DEF w, p
<1>8. Sendable(w ++ o) /\ DOMAIN (w ++ o) = OpportunityFields
  BY <1>5, <1>7, Laid
<1>9. /\ Sendable(body) /\ DOMAIN body = OpportunityFields
      /\ held.closed_lost_reason # Unset => Paired(body)
  BY <1>8, PairUp
<1> HIDE DEF body
<1>10. bad \ half \subseteq {"needs", "account", "competitor", "security"}
  BY <1>9, Refusals DEF Sendable
<1>11. KnownFields(body)
  BY <1>9 DEF Sendable, Shaped
<1> HIDE DEF bad, half
<1>12. broken' \subseteq {"needs", "account", "competitor", "security", "no source"}
  BY <1>1, <1>10 DEF FormInv, BodiesAreAccepted
<1>13. DOMAIN opportunity' = OpportunityFields /\ KnownFields(opportunity')
  BY <1>1, <1>4, <1>9, <1>11
<1>14. inbox' \in Seq(Messages)
  BY <1>1, Removal DEF FormInv
<1>15. stale' \subseteq PropertyNames
  BY <1>1, <1>3 DEF FormInv
<1> QED
  BY <1>1, <1>12, <1>13, <1>14, <1>15 DEF FormInv, AtAwsInv, BodiesAreAccepted

\* The card is used.
LEMMA FormCard == ASSUME FormInv, NEW form \in Forms, UseCard(form) PROVE FormInv'
<1> DEFINE o     == Scrub(opportunity)
           body  == Overlay(o, form)
           props == DOMAIN form.props
           bad   == Broken(body)
           kept  == {p \in props : DOMAIN FormFields(p, form.props[p], opportunity) = {}}
<1>1. /\ opportunity # <<>> /\ inbox = <<>> /\ ~Invalid(form)
      /\ formEdits < MaxFormEdits /\ formEdits' = formEdits + 1
      /\ broken' = broken \cup {IF rule = "marketing" /\ body.Source = Unset
                                THEN "no source" ELSE rule : rule \in bad}
      /\ \/ UNCHANGED <<held, opportunity, stale, edited>>
         \/ /\ opportunity' = body /\ held' = Patched(held, form)
            /\ stale' = (stale \ props) \cup kept
            /\ edited' = edited \cup props \cup {"lifecycle_stage"}
      /\ UNCHANGED <<customer, inbox, centralEdits>>
  BY DEF UseCard
<1>2. /\ props \subseteq PropertyNames
      /\ \A p \in props : form.props[p] \in Options[p] \cup {Unset}
  BY FormAssumption, Offers
<1>3. Sendable(o) /\ DOMAIN o = OpportunityFields
  <2>1. DOMAIN opportunity = OpportunityFields /\ KnownFields(opportunity)
    BY <1>1 DEF FormInv, AtAwsInv
  <2> QED
    BY <2>1, Scrubbed
<1> HIDE DEF o
<1>4. /\ Shaped(body) /\ DOMAIN body = OpportunityFields /\ Paired(body)
      /\ body.Source # Unset => Sendable(body)
  BY <1>1, <1>2, <1>3, CardBody
<1>5. DOMAIN Patched(held, form) = PropertyNames
  <2> DEFINE taken == {p \in DOMAIN form.props : p \in Listed => form.props[p] # Unset}
  <2>1. /\ DOMAIN [lifecycle_stage |-> form.stage] = {"lifecycle_stage"}
        /\ DOMAIN [p \in taken |-> form.props[p]] = taken /\ taken \subseteq props
    OBVIOUS
  <2>2. PICK given : given = [p \in taken |-> form.props[p]]
    OBVIOUS
  <2>3. PICK f : f = [lifecycle_stage |-> form.stage] ++ given
    OBVIOUS
  <2>4. Patched(held, form) = f ++ held
    BY <2>2, <2>3 DEF Patched
  <2>5. DOMAIN f = {"lifecycle_stage"} \cup taken
    <3>1. DOMAIN given = taken
      BY <2>1, <2>2
    <3>2. DOMAIN ([lifecycle_stage |-> form.stage] ++ given) = {"lifecycle_stage"} \cup DOMAIN given
      BY <2>1, Fields
    <3> QED
      BY <2>3, <3>1, <3>2
  <2>6. DOMAIN (f ++ held) = DOMAIN f \cup DOMAIN held
    BY Fields
  <2> QED
    BY <1>2, <2>1, <2>4, <2>5, <2>6 DEF FormInv, PropertyNames
<1>6. formEdits' \in 0..MaxFormEdits
  <2>1. formEdits < MaxFormEdits /\ formEdits' = formEdits + 1
    BY <1>1
  <2>2. formEdits \in 0..MaxFormEdits /\ MaxFormEdits \in Nat
    BY FormAssumption DEF FormInv
  <2> QED
    BY <2>1, <2>2, SMT
<1> HIDE DEF body
<1>7. /\ bad \subseteq {"needs", "account", "competitor", "security", "marketing"}
      /\ "marketing" \in bad => body.Source = Unset
  BY <1>4, Refusals
<1> HIDE DEF bad, kept, props
<1>8. broken' \subseteq {"needs", "account", "competitor", "security", "no source"}
  BY <1>1, <1>7 DEF FormInv, BodiesAreAccepted
<1>9. AtAwsInv'
  <2>1. KnownFields(body)
    BY <1>4 DEF Shaped
  <2> QED
    BY <1>1, <1>4, <2>1 DEF FormInv, AtAwsInv
<1>10. kept \subseteq props
  BY DEF kept
<1>11. /\ DOMAIN held' = PropertyNames /\ stale' \subseteq PropertyNames
       /\ edited' \subseteq PropertyNames
  BY <1>1, <1>2, <1>5, <1>10 DEF FormInv, PropertyNames
<1> QED
  BY <1>1, <1>6, <1>8, <1>9, <1>11 DEF FormInv, BodiesAreAccepted

\* A change in Partner Central.
LEMMA FormCentral ==
    ASSUME FormInv, NEW change \in InCentral, ChangeInCentral(change) PROVE FormInv'
<1>1. /\ opportunity # <<>> /\ opportunity' = change ++ opportunity /\ inbox' = inbox
      /\ centralEdits < MaxInCentral /\ centralEdits' = centralEdits + 1
      /\ DOMAIN held' = DOMAIN held
      /\ UNCHANGED <<customer, broken, stale, edited, formEdits>>
  BY DEF ChangeInCentral
<1>2. DOMAIN opportunity = OpportunityFields /\ KnownFields(opportunity)
  BY <1>1 DEF FormInv, AtAwsInv
<1>3. DOMAIN change \subseteq OpportunityFields
  <2>1. PICK d \in Deals : TRUE
    BY DEF FormInv
  <2>2. DOMAIN change \subseteq DOMAIN CreatedFrom(d, customer)
    BY <2>1, FormAssumption DEF FormInv
  <2>3. DOMAIN CreatedFrom(d, customer) = OpportunityFields
    BY Creation
  <2> QED
    BY <2>2, <2>3
<1> DEFINE o == change ++ opportunity
<1>4. /\ DOMAIN o = DOMAIN change \cup DOMAIN opportunity
      /\ \A x \in DOMAIN change : o[x] = change[x]
      /\ \A x \in DOMAIN opportunity : x \notin DOMAIN change => o[x] = opportunity[x]
  BY Fields
<1>5. o = opportunity'
  BY <1>1
<1> HIDE DEF o
<1>6. DOMAIN o = OpportunityFields
  BY <1>2, <1>3, <1>4
<1>7. Broken(Scrub(o)) = {}
  BY <1>1, <1>5 DEF ChangeInCentral
<1>8. KnownFields(o)
  BY <1>6, <1>7, TakenIsKnown
<1>10. centralEdits' \in 0..MaxInCentral
  BY <1>1, FormAssumption, SMT DEF FormInv
<1>11. AtAwsInv'
  BY <1>5, <1>6, <1>8 DEF AtAwsInv
<1> QED
  BY <1>1, <1>10, <1>11 DEF FormInv, BodiesAreAccepted

\* Every step keeps the invariant.
LEMMA FormStep == FormInv /\ [FormNext]_fvars => FormInv'
<1> SUFFICES ASSUME FormInv, [FormNext]_fvars PROVE FormInv'
  OBVIOUS
<1>1. CASE UNCHANGED fvars
  BY <1>1 DEF fvars, FormInv, AtAwsInv, BodiesAreAccepted
<1> QED
  BY <1>1, FormCreate, FormEdit, FormForward, FormCard, FormCentral DEF FormNext

\* The invariant has the types.
LEMMA FormTypes == FormInv => FormTypeOK
<1> SUFFICES ASSUME FormInv PROVE FormTypeOK
  OBVIOUS
<1>1. \A i \in 1..Len(inbox) : inbox[i].value \in Options[inbox[i].prop]
  <2>1. \A i \in 1..Len(inbox) : inbox[i] \in Messages
    BY ElementOfSeq DEF FormInv
  <2> QED
    BY <2>1 DEF Messages
<1>2. DOMAIN CreatedFrom(held, customer) = OpportunityFields
  BY Creation
<1> QED
  BY <1>1, <1>2, Offers DEF FormInv, AtAwsInv, FormTypeOK

\* The deal keeps its properties and the opportunity its fields, and an edit that waits is of a
\* value HubSpot offers, whoever writes: submit_to_ace, update_in_ace, the Update card or Partner
\* Central (src/ace/mapper.py, src/lambdas/update_in_ace.py).
THEOREM FormsTyped == FormSpec => []FormTypeOK
  BY FormStart, FormStep, FormTypes, PTL DEF FormSpec

\* For any deals, companies, forms and changes in Partner Central, and for as many of them in
\* whatever order, the body of an update breaks none of the rules of AWS but those known to be
\* broken: scrub_for_update, _apply_delta, _ensure_closed_lost_pair_consistency and
\* map_update_form_to_ace_payload never put together stubs, half a marketing block, half of
\* Closed Lost or a value AWS does not know.
THEOREM BodiesAlwaysAccepted == FormSpec => []BodiesAreAccepted
<1>1. FormInv => BodiesAreAccepted
  BY DEF FormInv
<1> QED
  BY <1>1, FormStart, FormStep, PTL DEF FormSpec

=============================================================================
