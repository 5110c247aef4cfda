------------------------------ MODULE Replica -------------------------------
(***************************************************************************)
(* What the sync promises, with none of the machinery that keeps the       *)
(* promise: no batches, no queue, no worker and no failure.  HubSpot has a *)
(* copy of every GovWin opportunity; a refresh brings copies forward to a  *)
(* version GovWin has had, and never back.  The watermark vouches for a    *)
(* copy: the orchestrator leaves out what is vouched for                   *)
(* (govwin_orchestrator: "the source of truth for what has been synced"),  *)
(* so it is moved forward only, and no further than the copy is.           *)
(***************************************************************************)
EXTENDS Naturals

CONSTANTS
    Opps,        \* GovWin opportunities
    MaxVersion   \* bound: versions of an opportunity

VARIABLES
    source,      \* GovWin: the version of every opportunity
    copy,        \* HubSpot: the version its deal was written from, 0 for none
    vouched      \* the version the sync will not write again, 0 for none

vars == <<source, copy, vouched>>

Init ==
    /\ source  = [o \in Opps |-> 1]
    /\ copy    = [o \in Opps |-> 0]
    /\ vouched = [o \in Opps |-> 0]

\* GovWin publishes the next version.
Publish(o) ==
    /\ source[o] < MaxVersion
    /\ source' = [source EXCEPT ![o] = @ + 1]
    /\ UNCHANGED <<copy, vouched>>

\* Some deals are written, each from a version that is at least as recent as
\* the one it has, though GovWin may have a newer one by now.
Refresh ==
    /\ copy' \in [Opps -> 0..MaxVersion]
    /\ \A o \in Opps : copy[o] <= copy'[o] /\ copy'[o] <= source[o]
    /\ UNCHANGED <<source, vouched>>

\* The sync vouches for a version that the deal has reached.
Vouch(o) ==
    /\ \E v \in vouched[o]..copy[o] : vouched' = [vouched EXCEPT ![o] = v]
    /\ UNCHANGED <<source, copy>>

Next == Refresh \/ \E o \in Opps : Publish(o) \/ Vouch(o)

Spec == Init /\ [][Next]_vars
=============================================================================
