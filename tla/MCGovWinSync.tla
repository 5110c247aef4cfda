---------------------------- MODULE MCGovWinSync ----------------------------
(* Opportunities of one gov entity, the first of them with a contact.       *)
EXTENDS GovWinSync

CONSTANTS o1, o2, c1, p1, msg1, msg2

MCRelated == [companies |-> [o \in Opps |-> {c1}],
              contacts  |-> [o \in Opps |-> IF o = o1 THEN {p1} ELSE {}]]
=============================================================================
