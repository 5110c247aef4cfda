---------------------------- MODULE MCAceUpdate -----------------------------
(* AceUpdate on small instances: one or two properties of one deal.         *)
EXTENDS AceUpdate

CONSTANTS amount, description, nextSteps, stage, h1, s1

\* No review at all; one that AWS settles, perhaps asking for a revision first.
MCNone     == {}
MCAccepted == {<<"Pending Submission", "In review">>, <<"In review", "Approved">>,
               <<"In review", "Action Required">>, <<"Action Required", "In review">>}

\* An update changes the field of the edited property and no other, however
\* many invocations of update_in_ace run ("apply only the property-change delta
\* on top" of what the opportunity has, update_in_ace.py:864).
OnlyTheEditedField == [][OtherFieldsStay]_vars
=============================================================================
